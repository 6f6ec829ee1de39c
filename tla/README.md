# Readeck, verified in part

Readeck is a read-later server written in Go: a user saves a link, a worker
downloads the page and its images into one archive, and the user reads, labels
and shares what was saved. This directory holds TLA+ models of the parts of
Readeck whose correctness depends on the order of things: its task queue and
the store below it, the life of a bookmark and of its archive, the extraction of
a page and the download of its images, the import of bookmarks, labels and
highlights, the search strings and filters of lists and collections, the log of
changes that clients follow, accounts and their sessions, the device flow of its
OAuth server, export and import of users, and the migrations of its database. TLC checks each model on a small
instance, and TLAPS proves most of the safety properties for every instance.

All paths below are relative to `src/`, the root of the Readeck sources.

1. [The system](#1-the-system): components, state, operations, interactions
2. [Modules](#2-modules): what models what, and how to read it next to the code
3. [Runs](#3-runs): what TLC checks, on which instance, and what that shows
4. [Proofs](#4-proofs): what TLAPS proves and along which argument
5. [Findings](#5-findings): where code and documentation disagree, and observations
6. [Limits](#6-limits): what is not modelled, and why
7. [Plan](#7-plan): what comes next

To check a module and to prove one:

    tlc -workers 2 -config Extraction.cfg MCExtraction.tla
    tlapm BookmarkLifecycleProofs.tla

## 1. The system

One process (`readeck serve`, `internal/app/serve.go`) runs the HTTP server and,
unless it is told not to, the task manager with its workers; `readeck worker`
runs the task manager alone. The rows are in SQLite or PostgreSQL, the archives
are files below the data directory, and what is neither is in the *bus*: an
in-memory key/value store and event queue, or redis (`internal/bus/bus.go`).
Commands (`cleanup`, `user`, `export`, `import`) are other processes on the same
database and the same files.

| component | state it keeps | operations that change it | talks to |
|---|---|---|---|
| task manager, `pkg/superbus/tasks.go`, `events.go` | payloads in the store, events on the wire, timers, an unbuffered queue, a wait group | Launch, Cancel, onTask, the timer's function, the workers, Start, Stop | the bus; every handler below |
| stores, `pkg/superbus/store.go` | keys with values and expirations; a table of timers in memory | Put, Set, Del, Clear, the function of a timer | task manager, importer, OAuth |
| bookmark life cycle, `internal/bookmarks/bookmarks.go`, `tasks/tasks.go` | the row of a bookmark, the archive file its `file_path` names | Create, Save, Update, Delete, the extraction handler, the deletion task, the cleanup command | database, files, task manager, extraction |
| extraction, `pkg/extract`, `internal/bookmarks/tasks/processors.go` | drops, position, visited URLs, two limits | Run, ReplaceDrop, AddDrop, SetPosition, ResetPosition, Cancel, ResetContent | the network, content scripts |
| importer, `internal/bookmarks/importer` | the list of created bookmarks, in the store, without expiration | the import task, its loop, the progress update that ends each extraction | task manager, store, database, extraction |
| device grant, `internal/auth/oauth2/grant_device_code.go` | the request of a device, in the store, with an expiration | code request, token request, decision page | store, user and token tables |
| authorization code grant and clients, `internal/auth/oauth2` | registered clients, 10 minutes in the store; the code carries its own state | register, authorize, token, revoke | store, token table |
| bookmark routes and forms, `internal/bookmarks/routes` | columns of the row: marks, labels, annotations, share links | PATCH, label rename and delete, annotation create, update and delete | database, task manager |
| annotations, `pkg/annotate`, `internal/bookmarks/annotations.go` | a list of selectors and offsets in the row | create, update, delete; put back on the article at each reading | archive files, converters, the browser's script |
| synchronization, `routes/api_sync.go`, `converter/sync.go` | the time of each row's last change, the table of deleted identifiers | the list of changes since a time, the rows themselves | database; a client that keeps a copy |
| users, sign-in, profile, administration, `internal/auth`, `internal/profile`, `internal/admin` | users with a seed, TOTP secrets, recovery codes, encrypted session cookies | sign-in, second factor, recovery, onboarding, change of password, deletion of a user | database, task manager |
| portability, `internal/portability` | rows and archive files of whole users | export, import, clear | database, files |
| filters and collections, `internal/searchstring`, `bookmarks/filters.go`, `routes/forms_filters.go`, `forms_collections.go` | the fields of a page; the filters of a collection in its row | parse, normalize, query; save and open a collection | database |
| database, `internal/db` | the schema's version; archives that two migrations rewrite or rename | migrations, transactions | everything, at the start of every command |
| archiver and resource cache, `pkg/archiver`, `internal/httpclient` | the resources of one page, a lock, a semaphore, downloads that are shared | choice of images, concurrent download, conversion, write | the network, the zip file |

The rest (converters, e-mail, metrics, OPDS, forms, media utilities,
templates, translations) keeps no state of its own; `PROJECT.json` lists it
component by component.

How they interact, on the path that matters most:

1. A request inserts a row in the loading state and calls `Launch` on the
   extraction task. `Launch` stores a payload under the key of the task and
   pushes an event that names the key (`tasks.go:219-250`).
2. The listener takes the event, reads the payload, arms a timer; the timer
   reads the payload again and waits for a worker (`tasks.go:111-175`).
3. The worker reads the row, runs the extraction, writes the archive, saves the
   row, fetches the titles of its links, saves the row again and updates the
   progress of the import that created it (`tasks/tasks.go:140-260`).
4. Meanwhile the user edits columns of the row, or deletes the bookmark: at
   once, or by a delayed task that can be undone for 20 seconds.

### What is hard about it

- **Nothing holds a lock across two steps.** The payload under a key, the list
  of an import, the request of a device and the row of a bookmark are all read,
  worked on, and written back whole, while others do the same.
- **No transaction ties a row to its file.** Each deleter, extraction and crash
  can leave one without the other.
- **Time limits race.** A payload lives about 30 seconds, a deletion waits 20; a
  timer that fired may have to wait for a lock or a worker; a device code is
  stored again with what is left of its life.
- **The process stops in the middle.** With the in-memory bus everything queued
  is lost, with redis the payload survives while an event that was taken from
  the list does not.
- **Requests work on copies.** A sign-in, a form or a command reads the user's
  row and writes it, or a session made of it, while another changes the password.
- **A rollback takes rows back and no files.** An import and a migration change
  archives inside a transaction that may still fail, and a failed start is
  followed by another one, or meets one.
- **A search is taken apart and put together again** two or three times between a
  field and a query, and again for each visit of a collection.
- **Highlights are offsets** into an article that the highlights before them have
  already cut up.
- **Goroutines share downloads**: two images with one URL get one body, which can
  be read once.
- **A page decides how an extraction goes on**: it may redirect, replace itself
  and name a next page, and the loop moves its own counter meanwhile.

For each component, what makes it correct:

| component | correct means |
|---|---|
| task manager | a delay is respected; what was undone does not run; no launch is lost without a reason; Stop hangs nobody and sends nothing on a closed queue |
| store | a value with an expiration goes, and not before its time |
| life cycle | a loaded bookmark can be read; an edit stays; what was deleted stays deleted and leaves no file, or cleanup finds it; nothing loads for ever |
| extraction | it ends, asks for nothing twice, loses no page and saves what it has once |
| importer | it ends, says so when it has ended and not before; no duplicate unless allowed |
| device grant | no token without a decision, one token per code, a decision stays, the code is forgotten, the pace is kept, and the device gets its token |
| columns and synchronization | labels and annotations do not overwrite each other; a client that follows the log misses no change |
| annotations | each highlight marks what was selected; what was answered as created is kept |
| archiver | an archive that is done has what its document refers to; one element does not spoil it; it ends |
| accounts | no session after the seed changed, no second factor skipped, the last password is the password |
| filters | a list is selected by what was asked for, in a page, in a collection and after it was saved again |
| portability | an export is whole; an import touches nobody else, keeps owners, and leaves no row without its archive and no archive without its row |
| migrations | each is applied once, whoever starts, fails or stops; the archives stay with their rows |

## 2. Modules

Every component has one module; the modules named `MC...` give TLC its
instances, and those named `...Proofs` hold theorems. `AuthProofs` is about `Accounts`
and `DeviceGrant`, `RowProofs` about `Columns` and `Annotations`; `ReadingProofs` goes on
from there with `Reading` and its `Filters`. What one proof is about shares no names,
which is why the state machines of some modules are called `DeviceInit` or
`FiltersNext`.
Definitions keep the names of the code where they can, and `PROJECT.json` maps each of
them to its lines.
Three modules put two components one after the other, as the code
does, and say at the hand-over which state of the first one ends there:

- `Extraction`: a run of `ExtractRun`, and, when a page was put together, the
  archive of `Archiver` before the run's last step (`createZipFile` is a processor
  of `StepDone`);
- `Reading`: a list of `Filters`, from which a bookmark is opened, and the
  highlights of `Annotations` on it;
- `Command`: the migrations of `Migrations`, which `appPreRun` applies before any
  command, and then the export and the import of `Portability`, on one database.

An operator whose name ends in `_Something` and whose comment begins with "A
mistake to catch" is a changed copy of the action that follows it: it is no part
of the specification, and shows that the property it is for would notice.

What a model remembers beyond the state of the program is marked `history` in
its VARIABLES. No guard of an action reads a history variable, with one
exception: `Import` stops having mishaps once it had `MaxMishaps` of them.

Two conventions hold for all modules. A handler is cut into actions where the
code may be overtaken: between a read from the store or the database and the
write that follows, before a wait, and where a failure has an effect of its own.
What lies between two such places is one action, with all it changes. An early
return that changes nothing is no action; the guard of the action that would
have gone on says so.

### TaskManager, TaskContract

`TaskManager` is `pkg/superbus`: `Launch`, the two event managers, `onTask`, the
function of its timer, the workers, `Cancel`, `Start` and `Stop`, with both
stores.

A launch `l` is the identity of its payload (the UUID) and of the one event it
pushes. `stage[l]` follows the event: `stored` (the payload is in the store),
`pushed` (the event is on the wire), `received`, `armed` (`time.AfterFunc`),
`ready` (blocked on the queue), `running`, `done`; or `dropped`. `seen[l]` is
`p0`, what the listener found under the key, which may be the payload of another
launch. `store` and `ttl` are the keys of the store. `phase` is where `Stop` is:
after `em.Stop()` it is `stopping`, after `timerGroup.Wait()` `closing`, and
`down` in the end. `backend` says which bus was loaded; with redis, events and
payloads outlive the process, with the in-memory bus they do not, and a `Push`
after `Stop` panics on the closed channel (`LaunchPanic`).

Time is in ticks. `tasks.go:237` computes the life of a payload as
`time.Duration(delay)+time.Second*30`, which adds the delay as nanoseconds: so
`TTL` is the same for all tasks, and `TaskAssumption` has `Delay[k] < TTL`, true
of the delays in the code (20 seconds at most, against 30). `Prompt` restricts
`Tick` to moments at which no goroutine can run; without it a goroutine may lie
idle for as long as it takes everything to expire.

`TaskContract` says what this is for, in four actions: a payload is submitted
and becomes the current one of its key, is withdrawn, is accepted while it is
current, and begins if it was accepted. `ContractSpec` is that specification
under `current <- store, used <- the launches that were made, accepted <-
validated, begun <- started`. A handler may begin twice with one payload, since
two events of one key can both find it; the contract allows that and says so.

### MemStore

The in-memory store of `store.go`, with its timers. `Set` is four actions by
what it does: store without expiration, store with one that is over, reset the
timer of the key, or arm a new one. `Fire` is the runtime starting a timer's
function, which then waits for the lock with what it was armed for;
`Expire` is that function. `TaskManager` uses the store one level up, as an
atomic map with expirations.

### BookmarkLifecycle

One row and one archive per bookmark. `row[b]` has the state, whether
`file_path` is set, and one column `mark` that stands for all that a user edits
and the extraction does not compute. `ex[b]` is how far the creation and the
extraction have come; `copy[b]` is the bookmark the handler works on, and
`saved[b]` its variable of that name.

The archive is written by `BeginArchive`, `FinishArchive` or `ArchiveFails`; the
row by `SaveBookmark` after it, and by `End`, the deferred function, unless
`saved`. Both write the whole copy, or nothing when the row is gone: `Update` is
an UPDATE by id (`Written`). Four deleters, `request`, `task`, `purge` (a user's
bookmarks, before the user) and `cleanup`, each read a row (`Read`), delete it
(`DeleteRow`) and remove the file their copy names (`DeleteFile`), in three
steps; the user's own row goes last, with the rows that were created in between
(`DeleteUser`, the foreign key cascades). The cleanup command is another
process: it goes on while the server is down and meets a server that runs.

The queue is seen through `TaskContract`: a waiting deletion can be undone
(`Restore`), one the queue accepted (`TrashDue`) cannot. `Faults` says what may
fail: the bus at the launch, the database, the zip file, the handler by a panic.
`Stop` is a stop or a crash of the server at any step.

`mishap` holds the bookmarks for which the code itself gives no guarantee, and is
as narrow as it can be: a deletion during the extraction, a deleter that read the
row before the extraction saved it, a stop in the middle of an extraction or
between a row and its file, and a failed query.

### ExtractRun

The loop of `Extractor.Run` with the processors that move it. A drop is a page:
its URL, and whether it was loaded and has a body. One action is one pass over
the processors or what `Run` does between two. Which links a page holds, where
it redirects, whether it has a body, and which processor finds something in it
is free, and so is when a processor cancels. `Restart(l)` is `ReplaceDrop` with
`ResetPosition`, used by the two processors that swap a page for another one
(`SwapOriginal`, `FindContentPage`); `FindNextPage` only remembers a link, and
`Finish` adds the drop. `SetURL` is what `Drop.SetURL` does to a link: links that
are written differently may be the same drop, and `visited` holds drops' URLs.

`position` and `i` are counted from 1, so the code's position -1 is 0.

### Import

`importBookmarksHandler`, the loop of `Import` with `createBookmark` and the
callback that stores the list, and `importExtractHandler` with
`NewImportProgress`. `task[i]` is where import `i` stands, `left[i]` the items
its adapter still has, `list[i]` its list in the store, `seen[b]` the list that
the extraction of `b` read. Imports and extractions are tasks of one pool with
`Workers` workers (`Idle`). What the extraction does to the row is left to
`BookmarkLifecycle`; here it ends in one step (`ExtractSave`), which may also
rewrite the row's URL, since a redirect does and the duplicate check compares URLs.

Three history variables separate what is guaranteed from what is not: `mishap`
(a deletion, a failed query or a crash), `stale` (an extraction removed a list
that had grown since it read it) and `late` (the list was stored after every
extraction had looked).

### DeviceGrant

One device code. `entry` is the request in the store and `due` when the store
drops it; `poll[p]` and `visit[v]` are what a handler between its load and its
store is about to write. A poll loads and either touches the request (pending),
creates a token and binds it (granted, no token yet), or repeats a token. A
visit loads and decides. Each store writes the whole copy, with what is left of
`Expires` as time to live; when nothing is left, both stores take the zero or
negative duration for no expiration at all (`Store`). A restart forgets the code
and the client with the in-memory bus and keeps both with redis; in the model
each `RestartServer` may be either. Users and tokens are rows, and the rows of a
deleted user's tokens go with it. Answers that change nothing are stuttering.

### Accounts

Everything that writes a user's password, seed or second factor. A session is a
cookie that the server does not remember: `cookie[d]` is the payload of browser
`d`, and it opens a route when its seed is the one of the row (`Good`,
`server/auth.go:221-243`). A handler is two actions: `Visit`, `SignIn`,
`SendCode`, `SendRecovery`, `SendOnboarding` or `StartCommand` reads the row,
and the action named after the handler writes and answers. `Update` writes some
columns, `Overwrites` the whole copy, as `User.Save` does; which of the two a
handler uses decides what it can undo. Seeds are numbered as they are drawn
(`era`), and a password carries the number of its seed. `SetSeed` draws among
32767 numbers and may draw the old one (`twice`). `Forwarded` is the proxy
that names users. The history variables `twice` and `undone` are the exceptions
of the properties: a seed drawn again, a row or a hash overwritten with a copy.

### Columns

A request reads a row, makes a new value of one column, takes the time (`Stamp`)
and runs one UPDATE of that column and of `updated` (`Write`); `Rename` does it
with every row that has a label. A deletion leaves the identifier with its time
in a table (a trigger). The client of `/bookmarks/sync` asks for what changed
since the last time it was told of (`AskList`), fetches those rows (`Fetch`), and
may lose an answer (`Lose`). `late` holds the bookmarks whose last change was
stamped before a time that the client had been told of, and written after: the
one gap of the protocol.

### Archiver

`pkg/archiver` as Readeck configures it (`archiveFlags`: no styles, no scripts,
no media). First the best source of each image is chosen, one image after the
other (`Choose`); then a goroutine for each element fetches it: `Join` is
`singleflight`, in which the first does the work and the others get the same
answer (`from`), `Acquire` the semaphore, `Answer` or `GiveUp` the end of it,
`Forget` what the caller makes of it. Saving holds `writeLock`: an icon is
dropped, an image is converted or copied to a new entry of the zip file.
`unread[n]` says whether the body of the answer that `n` fetched can still be
read; it is the state that elements with one URL share. An error while an entry
is being copied is no `ErrSkippedURL`, so it ends the group (`failed`). `Finish`
writes the document. `Cached` is what the client answers from memory.

### Annotations

The article is the sequence of its text nodes; a node has the elements around it,
its characters, the highlight that wraps it (`by`), and whether that wrapper has
the `id` attribute (`first`). `AddAnnotation` is `ToRange` with its validator and
`Wrap`: `Boundary` finds the node of an offset, `Wrapped` splits it. `Parsed` is
rendering and parsing again, after which an empty node is gone. A request reads
the list (`BeginCreate`, `BeginChange`) and stores it whole (`AnnotationCreate`,
`AnnotationUpdate`, `AnnotationDelete`); `AnnotationCreate` puts the list it read on
the article, then the new highlight, and keeps the order of the wrappers (`Sorted`),
which is also what drops a highlight without one. What a node becomes is `Rewritten`,
and each of these texts is a `FlattenSeq` of pieces, which is what the proofs are about. `Selections` is what the browser's script sends: a
non-empty selection whose ends are text nodes. `AddToNode` puts a list on a document;
its second argument is which of the highlights have a note that is to be referred to,
as in an EPUB.

### SearchString, Filters

`SearchString` is `internal/searchstring` without state: the scanner as an
automaton that reads a rune at a time (`ScanRune`, `Run`), `ParseTokens`,
`NewSearchTerm`, `TermString` and the operations on queries, which `Filters`
composes. What goes over a text or a list of tokens is a recursive function, each
step of which is an operator (`ScanRune`, `CutToken`, `UnquoteRune`, `ReadRune`). A text is a sequence of runes, and what `strconv` quotes and unquotes
is the few runes whose escapes the code can meet.

`Filters` is what a request goes through. `Terms` and `Normalize` are one
operator each, because `FilterForm.Validate` and `Filters.Normalize` are the same
text twice in the code; that they run one after the other is in the actions
(`ListBookmarks`: validate, `toFilters`, then `ToSelectDataSet` parses once more).
`Selection` is the query as a set of conditions, so that their order and their
repetition do not count. `asked` remembers the terms of the request that it all
began with, and a property compares its selection with the one of the list. `Runes`,
which texts are made of, holds the runes that the code knows (`Special`) and any others.

### Portability

`internal/portability`, next to a server that creates, extracts and deletes.
`row` and `user` are what is committed, `tx` what the import has inserted and
deleted in its transaction (`SeenRow`, `SeenUser`), and `file` has no such second
copy. `Held` and `Locked` are whom that transaction makes wait, which differs
between the two databases. `SaveInfo` and `SaveContainer` are the two reads of an
export that a deletion may separate; `CreateFile` and `CopyFiles` the two moments
of an archive that a failure may separate. The three modes are the command, the
command with `-clear`, and the import from the profile. The history variables name
what the code gives no guarantee for: `lost`, archives of committed rows that
were touched before the commit; `crossed`, a deletion that had still to remove the
archive of a row which came back; `missed`, rows saved between the selection of
the old archives and the deletion of their rows.

### Migrations

`internal/db` as each process runs it when it starts: `Start` reads the version
and `Begin` opens the transaction, so two processes may apply the same migrations.
The texts in SQL are kinds: a migration changes the schema, and cannot be applied
twice (`Alter`); or it reads rows and writes them (`ReadRows`, `RewriteRows`); or
it rewrites archives (number 7, `Walk` to `EndRename`); or it draws UIDs and
renames archives (number 16, `DrawUUIDs` to `RenameFolder`). `Record` inserts the
number of the migration, which is the primary key. `CanWrite` is the lock of each
database: PostgreSQL lets the second writer go on with what was committed, SQLite
refuses a write after a read that is out of date. A folder is a map from bookmarks
to the name and the file of their archive; a name is the draw of UIDs it was made
from.

## 3. Runs

| run | instance | question |
|---|---|---|
| `tm_safety` | 3 launches, a task with a delay (2 of 3 ticks) and one without, 1 worker, both backends, stop, crash and restart at any step | is each delay respected, an undo final, the closed queue left alone, and `TaskContract` implemented? |
| `tm_live` | the same without a stop, with a task that this process does not know | does every event settle, and is every launch run unless something named took its payload? |
| `store` | 2 keys, 3 writes, 3 timers, `Clear` | does a value with an expiration always go in the end? |
| `lifecycle` | 1 bookmark, 2 marks, 4 deleters, 4 faults, stops and crashes | all properties of the life cycle below |
| `import` | 2 imports (`u1 u2` or `u1 u1`, and `u1` with duplicates allowed), 2 workers, 3 bookmarks, one import with mishaps, redis | all properties of imports below |
| `device` | 2 polls, 1 visit, 1 user, 2 tokens, both backends, life 2, interval 1, clock to 3 | all properties of the grant below |
| `accounts` | 1 user, 2 browsers, 2 requests in flight, 1 recovery code, 2 seeds, a proxy | does a seed end sessions, is the second factor asked for, is the last password the password? |
| `sync` | 2 bookmarks, 1 label, 1 annotation, 2 requests, 2 readings of the clock | does the log tell everything, and do columns stay apart? |
| `extraction` | 3 URLs, one of them with a second spelling, 1 restart, 3 drops; then 4 elements, 3 of them with one small image, 1 download at a time, an image converted from memory, a source that is the page itself | does a run end with all its pages, and its archive whole, or given up for a reason? |
| `reading` | every search text of up to 4 runes out of 10, longer ones that begin with the name of a field, texts in 2 other fields, label pages, collections; then `<p><b>a</b>bc</p>`, 3 highlights, 2 requests, every selection | is a list what was asked for, does each highlight mark what was selected, and is it kept? |
| `command` | 2 processes, 5 migrations in the order of the code, 2 archives, any of 4 versions before, both databases, failures and crashes; then 2 users, 2 bookmarks, 1 export, 1 import in any of 3 modes, a failure at any step | is each migration applied once, with the archives in their places; what does an import touch, leave behind and give back? |
| `migrations_rollback` | 1 process, failures | does a rollback leave the archives with their rows? (no, see 5) |

What the passing runs show, property by property:

- **tm_safety.** `DelayRespected`: a timer hands over a payload only when the
  delay has passed since that very payload was launched, whatever was launched
  and canceled before. `UndoIsFinal`: a payload canceled before its timer
  accepted it never reaches a handler. `NoSendOnClosedQueue`: `Stop` closes the
  queue when no event, timer or blocked function can send any more.
  `ContractSpec`: the refinement.
- **tm_live.** `EventSettles`: every event ends, with one worker and a queue that
  blocks. `LaunchTakesEffect`: every launch of a known task runs, unless it was
  superseded, canceled, or wiped by the end of another run; not by the time limit of
  its payload, wrong as the sum in `tasks.go:237` is.
- **store.** `ValueExpires`: however a key was set, set again, deleted and cleared, a
  value with an expiration goes.
- **lifecycle.** `ArchiveReadable`: a loaded row that names an archive names a
  complete one.
  `LateEditSurvives`: what a user writes on a loaded bookmark stays, although a
  handler with an older copy still runs. `OrphansAreExplained`: a file without a
  row is about to be removed, or one of the listed mishaps explains it.
  `CleanupCleans`: a cleanup that ran alone leaves no loading row and no orphan.
  `NeverHangs`: a queued extraction ends the loading state whatever fails but a
  query.
- **import.** `ProgressIsTrue`: when nothing is left to do, the progress says
  finished (`EndIsReported`), and it does not say so before, unless `stale`
  (`FinishedIsTrue`).
  `NoDuplicates`: an import that ignores duplicates creates none of what was
  there when it began or of what it created itself. Two imports at once may
  create the same link, and the property says only that much. `ImportEnds`:
  every import ends with its extractions, in a pool that both fill.
- **device.** `TokenHasGrant`: no token without a user who pressed "authorize".
  `OneToken`: one token per code, as long as no two handlers overlap and none is
  cut short. `DecisionStays`: a decision and its token are not overwritten,
  until two handlers overlap. `ForgottenInTime`: the code goes, unless a handler
  stored it late.
  `GrantIsDelivered`: a device that polls gets its token unless something named
  comes first.
- **extraction.** `NoPageIsLost`: what is put together was all processed. `RunEnds`:
  every run ends with one `StepDone`. `ArchiveIsWhole`: each image the document refers
  to is one complete entry, and the document is there unless it is itself named as a
  source. `FailsForAReason`: an archive is given up for the network, or because two
  elements got one body and the first dropped it as an icon. `ArchiveEnds`: nobody
  waits for ever for a slot, for another's answer or for the lock.
- **accounts.** `SessionsEnd`: a session that opens a route has the last seed of
  its user, whichever of nine handlers drew it and whatever request was in
  flight. `FactorIsAsked`: while a user has a second factor, no session opens
  that a password or the proxy alone made, although a sign-in may have read the
  row before the factor was set. `PasswordIsLast`: a change of the password is
  only undone by a handler that saves a whole copy or rewrites an old hash.
- **sync.** `NothingIsMissed`: what the client has not got of a bookmark is in the
  next list it asks for, unless `late`. `NothingElseIsLost`: a column only changes
  by a request that read this column of this bookmark.
- **reading.** `ListIsWhatWasAsked`: the query of a list has the conditions of the
  request that it began with, whatever was parsed, moved to another field, written
  and parsed again, now or out of a collection, except for four kinds of terms that
  the property names (`Moves`). `ShownAsSelected`: the list of the row can always be
  put on the article, and each highlight marks the text that was selected, in the
  article and in an EPUB whose note is at the last highlight. `KeptUnlessOvertaken`:
  what was answered as created is in the row until it is removed, unless another
  request wrote a list it had read before, or the selection begins at the very end of
  an element. `ReadingTypeOK` says that no highlight is in the list twice, and that no
  term asks the index for a field it has not got.
- **command.** `AppliedOnce`: what is committed had each migration up to its
  version applied to it, once. `ArchivesFollow`: each committed row has its whole
  archive under its name, except after a switch of folders that was not committed,
  or two processes that rewrote archives at once; and the folder that would block
  every later start is only left by a crash, or a failure between the removal of the
  old folder and the renaming of the new one. `ExportIsWhole`: a bookmark exported as
  loaded has its whole archive in the file, unless it was deleted meanwhile.
  `FilesFollowRows`: each row has its user; a loaded row has its own archive, also
  after an import that failed at any step, but for the windows it names; and an import
  that replaces bookmarks leaves no archive without a row. `OthersAreSpared`: no step
  of an import changes the row or the archive of somebody else. `ImportIsExact`: what
  is imported belongs to the user of that name, although identifiers are given anew,
  and a restore has what was exported, under the same UIDs.

The type invariants of the other modules are not checked by a run: they are
theorems (section 4), of every instance.

### Bounds

Three launches are what a key needs to have one payload run, one wait and one
superseded at the same time, and one worker makes every other function wait. In
the store, three writes and timers allow an expired timer to meet a key that was
set, deleted and set again. One bookmark is enough for `BookmarkLifecycle`,
whose bookmarks share only the user and the cleanup command; the proofs are for
any set of them. Two polls and one visit are the smallest set in which a poll overlaps
both another poll and a decision; the proofs are for any sets of them and of users. The limits of an extraction are 10 restarts and
100 drops in the code; with 1 and 3, and three URLs, a run meets each of them, and
the theorems hold for any. One user is enough for `Accounts`, since users share
nothing; two browsers and two requests let a session and a sign-in be overtaken by
a third handler that reads and writes in one step. Its run leaves out what follows
a repeated seed or an overwritten row, of which the properties say nothing
(`Telling`). Two bookmarks and two times in `Columns` are what it takes for the
client to be told of a later change of another bookmark. In `Archiver` three
elements with one URL have one that fetches, one that waits and one that comes
too late; one slot makes the others queue. The article of `Annotations` has an
element boundary with text on both sides, and three highlights cut a paragraph
into everything that can lie between two of them. In `Import` three bookmarks allow the list of one import
to grow while an extraction counts it and another import meets the same link. In `Filters` a request is
answered from nothing but what it brings, so that one of them is a behaviour; four
runes are a field, a colon and two runes of a value, and texts that begin with the
name of a field go on for three more. In `Portability` two users are one to import
and one to spare, and two bookmarks one that is copied and one that is created,
deleted or saved meanwhile. In `Migrations` one archive has an article to rewrite
and one has not, and the migrations are one of each kind in the order of the code,
with `MaxDraws` for two processes that both draw UIDs, or one that does so twice; the
database was empty, the oldest one, one that archives were rewritten for, or one that
only the last migration is new to. `Spare` has as many files as are ever there at
once. What two processes make of archives that both rewrite is left out of its run
after the first step of it (`Telling` in `MCCommand`), and not out of the theorems. Where one component hands over
to the next, what the first one remembers is forgotten, since the next one does not
read it.

`MaxNow`, `MaxTime`, `MaxEra`, `MaxBookmarks`, `MaxMishaps`, `MaxDraws` and `Spare`
(`OpenTemp` needs a file that is not there yet) are the only bounds in guards.
Deadlock is checked where a state without successors would be a mistake, and not
where the model comes to its end: after an extraction, a set of imports, a command, the single
life of a bookmark, the last reading of the clock in `Columns`, or when every seed of
`Accounts` and every identifier of `Annotations` was used.

### Fairness

Fairness is weak and only for what the Go runtime and the code keep going. In
`TaskManager`: each event's next step, the clock, and the rest of a `Stop` that
was begun. In `MemStore`: timers and the functions that wait for the lock. In
`BookmarkLifecycle`: the goroutine of each extraction; its network requests have
time limits (`NewClient`, `httpclient`). In `Import`: each task that has a
worker. In `DeviceGrant`: each poll, since a device is told to go on polling
(RFC 8628, and `slow_down`). In `Extraction`: the one goroutine of the run, and
then those of the archive together, since the runtime runs one that can run and the
client gives up after 50 seconds. No user, no
stop, no restart, no deletion and no failure is ever fair: nothing has to
happen that the code does not do by itself.

## 4. Proofs

The theorems hold for every value of the constants that the ASSUMEs allow: any
sets of launches, keys, bookmarks, URLs, handlers, users, any delays and limits,
with or without stops and faults. TLC evaluates each ASSUME in the runs.

**SuperbusProofs.** `PayloadInv` is what makes `UndoIsFinal` inductive. A
payload under a key was launched for that key and is live (`StoredIsLive`); what
a timer carries was launched (`SeenWasLaunched`); what was handed over had been
accepted (`HandedOverWasValidated`); and no accepted payload was canceled
before, because acceptance and cancellation both require it to be in the store
and only one of them leaves it there (`ValidatedIsNotCanceled`). From it follow
`UndoSafe` and, one case for each action, `KeepsContract`: each step is a step
of `TaskContract` or leaves its variables alone. `TimerInv` relates clocks: while
what the timer saw is stored, the life the payload has left and the delay are
together at most `TTL` plus what the timer has left, and when the timer is at
zero that is `DelaySafe`. `PromptInv` is the same with equality for a process
that is prompt and stays up: each stored payload has its event on the way with
its whole life before it, or its own timer ahead of its expiry, or was accepted
already; so nothing expires first (`ExpirySafe`, from `Delay[k] < TTL`).
`QueueInv` follows `Stop`: once it is past the timers no launch is between the
listener and a worker, so that nobody is left to send when the queue is closed
(`QueueSafe`). Of the in-memory store, which the same module takes as an instance,
`ExpiringIsWatched` is inductive with the types; the argument
is in `Clear`, which forgets timers without stopping them, and in `Expire`, which
empties a key that may have got another timer meanwhile.

**BookmarkLifecycleProofs.** The invariant has seven parts. `EarlyInv`: before the
archive was saved the row is as it was inserted. `DeleterInv`: a row that a
deleter deleted is gone for good. `ArchiveInv`: the archive named by a loaded row,
or by the copy that will become one, is whole. `EditInv`: the row has the last
edit. `OwnerInv`: each file has somebody who answers for it: its row, the
extraction that will save its path, a deleter about to remove it, or a mishap.
`DownInv` and `CleanInv`: while no server runs only the cleanup acts, and how far
it has come. Each of them is preserved by each action on any bookmark, and
implies one of `ArchiveSafe`, `EditSafe`, `OrphanSafe`, `CleanupSafe`;
`DeletionIsFinal` follows from the types alone.

**AuthProofs, the device grant.** `GrantInv`: whoever a granted request names, in the store
or in a handler, pressed the button. `SoloInv`: as long as nothing overlapped, at
most one handler is between load and store, and what it will store agrees with
what is stored. `TokenInv` builds on it: a request without a token means that no
token was made, except while a poll carries the new one. `DueInv` and `PaceInv`
are the same for the expiration and the time of the last poll.

**ExtractionProofs.** Of the run, `FlowInv` gives the counters at each stage of the
loop; `AskedInv` says what was asked for is visited and what is next was not asked
for; `WorkInv` charges each request to a restart or to a drop; `PagesInv` says that
what lies behind the counter was processed or skipped. Of the archive that the last
step makes, `FlightInv` says who waits: for an element that fetches the same URL,
and who was answered has the answer of one that was. `LockInv` gives the lock to
the element that saves, so that `EntriesInv` can tell who writes each entry, and
`LocalInv` that a reference which was rewritten has its entry (`WholeArchive`). For
the failures, `BodyInv` says that a body which is gone was saved or closed by an
icon, and `BlameInv` that a group which failed with the network up has the two
elements that section 5 tells of: an icon, and an image that shares its body
(`FailureHasReason`).

**ImportProofs.** `CheckedInv` carries the outcome of the duplicate check over to
the insertion: another import may insert in between, but only a bookmark younger
than the checking import (`before`), which `NoDuplicates` does not promise about.
For the progress, `WorkInv` says of an import without mishap that each of its
bookmarks has an extraction, that the extractions which have saved left a settled
row, and that one which is about to remove the list read a list of settled rows;
`EndIsReported` follows. `ListInv` says that what the list lacks is settled, but
for the bookmark the import is at; it survives a removal because the remover saw
the whole list, or the import is in `stale`. `ReaderInv` says that a list always
has an extraction that will still read it or remove it. Its step is the argument
of the design: an extraction that finds a bookmark of the list unsettled may leave
the list to that bookmark's own extraction, which has yet to read it.

**AuthProofs, the accounts.** `SessionsEnd` and `FactorIsAsked` need to know of sessions that
are not in a browser yet. `SessionsAreSafe` says of every session that a browser
or a request holds that its seed was drawn, and that one which a password alone
made does not have the seed of a row with a second factor; and of every sign-in in
flight that, when the row got a factor after it was read, the copy has an older
seed, so that the session made of it is stillborn. `Moved` sums up what any step
does to one user's row (`RowStep`), and `CookieStep` and `RequestStep` carry the
sessions over it. `SeedIsLast` is what no overwritten copy may break, and
`PasswordIsLast` is inductive with it. `MaxEra` is any number, so that the bound
in the guards of `SetSeed` bounds nothing in the theorems.

**RowProofs** is about two models of one row, `Columns` and `Annotations`.

`NothingIsMissed` is about the client at rest; while it works on
a list, `ListIsWhole` says that a bookmark it has not got is in that list or in
one from the list's last time on. `Clocked` orders the times, `Once` says that a
deleted bookmark is not made again, which keeps a bookmark out of both halves of
the log, and `First` covers the list that is asked for without a time, which has
no deletions in it. `ServerMoves` is the argument of the protocol: a write puts a
bookmark on the list from any time that the client may ask for, or it is `late`.
`ColumnsAreApart` follows from what `Write` changes and from what a request has
read.

`MarksShown` holds for any article whose elements have consecutive text, and any number
of highlights and requests. It rests on a view of a document that forgets the elements:
`Full` is the text of the article, and a document is `Whole` when its nodes hold, one
after the other, the parts of `Full` between increasing places, where a node that a
highlight wraps lies inside of what was selected and one that nothing wraps lies outside
of every highlight (`Placed`). `PointFacts` and `SpanOfElement` turn the offset of a
selector into a place, `StartFacts` and `EndFacts` say that `getTextNodeBoundary` finds
that place again in any such document, however it was cut up, and `RewrittenCovers` that
wrapping leaves such a document with one highlight more. `MarkedIsSelected` reads from
it that each highlight marks what was selected. That `AddToNode` does not fail is another
matter: it needs that nothing wrapped is in the range, and adding in the order of the
list gives that when each highlight ends before the next one begins (`Ordered`,
`NotRefused`). A list is in that order because of `Sort`, which follows the wrappers with
an `id`; there is exactly one of them for each highlight (`Headed`, `HeadFacts`), but for
one that starts at the end of its element (`StartsAtTheEnd`), which has none and is
dropped. `ExtendedSorted` is the whole of a creation: what it stores is what it read and
the new highlight, in order. A note of an EPUB adds a reference that is no part of
`Full`, so that a document with one is no longer one that highlights can be added to
(`"noted"`), which is why only the last of a list may have one.

`RowInv` is then inductive: the list of the row and those that requests have read are
`Ordered`, what is in them was answered with 201 (`Known`), no two requests create one
identifier (`CreatorsDiffer`), and `KeptUnlessOvertaken`; `MarksKept` needs no more.
TLC finds `RowInv` to hold on the instance of `reading`.

**ReadingProofs.** `ListsWhatWasAsked` holds for texts of any length, over any runes. Its invariant is
`FiltersInv`: the fields of the page, and those of the collection, mean what was asked
for (`MeansAsked`), which is that their terms are, as a set, those of the request without
the ones that say nothing (`Kept`), unless one of the request is of the four kinds that
`Moves` names. The rest is `NormalizeKeepsTerms`: writing the terms of a form and reading
them again gives these terms. It is an argument about the scanner in four steps.
`RunConcat` cuts a run of the automaton in two; the tokens read so far do not matter for
what follows (`RunBehind`), so that a text is read in parts where one part leaves the
automaton between two tokens, or in a string that the next part ends (`Splits`,
`MeetScan`). Tokens that are no quotation and no space (`BareTokens`) are read again from
what they join to (`BareScan`); what stands between quotation marks is read as what was
quoted (`ScanQuote`) and then once more by `Unquote` (`UnquotedSame`), and only
`QuoteSafe` texts survive both. From these,
`FieldTermReturns` and `QueryTermReturns` bring one term back from what `TermString`
writes, case by case along the minus, the name, the quotation marks and the star, and
`QueryComesBack` brings a list of terms back, since the groups of a text with a space in
it are those of its two parts (`CutInto`). Queries are compared as sets, because `Dedup`
and the order of the fields change no condition of a selection (`SelectionIs`). TLC finds
`FiltersInv` to hold on the instance of `reading`.

The proof changed the property. `NameMoves` asked whether the text that is left of the
name of an unknown field *begins* with a quotation mark. A name that begins with a star
and has a quotation mark in it, `"*\"w":`, has seven runes and was in no run: written
again it is a star, and after it a quotation. `NameMoves` now asks the scanner whether
there is a quotation in that text, and the run has such names.

**CommandProofs.** Both halves of a command have an invariant of their own; a step
of one leaves the variables of the other alone, and `RunCommand`, which hands over,
brings the migrations back to where they begin (`Fresh`).

`MigrationsInv` begins with the stage of each process (`StageInv`). `WriterInv` is
the argument for `AppliedOnce`: at most one transaction has written, it has the rows
that are committed, and each migration once, but for the one that it has made and
not recorded (`Pending`); `NextInv` keeps a process that began on an older database
from getting ahead of what it sees. What the primary key of `migration` and the lock of
SQLite do is in `CanWrite` and `Conflict`. The files need four more parts. `TempInv`:
a name with a tilde stands beside an archive and shares its file with nobody.
`WholeInv`: while no two processes rewrote archives at once (`shared`), one does, all
archives are whole, and what it has closed is whole too, unless it knows better (`bad`).
`MovedInv`: a process that moved the folder is at migration 16 or past it, and is the
writer; one that is about to knows the draw that is committed. `NamesInv`: the archives
have the names of the rows that are committed, or of those of the one process that moved
them, until a process ends between the two (`torn`). `ArchivesFollow` follows from the
last three.

`PortableInv` has seven parts. `RowsInv` says what rows there can be before the first
commit of an import, `ExportInv` that an item has the archive of its row, because an
archive is written before its row names it and goes after it; `ExportIsWhole` is part of
it. `StateInv` is what an import has selected, inserted and deleted at each of its
steps. `RowsOfImport` is the bridge over the commit: a row that is inserted has an
archive beside the transaction (`Filed`), a user, and a UID that is free or whose row
the same transaction deletes (`Inserted`). `ReadableInv` says the same of committed
rows, with the windows that `LoadedIsReadable` names, and needs of a deletion that is
yet to remove its file that it was counted (`crossed`). `LeftInv` follows the archives
without a row: what an import is still to remove is in its list, or somebody else will
remove it, or it is one that nothing will (`missed`). `OthersAreSpared` and
`ImportIsExact` are about single steps of an import from there.

`PROJECT.json` lists the theorems with the property of a run that each of them
states. Some theorems state what no run checks, because TLC would only repeat on
one instance what is proved of all: most type invariants; that a payload does not
expire before its timer has looked (`TimerBeatsExpiry`), and that a value with an
expiration always has a timer (`ExpiringIsWatched`); that no late save brings a row
back (`StaysDeleted`); that the time of a device's last poll is not lost
(`PaceIsKept`); that an extraction makes fewer requests than both its limits together
(`WorkIsBounded`), asks for no URL twice, looks at the content only while there is a
page, and asks for nothing more when it was canceled; and that the list of an import
is removed. Only model-checked are:

- liveness, which needs ENABLED: `EventSettles`, `LaunchTakesEffect`,
  `ValueExpires`, `NeverHangs`, `GrantIsDelivered`, `RunEnds`, `ImportEnds`,
  `ArchiveEnds`;
- what the finding shows, which is a behaviour and no theorem.

No module uses a RECURSIVE operator. The library states induction with an operator as
its parameter, which the provers here cannot instantiate; `Induct` in `RowProofs`
states it of a set instead, and is proved from the order of the numbers being well founded
(`NatLessThanWellFounded`, `WFMin`). With it, `FlattenIsJoin` and `BuildsExist` unfold
the recursive functions of the models, and what is true of every text is proved rune by
rune, or token by token.

## 5. Findings

**A rollback after migration 16 takes the UIDs back and not the names of the
archives** (`migrations_rollback`). The folders are switched while the transaction is
open, and more migrations follow in it. If one of them fails, the rows have their
old paths; the next start finds none of the archives under them, leaves them all
out of the new folder, and removes them with the old one.

Observations that have no run, with the property that names each of them as its
exception or the module whose behaviours have it:

- The EPUB converter puts the number of a note behind its highlight (`epub.go:226`)
  from the callback of `AddToNode`, while the later highlights are still to be found:
  their offsets count the number, and the EPUB marks text one character to the left
  (`AddToNode` with a note before another highlight; `ShownAsSelected` has notes at
  the last one only). With the references after all highlights they would agree.
- `FilterForm.Validate` moves the term of `title:-value` to the field of titles and
  writes it there as `-value`; `Filters.Normalize` parses that field again and takes
  the minus for an exclusion (`MinusMoves`). The list has the bookmarks *without* the
  value; the test at `forms_filters_test.go:479`, which expects the others, begins
  behind the form.
- `withLabel` quotes a label; the scanner takes the escapes away, and `newSearchTerm`
  gives what is left to `strconv.Unquote` (`searchstring.go:259`): two backslashes
  become one, a backslash with an `n` a line feed, and the page of the label looks for
  another one (`BackslashMoves`).
- The comment of `PopField` says that the initial query is unchanged, but
  `slices.DeleteFunc` moves the terms in the array that both share and clears its end
  (`receiver`). The one caller does not look again.
- When the walk or a rename of migration 7 fails, `updateBookmarkZipFiles` returns
  without removing its temporary files, although its comment says they are all removed
  (`migrations.go:38`; `Fail` at `walk` and `rename` in `Migrations`).
- A task canceled while it waits for a worker runs all the same: the payload is
  checked before the wait and not after (`tasks.go:153`; `UndoIsFinal` speaks of
  cancellations before that). With busy workers, a bookmark whose deletion was
  undone in time is deleted.
- The end of a run removes whatever payload is under its key, also that of the next
  launch, which is then lost (`tasks.go:159`; `LaunchTakesEffect`).
- The function of a timer that fired before `Set` got the lock deletes what `Set`
  stored (`store.go:111`; `Expire` in `MemStore`).
- Cleanup reads rows as loading and deletes them by id later, when one may have
  been loaded (`cleanup.go:70`; `CleanupRows`).
- Deleting a loading bookmark leaves its archive: the deleter's copy of the row
  names no file yet, and the extraction writes one (`bookmarks.go:474`;
  `OrphansAreExplained`). Cleanup finds it.
- `IsRunning` (`tasks.go:319`) denies a task that waits or runs longer than its
  payload lives.
- A bookmark deleted during its import keeps that import unfinished for ever, and
  its list in the store; an extraction may remove a list to which the import has
  added, and the page then says "Import is finished!" too early.
- Two polls that both find a granted request without a token create two tokens; a
  poll that stores after the decision undoes it (`OneToken`, `DecisionStays`).
- A later page that cannot be loaded drops the pages of the article that could.
- `User.Save` writes whole copies: removing the second factor, or the user
  command, can undo a change of the password (`PasswordIsLast`, `undone`), and a
  sign-in that renews an old hash can restore the password it was made with.
- Of two requests that change one column of one bookmark the later one wins, with
  the list it had read: a label or a highlight that came in between is lost
  (`KeptUnlessOvertaken`, `overtaken`).
- A change that is stamped before and written after another one of which a client
  has been told is missed by that client until the next change (`late`).
- Labels are sorted without regard to case, and then adjacent equal ones dropped
  (`db/storage.go:57-60`): "Go", "go", "Go" stay three.
- `HandleCaching` with `If-Modified-Since` alone does not see that the list of
  changes has a deletion more (`server/caching.go:111-171`).
- Two images that get one body: when the first is dropped as an icon, closing the
  body breaks the copy of the other, and the whole archive is given up
  (`process_url.go:62`; `FailsForAReason`). So does any network error during a copy.
- An image whose source is the page itself (`src="#"` becomes that) makes the
  collector know the document's URL, and `saveHTML` writes no document
  (`process_html.go:189`; `ArchiveIsWhole`), which `tasks.go:529` lists as there.
- The name of an unknown field loses its quotation marks when it becomes a part of the
  value (`Unfield`, `searchstring.go:346`), and is read again as something else when it
  has a space, a quotation or a known name in it, or begins with a minus (`NameMoves`).
- A highlight that begins at the very end of an element is answered as created and
  not stored (`KeptUnlessOvertaken`).
- The API takes a highlight of no characters. After another one next to it,
  `AddToNode` fails and every highlight of the article is hidden, and none can be
  added. Browsers send none (`Selections`); with `<=` there, TLC finds it.
- A browser counts offsets in UTF-16 units and the server in runes, so that an
  emoji moves the highlights after it. The model has characters only.
- A bookmark exported while it is loading is imported as loading, with an empty
  archive and nobody to extract it; cleanup removes it. One that is deleted while
  the export is at it is imported as loaded, without an archive
  (`LoadedIsReadable`, `Torn`).
- An import from the profile removes the old archives before the commit
  (`portability/import.go:413`), and one with `-clear` empties archives of rows that
  a rollback brings back (`:296`): `LoadedIsReadable` names both (`lost`). A failed
  import leaves the archives of its new UIDs; cleanup finds them.
- The option `_txtlock=immediate` (`db/sqlite-cgo.go:53`) is not a name that the
  driver knows (`_txlock`): transactions are deferred, which is what `CanWrite` and
  `Locked` have. With the driver without C, the PRAGMAs are set on one connection
  of the pool only.
- With SQLite, an import holds the lock of the one writer while it copies files.
- A process that stops in migration 16 leaves `bookmarks-new`, and no later start
  gets past `Mkdir` (`FolderIsNotLeft`). Two processes that start on one old
  database exclude each other by the primary key of `migration` alone, which is
  after the files (`ArchivesFollow`, `torn`, `shared`).
- An article that has `<mark>` elements of its own cannot be exported with
  highlights that touch them ("overlapping annotation").

## 6. Limits

Not modelled, and why:

- **Several processes.** `TaskManager` has one process that launches and runs. A
  server and a `readeck worker` on one redis share store and wire in the same
  way; that one of them stops while the other goes on is not modelled.
- **The database** is trusted: a statement is atomic, ids are never used again,
  foreign keys cascade. Of the migrations that are texts in SQL or rewrite columns,
  `Migrations` has what can go wrong with any of them, and not what each computes.
- **Tokens and collections** in an import are rows without files, inserted in the
  same transaction.
- **Filters that are no text** (type, flags, dates) are copied from field to query.
- **Files**: a file is absent, partial or whole; renames, full disks and file
  systems are not told apart. That a bookmark's directory is shared by others is
  left out.
- **What pages contain**: content scripts, readability, fonts and what is in an
  image are a choice of what they may do to the loop or to an archive, not of what
  they do to a document. Stylesheets, which import each other, are removed before
  `Archiver` begins.
- **API tokens and OAuth clients** are rows and keys that one request writes; what
  the device flow does with them is in `DeviceGrant`. The authorization code is an
  encrypted value that the server does not store.
- **Pure code**: forms, converters, templates, adapters
  of import formats, e-mail, OPDS. They keep no state, and tests reach them.
- **Generated code**: more than a third of the implementation's lines are Go code made
  from templates (`*_templ.go`), which writes HTML.

## 7. Plan

Done, in this order: `TaskContract`, `TaskManager` and `MemStore` (everything else
runs on them); `BookmarkLifecycle` (which uses the contract); `ExtractRun` (the
inside of its handler); `Import` (what uses the pool most); `DeviceGrant` (which
uses the store most); `Accounts`; `Columns`; `Archiver` (the inside of
`BeginArchive` to `FinishArchive`); `Annotations` (the inside of one column);
`SearchString` and `Filters`; `Portability` and `Migrations` (files around one
transaction).

What could come next, in the order of what it would add:

| module | models | properties | composition |
|---|---|---|---|
| two task managers | a server and a worker on one redis, each with its own crash | `ContractSpec` across both | two instances of `TaskManager` on one store and wire |
| stylesheets | `process_css.go` with imports and cycles | it ends, each sheet once | a process of `Archiver`, if the flags ever keep styles |

Every safety property that a passing run checks is a theorem now (section 4). Of proofs,
what is left are refinements of abstract
specifications: an atomic map with expirations, which `MemStore` implements up to the
timers that fire late; a register per column, which `Columns` implements up to requests
that overlap; the life of a bookmark as its user sees it, without files and copies,
which `BookmarkLifecycle` implements; and a table of users and bookmarks that an import
changes in one step, which `Portability` implements as far as the rows go.
