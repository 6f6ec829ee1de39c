------------------------------ MODULE Archiver ------------------------------
(***************************************************************************)
(* The archive of a page: pkg/archiver with the collector of               *)
(* internal/bookmarks/archive.go and the client of internal/httpclient.    *)
(*                                                                         *)
(* The best image of each <img> is chosen first, one element after the     *)
(* other.  Then every element that needs a resource has a goroutine that   *)
(* fetches it, and saves it under a lock, as the zip file takes one entry  *)
(* at a time; a URL that several elements want at once is fetched once and *)
(* they get the same body.  In the end the document itself is written.     *)
(*                                                                         *)
(* Stylesheets, scripts, embeds and media are removed from the document    *)
(* first (archiveFlags), so that elements are images, icons and <use>.  A  *)
(* URL is one without its fragment.  "data:" URLs and what came with the   *)
(* request are answered without the network, from memory: Cached.          *)
(***************************************************************************)
EXTENDS Naturals

CONSTANTS
    Urls,
    Page,       \* the URL of the document
    Nodes,      \* elements with a resource
    Images,     \* the <img> among them
    Sources,    \* Sources[n]: the URLs that n offers: src, srcset, <source>
    Cached,     \* answered from memory
    Small,      \* images of at most 64 pixels
    Inline,     \* elements with text on both sides, never an icon
    Copied,     \* images in a format and a size that are kept as they are
    Slots,      \* downloads at a time
    None

\* An answer: an image, a page (text/html), or an error.  Other types, which are
\* copied into the archive, are left out.
Kinds == {"image", "page", "error"}

ArchiverAssumption ==
    /\ Page \in Urls /\ None \notin Nodes \cup Urls \cup Kinds
    /\ Images \subseteq Nodes /\ Sources \in [Nodes -> SUBSET Urls]
    /\ \A n \in Nodes \ Images : \E u \in Urls : Sources[n] = {u}
    /\ Slots \in Nat \ {0}

VARIABLES
    phase,   \* "best", "nodes", "done" or "failed"
    known,   \* known[u]: what the collector has of u, "saved" included
    url,     \* url[n]: the URL that the element wants, or None
    ref,     \* ref[n]: what the element refers to in the end
    pc,      \* pc[n]: where the goroutine of n is
    flight,  \* flight[u]: who fetches u for the others, or None
    from,    \* from[n]: whose answer n waits for or has
    answer,  \* answer[n]: what n was answered, for all who wait
    unread,  \* unread[n]: the body of that answer can be read
    slots,   \* free slots of fetchSemaphore
    lock,    \* who has writeLock
    entries, \* entries[u]: entries of the zip file with the name of u
    failed,  \* the group of goroutines has an error
    broken,  \* history: the network broke while a body was read
    index    \* index.html is written

vars == <<phase, known, url, ref, pc, flight, from, answer, unread, slots, lock,
          entries, failed, broken, index>>

doc == <<phase, url, index>>
fetching == <<flight, from, answer, slots>>
saving == <<known, entries, failed, broken>>

Init ==
    /\ phase = "best"
    /\ known = [u \in Urls |-> "no"]
    /\ url = [n \in Nodes |-> IF n \in Images THEN None ELSE CHOOSE u \in Sources[n] : TRUE]
    /\ ref = [n \in Nodes |-> "remote"]
    /\ pc = [n \in Nodes |-> IF n \in Images THEN "choose" ELSE "look"]
    /\ flight = [u \in Urls |-> None]
    /\ from = [n \in Nodes |-> None]
    /\ answer = [n \in Nodes |-> None]
    /\ unread = [n \in Nodes |-> FALSE]
    /\ slots = Slots
    /\ lock = None
    /\ entries = [u \in Urls |-> 0]
    /\ failed = FALSE /\ broken = FALSE /\ index = FALSE

Goes(n, to) == pc' = [pc EXCEPT ![n] = to]

\* The document is no image.
Answers(u) == IF u = Page THEN Kinds \ {"image"} ELSE Kinds

-----------------------------------------------------------------------------
(* The best image of an element (process_image.go).                        *)

\* fetchInfo asks for what the collector does not know, and tells it what it
\* was answered; findBestImage takes the widest image.  Without one the element
\* is removed.
Choose(n) ==
    /\ phase = "best" /\ pc[n] = "choose"
    /\ \E told \in [Sources[n] -> Kinds] :
          LET good == {u \in Sources[n] : told[u] = "image"} IN
          /\ \A u \in Sources[n] : told[u] \in Answers(u)
                                   /\ (known[u] # "no" => told[u] = known[u])
          /\ known' = [u \in Urls |-> IF u \in Sources[n] /\ told[u] # "error"
                                      THEN told[u] ELSE known[u]]
          /\ \/ \E u \in good : /\ url' = [url EXCEPT ![n] = u]
                                /\ Goes(n, "look")
                                /\ UNCHANGED ref
             \/ /\ good = {}
                /\ ref' = [ref EXCEPT ![n] = "gone"]
                /\ Goes(n, "done")
                /\ UNCHANGED url
    /\ UNCHANGED <<phase, fetching, unread, lock, entries, failed, broken, index>>

\* processHTML starts a goroutine for each element that is left.
StartNodes ==
    /\ phase = "best" /\ \A n \in Nodes : pc[n] # "choose"
    /\ phase' = "nodes"
    /\ UNCHANGED <<known, url, ref, pc, fetching, unread, lock, entries, failed, broken, index>>

-----------------------------------------------------------------------------
(* The goroutine of an element: processURL and fetch.                      *)

\* The resource may be there already.
Look(n) ==
    /\ phase = "nodes" /\ pc[n] = "look"
    /\ IF known[url[n]] = "saved"
       THEN Goes(n, "done") /\ ref' = [ref EXCEPT ![n] = "local"]
       ELSE Goes(n, "join") /\ UNCHANGED ref
    /\ UNCHANGED <<doc, fetching, unread, lock, saving>>

\* fetchGroup.Do: one fetches, the others wait for it.
Join(n) ==
    LET u == url[n] IN
    /\ pc[n] = "join"
    /\ IF flight[u] = None
       THEN /\ flight' = [flight EXCEPT ![u] = n]
            /\ from' = [from EXCEPT ![n] = n]
            /\ Goes(n, "acquire")
       ELSE /\ from' = [from EXCEPT ![n] = flight[u]]
            /\ Goes(n, "wait")
            /\ UNCHANGED flight
    /\ UNCHANGED <<doc, known, ref, answer, unread, slots, lock, entries, failed, broken>>

Acquire(n) ==
    /\ pc[n] = "acquire" /\ slots > 0
    /\ slots' = slots - 1
    /\ Goes(n, "fetch")
    /\ UNCHANGED <<doc, ref, flight, from, answer, unread, lock, saving>>

\* n and those who wait for it have the answer.  singleflight only takes its own
\* call off its list.
Told(n, kind) ==
    /\ answer' = [answer EXCEPT ![n] = kind]
    /\ unread' = [unread EXCEPT ![n] = kind # "error"]
    /\ flight' = IF flight[url[n]] = n THEN [flight EXCEPT ![url[n]] = None] ELSE flight
    /\ pc' = [m \in Nodes |-> IF from[m] = n /\ pc[m] \in {"acquire", "fetch", "wait"}
                              THEN "forget" ELSE pc[m]]
    /\ UNCHANGED <<doc, ref, from, lock, saving>>

\* A mistake to catch: a slot is only given back with a good answer.
Answer_KeepsSlot(n) ==
    /\ pc[n] = "fetch"
    /\ \E kind \in Answers(url[n]) :
          /\ failed => kind = "error"
          /\ slots' = slots + (IF kind = "error" THEN 0 ELSE 1)
          /\ Told(n, kind)

\* The head of an answer, and enough of the body to tell the size of an image;
\* an error comes of the network, a timeout, a status, or the end of the group.
Answer(n) ==
    /\ pc[n] = "fetch"
    /\ \E kind \in Answers(url[n]) :
          /\ failed => kind = "error"
          /\ slots' = slots + 1
          /\ Told(n, kind)

\* The group has failed while n waits for a slot.
GiveUp(n) ==
    /\ pc[n] = "acquire" /\ failed
    /\ Told(n, "error")
    /\ UNCHANGED slots

\* A mistake to catch: who waited for the answer of another closes it.
Forget_Closes(n) ==
    /\ pc[n] = "forget"
    /\ flight' = [flight EXCEPT ![url[n]] = None]
    /\ \/ answer[from[n]] = "error" /\ Goes(n, "done") /\ ref' = [ref EXCEPT ![n] = "gone"]
       \/ answer[from[n]] = "page" /\ Goes(n, "close") /\ ref' = [ref EXCEPT ![n] = "page"]
       \/ answer[from[n]] = "image" /\ Goes(n, "lock") /\ UNCHANGED ref
    /\ unread' = [unread EXCEPT ![from[n]] = @ /\ (from[n] = n \/ url[n] \in Cached)]
    /\ UNCHANGED <<doc, from, answer, slots, lock, saving>>

\* fetchGroup.Forget, which may forget a later call; without an answer the
\* source is removed, and what is no image is not saved.
Forget(n) ==
    /\ pc[n] = "forget"
    /\ flight' = [flight EXCEPT ![url[n]] = None]
    /\ \/ answer[from[n]] = "error" /\ Goes(n, "done") /\ ref' = [ref EXCEPT ![n] = "gone"]
       \/ answer[from[n]] = "page" /\ Goes(n, "close") /\ ref' = [ref EXCEPT ![n] = "page"]
       \/ answer[from[n]] = "image" /\ Goes(n, "lock") /\ UNCHANGED ref
    /\ UNCHANGED <<doc, from, answer, unread, slots, lock, saving>>

-----------------------------------------------------------------------------
(* saveResource, one at a time.                                            *)

Lock(n) ==
    /\ pc[n] = "lock" /\ lock = None
    /\ lock' = n
    /\ Goes(n, "save")
    /\ UNCHANGED <<doc, ref, fetching, unread, saving>>

Unlock(n, to) ==
    /\ lock' = None
    /\ ref' = [ref EXCEPT ![n] = to]
    /\ Goes(n, "close")

\* Another element saved it meanwhile.
SavedByOther(n) ==
    /\ pc[n] = "save" /\ known[url[n]] = "saved"
    /\ Unlock(n, "local")
    /\ UNCHANGED <<doc, fetching, unread, saving>>

New(n) == pc[n] = "save" /\ known[url[n]] # "saved"

IsIcon(n) == url[n] \in Small /\ n \notin Inline

\* ConvertCollectedImage: an icon is not kept; its body was not read.
DropIcon(n) ==
    /\ New(n) /\ IsIcon(n)
    /\ Unlock(n, "gone")
    /\ UNCHANGED <<doc, fetching, unread, saving>>

Stored(n) ==
    /\ known' = [known EXCEPT ![url[n]] = "saved"]
    /\ Unlock(n, "local")
    /\ UNCHANGED <<failed, broken>>

\* The image is read, decoded and encoded again, unless it is not one after all
\* or its body is gone.
ConvertImage(n) ==
    /\ New(n) /\ ~ IsIcon(n) /\ url[n] \notin Copied
    /\ unread' = [unread EXCEPT ![from[n]] = FALSE]
    /\ \/ /\ unread[from[n]]
          /\ entries' = [entries EXCEPT ![url[n]] = @ + 1]
          /\ Stored(n)
       \/ Unlock(n, "gone") /\ UNCHANGED saving
    /\ UNCHANGED <<doc, fetching>>

\* The entry is made, then the body is copied to it.
CopyImage(n) ==
    /\ New(n) /\ ~ IsIcon(n) /\ url[n] \in Copied
    /\ entries' = [entries EXCEPT ![url[n]] = @ + 1]
    /\ Goes(n, "copy")
    /\ UNCHANGED <<doc, known, ref, fetching, unread, lock, failed, broken>>

Copies(n) ==
    /\ pc[n] = "copy" /\ unread[from[n]]
    /\ unread' = [unread EXCEPT ![from[n]] = FALSE]
    /\ Stored(n)
    /\ UNCHANGED <<doc, fetching, entries>>

\* A mistake to catch: the error skips the element only.
CopyBreaks_Skips(n) ==
    /\ pc[n] = "copy"
    /\ unread[from[n]] => url[n] \notin Cached
    /\ Unlock(n, "gone")
    /\ UNCHANGED <<doc, fetching, unread, saving>>

\* The body cannot be read to its end: the network, or it was closed.  This is
\* no ErrSkippedURL: it is the error of the group.
CopyBreaks(n) ==
    /\ pc[n] = "copy"
    /\ unread[from[n]] => url[n] \notin Cached
    /\ broken' = (broken \/ unread[from[n]])
    /\ failed' = TRUE
    /\ Unlock(n, "remote")
    /\ UNCHANGED <<doc, known, fetching, unread, entries>>

\* processURL closes the body that it got, which others may have as well; what
\* is read from memory stays.
Close(n) ==
    /\ pc[n] = "close"
    /\ unread' = [unread EXCEPT ![from[n]] = @ /\ url[n] \in Cached]
    /\ Goes(n, "done")
    /\ UNCHANGED <<doc, ref, fetching, lock, saving>>

-----------------------------------------------------------------------------
\* The group has ended: with an error there is no archive, else the document is
\* written, unless the collector knows its URL.
Finish ==
    /\ phase = "nodes" /\ \A n \in Nodes : pc[n] = "done"
    /\ phase' = IF failed THEN "failed" ELSE "done"
    /\ index' = (~ failed /\ known[Page] = "no")
    /\ UNCHANGED <<known, url, ref, pc, fetching, unread, lock, entries, failed, broken>>

Ended == phase \in {"done", "failed"}

Node(n) ==
    \/ Choose(n) \/ Look(n) \/ Join(n) \/ Acquire(n) \/ Answer(n) \/ GiveUp(n)
    \/ Forget(n) \/ Lock(n) \/ SavedByOther(n) \/ DropIcon(n) \/ ConvertImage(n)
    \/ CopyImage(n) \/ Copies(n) \/ CopyBreaks(n) \/ Close(n)

Next == StartNodes \/ Finish \/ \E n \in Nodes : Node(n)

Spec == Init /\ [][Next]_vars

-----------------------------------------------------------------------------
(* Properties.                                                             *)

\* An archive that is done has every image that its document refers to, as one
\* entry and not a broken one (archiver.go:301, 338); and it has the document,
\* unless some image names the document itself as a source, as src="#" does:
\* then the collector knows its URL (process_html.go:189).
ArchiveIsWhole ==
    phase = "done" =>
        /\ \A n \in Nodes : ref[n] = "local" => known[url[n]] = "saved" /\ entries[url[n]] = 1
        /\ index \/ \E n \in Images : Page \in Sources[n]

\* Two elements that get one answer.
Shared(n, m) == n # m /\ from[n] # None /\ from[n] = from[m]

\* The archive is given up for the network alone, or because two elements got
\* one body: the first dropped the image as an icon and closed it, and the
\* other one is not an icon (archiver.go:188, process_url.go:62).
FailsForAReason ==
    phase = "failed" /\ ~ broken =>
        \E n, m \in Nodes : /\ Shared(n, m) /\ url[n] \in Copied \ Cached
                            /\ IsIcon(n) /\ ~ IsIcon(m)
=============================================================================
