---------------------------- MODULE CommandProofs ----------------------------
(***************************************************************************)
(* What TLC checks of the migrations and of export and import on small     *)
(* instances, proved for any processes, bookmarks, archives, migrations,   *)
(* users and identifiers: first the migrations, then Portability.          *)
(*                                                                         *)
(* Lemmas named ...Is say what an action does, field by field; those named *)
(* ...Step, ...Server, ...Export and ...Import that one part of the        *)
(* invariant is kept by those steps when all parts held before.            *)
(***************************************************************************)
EXTENDS Command, TLAPS

-----------------------------------------------------------------------------
(* The migrations: the inductive invariant, by parts.                      *)

Waiting == {"off", "begin", "up"}
Naming == {"uuids", "draw", "mkdir", "link", "switch"}
Rewriting == {"archives", "walk", "write", "remove", "rename"}
Stages ==
    {"off", "begin", "up", "create", "commit", "schema", "rows", "rewrite", "record",
     "uuids", "draw", "mkdir", "link", "switch",
     "archives", "walk", "write", "remove", "rename"}
Applying == Stages \ {"off", "begin", "up", "create", "commit"}

Process ==
    [pc : Stages, last : Int, m : Int, todo : SUBSET Bookmarks,
     names : [Bookmarks -> Nat \cup {None}], mine : SUBSET Bookmarks,
     out : Files \cup {None}, bad : BOOLEAN, old : Nat, moved : BOOLEAN]

MigrationsTypeOK ==
    /\ database \in Database /\ drawn \in Nat
    /\ cur \in Folder \cup {None} /\ new \in Folder \cup {None} /\ temp \in Folder
    /\ data \in [Files -> {"whole", "partial", "mixed"}]
    /\ tx \in [Processes -> Transaction \cup {None}]
    /\ proc \in [Processes -> Process]
    /\ torn \in BOOLEAN /\ stopped \in BOOLEAN /\ shared \in BOOLEAN

\* A process that applies a migration has a transaction and applies one of that
\* kind.
StageInv ==
    \A p \in Processes :
        /\ tx[p] = None <=> proc[p].pc \in Waiting
        /\ proc[p].pc = "begin" => proc[p].last \in -1 .. N
        /\ proc[p].pc \in Applying => proc[p].m \in 1 .. N
        /\ proc[p].pc = "schema" => Kinds[proc[p].m] = "schema"
        /\ proc[p].pc \in {"rows", "rewrite"} => Kinds[proc[p].m] = "rows"
        /\ proc[p].pc \in Naming => Kinds[proc[p].m] = "uuids"
        /\ proc[p].pc \in Rewriting => Kinds[proc[p].m] = "archives"

Wrote(p) == tx[p] # None /\ tx[p].wrote

\* The change of a migration that is not recorded yet.
Pending(p) ==
    \/ proc[p].pc = "record" /\ Kinds[proc[p].m] # "archives"
    \/ proc[p].pc \in {"mkdir", "link", "switch"}

\* There is one writer; it has the rows that are committed, and each migration
\* once, but for the one it is at.
WriterInv ==
    \A p \in Processes : Wrote(p) =>
        /\ tx[p].view \in Database
        /\ tx[p].view.rows = database.rows
        /\ tx[p].view.version >= database.version
        /\ tx[p].view.times = IF Pending(p) THEN [Upto(tx[p].view.version) EXCEPT ![proc[p].m] = @ + 1]
                              ELSE Upto(tx[p].view.version)
        /\ \A q \in Processes : Wrote(q) => q = p

\* No process is at a migration that lies further ahead than the next one.
NextInv ==
    \A p \in Processes :
        /\ proc[p].pc = "begin" => proc[p].last <= database.version
        /\ tx[p] # None => Seen(p).version >= proc[p].m - 1
        /\ Pending(p) => Wrote(p)

\* A name with a tilde stands beside the archive of that name, and no archive
\* has its file.
TempInv ==
    \A b \in Bookmarks : temp[b] # None =>
        /\ There(b) /\ cur[b].draw = temp[b].draw
        /\ \A a \in Bookmarks :
              /\ a # b /\ temp[a] # None => temp[a].file # temp[b].file
              /\ cur[a] # None => cur[a].file # temp[b].file
              /\ new # None /\ new[a] # None => new[a].file # temp[b].file

\* What a process knows of the files that it writes.
WritesOf(p) ==
    /\ proc[p].out # None => proc[p].pc = "write"
    /\ proc[p].pc = "write" => proc[p].mine # {}
    /\ proc[p].pc = "rename" => ~proc[p].bad /\ proc[p].todo \subseteq proc[p].mine

\* What it wrote is whole, unless it knows better.
WroteWhole(p) ==
    proc[p].pc \in InArchives /\ ~proc[p].bad =>
        \A b \in proc[p].mine :
            HasTemp(p, b) /\ temp[b].file # proc[p].out => data[temp[b].file] = "whole"

AllWhole(folder) ==
    folder # None => \A b \in Bookmarks : folder[b] # None => data[folder[b].file] = "whole"

\* Unless two processes rewrote archives at the same time, one does, and all
\* archives are whole.
WholeInv ==
    /\ \A p \in Processes : WritesOf(p)
    /\ ~shared =>
          /\ \A f \in Files : data[f] # "mixed"
          /\ AllWhole(cur) /\ AllWhole(new)
          /\ \A p, q \in Processes :
                p # q /\ proc[p].pc \in InArchives /\ proc[q].pc \in InArchives
                    => proc[p].mine = {} \/ proc[q].mine = {}
          /\ \A p \in Processes : WroteWhole(p)

\* A process that has moved the folder is at the one migration that does, or past
\* it; one that is about to knows the draw that is committed.
MovedOf(p) ==
    /\ proc[p].moved =>
          /\ Wrote(p)
          /\ \/ proc[p].pc = "switch"
             \/ proc[p].pc = "record" /\ Kinds[proc[p].m] = "uuids"
             \/ \E m \in 1 .. proc[p].m - 1 : Kinds[m] = "uuids"
    /\ proc[p].pc \in {"link", "switch"} => new # None
    /\ proc[p].pc = "switch" => cur = None /\ proc[p].moved
    /\ proc[p].pc \in {"mkdir", "link"} => proc[p].old = database.draw
    /\ Wrote(p) /\ ~proc[p].moved /\ proc[p].pc \notin {"mkdir", "link"}
          => tx[p].view.draw = database.draw

MovedInv == \A p \in Processes : MovedOf(p)

\* The folder has an archive for each row, under that draw.
Named(folder, draw) ==
    folder # None /\ \A b \in database.rows : folder[b] # None /\ folder[b].draw = draw

\* The archives have the names of the rows, or of those that the process which
\* moved them has not committed yet; the new folder gets them one by one.
NamesOf(p) ==
    /\ proc[p].moved /\ proc[p].pc # "switch" => Named(cur, tx[p].view.draw)
    /\ proc[p].pc = "switch" => Named(new, tx[p].view.draw)
    /\ proc[p].pc = "mkdir" => database.rows \subseteq proc[p].todo
    /\ proc[p].pc = "link" => \A b \in database.rows \ proc[p].todo :
          new[b] # None /\ new[b].draw = tx[p].view.draw

NamesInv ==
    ~torn =>
        /\ (\A p \in Processes : ~proc[p].moved) => Named(cur, database.draw)
        /\ \A p \in Processes : NamesOf(p)

-----------------------------------------------------------------------------
(* Types of values, and what each step of a process does.                  *)

\* There are finitely many migrations.
LEMMA NIsNat == N \in Nat
  BY MigrationsAssumption DEF N

\* The kind of the next migration.
LEMMA StepIs ==
  ASSUME NEW m \in 1 .. N + 1
  PROVE  Step(m) \in Stages
<1>1. m \in 1 .. N \/ m > N
  BY NIsNat
<1>2. m \in 1 .. N => Kinds[m] \in {"archives", "uuids", "rows", "schema"}
  BY MigrationsAssumption DEF N
<1> QED
  BY <1>1, <1>2, NIsNat DEF Step, Stages

\* The migrations of a version, once each.
LEMMA UptoTyped ==
  ASSUME NEW v \in -1 .. N
  PROVE  Upto(v) \in [1 .. N -> Nat]
  BY DEF Upto

\* A process that has not started.
LEMMA IdleTyped == Idle \in Process
  BY DEF Idle, Process, Stages

\* A write begins with rows that are rows.
LEMMA SeenTyped ==
  ASSUME MigrationsTypeOK, StageInv, WriterInv,
         NEW p \in Processes, proc[p].pc \notin Waiting
  PROVE  Seen(p) \in Database
  BY DEF MigrationsTypeOK, StageInv, WriterInv, Wrote, Seen

\* A database with the schema of this version,
LEMMA CreatedDatabase ==
  ASSUME NEW d \in Database
  PROVE  [d EXCEPT !.version = N, !.times = Upto(N)] \in Database
<1>1. Upto(N) \in [1 .. N -> Nat] /\ N \in -1 .. N
  BY NIsNat, UptoTyped
<1> QED
  BY <1>1 DEF Database

\* with one more migration applied,
LEMMA AppliedDatabase ==
  ASSUME NEW d \in Database, NEW m \in 1 .. N
  PROVE  [d EXCEPT !.times[m] = @ + 1] \in Database
<1>1. [d.times EXCEPT ![m] = @ + 1] \in [1 .. N -> Nat]
  BY NIsNat DEF Database
<1>2. [d EXCEPT !.times[m] = @ + 1] = [d EXCEPT !.times = [d.times EXCEPT ![m] = @ + 1]]
  OBVIOUS
<1> QED
  BY <1>1, <1>2 DEF Database

\* with one more recorded,
LEMMA RecordedDatabase ==
  ASSUME NEW d \in Database, NEW m \in 1 .. N
  PROVE  [d EXCEPT !.version = m] \in Database
<1>1. m \in -1 .. N
  BY NIsNat
<1> QED
  BY <1>1 DEF Database

\* and with new UIDs.
LEMMA DrawnDatabase ==
  ASSUME NEW d \in Database, NEW m \in 1 .. N, NEW k \in Nat
  PROVE  [d EXCEPT !.draw = k, !.times[m] = @ + 1] \in Database
<1>1. [d.times EXCEPT ![m] = @ + 1] \in [1 .. N -> Nat]
  BY NIsNat DEF Database
<1>2. [d EXCEPT !.draw = k, !.times[m] = @ + 1]
         = [d EXCEPT !.draw = k, !.times = [d.times EXCEPT ![m] = @ + 1]]
  OBVIOUS
<1> QED
  BY <1>1, <1>2 DEF Database

\* A process at any stage is a process,
LEMMA EveryProcess ==
  ASSUME NEW r \in Process, NEW s \in Stages, NEW k \in Int
  PROVE  /\ [r EXCEPT !.m = k, !.pc = s] \in Process
         /\ [r EXCEPT !.pc = s, !.last = k] \in Process
<1> QED
  BY DEF Process

\* at another stage,
LEMMA AtStage ==
  ASSUME NEW r \in Process, NEW s \in Stages
  PROVE  /\ [r EXCEPT !.pc = s] \in Process
         /\ [r EXCEPT !.pc = s, !.moved = FALSE] \in Process
         /\ [r EXCEPT !.pc = s, !.moved = TRUE] \in Process
         /\ [r EXCEPT !.pc = s, !.out = None] \in Process
         /\ [r EXCEPT !.pc = s, !.out = None, !.bad = TRUE] \in Process
<1>1. [r EXCEPT !.pc = s] \in Process
  BY DEF Process
<1>2. [r EXCEPT !.pc = s, !.moved = FALSE] \in Process
  BY DEF Process
<1>3. [r EXCEPT !.pc = s, !.moved = TRUE] \in Process
  BY DEF Process
<1>4. [r EXCEPT !.pc = s, !.out = None] \in Process
  BY DEF Process
<1>5. [r EXCEPT !.pc = s, !.out = None, !.bad = TRUE] \in Process
  BY DEF Process
<1> QED
  BY <1>1, <1>2, <1>3, <1>4, <1>5

\* with one thing less to do,
LEMMA WithLess ==
  ASSUME NEW r \in Process, NEW b
  PROVE  /\ [r EXCEPT !.todo = @ \ {b}] \in Process
         /\ [r EXCEPT !.todo = @ \ {b}, !.bad = TRUE] \in Process
<1>1. r.todo \ {b} \in SUBSET Bookmarks
  BY DEF Process
<1>2. [r EXCEPT !.todo = @ \ {b}] \in Process
  BY <1>1 DEF Process
<1>3. [r EXCEPT !.todo = @ \ {b}, !.bad = TRUE] \in Process
  BY <1>1 DEF Process
<1> QED
  BY <1>2, <1>3

\* beginning to write,
LEMMA WritingProcess ==
  ASSUME NEW r \in Process, NEW b \in Bookmarks, NEW f \in Files
  PROVE  [r EXCEPT !.pc = "write", !.out = f, !.todo = @ \ {b}, !.mine = @ \cup {b}] \in Process
<1>1. /\ r.todo \ {b} \in SUBSET Bookmarks /\ r.mine \cup {b} \in SUBSET Bookmarks
      /\ "write" \in Stages
  BY DEF Process, Stages
<1> QED
  BY <1>1 DEF Process

\* beginning to walk,
LEMMA WalkingProcess ==
  ASSUME NEW r \in Process, NEW T \in SUBSET Bookmarks, NEW n \in [Bookmarks -> Nat \cup {None}]
  PROVE  [r EXCEPT !.pc = "walk", !.mine = {}, !.bad = FALSE, !.todo = T, !.names = n] \in Process
<1> QED
  BY DEF Process, Stages

\* drawing new UIDs,
LEMMA NamingProcess ==
  ASSUME NEW r \in Process, NEW T \in SUBSET Bookmarks, NEW d \in Nat
  PROVE  [r EXCEPT !.pc = "mkdir", !.old = d, !.todo = T] \in Process
<1> QED
  BY DEF Process, Stages

\* after the walk,
LEMMA WalkedProcess ==
  ASSUME NEW r \in Process
  PROVE  [r EXCEPT !.pc = IF r.bad THEN "remove" ELSE "rename", !.todo = r.mine] \in Process
  BY DEF Process, Stages

\* and at the next migration.
LEMMA NextProcess ==
  ASSUME NEW r \in Process, NEW s \in Stages
  PROVE  [r EXCEPT !.m = @ + 1, !.pc = s] \in Process
<1>1. r.m + 1 \in Int
  BY DEF Process
<1> QED
  BY <1>1 DEF Process

\* What a write leaves in the transaction.
LEMMA WriteIsThere ==
  ASSUME MigrationsTypeOK, NEW p \in Processes, NEW d \in Database, Write(p, d)
  PROVE  /\ tx' = [tx EXCEPT ![p] = [view |-> d, wrote |-> TRUE]]
         /\ tx' \in [Processes -> Transaction \cup {None}]
         /\ tx'[p] # None
<1>1. [view |-> d, wrote |-> TRUE] \in Transaction
  BY DEF Transaction
<1> QED
  BY <1>1, MigrationsAssumption DEF Write, MigrationsTypeOK

\* What each writing step of a process leaves in its transaction.
LEMMA Writers ==
  ASSUME MigrationsTypeOK, StageInv, WriterInv, NEW p \in Processes,
         CreateSchema(p) \/ Alter(p) \/ RewriteRows(p) \/ Record(p) \/ DrawUUIDs(p)
  PROVE  \E d \in Database :
            /\ Write(p, d) /\ CanWrite(p) /\ d.rows = Seen(p).rows
            /\ CreateSchema(p) =>
                  d.version = N /\ d.times = Upto(N) /\ d.draw = Seen(p).draw
            /\ Alter(p) \/ RewriteRows(p) \/ DrawUUIDs(p) =>
                  /\ d.version = Seen(p).version
                  /\ d.times = [Seen(p).times EXCEPT ![proc[p].m] = @ + 1]
            /\ Alter(p) \/ RewriteRows(p) => d.draw = Seen(p).draw
            /\ Record(p) =>
                  d.version = proc[p].m /\ d.times = Seen(p).times /\ d.draw = Seen(p).draw
<1>1. Seen(p) \in Database
  BY SeenTyped DEF CreateSchema, Alter, RewriteRows, Record, DrawUUIDs, Waiting
<1>2. ~CreateSchema(p) => proc[p].m \in 1 .. N
  BY DEF Alter, RewriteRows, Record, DrawUUIDs, StageInv, Applying, Stages
<1>3. CASE CreateSchema(p)
  <2>1. [Seen(p) EXCEPT !.version = N, !.times = Upto(N)] \in Database
    BY Zenon, <1>1, CreatedDatabase
  <2>2. Write(p, [Seen(p) EXCEPT !.version = N, !.times = Upto(N)]) /\ CanWrite(p)
          /\ proc[p].pc = "create"
    BY SMTT(30), <1>3 DEF CreateSchema
  <2> QED
    BY <1>1, <2>1, <2>2 DEF Database, Alter, RewriteRows, Record, DrawUUIDs
<1>4. CASE Alter(p) \/ RewriteRows(p)
  <2>1. [Seen(p) EXCEPT !.times[proc[p].m] = @ + 1] \in Database
    BY <1>1, <1>2, <1>4, AppliedDatabase DEF Alter, RewriteRows, CreateSchema
  <2>2. Write(p, [Seen(p) EXCEPT !.times[proc[p].m] = @ + 1]) /\ CanWrite(p)
          /\ proc[p].pc \in {"schema", "rewrite"}
    BY <1>4 DEF Alter, RewriteRows
  <2> QED
    BY <1>1, <2>1, <2>2 DEF Database, CreateSchema, Record, DrawUUIDs
<1>5. CASE Record(p)
  <2>1. [Seen(p) EXCEPT !.version = proc[p].m] \in Database
    BY <1>1, <1>2, <1>5, RecordedDatabase DEF Record, CreateSchema
  <2>2. Write(p, [Seen(p) EXCEPT !.version = proc[p].m]) /\ CanWrite(p)
          /\ proc[p].pc = "record"
    BY <1>5 DEF Record
  <2> QED
    BY <1>1, <2>1, <2>2 DEF Database, Alter, RewriteRows, CreateSchema, DrawUUIDs
<1>6. CASE DrawUUIDs(p)
  <2>1. drawn + 1 \in Nat
    BY DEF MigrationsTypeOK
  <2>2. [Seen(p) EXCEPT !.draw = drawn + 1, !.times[proc[p].m] = @ + 1] \in Database
    BY Zenon, <1>1, <1>2, <1>6, <2>1, DrawnDatabase DEF DrawUUIDs, CreateSchema
  <2>3. Write(p, [Seen(p) EXCEPT !.draw = drawn + 1, !.times[proc[p].m] = @ + 1])
          /\ CanWrite(p) /\ proc[p].pc = "draw"
    BY <1>6 DEF DrawUUIDs
  <2> QED
    BY <1>1, <2>2, <2>3 DEF Database, Alter, RewriteRows, Record, CreateSchema
<1> QED
  BY <1>3, <1>4, <1>5, <1>6

\* What a process reads when it begins decides where it goes.
LEMMA BeginIs ==
  ASSUME MigrationsTypeOK, NEW p \in Processes, Begin(p)
  PROVE  /\ tx'[p] # None /\ tx'[p].wrote = FALSE
         /\ \A q \in Processes \ {p} : tx'[q] = tx[q]
<1>1. [view |-> None, wrote |-> FALSE] \in Transaction
  BY DEF Transaction
<1>2. tx' = [tx EXCEPT ![p] = [view |-> None, wrote |-> FALSE]]
  BY DEF Begin
<1> QED
  BY <1>1, <1>2, MigrationsAssumption DEF MigrationsTypeOK

\* A selection does not write.
LEMMA ReadRowsIs ==
  ASSUME MigrationsTypeOK, StageInv, NEW p \in Processes, ReadRows(p)
  PROVE  /\ tx[p] # None /\ tx'[p] # None /\ tx'[p].wrote = tx[p].wrote
         /\ tx[p].wrote => tx'[p].view = tx[p].view \/ tx[p].view = None
         /\ \A q \in Processes \ {p} : tx'[q] = tx[q]
         /\ tx' \in [Processes -> Transaction \cup {None}]
<1> DEFINE v == IF dialect = "sqlite3" /\ tx[p].view = None THEN database ELSE tx[p].view
<1>1. tx[p] \in Transaction
  BY DEF MigrationsTypeOK, StageInv, ReadRows, Waiting
<1>2. v \in Database \cup {None} /\ (v = tx[p].view \/ tx[p].view = None)
  BY <1>1 DEF Transaction, MigrationsTypeOK
<1>3. tx' = [tx EXCEPT ![p] = [tx[p] EXCEPT !.view = v]]
  BY DEF ReadRows
<1> HIDE DEF v
<1>4. [tx[p] EXCEPT !.view = v] \in Transaction
  BY <1>1, <1>2 DEF Transaction
<1>5. tx' \in [Processes -> Transaction \cup {None}]
  BY <1>3, <1>4 DEF MigrationsTypeOK
<1>6. tx'[p] = [tx[p] EXCEPT !.view = v] /\ \A q \in Processes \ {p} : tx'[q] = tx[q]
  BY <1>3 DEF MigrationsTypeOK
<1> QED
  BY <1>1, <1>2, <1>4, <1>5, <1>6, MigrationsAssumption DEF Transaction

\* A walk begins: the archives that are there, by the names they have.
LEMMA WalkIs ==
  ASSUME MigrationsTypeOK, NEW p \in Processes, Walk(p)
  PROVE  /\ proc[p].pc = "archives" /\ cur # None
         /\ proc'[p].pc = "walk" /\ proc'[p].m = proc[p].m /\ proc'[p].last = proc[p].last
         /\ proc'[p].mine = {} /\ proc'[p].bad = FALSE
         /\ proc'[p].out = proc[p].out /\ proc'[p].moved = proc[p].moved
         /\ proc'[p].old = proc[p].old
         /\ \A q \in Processes \ {p} : proc'[q] = proc[q]
<1>1. proc[p] \in Process
  BY DEF MigrationsTypeOK
<1>2. proc'[p] = [proc[p] EXCEPT !.pc = "walk", !.mine = {}, !.bad = FALSE,
                     !.todo = {b \in Bookmarks : There(b)},
                     !.names = [b \in Bookmarks |-> IF There(b) THEN cur[b].draw ELSE None]]
  BY Zenon DEF MigrationsTypeOK, Walk
<1>3. /\ proc[p].pc = "archives" /\ cur # None
      /\ \A q \in Processes \ {p} : proc'[q] = proc[q]
  BY Zenon DEF MigrationsTypeOK, Walk
<1> QED
  BY <1>1, <1>2, <1>3 DEF Process

\* A name with a tilde is opened.
LEMMA OpenTempIs ==
  ASSUME MigrationsTypeOK, NEW p \in Processes, NEW b \in Bookmarks, OpenTemp(p, b)
  PROVE  \E f \in Files :
         /\ f = IF HasTemp(p, b) THEN temp[b].file ELSE CHOOSE g \in Spare : g \notin Used
         /\ HasTemp(p, b) \/ f \notin Used
         /\ temp' = [temp EXCEPT ![b] = [draw |-> proc[p].names[b], file |-> f]]
         /\ data' = [data EXCEPT ![f] = IF \E q \in Processes : proc[q].out = f
                                        THEN "mixed" ELSE "partial"]
         /\ proc[p].pc = "walk" /\ proc'[p].pc = "write" /\ proc'[p].out = f
         /\ proc'[p].mine = proc[p].mine \cup {b} /\ proc'[p].todo = proc[p].todo \ {b}
         /\ proc'[p].m = proc[p].m /\ proc'[p].last = proc[p].last
         /\ proc'[p].names = proc[p].names /\ proc'[p].bad = proc[p].bad
         /\ proc'[p].moved = proc[p].moved /\ proc'[p].old = proc[p].old
         /\ \A q \in Processes \ {p} : proc'[q] = proc[q]
<1>1. proc[p] \in Process
  BY DEF MigrationsTypeOK
<1>2. PICK f \in Files :
         /\ f = IF HasTemp(p, b) THEN temp[b].file ELSE CHOOSE g \in Spare : g \notin Used
         /\ HasTemp(p, b) \/ f \notin Used
  <2>1. CASE HasTemp(p, b)
    BY <2>1 DEF MigrationsTypeOK, HasTemp, Folder, Archive
  <2>2. CASE ~HasTemp(p, b)
    BY Zenon, <2>2 DEF OpenTemp, Files
  <2> QED
    BY <2>1, <2>2
<1>3. /\ temp' = [temp EXCEPT ![b] = [draw |-> proc[p].names[b], file |-> f]]
      /\ data' = [data EXCEPT ![f] = IF \E q \in Processes : proc[q].out = f
                                     THEN "mixed" ELSE "partial"]
      /\ proc[p].pc = "walk" /\ \A q \in Processes \ {p} : proc'[q] = proc[q]
      /\ proc'[p] = [proc[p] EXCEPT !.pc = "write", !.out = f, !.todo = @ \ {b},
                                    !.mine = @ \cup {b}]
  BY Zenon, <1>2 DEF OpenTemp, MigrationsTypeOK
<1> QED
  BY <1>1, <1>2, <1>3 DEF Process

\* A walk has ended.
LEMMA EndWalkIs ==
  ASSUME MigrationsTypeOK, NEW p \in Processes, EndWalk(p)
  PROVE  /\ proc[p].pc = "walk" /\ proc[p].todo = {}
         /\ \/ proc[p].bad /\ proc'[p].pc = "remove"
            \/ ~proc[p].bad /\ proc'[p].pc = "rename"
         /\ proc'[p].m = proc[p].m /\ proc'[p].last = proc[p].last
         /\ proc'[p].todo = proc[p].mine /\ proc'[p].mine = proc[p].mine
         /\ proc'[p].names = proc[p].names /\ proc'[p].out = proc[p].out
         /\ proc'[p].bad = proc[p].bad
         /\ proc'[p].moved = proc[p].moved /\ proc'[p].old = proc[p].old
         /\ \A q \in Processes \ {p} : proc'[q] = proc[q]
         /\ UNCHANGED <<database, drawn, disk, tx, history>>
<1>1. proc[p] \in Process
  BY DEF MigrationsTypeOK
<1>2. proc'[p] = [proc[p] EXCEPT !.pc = IF proc[p].bad THEN "remove" ELSE "rename",
                                 !.todo = proc[p].mine]
  BY DEF EndWalk, MigrationsTypeOK
<1>3. /\ proc[p].pc = "walk" /\ proc[p].todo = {}
      /\ UNCHANGED <<database, drawn, disk, tx, history>>
  BY DEF EndWalk
<1>4. \A q \in Processes \ {p} : proc'[q] = proc[q]
  BY DEF EndWalk, MigrationsTypeOK
<1> QED
  BY <1>1, <1>2, <1>3, <1>4 DEF Process

\* New UIDs are written before the folder is touched.
LEMMA DrawUUIDsIs ==
  ASSUME MigrationsTypeOK, NEW p \in Processes, DrawUUIDs(p)
  PROVE  /\ proc[p].pc = "draw" /\ proc'[p].pc = "mkdir" /\ drawn' = drawn + 1
         /\ proc'[p].old = Seen(p).draw /\ proc'[p].todo = Seen(p).rows
         /\ proc'[p].m = proc[p].m /\ proc'[p].last = proc[p].last
         /\ proc'[p].mine = proc[p].mine /\ proc'[p].out = proc[p].out
         /\ proc'[p].moved = proc[p].moved
         /\ \A q \in Processes \ {p} : proc'[q] = proc[q]
         /\ UNCHANGED <<database, disk, history>>
<1>1. proc[p] \in Process
  BY DEF MigrationsTypeOK
<1>2. proc'[p] = [proc[p] EXCEPT !.pc = "mkdir", !.old = Seen(p).draw, !.todo = Seen(p).rows]
  BY DEF DrawUUIDs, MigrationsTypeOK
<1>3. proc[p].pc = "draw" /\ drawn' = drawn + 1 /\ UNCHANGED <<database, disk, history>>
  BY DEF DrawUUIDs
<1>4. \A q \in Processes \ {p} : proc'[q] = proc[q]
  BY DEF DrawUUIDs, MigrationsTypeOK
<1> QED
  BY <1>1, <1>2, <1>3, <1>4 DEF Process

\* Types are kept.
LEMMA MigrationsTypeStep ==
  MigrationsTypeOK /\ StageInv /\ WriterInv /\ NextInv /\ MovedInv /\ [Next]_vars => MigrationsTypeOK'
<1> SUFFICES ASSUME MigrationsTypeOK, StageInv, WriterInv, NextInv, MovedInv, [Next]_vars PROVE MigrationsTypeOK'
  OBVIOUS
<1>0. \A p \in Processes : proc[p] \in Process
  BY DEF MigrationsTypeOK
<1>s. /\ "commit" \in Stages /\ "record" \in Stages /\ "up" \in Stages /\ "walk" \in Stages
      /\ "mkdir" \in Stages /\ "link" \in Stages /\ "switch" \in Stages
      /\ \A p \in Processes : (IF proc[p].pc = "rows" THEN "rewrite" ELSE "draw") \in Stages
  BY DEF Stages
<1> USE DEF MigrationsTypeOK
<1>1. ASSUME NEW p \in Processes, Start(p) PROVE MigrationsTypeOK'
  <2>0. database.version \in Int /\ "begin" \in Stages
    BY NIsNat DEF MigrationsTypeOK, Database, Stages
  <2>1. [proc[p] EXCEPT !.pc = "begin", !.last = database.version] \in Process
    BY Zenon, <1>0, <2>0, EveryProcess DEF Start, Database
  <2>2. proc' = [proc EXCEPT ![p] = [proc[p] EXCEPT !.pc = "begin", !.last = database.version]]
    BY <1>1 DEF Start, Goto
  <2> QED
    BY <1>1, <2>1, <2>2 DEF Start, disk, history
<1>2. ASSUME NEW p \in Processes, Begin(p) PROVE MigrationsTypeOK'
  <2>0. proc[p].last + 1 \in Int
        /\ (IF proc[p].last = -1 THEN "create" ELSE Step(proc[p].last + 1)) \in Stages
    BY <1>2, <1>0, StepIs, NIsNat DEF Begin, StageInv, Process, Stages
  <2>1. [proc[p] EXCEPT !.m = proc[p].last + 1,
            !.pc = IF proc[p].last = -1 THEN "create" ELSE Step(proc[p].last + 1)] \in Process
    BY Zenon, <1>0, <2>0, EveryProcess DEF Begin
  <2>2. proc' = [proc EXCEPT ![p] = [proc[p] EXCEPT !.m = proc[p].last + 1,
            !.pc = IF proc[p].last = -1 THEN "create" ELSE Step(proc[p].last + 1)]]
    BY <1>2 DEF Begin, Goto
  <2> QED
    BY <1>2, <2>1, <2>2 DEF Begin, disk, history, Transaction
<1>3. ASSUME NEW p \in Processes, CreateSchema(p) PROVE MigrationsTypeOK'
  <2>1. [proc[p] EXCEPT !.pc = "commit"] \in Process
    BY Zenon, <1>0, <1>s, AtStage
  <2>2. proc' = [proc EXCEPT ![p] = [proc[p] EXCEPT !.pc = "commit"]]
    BY <1>3 DEF CreateSchema, Goto
  <2>4. tx' \in [Processes -> Transaction \cup {None}]
    BY <1>3, Writers, WriteIsThere
  <2> QED
    BY <1>3, <2>1, <2>2, <2>4 DEF CreateSchema, disk, history
<1>4. ASSUME NEW p \in Processes, Alter(p) PROVE MigrationsTypeOK'
  <2>1. [proc[p] EXCEPT !.pc = "record"] \in Process
    BY Zenon, <1>0, <1>s, AtStage
  <2>2. proc' = [proc EXCEPT ![p] = [proc[p] EXCEPT !.pc = "record"]]
    BY <1>4 DEF Alter, Goto
  <2>4. tx' \in [Processes -> Transaction \cup {None}]
    BY <1>4, Writers, WriteIsThere
  <2> QED
    BY Zenon, <1>4, <2>1, <2>2, <2>4 DEF Alter, disk, history
<1>5. ASSUME NEW p \in Processes, RewriteRows(p) PROVE MigrationsTypeOK'
  <2>1. [proc[p] EXCEPT !.pc = "record"] \in Process
    BY Zenon, <1>0, <1>s, AtStage
  <2>2. proc' = [proc EXCEPT ![p] = [proc[p] EXCEPT !.pc = "record"]]
    BY <1>5 DEF RewriteRows, Goto
  <2>4. tx' \in [Processes -> Transaction \cup {None}]
    BY <1>5, Writers, WriteIsThere
  <2> QED
    BY Zenon, <1>5, <2>1, <2>2, <2>4 DEF RewriteRows, disk, history
<1>6. ASSUME NEW p \in Processes, Record(p) PROVE MigrationsTypeOK'
  <2>0. Step(proc[p].m + 1) \in Stages
    BY <1>6, StepIs, NIsNat DEF Record, StageInv, Applying, Stages
  <2>1. [proc[p] EXCEPT !.m = @ + 1, !.pc = Step(proc[p].m + 1)] \in Process
    BY Zenon, <1>0, <2>0, NextProcess DEF Record
  <2>2. proc' = [proc EXCEPT ![p] = [proc[p] EXCEPT !.m = @ + 1, !.pc = Step(proc[p].m + 1)]]
    BY <1>6 DEF Record, Goto
  <2>4. tx' \in [Processes -> Transaction \cup {None}]
    BY <1>6, Writers, WriteIsThere
  <2> QED
    BY ZenonT(60), <1>6, <2>1, <2>2, <2>4 DEF Record, disk, history
<1>7. ASSUME NEW p \in Processes, ReadRows(p) PROVE MigrationsTypeOK'
  <2>1. [proc[p] EXCEPT !.pc = IF proc[p].pc = "rows" THEN "rewrite" ELSE "draw"] \in Process
    BY Zenon, <1>0, <1>s, AtStage
  <2>2. proc' = [proc EXCEPT ![p] = [proc[p] EXCEPT !.pc = IF proc[p].pc = "rows" THEN "rewrite" ELSE "draw"]]
    BY <1>7 DEF ReadRows, Goto
  <2>3. tx' \in [Processes -> Transaction \cup {None}]
    BY <1>7, ReadRowsIs
  <2> QED
    BY <1>7, <2>1, <2>2, <2>3 DEF ReadRows, disk, history
<1>8. ASSUME NEW p \in Processes, Commit(p) PROVE MigrationsTypeOK'
  <2>1. [proc[p] EXCEPT !.pc = "up", !.moved = FALSE] \in Process
    BY Zenon, <1>0, <1>s, AtStage
  <2>2. proc' = [proc EXCEPT ![p] = [proc[p] EXCEPT !.pc = "up", !.moved = FALSE]]
    BY <1>8 DEF Commit, Goto
  <2>3. Seen(p) \in Database
    BY <1>8, SeenTyped DEF Commit, StageInv, Waiting
  <2> QED
    BY <1>8, <2>1, <2>2, <2>3 DEF Commit, disk, history
<1>9. ASSUME NEW p \in Processes, Walk(p) PROVE MigrationsTypeOK'
  <2>0. \A b \in Bookmarks : There(b) => cur[b].draw \in Nat
    BY DEF There, Folder, Archive, MigrationsTypeOK
  <2> DEFINE there == {b \in Bookmarks : There(b)}
             names == [b \in Bookmarks |-> IF There(b) THEN cur[b].draw ELSE None]
  <2>3. there \in SUBSET Bookmarks /\ names \in [Bookmarks -> Nat \cup {None}]
    BY <2>0
  <2>2. proc' = [proc EXCEPT ![p] = [proc[p] EXCEPT !.pc = "walk", !.mine = {}, !.bad = FALSE,
                                        !.todo = there, !.names = names]]
    BY Zenon, <1>9 DEF Walk, Goto
  <2> HIDE DEF there, names
  <2>1. [proc[p] EXCEPT !.pc = "walk", !.mine = {}, !.bad = FALSE, !.todo = there, !.names = names]
           \in Process
    BY Zenon, <1>0, <2>3, WalkingProcess
  <2>7. proc' \in [Processes -> Process]
    BY <2>1, <2>2
  <2>8. UNCHANGED <<dialect, database, drawn, disk, tx, history>>
    BY Zenon, <1>9 DEF Walk
  <2> QED
    BY <2>7, <2>8 DEF disk, history
<1>10. ASSUME NEW p \in Processes, CloseTemp(p) PROVE MigrationsTypeOK'
  <2>1. [proc[p] EXCEPT !.pc = "walk", !.out = None] \in Process
    BY Zenon, <1>0, <1>s, AtStage
  <2>2. proc' = [proc EXCEPT ![p] = [proc[p] EXCEPT !.pc = "walk", !.out = None]]
    BY <1>10 DEF CloseTemp, Goto
  <2> QED
    BY ZenonT(60), <1>10, <2>1, <2>2 DEF CloseTemp, disk, history
<1>11. ASSUME NEW p \in Processes, WriteFails(p) PROVE MigrationsTypeOK'
  <2>1. [proc[p] EXCEPT !.pc = "walk", !.out = None, !.bad = TRUE] \in Process
    BY Zenon, <1>0, <1>s, AtStage
  <2>2. proc' = [proc EXCEPT ![p] = [proc[p] EXCEPT !.pc = "walk", !.out = None, !.bad = TRUE]]
    BY <1>11 DEF WriteFails, Goto
  <2> QED
    BY <1>11, <2>1, <2>2 DEF WriteFails, disk, history
<1>12. ASSUME NEW p \in Processes, EndWalk(p) PROVE MigrationsTypeOK'
  <2>1. [proc[p] EXCEPT !.pc = IF proc[p].bad THEN "remove" ELSE "rename", !.todo = proc[p].mine] \in Process
    BY Zenon, <1>0, WalkedProcess
  <2>2. proc' = [proc EXCEPT ![p] = [proc[p] EXCEPT !.pc = IF proc[p].bad THEN "remove" ELSE "rename", !.todo = proc[p].mine]]
    BY Zenon, <1>12 DEF EndWalk, Goto
  <2> QED
    BY <1>12, <2>1, <2>2 DEF EndWalk, disk, history
<1>13. ASSUME NEW p \in Processes, EndRename(p) PROVE MigrationsTypeOK'
  <2>1. [proc[p] EXCEPT !.pc = "record"] \in Process
    BY Zenon, <1>0, <1>s, AtStage
  <2>2. proc' = [proc EXCEPT ![p] = [proc[p] EXCEPT !.pc = "record"]]
    BY <1>13 DEF EndRename, Goto
  <2> QED
    BY <1>13, <2>1, <2>2 DEF EndRename, disk, history
<1>14. ASSUME NEW p \in Processes, NEW b \in Bookmarks, OpenTemp(p, b)
      PROVE  MigrationsTypeOK'
  <2>1. PICK f \in Files :
           /\ temp' = [temp EXCEPT ![b] = [draw |-> proc[p].names[b], file |-> f]]
           /\ data' \in [Files -> {"whole", "partial", "mixed"}]
           /\ proc' = [proc EXCEPT ![p] = [proc[p] EXCEPT !.pc = "write", !.out = f,
                                              !.todo = @ \ {b}, !.mine = @ \cup {b}]]
    <3>1. PICK f \in Files :
             f = IF HasTemp(p, b) THEN temp[b].file ELSE CHOOSE g \in Spare : g \notin Used
      <4>1. CASE HasTemp(p, b)
        BY <1>14, <4>1 DEF HasTemp, Folder, Archive
      <4>2. CASE ~HasTemp(p, b)
        BY Zenon, <1>14, <4>2 DEF OpenTemp, Files
      <4> QED
        BY <4>1, <4>2
    <3> QED
      BY Zenon, <1>14, <3>1 DEF OpenTemp
  <2>2. proc[p].names[b] \in Nat
    BY Zenon, <1>14 DEF OpenTemp, There, Folder, Archive
  <2>3. [draw |-> proc[p].names[b], file |-> f] = [draw |-> proc[p].names[b], file |-> f]
    OBVIOUS
  <2>4. temp' \in Folder
    BY <2>1, <2>2 DEF Folder, Archive
  <2>5. proc' \in [Processes -> Process]
    <3>1. [proc[p] EXCEPT !.pc = "write", !.out = f, !.todo = @ \ {b},
                          !.mine = @ \cup {b}] \in Process
      BY Zenon, <1>0, WritingProcess
    <3> QED
      BY <2>1, <3>1
  <2> QED
    BY Zenon, <1>14, <2>1, <2>4, <2>5 DEF OpenTemp
<1>15. ASSUME NEW p \in Processes, NEW b \in Bookmarks, Skip(p, b) PROVE MigrationsTypeOK'
  <2>1. [proc[p] EXCEPT !.todo = @ \ {b}] \in Process
    BY Zenon, <1>0, WithLess
  <2>2. proc' = [proc EXCEPT ![p] = [proc[p] EXCEPT !.todo = @ \ {b}]]
    BY <1>15 DEF Skip, Goto
  <2> QED
    BY <1>15, <2>1, <2>2 DEF Skip, disk, history
<1>16. ASSUME NEW p \in Processes, NEW b \in Bookmarks, BadArchive(p, b) PROVE MigrationsTypeOK'
  <2>1. [proc[p] EXCEPT !.todo = @ \ {b}, !.bad = TRUE] \in Process
    BY Zenon, <1>0, WithLess
  <2>2. proc' = [proc EXCEPT ![p] = [proc[p] EXCEPT !.todo = @ \ {b}, !.bad = TRUE]]
    BY <1>16 DEF BadArchive, Goto
  <2> QED
    BY <1>16, <2>1, <2>2 DEF BadArchive, disk, history
<1>17. ASSUME NEW p \in Processes, NEW b \in Bookmarks, RemoveTemp(p, b) PROVE MigrationsTypeOK'
  <2>1. [proc[p] EXCEPT !.todo = @ \ {b}] \in Process
    BY Zenon, <1>0, WithLess
  <2>2. proc' = [proc EXCEPT ![p] = [proc[p] EXCEPT !.todo = @ \ {b}]]
    BY <1>17 DEF RemoveTemp, Goto
  <2> QED
    BY <1>17, <2>1, <2>2 DEF RemoveTemp, history, Folder
<1>18. ASSUME NEW p \in Processes, NEW b \in Bookmarks, RenameTemp(p, b) PROVE MigrationsTypeOK'
  <2>1. [proc[p] EXCEPT !.todo = @ \ {b}] \in Process
    BY Zenon, <1>0, WithLess
  <2>2. proc' = [proc EXCEPT ![p] = [proc[p] EXCEPT !.todo = @ \ {b}]]
    BY <1>18 DEF RenameTemp, Goto
  <2> QED
    BY <1>18, <2>1, <2>2 DEF RenameTemp, history, Folder, HasTemp
<1>19. ASSUME NEW p \in Processes, NEW b \in Bookmarks, Link(p, b) PROVE MigrationsTypeOK'
  <2>1. [proc[p] EXCEPT !.todo = @ \ {b}] \in Process
    BY Zenon, <1>0, WithLess
  <2>2. proc' = [proc EXCEPT ![p] = [proc[p] EXCEPT !.todo = @ \ {b}]]
    BY <1>19 DEF Link, Goto
  <2>3. new' \in Folder
    <3>1. tx[p].view.draw \in Nat /\ new \in Folder
      BY <1>19 DEF Link, StageInv, WriterInv, NextInv, MovedInv, MovedOf, Pending, Database
    <3>2. There(b) => [draw |-> tx[p].view.draw, file |-> cur[b].file] \in Archive
      BY <3>1 DEF There, Folder, Archive
    <3> QED
      BY <1>19, <3>1, <3>2 DEF Link, Folder
  <2> QED
    BY <1>19, <2>1, <2>2, <2>3 DEF Link, history
<1>20. ASSUME NEW p \in Processes, DrawUUIDs(p) PROVE MigrationsTypeOK'
  <2>0. Seen(p).draw \in Nat /\ Seen(p).rows \in SUBSET Bookmarks
    BY <1>20, SeenTyped DEF Database, DrawUUIDs, Waiting
  <2>1. [proc[p] EXCEPT !.pc = "mkdir", !.old = Seen(p).draw, !.todo = Seen(p).rows] \in Process
    BY Zenon, <1>0, <2>0, NamingProcess
  <2>2. proc' = [proc EXCEPT ![p] = [proc[p] EXCEPT !.pc = "mkdir", !.old = Seen(p).draw, !.todo = Seen(p).rows]]
    BY <1>20 DEF DrawUUIDs, Goto
  <2>4. tx' \in [Processes -> Transaction \cup {None}]
    BY <1>20, Writers, WriteIsThere
  <2>7. proc' \in [Processes -> Process]
    BY <2>1, <2>2
  <2>8. UNCHANGED <<dialect, database, disk, history>> /\ drawn' = drawn + 1
    BY <1>20 DEF DrawUUIDs
  <2> QED
    BY <2>7, <2>8, <2>4 DEF disk, history
<1>21. ASSUME NEW p \in Processes, MakeFolder(p) PROVE MigrationsTypeOK'
  <2>1. [proc[p] EXCEPT !.pc = "link"] \in Process
    BY Zenon, <1>0, <1>s, AtStage
  <2>2. proc' = [proc EXCEPT ![p] = [proc[p] EXCEPT !.pc = "link"]]
    BY <1>21 DEF MakeFolder, Goto
  <2> QED
    BY <1>21, <2>1, <2>2 DEF MakeFolder, history, Folder
<1>22. ASSUME NEW p \in Processes, RemoveFolder(p) PROVE MigrationsTypeOK'
  <2>1. [proc[p] EXCEPT !.pc = "switch", !.moved = TRUE] \in Process
    BY Zenon, <1>0, <1>s, AtStage
  <2>2. proc' = [proc EXCEPT ![p] = [proc[p] EXCEPT !.pc = "switch", !.moved = TRUE]]
    BY Zenon, <1>22 DEF RemoveFolder, Goto
  <2> QED
    BY <1>22, <2>1, <2>2 DEF RemoveFolder, history, Folder
<1>23. ASSUME NEW p \in Processes, RenameFolder(p) PROVE MigrationsTypeOK'
  <2>1. [proc[p] EXCEPT !.pc = "record"] \in Process
    BY Zenon, <1>0, <1>s, AtStage
  <2>2. proc' = [proc EXCEPT ![p] = [proc[p] EXCEPT !.pc = "record"]]
    BY <1>23 DEF RenameFolder, Goto
  <2> QED
    BY <1>23, <2>1, <2>2 DEF RenameFolder, history
<1>24. ASSUME NEW p \in Processes, AfterRemoval(p) PROVE MigrationsTypeOK'
  BY <1>24, IdleTyped DEF AfterRemoval, disk, Ends, history
<1>25. ASSUME NEW p \in Processes, Conflict(p) PROVE MigrationsTypeOK'
  BY <1>25, IdleTyped DEF Conflict, disk, Ends, history
<1>26. ASSUME NEW p \in Processes, Fail(p) PROVE MigrationsTypeOK'
  BY <1>26, IdleTyped DEF Fail, disk, Ends, history
<1>27. ASSUME NEW p \in Processes, Crash(p) PROVE MigrationsTypeOK'
  BY <1>27, IdleTyped DEF Crash, disk, Ends, history
<1>28. ASSUME NEW p \in Processes, LinkFails(p) PROVE MigrationsTypeOK'
  BY <1>28, IdleTyped DEF LinkFails, disk, Ends, history
<1>29. ASSUME NEW p \in Processes, Stop(p) PROVE MigrationsTypeOK'
  BY <1>29, IdleTyped DEF Stop, disk, history
<1>30. CASE UNCHANGED vars
  BY <1>30 DEF vars, disk, history
<1> QED
  BY <1>1, <1>2, <1>3, <1>4, <1>5, <1>6, <1>7, <1>8, <1>9, <1>10, <1>11, <1>12, <1>13,
     <1>14, <1>15, <1>16, <1>17, <1>18, <1>19, <1>20, <1>21, <1>22, <1>23, <1>24, <1>25,
     <1>26, <1>27, <1>28, <1>29, <1>30 DEF Next

-----------------------------------------------------------------------------
(* The stage of a process.                                                 *)

\* The next stage is that of the next migration, or the commit.
LEMMA StepIsKind ==
  ASSUME NEW m \in 1 .. N + 1
  PROVE  \/ m \in 1 .. N /\ Step(m) = Kinds[m]
                /\ Kinds[m] \in {"archives", "uuids", "rows", "schema"}
         \/ m \notin 1 .. N /\ Step(m) = "commit"
<1>1. m \in 1 .. N => Kinds[m] \in {"archives", "uuids", "rows", "schema"}
  BY SMTT(30), MigrationsAssumption DEF N
<1> QED
  BY <1>1, NIsNat DEF Step

\* StageInv is kept.
LEMMA StageStep ==
  MigrationsTypeOK /\ StageInv /\ WriterInv /\ [Next]_vars => StageInv'
<1> SUFFICES ASSUME MigrationsTypeOK, StageInv, WriterInv, [Next]_vars PROVE StageInv'
  OBVIOUS
<1>a. ASSUME NEW p \in Processes,
             CreateSchema(p) \/ Alter(p) \/ RewriteRows(p) \/ Record(p) \/ DrawUUIDs(p)
      PROVE  tx'[p] # None /\ \A q \in Processes \ {p} : tx'[q] = tx[q]
  <2>1. PICK d \in Database : Write(p, d)
    BY <1>a, Writers
  <2> QED
    BY <2>1, WriteIsThere DEF MigrationsTypeOK
<1>b. ASSUME NEW p \in Processes, Begin(p)
      PROVE  tx'[p] # None /\ \A q \in Processes \ {p} : tx'[q] = tx[q]
  BY <1>b, BeginIs
<1>c. ASSUME NEW p \in Processes, ReadRows(p)
      PROVE  tx[p] # None /\ tx'[p] # None /\ \A q \in Processes \ {p} : tx'[q] = tx[q]
  BY <1>c, ReadRowsIs
<1>e. ASSUME NEW p \in Processes, DrawUUIDs(p)
      PROVE  /\ proc[p].pc = "draw" /\ proc'[p].pc = "mkdir" /\ proc'[p].m = proc[p].m
             /\ \A q \in Processes \ {p} : proc'[q] = proc[q]
  BY <1>e, DrawUUIDsIs
<1>d. ASSUME NEW p \in Processes, Walk(p) \/ \E b \in Bookmarks : OpenTemp(p, b)
      PROVE  /\ \/ proc[p].pc = "archives" /\ proc'[p].pc = "walk"
                \/ proc[p].pc = "walk" /\ proc'[p].pc = "write"
             /\ proc'[p].m = proc[p].m /\ tx' = tx
             /\ \A q \in Processes \ {p} : proc'[q] = proc[q]
  <2>1. tx' = tx
    BY Zenon, <1>d DEF Walk, OpenTemp
  <2>2. CASE Walk(p)
    BY <2>1, <2>2, WalkIs
  <2>3. CASE \E b \in Bookmarks : OpenTemp(p, b)
    <3>1. PICK b \in Bookmarks : OpenTemp(p, b)
      BY <2>3
    <3> QED
      BY <2>1, <3>1, OpenTempIs
  <2> QED
    BY <1>d, <2>2, <2>3
<1> USE DEF MigrationsTypeOK, StageInv, Waiting, Naming, Rewriting, Applying, Stages
<1>1. ASSUME NEW p \in Processes, Start(p) PROVE StageInv'
  <2>1. database.version \in -1 .. N
    BY DEF Database
  <2> QED
    BY <1>1, <2>1 DEF Start
<1>2. ASSUME NEW p \in Processes, Begin(p) PROVE StageInv'
  <2>1. proc[p].last = -1 \/ proc[p].last + 1 \in 1 .. N + 1
    BY <1>2, NIsNat DEF Begin
  <2>2. /\ proc'[p].pc = IF proc[p].last = -1 THEN "create" ELSE Step(proc[p].last + 1)
        /\ proc'[p].m = proc[p].last + 1
        /\ \A q \in Processes \ {p} : proc'[q] = proc[q]
    BY <1>2 DEF Begin, Process
  <2> QED
    BY <1>2, <1>b, <2>1, <2>2, StepIsKind, NIsNat
<1>3. ASSUME NEW p \in Processes, CreateSchema(p) PROVE StageInv'
  <2>1. proc[p].pc = "create" /\ proc' = [proc EXCEPT ![p].pc = "commit"]
    BY <1>3 DEF CreateSchema, Goto
  <2> QED
    BY <1>3, <1>a, <2>1
<1>4. ASSUME NEW p \in Processes, Alter(p) PROVE StageInv'
  <2>1. proc[p].pc = "schema" /\ proc' = [proc EXCEPT ![p].pc = "record"]
    BY <1>4 DEF Alter, Goto
  <2> QED
    BY <1>4, <1>a, <2>1
<1>5. ASSUME NEW p \in Processes, RewriteRows(p) PROVE StageInv'
  <2>1. proc[p].pc = "rewrite" /\ proc' = [proc EXCEPT ![p].pc = "record"]
    BY <1>5 DEF RewriteRows, Goto
  <2> QED
    BY <1>5, <1>a, <2>1
<1>6. ASSUME NEW p \in Processes, Record(p) PROVE StageInv'
  <2>1. proc[p].m + 1 \in 1 .. N + 1
    BY <1>6, NIsNat DEF Record
  <2>2. /\ proc'[p].pc = Step(proc[p].m + 1) /\ proc'[p].m = proc[p].m + 1
        /\ \A q \in Processes \ {p} : proc'[q] = proc[q]
    BY <1>6 DEF Record, Process
  <2> QED
    BY <1>6, <1>a, <2>1, <2>2, StepIsKind, NIsNat
<1>7. ASSUME NEW p \in Processes, ReadRows(p) PROVE StageInv'
  <2>1. /\ \/ proc[p].pc = "rows" /\ proc'[p].pc = "rewrite"
           \/ proc[p].pc = "uuids" /\ proc'[p].pc = "draw"
        /\ proc'[p].m = proc[p].m /\ \A q \in Processes \ {p} : proc'[q] = proc[q]
    BY <1>7 DEF ReadRows, Goto, Process
  <2>2. tx[p] # None /\ tx'[p] # None /\ \A q \in Processes \ {p} : tx'[q] = tx[q]
    BY <1>7, <1>c
  <2> QED
    BY <2>1, <2>2
<1>8. ASSUME NEW p \in Processes, Commit(p)
      PROVE  StageInv'
  BY <1>8 DEF Commit, disk, history, Seen
<1>9. ASSUME NEW p \in Processes, Walk(p) PROVE StageInv'
  BY <1>9, <1>d
<1>10. ASSUME NEW p \in Processes, CloseTemp(p)
      PROVE  StageInv'
  BY <1>10 DEF CloseTemp, disk, history, There
<1>11. ASSUME NEW p \in Processes, WriteFails(p)
      PROVE  StageInv'
  BY <1>11 DEF WriteFails, disk, history, There
<1>12. ASSUME NEW p \in Processes, EndWalk(p)
      PROVE  StageInv'
  BY <1>12 DEF EndWalk, disk, history, There
<1>13. ASSUME NEW p \in Processes, EndRename(p)
      PROVE  StageInv'
  BY <1>13 DEF EndRename, disk, history, Goto
<1>14. ASSUME NEW p \in Processes, NEW b \in Bookmarks, OpenTemp(p, b)
      PROVE  StageInv'
  BY <1>14, <1>d
<1>15. ASSUME NEW p \in Processes, NEW b \in Bookmarks, Skip(p, b)
      PROVE  StageInv'
  BY <1>15 DEF Skip, disk, history, There
<1>16. ASSUME NEW p \in Processes, NEW b \in Bookmarks, BadArchive(p, b)
      PROVE  StageInv'
  BY <1>16 DEF BadArchive, disk, history, There
<1>17. ASSUME NEW p \in Processes, NEW b \in Bookmarks, RemoveTemp(p, b)
      PROVE  StageInv'
  BY <1>17 DEF RemoveTemp, history, HasTemp
<1>18. ASSUME NEW p \in Processes, NEW b \in Bookmarks, RenameTemp(p, b)
      PROVE  StageInv'
  BY <1>18 DEF RenameTemp, history, HasTemp
<1>19. ASSUME NEW p \in Processes, NEW b \in Bookmarks, Link(p, b)
      PROVE  StageInv'
  BY <1>19 DEF Link, history, There
<1>20. ASSUME NEW p \in Processes, DrawUUIDs(p) PROVE StageInv'
  <2>1. /\ proc[p].pc = "draw" /\ proc'[p].pc = "mkdir" /\ proc'[p].m = proc[p].m
        /\ \A q \in Processes \ {p} : proc'[q] = proc[q]
    BY <1>20, <1>e
  <2> QED
    BY <1>20, <1>a, <2>1
<1>21. ASSUME NEW p \in Processes, MakeFolder(p)
      PROVE  StageInv'
  BY <1>21 DEF MakeFolder, history, Goto
<1>22. ASSUME NEW p \in Processes, RemoveFolder(p)
      PROVE  StageInv'
  BY <1>22 DEF RemoveFolder, history, Goto
<1>23. ASSUME NEW p \in Processes, RenameFolder(p)
      PROVE  StageInv'
  BY <1>23 DEF RenameFolder, history, Goto
<1>24. ASSUME NEW p \in Processes, AfterRemoval(p) \/ Conflict(p) \/ Fail(p)
     \/ Crash(p) \/ LinkFails(p)
      PROVE  StageInv'
  BY <1>24 DEF AfterRemoval, Conflict, Fail, Crash, LinkFails, disk, Ends, Idle
<1>25. ASSUME NEW p \in Processes, Stop(p)
      PROVE  StageInv'
  BY <1>25 DEF Stop, disk, history, Idle
<1>26. CASE UNCHANGED vars
  BY <1>26 DEF vars, disk, history
<1> QED
  BY ZenonT(60), <1>1, <1>2, <1>3, <1>4, <1>5, <1>6, <1>7, <1>8, <1>9, <1>10, <1>11, <1>12, <1>13,
     <1>14, <1>15, <1>16, <1>17, <1>18, <1>19, <1>20, <1>21, <1>22, <1>23, <1>24, <1>25,
     <1>26 DEF Next

-----------------------------------------------------------------------------
(* Each migration once.                                                    *)
-----------------------------------------------------------------------------
(* Each migration once.                                                    *)

\* One more migration.
LEMMA UptoNext ==
  ASSUME NEW m \in 1 .. N
  PROVE  /\ Kinds[m] # "archives" => [Upto(m - 1) EXCEPT ![m] = @ + 1] = Upto(m)
         /\ Kinds[m] = "archives" => Upto(m - 1) = Upto(m)
<1>1. ASSUME Kinds[m] # "archives" PROVE [Upto(m - 1) EXCEPT ![m] = @ + 1] = Upto(m)
  <2>1. \A k \in 1 .. N : [Upto(m - 1) EXCEPT ![m] = @ + 1][k] = Upto(m)[k]
    BY <1>1, NIsNat DEF Upto
  <2> QED
    BY <2>1 DEF Upto
<1>2. ASSUME Kinds[m] = "archives" PROVE Upto(m - 1) = Upto(m)
  <2>1. \A k \in 1 .. N : (k <= m - 1 /\ Kinds[k] # "archives") <=> (k <= m /\ Kinds[k] # "archives")
    BY <1>2, NIsNat
  <2> QED
    BY <2>1 DEF Upto
<1> QED
  BY <1>1, <1>2

\* A step of a migration that touches neither the database nor the transactions.
LEMMA QuietStep ==
  ASSUME WriterInv, NextInv, AppliedOnce, NEW p \in Processes,
         database' = database, tx' = tx, tx[p] # None,
         proc'[p].m = proc[p].m, proc'[p].pc # "begin", Pending(p)' <=> Pending(p),
         \A q \in Processes \ {p} : proc'[q] = proc[q]
  PROVE  WriterInv' /\ NextInv' /\ AppliedOnce'
<1>1. \A q \in Processes : (Pending(q)' <=> Pending(q)) /\ proc'[q].m = proc[q].m
  BY DEF Pending
<1>2. \A q \in Processes : (Wrote(q)' <=> Wrote(q)) /\ (tx[q] # None => Seen(q)' = Seen(q))
  BY DEF Wrote, Seen
<1>3. WriterInv'
  BY <1>1, <1>2 DEF WriterInv
<1>4. NextInv'
  BY <1>1, <1>2 DEF NextInv
<1>5. AppliedOnce'
  BY DEF AppliedOnce, Upto
<1> QED
  BY <1>3, <1>4, <1>5

\* A transaction that is rolled back.
LEMMA EndsStep ==
  ASSUME MigrationsTypeOK, WriterInv, NextInv, AppliedOnce, NEW p \in Processes,
         database' = database, tx'[p] = None, \A q \in Processes \ {p} : tx'[q] = tx[q],
         proc'[p].pc = "off", \A q \in Processes \ {p} : proc'[q] = proc[q]
  PROVE  WriterInv' /\ NextInv' /\ AppliedOnce'
<1>1. ~Pending(p)' /\ ~Wrote(p)'
  BY DEF Pending, Wrote
<1>2. \A q \in Processes \ {p} :
         (Pending(q)' <=> Pending(q)) /\ (Wrote(q)' <=> Wrote(q))
            /\ (tx[q] # None => Seen(q)' = Seen(q))
  BY DEF Pending, Wrote, Seen
<1>3. WriterInv'
  BY <1>1, <1>2 DEF WriterInv
<1>4. NextInv'
  BY <1>1, <1>2 DEF NextInv
<1>5. AppliedOnce'
  BY DEF AppliedOnce, Upto
<1> QED
  BY <1>3, <1>4, <1>5

\* The one writer writes.
LEMMA WriterStep ==
  ASSUME MigrationsTypeOK, WriterInv, NextInv, NEW p \in Processes, NEW d \in Database,
         tx[p] # None, Write(p, d), CanWrite(p), database' = database,
         d.rows = Seen(p).rows, d.version >= Seen(p).version,
         d.version >= proc'[p].m - 1, proc'[p].pc # "begin",
         d.times = IF Pending(p)' THEN [Upto(d.version) EXCEPT ![proc'[p].m] = @ + 1]
                   ELSE Upto(d.version),
         \A q \in Processes \ {p} : proc'[q] = proc[q]
  PROVE  WriterInv' /\ NextInv'
<1>1. /\ tx'[p] # None /\ tx'[p].wrote /\ tx'[p].view = d
      /\ \A q \in Processes \ {p} : tx'[q] = tx[q]
  BY WriteIsThere DEF MigrationsTypeOK
<1>2. \A q \in Processes \ {p} : ~Wrote(q)
  BY DEF CanWrite, Wrote, WriterInv
<1>3. Wrote(p)' /\ Seen(p)' = d
  BY <1>1 DEF Wrote, Seen
<1>4. \A q \in Processes \ {p} :
         ~Wrote(q)' /\ (Pending(q)' <=> Pending(q)) /\ (tx[q] # None => Seen(q)' = Seen(q))
  BY <1>1, <1>2 DEF Wrote, Pending, Seen
<1>5. Seen(p).rows = database.rows /\ Seen(p).version >= database.version
  <2>1. CASE Wrote(p)
    BY <2>1 DEF Seen, WriterInv, Wrote
  <2>2. CASE ~Wrote(p)
    <3>1. Seen(p) = database
      BY <2>2 DEF Seen, Wrote
    <3> QED
      BY <3>1, NIsNat DEF MigrationsTypeOK, Database
  <2> QED
    BY <2>1, <2>2
<1>6. /\ database.version \in Int /\ Seen(p).version \in Int /\ d.version \in Int
  <2>1. database \in Database /\ Seen(p) \in Database
    BY DEF Seen, WriterInv, Wrote, MigrationsTypeOK
  <2> QED
    BY <2>1, NIsNat DEF Database
<1>7. WriterInv'
  <2>1. tx'[p].view.version >= database'.version
    BY <1>1, <1>5, <1>6
  <2>2. Upto(d.version)' = Upto(d.version)
    BY DEF Upto
  <2> QED
    BY <1>1, <1>3, <1>4, <1>5, <2>1, <2>2 DEF WriterInv
<1>8. ASSUME NEW q \in Processes
      PROVE  /\ proc'[q].pc = "begin" => proc'[q].last <= database'.version
             /\ tx'[q] # None => Seen(q)'.version >= proc'[q].m - 1
             /\ Pending(q)' => Wrote(q)'
  <2>1. CASE q = p
    BY <1>3, <2>1
  <2>2. CASE q # p
    BY <1>1, <1>4, <2>2 DEF NextInv, Wrote, Pending
  <2> QED
    BY <2>1, <2>2
<1> QED
  BY <1>7, <1>8 DEF NextInv

\* What a process sees between two migrations has each migration once.
LEMMA SeenTimes ==
  ASSUME WriterInv, AppliedOnce, NEW p \in Processes, ~Pending(p), tx[p] # None
  PROVE  Seen(p).times = Upto(Seen(p).version)
  BY DEF WriterInv, AppliedOnce, Seen, Wrote

\* A step of a migration that neither changes rows nor records anything.
Quiet(p) ==
    /\ database' = database /\ tx' = tx
    /\ proc'[p].m = proc[p].m
    /\ \A q \in Processes \ {p} : proc'[q] = proc[q]
    /\ \/ /\ proc[p].pc \in {"archives", "walk", "write", "rename", "remove"}
          /\ proc'[p].pc \in {"walk", "write", "rename", "remove"}
       \/ proc[p].pc = "rename" /\ proc'[p].pc = "record"
       \/ /\ proc[p].pc \in {"mkdir", "link", "switch"}
          /\ proc'[p].pc \in {"link", "switch", "record"}

\* What Quiet leaves alone, for all that WriterInv says.
LEMMA QuietIs ==
  ASSUME StageInv, NEW p \in Processes, Quiet(p)
  PROVE  /\ database' = database /\ tx' = tx /\ tx[p] # None
         /\ proc'[p].m = proc[p].m /\ proc'[p].pc # "begin"
         /\ Pending(p)' <=> Pending(p)
         /\ \A q \in Processes \ {p} : proc'[q] = proc[q]
BY DEF Quiet, Pending, StageInv, Waiting, Naming, Rewriting

\* The steps on files that are quiet.
LEMMA QuietAction ==
  ASSUME MigrationsTypeOK, StageInv, NEW p \in Processes,
         \/ Walk(p) \/ CloseTemp(p) \/ WriteFails(p) \/ EndWalk(p) \/ EndRename(p)
         \/ \E b \in Bookmarks :
               \/ OpenTemp(p, b) \/ Skip(p, b) \/ BadArchive(p, b) \/ RemoveTemp(p, b)
               \/ RenameTemp(p, b) \/ Link(p, b)
         \/ MakeFolder(p) \/ RemoveFolder(p) \/ RenameFolder(p)
  PROVE  Quiet(p)
<1>1. CASE Walk(p)
  <2>1. database' = database /\ tx' = tx
    BY Zenon, <1>1 DEF Walk
  <2> QED
    BY <1>1, <2>1, WalkIs DEF Quiet
<1>2. ASSUME NEW b \in Bookmarks, OpenTemp(p, b) PROVE Quiet(p)
  <2>1. database' = database /\ tx' = tx
    BY Zenon, <1>2 DEF OpenTemp
  <2>2. /\ proc[p].pc = "walk" /\ proc'[p].pc = "write" /\ proc'[p].m = proc[p].m
        /\ \A q \in Processes \ {p} : proc'[q] = proc[q]
    BY <1>2, OpenTempIs
  <2> QED
    BY <2>1, <2>2 DEF Quiet
<1>4. CASE CloseTemp(p) \/ WriteFails(p)
  BY <1>4 DEF Quiet, CloseTemp, WriteFails, MigrationsTypeOK, Process
<1>5. ASSUME NEW b \in Bookmarks,
             Skip(p, b) \/ BadArchive(p, b) \/ RemoveTemp(p, b) \/ RenameTemp(p, b)
      PROVE  Quiet(p)
  BY <1>5 DEF Quiet, Skip, BadArchive, RemoveTemp, RenameTemp, disk, MigrationsTypeOK, Process
<1>6. ASSUME NEW b \in Bookmarks, Link(p, b) PROVE Quiet(p)
  BY <1>6 DEF Quiet, Link, disk, MigrationsTypeOK, Process
<1>7. CASE EndRename(p) \/ MakeFolder(p) \/ RenameFolder(p)
  BY <1>7 DEF Quiet, EndRename, MakeFolder, RenameFolder, Goto, MigrationsTypeOK, Process
<1>8. CASE EndWalk(p)
  <2>1. database' = database /\ tx' = tx
    BY <1>8 DEF EndWalk
  <2>2. /\ proc[p].pc = "walk" /\ proc'[p].pc \in {"remove", "rename"}
        /\ proc'[p].m = proc[p].m /\ \A q \in Processes \ {p} : proc'[q] = proc[q]
    BY <1>8, EndWalkIs
  <2> QED
    BY <2>1, <2>2 DEF Quiet
<1>9. CASE RemoveFolder(p)
  BY <1>9 DEF Quiet, RemoveFolder, MigrationsTypeOK, Process
<1> QED
  BY <1>1, <1>2, <1>4, <1>5, <1>6, <1>7, <1>8, <1>9

\* A migration is recorded once its change is made.
LEMMA RecordStep ==
  ASSUME MigrationsTypeOK, StageInv, WriterInv, NextInv, AppliedOnce,
         NEW p \in Processes, Record(p)
  PROVE  WriterInv' /\ NextInv'
<1>1. PICK d \in Database :
         /\ Write(p, d) /\ CanWrite(p) /\ d.rows = Seen(p).rows
         /\ d.version = proc[p].m /\ d.times = Seen(p).times
  BY Writers
<1>2. /\ proc[p].pc = "record" /\ proc[p].m \in 1 .. N /\ tx[p] # None
      /\ Seen(p).version < proc[p].m
  BY DEF Record, StageInv, Waiting, Applying, Stages
<1>3. Seen(p).version = proc[p].m - 1
  <2>1. Seen(p) \in Database
    BY <1>2, SeenTyped DEF Waiting
  <2>2. Seen(p).version \in Int /\ Seen(p).version >= proc[p].m - 1
    BY SMTT(30), <1>2, <2>1, NIsNat DEF Database, NextInv
  <2> QED
    BY <1>2, <2>2, NIsNat
<1>4. d.times = Upto(proc[p].m)
  <2>1. CASE Kinds[proc[p].m] = "archives"
    <3>1. ~Pending(p)
      BY <1>2, <2>1 DEF Pending
    <3> QED
      BY <1>1, <1>2, <1>3, <2>1, <3>1, SeenTimes, UptoNext
  <2>2. CASE Kinds[proc[p].m] # "archives"
    <3>1. Pending(p) /\ Wrote(p)
      BY <1>2, <2>2 DEF Pending, NextInv
    <3>2. d.times = [Upto(Seen(p).version) EXCEPT ![proc[p].m] = @ + 1]
      BY <1>1, <3>1 DEF WriterInv, Seen, Wrote
    <3> QED
      BY <1>2, <1>3, <2>2, <3>2, UptoNext
  <2> QED
    BY <2>1, <2>2
<1>5. /\ proc'[p].m = proc[p].m + 1 /\ proc'[p].pc = Step(proc[p].m + 1)
      /\ \A q \in Processes \ {p} : proc'[q] = proc[q]
  BY DEF Record, MigrationsTypeOK, Process
<1>6. proc'[p].pc # "begin" /\ ~Pending(p)'
  <2>1. proc[p].m + 1 \in 1 .. N + 1
    BY <1>2, NIsNat
  <2> QED
    BY <1>5, <2>1, StepIsKind DEF Pending
<1>7. d.version >= Seen(p).version /\ d.version >= proc'[p].m - 1 /\ database' = database
  BY <1>1, <1>2, <1>3, <1>5 DEF Record
<1> QED
  BY <1>1, <1>2, <1>4, <1>5, <1>6, <1>7, WriterStep

\* A change that is yet to be recorded.
LEMMA ChangeStep ==
  ASSUME MigrationsTypeOK, StageInv, WriterInv, NextInv, AppliedOnce,
         NEW p \in Processes, Alter(p) \/ RewriteRows(p) \/ DrawUUIDs(p)
  PROVE  WriterInv' /\ NextInv'
<1>1. PICK d \in Database :
         /\ Write(p, d) /\ CanWrite(p) /\ d.rows = Seen(p).rows
         /\ d.version = Seen(p).version
         /\ d.times = [Seen(p).times EXCEPT ![proc[p].m] = @ + 1]
  BY Writers
<1>2. /\ proc[p].pc \in {"schema", "rewrite", "draw"}
      /\ proc'[p].pc \in {"record", "mkdir"} /\ proc'[p].m = proc[p].m
      /\ Pending(p)' /\ \A q \in Processes \ {p} : proc'[q] = proc[q]
  <2>1. CASE Alter(p) \/ RewriteRows(p)
    <3>1. /\ proc[p].pc \in {"schema", "rewrite"} /\ proc' = [proc EXCEPT ![p].pc = "record"]
      BY <2>1 DEF Alter, RewriteRows, Goto
    <3>2. /\ proc'[p].pc = "record" /\ proc'[p].m = proc[p].m
          /\ \A q \in Processes \ {p} : proc'[q] = proc[q]
      BY <3>1 DEF MigrationsTypeOK, Process
    <3>3. Kinds[proc[p].m] \in {"schema", "rows"}
      BY <3>1 DEF StageInv
    <3> QED
      BY <3>1, <3>2, <3>3 DEF Pending
  <2>2. CASE DrawUUIDs(p)
    BY <2>2, DrawUUIDsIs DEF Pending
  <2> QED
    BY <2>1, <2>2
<1>3. tx[p] # None /\ ~Pending(p) /\ database' = database
  BY <1>2 DEF StageInv, Waiting, Pending, Alter, RewriteRows, DrawUUIDs
<1>4. d.times = [Upto(d.version) EXCEPT ![proc[p].m] = @ + 1]
  BY <1>1, <1>3, SeenTimes
<1>5. d.version >= Seen(p).version /\ d.version >= proc'[p].m - 1
  BY <1>1, <1>2, <1>3, NIsNat DEF NextInv, Database
<1> QED
  BY <1>1, <1>2, <1>3, <1>4, <1>5, WriterStep

\* A new database has the schema of all migrations at once.
LEMMA CreateSchemaStep ==
  ASSUME MigrationsTypeOK, StageInv, WriterInv, NextInv, AppliedOnce,
         NEW p \in Processes, CreateSchema(p)
  PROVE  WriterInv' /\ NextInv'
<1>1. PICK d \in Database :
         /\ Write(p, d) /\ CanWrite(p) /\ d.rows = Seen(p).rows
         /\ d.version = N /\ d.times = Upto(N)
  BY Writers
<1>2. proc[p].pc = "create" /\ proc' = [proc EXCEPT ![p].pc = "commit"] /\ database' = database
  BY DEF CreateSchema, Goto
<1>3. /\ proc'[p].pc = "commit" /\ proc'[p].m = proc[p].m /\ ~Pending(p)'
      /\ \A q \in Processes \ {p} : proc'[q] = proc[q]
  BY <1>2 DEF MigrationsTypeOK, Process, Pending
<1>4. tx[p] # None /\ Seen(p) \in Database
  BY <1>2, SeenTyped DEF StageInv, Waiting
<1>5. d.version >= Seen(p).version /\ d.version >= proc'[p].m - 1
  <2>1. Seen(p).version \in -1 .. N /\ Seen(p).version >= proc[p].m - 1 /\ proc[p].m \in Int
    BY <1>4 DEF Database, NextInv, MigrationsTypeOK, Process
  <2> QED
    BY <1>1, <1>3, <2>1, NIsNat
<1> QED
  BY <1>1, <1>2, <1>3, <1>4, <1>5, WriterStep

\* What is committed has each migration once.
LEMMA CommitStep ==
  ASSUME MigrationsTypeOK, StageInv, WriterInv, NextInv, AppliedOnce,
         NEW p \in Processes, Commit(p)
  PROVE  WriterInv' /\ NextInv' /\ AppliedOnce'
<1>1. /\ proc[p].pc = "commit" /\ proc'[p].pc = "up" /\ proc'[p].m = proc[p].m
      /\ \A q \in Processes \ {p} : proc'[q] = proc[q]
  BY DEF Commit, MigrationsTypeOK, Process
<1>2. /\ database' = Seen(p) /\ tx'[p] = None
      /\ \A q \in Processes \ {p} : tx'[q] = tx[q]
  BY DEF Commit, MigrationsTypeOK
<1>3. tx[p] # None /\ ~Pending(p) /\ ~Pending(p)' /\ ~Wrote(p)' /\ Seen(p) \in Database
  BY <1>1, <1>2, SeenTyped DEF StageInv, Waiting, Pending, Wrote
<1>4. AppliedOnce'
  <2>1. Seen(p).times = Upto(Seen(p).version)
    BY <1>3, SeenTimes
  <2>2. Upto(database.version)' = Upto(database'.version)
    BY DEF Upto
  <2> QED
    BY <1>2, <2>1, <2>2 DEF AppliedOnce
<1>5. \A q \in Processes \ {p} : (Wrote(q)' <=> Wrote(q)) /\ (Pending(q)' <=> Pending(q))
  BY <1>1, <1>2 DEF Wrote, Pending
<1>6. CASE Wrote(p)
  <2>1. \A q \in Processes : ~Wrote(q)'
    BY <1>3, <1>5, <1>6 DEF WriterInv
  <2>2. database'.version >= database.version
    BY <1>2, <1>6 DEF WriterInv, Seen, Wrote
  <2>3. \A q \in Processes \ {p} : tx[q] # None => Seen(q)' = database' /\ Seen(q) = database
    BY <1>2, <1>5, <2>1 DEF Seen, Wrote
  <2>4. database.version \in Int /\ database'.version \in Int
    BY <1>2, <1>3, NIsNat DEF Database, MigrationsTypeOK
  <2>5. ASSUME NEW q \in Processes
        PROVE  /\ proc'[q].pc = "begin" => proc'[q].last <= database'.version
               /\ tx'[q] # None => Seen(q)'.version >= proc'[q].m - 1
               /\ Pending(q)' => Wrote(q)'
    <3>1. CASE q = p
      BY <1>1, <1>2, <1>3, <3>1
    <3>2. CASE q # p
      <4>1. proc[q].last \in Int /\ proc[q].m \in Int
        BY DEF MigrationsTypeOK, Process
      <4> QED
        BY <1>1, <1>2, <1>5, <2>2, <2>3, <2>4, <3>2, <4>1 DEF NextInv
    <3> QED
      BY <3>1, <3>2
  <2> QED
    BY <1>4, <2>1, <2>5 DEF WriterInv, NextInv
<1>7. CASE ~Wrote(p)
  <2>1. database' = database
    BY <1>2, <1>3, <1>7 DEF Seen, Wrote
  <2>2. \A q \in Processes \ {p} : tx[q] # None => Seen(q)' = Seen(q)
    BY <1>2, <2>1 DEF Seen
  <2>3. NextInv'
    BY <1>1, <1>2, <1>3, <1>5, <2>1, <2>2 DEF NextInv
  <2>4. WriterInv'
    BY <1>1, <1>2, <1>3, <1>5, <2>1 DEF WriterInv
  <2> QED
    BY <1>4, <2>3, <2>4
<1> QED
  BY <1>6, <1>7

\* WriterInv and NextInv are kept.
LEMMA AppliedStep ==
  MigrationsTypeOK /\ StageInv /\ WriterInv /\ NextInv /\ AppliedOnce /\ [Next]_vars
      => WriterInv' /\ NextInv' /\ AppliedOnce'
<1> SUFFICES ASSUME MigrationsTypeOK, StageInv, WriterInv, NextInv, AppliedOnce, [Next]_vars
             PROVE  WriterInv' /\ NextInv' /\ AppliedOnce'
  OBVIOUS
<1> DEFINE Goal == WriterInv' /\ NextInv' /\ AppliedOnce'
<1>1. ASSUME database' = database PROVE AppliedOnce'
  BY <1>1 DEF AppliedOnce, Upto
<1>2. ASSUME NEW p \in Processes, Start(p) PROVE Goal
  <2>1. /\ proc[p].pc = "off" /\ proc'[p].pc = "begin" /\ proc'[p].last = database.version
        /\ proc'[p].m = proc[p].m /\ \A q \in Processes \ {p} : proc'[q] = proc[q]
    BY <1>2 DEF Start, MigrationsTypeOK, Process
  <2>2. database' = database /\ tx' = tx /\ tx[p] = None
    BY <1>2 DEF Start, StageInv, Waiting
  <2>3. \A q \in Processes : /\ (Wrote(q)' <=> Wrote(q)) /\ (Pending(q)' <=> Pending(q))
                             /\ Seen(q)' = Seen(q)
    BY <2>1, <2>2 DEF Wrote, Pending, Seen
  <2>4. WriterInv'
    BY <2>1, <2>2, <2>3 DEF WriterInv, Wrote
  <2>5. ~Pending(p)' /\ database'.version \in Int
    BY <2>1, <2>2, NIsNat DEF Pending, MigrationsTypeOK, Database
  <2>6. NextInv'
    BY <2>1, <2>2, <2>3, <2>5 DEF NextInv
  <2> QED
    BY <1>1, <2>2, <2>4, <2>6
<1>3. ASSUME NEW p \in Processes, Begin(p) PROVE Goal
  <2>1. /\ proc[p].pc = "begin" /\ proc'[p].m = proc[p].last + 1
        /\ proc'[p].pc = IF proc[p].last = -1 THEN "create" ELSE Step(proc[p].last + 1)
        /\ \A q \in Processes \ {p} : proc'[q] = proc[q]
    BY <1>3 DEF Begin, MigrationsTypeOK, Process
  <2>2. database' = database /\ tx[p] = None
    BY <1>3, <2>1 DEF Begin, StageInv, Waiting
  <2>3. proc'[p].pc \notin {"begin", "record", "mkdir", "link", "switch"}
    <3>1. proc[p].last = -1 \/ proc[p].last + 1 \in 1 .. N + 1
      BY <2>1, NIsNat DEF StageInv
    <3> QED
      BY <2>1, <3>1, StepIsKind
  <2>4. ~Pending(p)' /\ ~Wrote(p)' /\ Seen(p)' = database
    BY <1>3, <2>2, <2>3, BeginIs DEF Pending, Wrote, Seen
  <2>5. \A q \in Processes \ {p} : /\ (Wrote(q)' <=> Wrote(q)) /\ (Pending(q)' <=> Pending(q))
                                   /\ Seen(q)' = Seen(q) /\ tx'[q] = tx[q]
    BY <1>3, <2>1, <2>2, BeginIs DEF Wrote, Pending, Seen
  <2>6. WriterInv'
    BY <2>1, <2>2, <2>4, <2>5 DEF WriterInv
  <2>7. database.version >= proc'[p].m - 1
    BY <2>1, NIsNat DEF NextInv, MigrationsTypeOK, Database, Process
  <2>8. NextInv'
    BY <2>1, <2>2, <2>3, <2>4, <2>5, <2>7 DEF NextInv
  <2> QED
    BY <1>1, <2>2, <2>6, <2>8
<1>4. ASSUME NEW p \in Processes, ReadRows(p) PROVE Goal
  <2>1. /\ proc[p].pc \in {"rows", "uuids"} /\ proc'[p].pc \in {"rewrite", "draw"}
        /\ proc'[p].m = proc[p].m /\ \A q \in Processes \ {p} : proc'[q] = proc[q]
    BY <1>4 DEF ReadRows, Goto, MigrationsTypeOK, Process
  <2>2. database' = database
    BY <1>4 DEF ReadRows
  <2>3. ~Pending(p) /\ ~Pending(p)'
    BY <2>1 DEF Pending
  <2>4. /\ tx[p] # None /\ tx'[p] # None /\ (Wrote(p)' <=> Wrote(p))
        /\ Wrote(p) => tx'[p].view = tx[p].view
    BY <1>4, ReadRowsIs, MigrationsAssumption DEF Wrote, WriterInv
  <2>5. \A q \in Processes \ {p} : tx'[q] = tx[q]
    BY <1>4, ReadRowsIs
  <2>6. \A q \in Processes : /\ (Wrote(q)' <=> Wrote(q)) /\ (Pending(q)' <=> Pending(q))
                             /\ tx[q] # None => Seen(q)' = Seen(q)
    BY <2>1, <2>2, <2>3, <2>4, <2>5 DEF Wrote, Pending, Seen
  <2>7. WriterInv'
    BY <2>1, <2>2, <2>3, <2>4, <2>5, <2>6 DEF WriterInv
  <2>8. NextInv'
    BY <2>1, <2>2, <2>3, <2>4, <2>5, <2>6 DEF NextInv
  <2> QED
    BY <1>1, <2>2, <2>7, <2>8
<1>5. ASSUME NEW p \in Processes, Stop(p) PROVE Goal
  <2>1. /\ proc[p].pc = "up" /\ proc'[p].pc = "off"
        /\ \A q \in Processes \ {p} : proc'[q] = proc[q]
    BY <1>5 DEF Stop, Idle, MigrationsTypeOK
  <2>2. database' = database /\ tx' = tx /\ tx[p] = None
    BY <1>5, <2>1 DEF Stop, StageInv, Waiting
  <2> QED
    BY <2>1, <2>2, EndsStep
<1>6. ASSUME NEW p \in Processes,
             AfterRemoval(p) \/ LinkFails(p) \/ Conflict(p) \/ Fail(p) \/ Crash(p)
      PROVE  Goal
  <2>1. Ends(p)
    BY <1>6 DEF AfterRemoval, LinkFails, Conflict, Fail, Crash
  <2>2. /\ database' = database /\ tx'[p] = None /\ proc'[p].pc = "off"
        /\ \A q \in Processes \ {p} : proc'[q] = proc[q] /\ tx'[q] = tx[q]
    BY <2>1 DEF Ends, Idle, MigrationsTypeOK
  <2> QED
    BY <2>2, EndsStep
<1>7. ASSUME NEW p \in Processes,
             \/ Walk(p) \/ CloseTemp(p) \/ WriteFails(p) \/ EndWalk(p) \/ EndRename(p)
             \/ \E b \in Bookmarks :
                   \/ OpenTemp(p, b) \/ Skip(p, b) \/ BadArchive(p, b) \/ RemoveTemp(p, b)
                   \/ RenameTemp(p, b) \/ Link(p, b)
             \/ MakeFolder(p) \/ RemoveFolder(p) \/ RenameFolder(p)
      PROVE  Goal
  <2>1. Quiet(p)
    BY <1>7, QuietAction
  <2> QED
    BY <2>1, QuietIs, QuietStep
<1>8. ASSUME NEW p \in Processes, Alter(p) \/ RewriteRows(p) \/ DrawUUIDs(p) PROVE Goal
  <2>1. database' = database
    BY <1>8 DEF Alter, RewriteRows, DrawUUIDs
  <2> QED
    BY <1>1, <1>8, <2>1, ChangeStep
<1>9. ASSUME NEW p \in Processes, CreateSchema(p) PROVE Goal
  <2>1. database' = database
    BY <1>9 DEF CreateSchema
  <2> QED
    BY <1>1, <1>9, <2>1, CreateSchemaStep
<1>10. ASSUME NEW p \in Processes, Record(p) PROVE Goal
  <2>1. database' = database
    BY <1>10 DEF Record
  <2> QED
    BY <1>1, <1>10, <2>1, RecordStep
<1>11. ASSUME NEW p \in Processes, Commit(p) PROVE Goal
  BY <1>11, CommitStep
<1>12. CASE UNCHANGED vars
  <2>1. database' = database /\ proc' = proc /\ tx' = tx
    BY <1>12 DEF vars
  <2>2. \A q \in Processes : /\ (Wrote(q)' <=> Wrote(q)) /\ (Pending(q)' <=> Pending(q))
                             /\ Seen(q)' = Seen(q)
    BY <2>1 DEF Wrote, Pending, Seen
  <2>3. WriterInv'
    BY <2>1, <2>2 DEF WriterInv
  <2>4. NextInv'
    BY <2>1, <2>2 DEF NextInv
  <2> QED
    BY <1>1, <2>1, <2>3, <2>4
<1> HIDE DEF Goal
<1> QED
  BY <1>2, <1>3, <1>4, <1>5, <1>6, <1>7, <1>8, <1>9, <1>10, <1>11, <1>12 DEF Next, Goal

-----------------------------------------------------------------------------
(* The folder that number 16 moves.                                        *)
\* What the steps outside the two migrations of files leave alone.
LEMMA ReadingIs ==
  ASSUME MigrationsTypeOK, StageInv, WriterInv, NEW p \in Processes,
         Start(p) \/ Begin(p) \/ ReadRows(p)
  PROVE  /\ UNCHANGED <<database, disk, history>>
         /\ Wrote(p)' <=> Wrote(p)
         /\ Wrote(p) => tx'[p].view = tx[p].view /\ proc'[p].m = proc[p].m
         /\ proc'[p].moved = proc[p].moved /\ proc'[p].out = proc[p].out
         /\ proc[p].pc \in {"off", "begin", "rows", "uuids"}
         /\ proc'[p].pc \notin {"mkdir", "link", "switch"} \cup InArchives
         /\ \A q \in Processes \ {p} : proc'[q] = proc[q] /\ tx'[q] = tx[q]
<1>1. CASE Start(p)
  <2>1. /\ UNCHANGED <<database, disk, history, tx>> /\ proc[p].pc = "off"
        /\ proc' = [proc EXCEPT ![p].pc = "begin", ![p].last = database.version]
    BY <1>1 DEF Start
  <2> QED
    BY <2>1 DEF Wrote, MigrationsTypeOK, Process, InArchives
<1>2. CASE Begin(p)
  <2>1. /\ UNCHANGED <<database, disk, history>> /\ proc[p].pc = "begin"
        /\ proc' = [proc EXCEPT ![p].m = proc[p].last + 1,
                       ![p].pc = IF proc[p].last = -1 THEN "create" ELSE Step(proc[p].last + 1)]
    BY <1>2 DEF Begin
  <2>2. proc'[p].pc = IF proc[p].last = -1 THEN "create" ELSE Step(proc[p].last + 1)
    BY <2>1 DEF MigrationsTypeOK, Process
  <2>3. proc[p].last = -1 \/ proc[p].last + 1 \in 1 .. N + 1
    BY <2>1, NIsNat DEF StageInv
  <2>4. ~Wrote(p) /\ ~Wrote(p)' /\ \A q \in Processes \ {p} : tx'[q] = tx[q]
    BY <1>2, <2>1, BeginIs DEF StageInv, Waiting, Wrote
  <2>5. /\ proc'[p].moved = proc[p].moved /\ proc'[p].out = proc[p].out
        /\ \A q \in Processes \ {p} : proc'[q] = proc[q]
    BY <2>1 DEF MigrationsTypeOK, Process
  <2>6. proc'[p].pc \notin {"mkdir", "link", "switch"} \cup InArchives
    BY <2>2, <2>3, StepIsKind DEF InArchives
  <2> QED
    BY <2>1, <2>4, <2>5, <2>6
<1>3. CASE ReadRows(p)
  <2>1. /\ UNCHANGED <<database, disk, history>> /\ proc[p].pc \in {"rows", "uuids"}
        /\ \E s \in {"rewrite", "draw"} : proc' = [proc EXCEPT ![p].pc = s]
    BY <1>3 DEF ReadRows, Goto
  <2>2. /\ proc'[p].moved = proc[p].moved /\ proc'[p].out = proc[p].out
        /\ proc'[p].pc \in {"rewrite", "draw"} /\ proc'[p].m = proc[p].m
        /\ \A q \in Processes \ {p} : proc'[q] = proc[q]
    BY <2>1 DEF MigrationsTypeOK, Process
  <2>3. /\ Wrote(p)' <=> Wrote(p)
        /\ Wrote(p) => tx'[p].view = tx[p].view
        /\ \A q \in Processes \ {p} : tx'[q] = tx[q]
    BY <1>3, ReadRowsIs, MigrationsAssumption DEF Wrote, WriterInv
  <2> QED
    BY <2>1, <2>2, <2>3 DEF InArchives
<1> QED
  BY <1>1, <1>2, <1>3

\* What a write in the database leaves alone.
LEMMA WritingIs ==
  ASSUME MigrationsTypeOK, StageInv, WriterInv, NEW p \in Processes,
         CreateSchema(p) \/ Alter(p) \/ RewriteRows(p) \/ Record(p)
  PROVE  /\ UNCHANGED <<database, disk, history>>
         /\ Wrote(p)' /\ tx'[p].view.draw = Seen(p).draw /\ CanWrite(p)
         /\ \/ proc'[p].m = proc[p].m /\ proc[p].pc # "record"
            \/ proc'[p].m = proc[p].m + 1 /\ proc[p].pc = "record" /\ proc[p].m \in 1 .. N
         /\ proc'[p].moved = proc[p].moved /\ proc'[p].out = proc[p].out
         /\ proc[p].pc \in {"create", "schema", "rewrite", "record"}
         /\ proc'[p].pc \notin {"mkdir", "link", "switch"} \cup InArchives
         /\ \A q \in Processes \ {p} : proc'[q] = proc[q] /\ tx'[q] = tx[q]
<1>1. PICK d \in Database : Write(p, d) /\ CanWrite(p) /\ d.draw = Seen(p).draw
  <2>1. ~DrawUUIDs(p)
    BY DEF CreateSchema, Alter, RewriteRows, Record, DrawUUIDs
  <2> QED
    BY <2>1, Writers
<1>2. /\ tx'[p].view = d /\ Wrote(p)' /\ \A q \in Processes \ {p} : tx'[q] = tx[q]
  BY <1>1, WriteIsThere DEF MigrationsTypeOK, Wrote
<1>3. CASE CreateSchema(p) \/ Alter(p) \/ RewriteRows(p)
  <2>1. /\ UNCHANGED <<database, disk, history>>
        /\ proc[p].pc \in {"create", "schema", "rewrite"}
        /\ \E s \in {"commit", "record"} : proc' = [proc EXCEPT ![p].pc = s]
    BY <1>3 DEF CreateSchema, Alter, RewriteRows, Goto
  <2>2. /\ proc'[p].moved = proc[p].moved /\ proc'[p].out = proc[p].out
        /\ proc'[p].pc \in {"commit", "record"} /\ proc'[p].m = proc[p].m
        /\ \A q \in Processes \ {p} : proc'[q] = proc[q]
    BY <2>1 DEF MigrationsTypeOK, Process
  <2> QED
    BY <1>1, <1>2, <2>1, <2>2 DEF InArchives
<1>4. CASE Record(p)
  <2>1. /\ UNCHANGED <<database, disk, history>> /\ proc[p].pc = "record"
        /\ proc' = [proc EXCEPT ![p].m = @ + 1, ![p].pc = Step(proc[p].m + 1)]
    BY <1>4 DEF Record
  <2>2. /\ proc'[p].moved = proc[p].moved /\ proc'[p].out = proc[p].out
        /\ proc'[p].pc = Step(proc[p].m + 1) /\ proc'[p].m = proc[p].m + 1
        /\ \A q \in Processes \ {p} : proc'[q] = proc[q]
    BY <2>1 DEF MigrationsTypeOK, Process
  <2>3. proc[p].m \in 1 .. N /\ proc[p].m + 1 \in 1 .. N + 1
    BY <2>1, NIsNat DEF StageInv, Applying, Stages
  <2>4. proc'[p].pc \notin {"mkdir", "link", "switch"} \cup InArchives
    BY <2>2, <2>3, StepIsKind DEF InArchives
  <2> QED
    BY <1>1, <1>2, <2>1, <2>2, <2>3, <2>4
<1> QED
  BY <1>3, <1>4

\* A process that rewrites archives.
LEMMA ArchivingIs ==
  ASSUME MigrationsTypeOK, NEW p \in Processes,
         \/ Walk(p) \/ CloseTemp(p) \/ WriteFails(p) \/ EndWalk(p) \/ EndRename(p)
         \/ \E b \in Bookmarks :
               OpenTemp(p, b) \/ Skip(p, b) \/ BadArchive(p, b) \/ RemoveTemp(p, b) \/ RenameTemp(p, b)
  PROVE  /\ UNCHANGED <<database, new, tx, torn>> /\ (cur' = None <=> cur = None)
         /\ proc'[p].m = proc[p].m /\ proc'[p].moved = proc[p].moved
         /\ proc[p].pc \in Rewriting /\ proc'[p].pc \in Rewriting \cup {"record"}
         /\ \A q \in Processes \ {p} : proc'[q] = proc[q]
<1>1. CASE Walk(p)
  <2>1. UNCHANGED <<database, cur, new, tx, torn>>
    BY Zenon, <1>1 DEF Walk, disk, history
  <2> QED
    BY <1>1, <2>1, WalkIs DEF Rewriting
<1>2. CASE EndWalk(p)
  BY <1>2, EndWalkIs DEF disk, history, Rewriting
<1>3. CASE \E b \in Bookmarks : OpenTemp(p, b)
  <2>1. PICK b \in Bookmarks : OpenTemp(p, b)
    BY <1>3
  <2>2. UNCHANGED <<database, cur, new, tx, torn>>
    BY Zenon, <2>1 DEF OpenTemp
  <2> QED
    BY <2>1, <2>2, OpenTempIs DEF Rewriting
<1>4. CASE CloseTemp(p) \/ WriteFails(p) \/ EndRename(p)
  BY <1>4 DEF CloseTemp, WriteFails, EndRename, Goto, disk, history, Rewriting, MigrationsTypeOK, Process
<1>5. CASE \E b \in Bookmarks : Skip(p, b) \/ BadArchive(p, b) \/ RemoveTemp(p, b)
  BY <1>5 DEF Skip, BadArchive, RemoveTemp, disk, history, Rewriting, MigrationsTypeOK, Process
<1>6. CASE \E b \in Bookmarks : RenameTemp(p, b)
  <2>1. PICK b \in Bookmarks : RenameTemp(p, b)
    BY <1>6
  <2>2. /\ UNCHANGED <<database, new, tx, torn>> /\ cur # None /\ cur' = [cur EXCEPT ![b] = temp[b]]
        /\ proc[p].pc = "rename" /\ proc' = [proc EXCEPT ![p].todo = @ \ {b}]
    BY <2>1 DEF RenameTemp, history
  <2>3. cur' \in Folder
    BY <2>2 DEF MigrationsTypeOK, Folder
  <2>4. cur' # None
    BY <2>3, MigrationsAssumption
  <2>5. proc \in [Processes -> Process]
    BY DEF MigrationsTypeOK
  <2>6. /\ proc'[p].m = proc[p].m /\ proc'[p].moved = proc[p].moved /\ proc'[p].pc = "rename"
        /\ \A q \in Processes \ {p} : proc'[q] = proc[q]
    BY <2>2, <2>5 DEF Process
  <2> QED
    BY <2>2, <2>4, <2>6 DEF Rewriting
<1> QED
  BY <1>1, <1>2, <1>3, <1>4, <1>5, <1>6

\* The end of a process, with an error or as it was killed.
LEMMA EndingIs ==
  ASSUME MigrationsTypeOK, NEW p \in Processes,
         AfterRemoval(p) \/ LinkFails(p) \/ Conflict(p) \/ Fail(p) \/ Crash(p)
  PROVE  /\ UNCHANGED <<database, cur, temp, data, shared>>
         /\ tx'[p] = None /\ proc'[p] = Idle /\ torn' = (torn \/ proc[p].moved)
         /\ \A q \in Processes \ {p} : proc'[q] = proc[q] /\ tx'[q] = tx[q]
         /\ \/ new' = new
            \/ new' = None /\ proc[p].pc = "link"
         /\ proc[p].pc = "link" => new' = None \/ stopped'
         /\ stopped => stopped'
<1>1. Ends(p)
  BY DEF AfterRemoval, LinkFails, Conflict, Fail, Crash
<1>2. /\ UNCHANGED <<cur, temp, data>>
      /\ \/ new' = new
         \/ new' = None /\ proc[p].pc = "link"
      /\ proc[p].pc = "link" => new' = None \/ stopped'
      /\ stopped => stopped'
  BY DEF AfterRemoval, LinkFails, Conflict, Fail, Crash, disk, MigrationsTypeOK
<1> QED
  BY <1>1, <1>2 DEF Ends, MigrationsTypeOK

\* Steps of one process and what another one knows of its files: a writer is
\* alone,
LEMMA OthersMoved ==
  ASSUME WriterInv, NextInv, MovedInv, NEW p \in Processes, Wrote(p),
         \A q \in Processes \ {p} : proc'[q] = proc[q] /\ tx'[q] = tx[q]
  PROVE  \A q \in Processes \ {p} : MovedOf(q)'
<1>1. ASSUME NEW q \in Processes \ {p} PROVE MovedOf(q)'
  <2>1. (Wrote(q)' <=> Wrote(q)) /\ MovedOf(q) /\ proc'[q] = proc[q]
    BY DEF Wrote, MovedInv
  <2>2. ~Wrote(q) /\ ~Pending(q)
    BY DEF WriterInv, NextInv
  <2> QED
    BY <2>1, <2>2 DEF MovedOf, Pending
<1> QED
  BY <1>1

\* and another step neither makes nor removes a folder.
LEMMA OthersStay ==
  ASSUME MovedInv, NEW p \in Processes,
         \A q \in Processes \ {p} : proc'[q] = proc[q] /\ tx'[q] = tx[q],
         database' = database, new' = new, cur' = None <=> cur = None
  PROVE  \A q \in Processes \ {p} : MovedOf(q)'
<1>1. ASSUME NEW q \in Processes \ {p} PROVE MovedOf(q)'
  <2>1. (Wrote(q)' <=> Wrote(q)) /\ MovedOf(q) /\ proc'[q] = proc[q] /\ tx'[q] = tx[q]
    BY DEF Wrote, MovedInv
  <2> QED
    BY <2>1 DEF MovedOf
<1> QED
  BY <1>1

\* New UIDs come once in a start.
LEMMA NamingOnce ==
  ASSUME MigrationsTypeOK, StageInv, MovedInv,
         NEW p \in Processes, proc[p].pc \in Naming, proc[p].pc # "switch"
  PROVE  ~proc[p].moved
<1>1. Kinds[proc[p].m] = "uuids" /\ proc[p].m \in 1 .. N
  BY DEF StageInv, Naming, Applying, Stages
<1>2. \A m \in 1 .. proc[p].m - 1 : Kinds[m] # "uuids"
  BY <1>1, MigrationsAssumption, NIsNat
<1> QED
  BY <1>2 DEF MovedInv, MovedOf, Naming

\* MovedInv is kept.
LEMMA MovedStep ==
  MigrationsTypeOK /\ StageInv /\ WriterInv /\ NextInv /\ MovedInv /\ [Next]_vars => MovedInv'
<1> SUFFICES ASSUME MigrationsTypeOK, StageInv, WriterInv, NextInv, MovedInv, [Next]_vars
             PROVE  MovedInv'
  OBVIOUS
<1>0. \A p \in Processes : MovedOf(p)
  BY DEF MovedInv
<1>1. ASSUME NEW p \in Processes, Start(p) \/ Begin(p) \/ ReadRows(p) PROVE MovedInv'
  <2>1. /\ UNCHANGED <<database, disk, history>>
        /\ Wrote(p)' <=> Wrote(p)
        /\ Wrote(p) => tx'[p].view = tx[p].view /\ proc'[p].m = proc[p].m
        /\ proc'[p].moved = proc[p].moved
        /\ proc[p].pc \in {"off", "begin", "rows", "uuids"}
        /\ proc'[p].pc \notin {"mkdir", "link", "switch"}
        /\ \A q \in Processes \ {p} : proc'[q] = proc[q] /\ tx'[q] = tx[q]
    BY <1>1, ReadingIs
  <2>2. MovedOf(p)'
    BY <1>0, <2>1 DEF MovedOf
  <2>3. \A q \in Processes \ {p} : MovedOf(q)'
    BY <2>1, OthersStay DEF disk
  <2> QED
    BY <2>2, <2>3 DEF MovedInv
<1>2. ASSUME NEW p \in Processes, CreateSchema(p) \/ Alter(p) \/ RewriteRows(p) \/ Record(p)
      PROVE  MovedInv'
  <2>1. /\ UNCHANGED <<database, disk, history>>
        /\ Wrote(p)' /\ tx'[p].view.draw = Seen(p).draw
        /\ \/ proc'[p].m = proc[p].m /\ proc[p].pc # "record"
           \/ proc'[p].m = proc[p].m + 1 /\ proc[p].pc = "record" /\ proc[p].m \in 1 .. N
        /\ proc'[p].moved = proc[p].moved
        /\ proc[p].pc \in {"create", "schema", "rewrite", "record"}
        /\ proc'[p].pc \notin {"mkdir", "link", "switch"}
        /\ \A q \in Processes \ {p} : proc'[q] = proc[q] /\ tx'[q] = tx[q]
    BY <1>2, WritingIs
  <2>2. MovedOf(p)'
    <3>1. ~proc[p].moved => tx'[p].view.draw = database.draw
      BY <1>0, <2>1 DEF MovedOf, Seen, Wrote, StageInv, Waiting
    <3>2. (\E m \in 1 .. proc[p].m - 1 : Kinds[m] = "uuids")
             => \E m \in 1 .. proc'[p].m - 1 : Kinds[m] = "uuids"
      BY <2>1, NIsNat
    <3>3. proc[p].pc = "record" /\ Kinds[proc[p].m] = "uuids"
             => \E m \in 1 .. proc'[p].m - 1 : Kinds[m] = "uuids"
      BY <2>1, NIsNat
    <3> QED
      BY <1>0, <2>1, <3>1, <3>2, <3>3 DEF MovedOf
  <2>3. \A q \in Processes \ {p} : MovedOf(q)'
    BY <2>1, OthersStay DEF disk
  <2> QED
    BY <2>2, <2>3 DEF MovedInv
<1>3. ASSUME NEW p \in Processes, DrawUUIDs(p) PROVE MovedInv'
  <2>1. /\ proc[p].pc = "draw" /\ proc'[p].pc = "mkdir"
        /\ proc'[p].old = Seen(p).draw /\ proc'[p].moved = proc[p].moved
        /\ \A q \in Processes \ {p} : proc'[q] = proc[q]
        /\ UNCHANGED <<database, disk, history>>
    BY <1>3, DrawUUIDsIs
  <2>2. \A q \in Processes \ {p} : tx'[q] = tx[q]
    <3>1. PICK d \in Database : Write(p, d)
      BY <1>3, Writers
    <3> QED
      BY <3>1, WriteIsThere DEF MigrationsTypeOK
  <2>3. ~proc[p].moved
    BY <2>1, NamingOnce DEF Naming
  <2>4. Seen(p).draw = database.draw
    BY <1>0, <2>1, <2>3 DEF MovedOf, Seen, Wrote, StageInv, Waiting
  <2>5. MovedOf(p)'
    BY <2>1, <2>3, <2>4 DEF MovedOf
  <2>6. \A q \in Processes \ {p} : MovedOf(q)'
    BY <2>1, <2>2, OthersStay DEF disk
  <2> QED
    BY <2>5, <2>6 DEF MovedInv
<1>4. ASSUME NEW p \in Processes, Commit(p) PROVE MovedInv'
  <2>1. /\ proc'[p].pc = "up" /\ proc'[p].moved = FALSE /\ tx'[p] = None /\ UNCHANGED disk
        /\ database' = Seen(p) /\ tx[p] # None
        /\ \A q \in Processes \ {p} : proc'[q] = proc[q] /\ tx'[q] = tx[q]
    <3>1. /\ proc[p].pc = "commit" /\ database' = Seen(p) /\ UNCHANGED disk
          /\ tx' = [tx EXCEPT ![p] = None]
          /\ proc' = [proc EXCEPT ![p].pc = "up", ![p].moved = FALSE]
      BY <1>4 DEF Commit
    <3> QED
      BY <3>1 DEF MigrationsTypeOK, Process, StageInv, Waiting
  <2>2. MovedOf(p)'
    BY <2>1 DEF MovedOf, Wrote
  <2>3. Wrote(p) \/ database' = database
    BY <2>1 DEF Seen, Wrote
  <2>4. \A q \in Processes \ {p} : MovedOf(q)'
    BY <2>1, <2>3, OthersMoved, OthersStay DEF disk
  <2> QED
    BY <2>2, <2>4 DEF MovedInv
<1>5. ASSUME NEW p \in Processes,
             \/ Walk(p) \/ CloseTemp(p) \/ WriteFails(p) \/ EndWalk(p) \/ EndRename(p)
             \/ \E b \in Bookmarks :
                   OpenTemp(p, b) \/ Skip(p, b) \/ BadArchive(p, b) \/ RemoveTemp(p, b) \/ RenameTemp(p, b)
      PROVE  MovedInv'
  <2>1. /\ UNCHANGED <<database, new, tx>> /\ (cur' = None <=> cur = None)
        /\ proc'[p].m = proc[p].m /\ proc'[p].moved = proc[p].moved
        /\ proc[p].pc \in Rewriting /\ proc'[p].pc \in Rewriting \cup {"record"}
        /\ \A q \in Processes \ {p} : proc'[q] = proc[q]
    BY <1>5, ArchivingIs
  <2>2. MovedOf(p)'
    BY <1>0, <2>1 DEF MovedOf, Wrote, Rewriting
  <2>3. \A q \in Processes \ {p} : MovedOf(q)'
    BY <2>1, OthersStay
  <2> QED
    BY <2>2, <2>3 DEF MovedInv
<1>6. ASSUME NEW p \in Processes,
             MakeFolder(p) \/ RemoveFolder(p) \/ RenameFolder(p) \/ \E b \in Bookmarks : Link(p, b)
      PROVE  MovedInv'
  <2>1. Wrote(p) /\ Kinds[proc[p].m] = "uuids" /\ proc[p].m \in 1 .. N
    BY <1>6 DEF NextInv, Pending, MakeFolder, RemoveFolder, RenameFolder, Link, StageInv,
                Naming, Applying, Stages
  <2>2. /\ UNCHANGED <<database, tx>>
        /\ proc'[p].m = proc[p].m /\ proc'[p].old = proc[p].old
        /\ \A q \in Processes \ {p} : proc'[q] = proc[q]
    BY <1>6 DEF MakeFolder, RemoveFolder, RenameFolder, Link, Goto, MigrationsTypeOK, Process
  <2>3. \/ /\ proc[p].pc \in {"mkdir", "link"} /\ proc'[p].pc = "link" /\ new' # None
           /\ proc'[p].moved = proc[p].moved
        \/ proc[p].pc = "link" /\ proc'[p].pc = "switch" /\ cur' = None /\ new' = new /\ proc'[p].moved
        \/ proc[p].pc = "switch" /\ proc'[p].pc = "record" /\ proc'[p].moved = proc[p].moved
    <3>1. CASE MakeFolder(p)
      <4>1. [b \in Bookmarks |-> None] \in Folder
        BY DEF Folder
      <4>2. [b \in Bookmarks |-> None] # None
        BY <4>1, MigrationsAssumption
      <4>3. proc \in [Processes -> Process]
        BY DEF MigrationsTypeOK
      <4>4. proc'[p].pc = "link" /\ proc'[p].moved = proc[p].moved
        BY <3>1, <4>3 DEF MakeFolder, Goto, Process
      <4> QED
        BY <3>1, <4>2, <4>4 DEF MakeFolder
    <3>2. CASE \E b \in Bookmarks : Link(p, b)
      <4>1. PICK b \in Bookmarks : Link(p, b)
        BY <3>2
      <4>2. new \in Folder
        BY <1>0, <4>1 DEF Link, MovedOf, MigrationsTypeOK
      <4>3. tx[p].view.draw \in Nat
        BY <2>1 DEF WriterInv, Database
      <4>4. new' \in Folder
        BY <4>1, <4>2, <4>3 DEF Link, There, MigrationsTypeOK, Folder, Archive
      <4> QED
        BY <4>1, <4>4, MigrationsAssumption DEF Link, MigrationsTypeOK, Process
    <3>3. CASE RemoveFolder(p)
      BY <3>3 DEF RemoveFolder, MigrationsTypeOK, Process
    <3>4. CASE RenameFolder(p)
      BY <3>4 DEF RenameFolder, Goto, MigrationsTypeOK, Process
    <3> QED
      BY <1>6, <3>1, <3>2, <3>3, <3>4
  <2>4. Wrote(p)'
    BY <2>1, <2>2 DEF Wrote
  <2>5. MovedOf(p)'
    BY <1>0, <2>1, <2>2, <2>3, <2>4 DEF MovedOf
  <2>6. \A q \in Processes \ {p} : MovedOf(q)'
    BY <2>1, <2>2, OthersMoved
  <2> QED
    BY <2>5, <2>6 DEF MovedInv
<1>7. ASSUME NEW p \in Processes,
             AfterRemoval(p) \/ LinkFails(p) \/ Conflict(p) \/ Fail(p) \/ Crash(p)
      PROVE  MovedInv'
  <2>1. /\ UNCHANGED <<database, cur>>
        /\ tx'[p] = None /\ proc'[p] = Idle
        /\ \A q \in Processes \ {p} : proc'[q] = proc[q] /\ tx'[q] = tx[q]
        /\ new' = new \/ (new' = None /\ proc[p].pc = "link")
    BY <1>7, EndingIs
  <2>2. MovedOf(p)'
    BY <2>1 DEF MovedOf, Wrote, Idle
  <2>3. new' = new \/ Wrote(p)
    BY <2>1 DEF NextInv, Pending
  <2>4. \A q \in Processes \ {p} : MovedOf(q)'
    BY <2>1, <2>3, OthersMoved, OthersStay
  <2> QED
    BY <2>2, <2>4 DEF MovedInv
<1>8. ASSUME NEW p \in Processes, Stop(p) PROVE MovedInv'
  <2>1. /\ UNCHANGED <<database, disk, tx>> /\ proc[p].pc = "up" /\ proc'[p] = Idle
        /\ \A q \in Processes \ {p} : proc'[q] = proc[q]
    BY <1>8 DEF Stop, MigrationsTypeOK
  <2>2. MovedOf(p)'
    BY <2>1 DEF MovedOf, Wrote, Idle, StageInv, Waiting
  <2>3. \A q \in Processes \ {p} : MovedOf(q)'
    BY <2>1, OthersStay DEF disk
  <2> QED
    BY <2>2, <2>3 DEF MovedInv
<1>9. CASE UNCHANGED vars
  <2>1. UNCHANGED <<database, cur, new, tx, proc>>
    BY <1>9 DEF vars, disk
  <2>2. \A p \in Processes : MovedOf(p)'
    BY <1>0, <2>1 DEF MovedOf, Wrote
  <2> QED
    BY <2>2 DEF MovedInv
<1> QED
  BY <1>1, <1>2, <1>3, <1>4, <1>5, <1>6, <1>7, <1>8, <1>9 DEF Next

-----------------------------------------------------------------------------
(* The names of archives.                                                  *)

\* The archives of the rows do not change with the steps of another process,
LEMMA OthersNamed ==
  ASSUME NEW p \in Processes, database' = database, new' = new,
         \A draw \in Nat : Named(cur, draw) => Named(cur', draw),
         \A q \in Processes \ {p} : NamesOf(q) /\ proc'[q] = proc[q] /\ tx'[q] = tx[q],
         MigrationsTypeOK, WriterInv, MovedInv
  PROVE  \A q \in Processes \ {p} : NamesOf(q)'
<1>1. ASSUME NEW q \in Processes \ {p} PROVE NamesOf(q)'
  <2>1. proc'[q] = proc[q] /\ tx'[q] = tx[q] /\ NamesOf(q)
    OBVIOUS
  <2>2. proc[q].moved => tx[q].view.draw \in Nat
    BY DEF MovedInv, MovedOf, WriterInv, Database
  <2>3. proc[q].moved /\ proc[q].pc # "switch" => Named(cur', tx[q].view.draw)
    BY <2>1, <2>2 DEF NamesOf
  <2> QED
    BY <2>1, <2>3 DEF NamesOf, Named
<1> QED
  BY <1>1

\* and beside a writer no one names any.
LEMMA OthersNameNone ==
  ASSUME WriterInv, NextInv, MovedInv, NEW p \in Processes, Wrote(p),
         \A q \in Processes \ {p} : proc'[q] = proc[q] /\ tx'[q] = tx[q]
  PROVE  \A q \in Processes \ {p} : ~proc[q].moved /\ NamesOf(q)'
<1>1. ASSUME NEW q \in Processes \ {p} PROVE ~proc[q].moved /\ NamesOf(q)'
  <2>1. ~Wrote(q) /\ ~Pending(q) /\ proc'[q] = proc[q]
    BY DEF WriterInv, NextInv
  <2> QED
    BY <2>1 DEF MovedInv, MovedOf, NamesOf, Pending
<1> QED
  BY <1>1

\* A name with a tilde has the draw of the name that it takes.
LEMMA RenameKeepsNames ==
  ASSUME MigrationsTypeOK, TempInv, NEW p \in Processes,
         \/ Walk(p) \/ CloseTemp(p) \/ WriteFails(p) \/ EndWalk(p) \/ EndRename(p)
         \/ \E b \in Bookmarks :
               OpenTemp(p, b) \/ Skip(p, b) \/ BadArchive(p, b) \/ RemoveTemp(p, b) \/ RenameTemp(p, b)
  PROVE  \A draw \in Nat : Named(cur, draw) => Named(cur', draw)
<1>1. database' = database
  BY ArchivingIs
<1>2. CASE \E b \in Bookmarks : RenameTemp(p, b)
  <2>1. PICK b \in Bookmarks : RenameTemp(p, b)
    BY <1>2
  <2>2. /\ cur # None /\ cur' = [cur EXCEPT ![b] = temp[b]]
        /\ temp[b] # None /\ cur \in Folder
    BY <2>1 DEF RenameTemp, HasTemp, MigrationsTypeOK
  <2>3. temp[b].draw = cur[b].draw
    BY <2>2 DEF TempInv
  <2>4. cur' # None
    <3>1. cur' \in Folder
      BY <2>2 DEF Folder, MigrationsTypeOK
    <3> QED
      BY <3>1, MigrationsAssumption
  <2> QED
    BY <2>2, <2>3, <2>4 DEF Named, Folder, MigrationsTypeOK, Database
<1>3. CASE ~\E b \in Bookmarks : RenameTemp(p, b)
  <2>1. cur' = cur
    BY Zenon, <1>3 DEF Walk, CloseTemp, WriteFails, EndWalk, EndRename, OpenTemp, Skip, BadArchive,
                RemoveTemp, disk
  <2> QED
    BY <2>1
<1> QED
  BY <1>2, <1>3

\* NamesInv is kept.
LEMMA NamesStep ==
  MigrationsTypeOK /\ StageInv /\ WriterInv /\ NextInv /\ TempInv /\ MovedInv /\ NamesInv /\ [Next]_vars
      => NamesInv'
<1> SUFFICES ASSUME MigrationsTypeOK, StageInv, WriterInv, NextInv, TempInv, MovedInv, NamesInv,
                    [Next]_vars
             PROVE  NamesInv'
  OBVIOUS
<1>1. ASSUME NEW p \in Processes,
             Start(p) \/ Begin(p) \/ ReadRows(p) \/ CreateSchema(p) \/ Alter(p) \/ RewriteRows(p) \/ Record(p)
      PROVE  NamesInv'
  <2>1. /\ UNCHANGED <<database, cur, new, torn>>
        /\ proc'[p].moved = proc[p].moved
        /\ proc[p].pc # "switch" /\ proc'[p].pc \notin {"mkdir", "link", "switch"}
        /\ proc[p].moved => tx'[p].view.draw = tx[p].view.draw
        /\ \A q \in Processes \ {p} : proc'[q] = proc[q] /\ tx'[q] = tx[q]
    <3>1. CASE Start(p) \/ Begin(p) \/ ReadRows(p)
      BY <3>1, ReadingIs DEF disk, history, MovedInv, MovedOf
    <3>2. CASE CreateSchema(p) \/ Alter(p) \/ RewriteRows(p) \/ Record(p)
      BY <3>2, WritingIs DEF disk, history, MovedInv, MovedOf, Seen, Wrote
    <3> QED
      BY <1>1, <3>1, <3>2
  <2>2. ASSUME ~torn' PROVE /\ (\A q \in Processes : ~proc'[q].moved) => Named(cur, database.draw)'
                            /\ \A q \in Processes : NamesOf(q)'
    <3>1. /\ (\A q \in Processes : ~proc[q].moved) => Named(cur, database.draw)
          /\ \A q \in Processes : NamesOf(q)
      BY <2>1, <2>2 DEF NamesInv
    <3>2. NamesOf(p)'
      BY <2>1, <3>1 DEF NamesOf, Named
    <3>3. \A q \in Processes \ {p} : NamesOf(q)'
      BY <2>1, <3>1, OthersNamed
    <3> QED
      BY <2>1, <3>1, <3>2, <3>3 DEF Named
  <2> QED
    BY <2>2 DEF NamesInv
<1>2. ASSUME NEW p \in Processes, DrawUUIDs(p) PROVE NamesInv'
  <2>1. /\ proc[p].pc = "draw" /\ proc'[p].pc = "mkdir" /\ UNCHANGED <<database, cur, new, torn>>
        /\ proc'[p].todo = Seen(p).rows /\ proc'[p].moved = proc[p].moved
        /\ \A q \in Processes \ {p} : proc'[q] = proc[q]
    BY <1>2, DrawUUIDsIs DEF disk, history
  <2>2. \A q \in Processes \ {p} : tx'[q] = tx[q]
    <3>1. PICK d \in Database : Write(p, d)
      BY <1>2, Writers
    <3> QED
      BY <3>1, WriteIsThere DEF MigrationsTypeOK
  <2>3. ~proc[p].moved /\ Seen(p).rows = database.rows
    BY <2>1, NamingOnce DEF Naming, Seen, WriterInv, Wrote, StageInv, Waiting
  <2>4. ASSUME ~torn' PROVE /\ (\A q \in Processes : ~proc'[q].moved) => Named(cur, database.draw)'
                            /\ \A q \in Processes : NamesOf(q)'
    <3>1. /\ (\A q \in Processes : ~proc[q].moved) => Named(cur, database.draw)
          /\ \A q \in Processes : NamesOf(q)
      BY <2>1, <2>4 DEF NamesInv
    <3>2. NamesOf(p)'
      BY <2>1, <2>3 DEF NamesOf
    <3>3. \A q \in Processes \ {p} : NamesOf(q)'
      BY <2>1, <2>2, <3>1, OthersNamed
    <3> QED
      BY <2>1, <3>1, <3>2, <3>3 DEF Named
  <2> QED
    BY <2>4 DEF NamesInv
<1>3. ASSUME NEW p \in Processes, Commit(p) PROVE NamesInv'
  <2>1. /\ proc'[p].pc = "up" /\ proc'[p].moved = FALSE /\ UNCHANGED <<cur, new, torn>>
        /\ proc[p].pc = "commit" /\ database' = Seen(p) /\ tx[p] # None
        /\ \A q \in Processes \ {p} : proc'[q] = proc[q] /\ tx'[q] = tx[q]
    <3>1. /\ proc[p].pc = "commit" /\ database' = Seen(p) /\ UNCHANGED <<disk, history>>
          /\ tx' = [tx EXCEPT ![p] = None]
          /\ proc' = [proc EXCEPT ![p].pc = "up", ![p].moved = FALSE]
      BY <1>3 DEF Commit
    <3> QED
      BY <3>1 DEF MigrationsTypeOK, Process, StageInv, Waiting, disk, history
  <2>2. NamesOf(p)'
    BY <2>1 DEF NamesOf
  <2>3. CASE Wrote(p)
    <3>1. database' = tx[p].view /\ database'.rows = database.rows
      BY <2>1, <2>3 DEF Seen, Wrote, WriterInv
    <3>2. \A q \in Processes \ {p} : ~proc[q].moved /\ NamesOf(q)'
      BY <2>1, <2>3, OthersNameNone
    <3>3. ~torn => Named(cur, database'.draw)
      <4>1. CASE proc[p].moved
        BY <2>1, <3>1, <4>1 DEF NamesInv, NamesOf
      <4>2. CASE ~proc[p].moved
        <5>1. database'.draw = database.draw
          BY <2>1, <2>3, <3>1, <4>2 DEF MovedInv, MovedOf
        <5>2. \A q \in Processes : ~proc[q].moved
          BY <3>2, <4>2
        <5> QED
          BY <5>1, <5>2 DEF NamesInv
      <4> QED
        BY <4>1, <4>2
    <3>4. ~torn' => Named(cur, database.draw)'
      BY <2>1, <3>1, <3>3 DEF Named
    <3> QED
      BY <2>1, <2>2, <3>2, <3>4 DEF NamesInv
  <2>4. CASE ~Wrote(p)
    <3>1. database' = database /\ ~proc[p].moved
      BY <2>1, <2>4 DEF Seen, Wrote, MovedInv, MovedOf
    <3>2. ASSUME ~torn PROVE \A q \in Processes \ {p} : NamesOf(q)'
      BY <2>1, <3>1, <3>2, OthersNamed DEF NamesInv
    <3> QED
      BY <2>1, <2>2, <3>1, <3>2 DEF NamesInv, Named
  <2> QED
    BY <2>3, <2>4
<1>4. ASSUME NEW p \in Processes,
             \/ Walk(p) \/ CloseTemp(p) \/ WriteFails(p) \/ EndWalk(p) \/ EndRename(p)
             \/ \E b \in Bookmarks :
                   OpenTemp(p, b) \/ Skip(p, b) \/ BadArchive(p, b) \/ RemoveTemp(p, b) \/ RenameTemp(p, b)
      PROVE  NamesInv'
  <2>1. /\ UNCHANGED <<database, new, tx, torn>> /\ proc'[p].moved = proc[p].moved
        /\ proc[p].pc \in Rewriting /\ proc'[p].pc \in Rewriting \cup {"record"}
        /\ \A q \in Processes \ {p} : proc'[q] = proc[q]
    BY <1>4, ArchivingIs
  <2>2. \A draw \in Nat : Named(cur, draw) => Named(cur', draw)
    BY <1>4, RenameKeepsNames
  <2>3. database.draw \in Nat /\ (proc[p].moved => tx[p].view.draw \in Nat)
    BY DEF MigrationsTypeOK, Database, MovedInv, MovedOf, WriterInv
  <2>4. ASSUME ~torn' PROVE /\ (\A q \in Processes : ~proc'[q].moved) => Named(cur, database.draw)'
                            /\ \A q \in Processes : NamesOf(q)'
    <3>1. /\ (\A q \in Processes : ~proc[q].moved) => Named(cur', database.draw)
          /\ proc[p].moved => Named(cur', tx[p].view.draw)
          /\ \A q \in Processes : NamesOf(q)
      BY <2>1, <2>2, <2>3, <2>4 DEF NamesInv, NamesOf, Rewriting
    <3>2. NamesOf(p)'
      BY <2>1, <3>1 DEF NamesOf, Named, Rewriting
    <3>3. \A q \in Processes \ {p} : NamesOf(q)'
      BY <2>1, <2>2, <3>1, OthersNamed
    <3> QED
      BY <2>1, <3>1, <3>2, <3>3 DEF Named
  <2> QED
    BY <2>4 DEF NamesInv
<1>5. ASSUME NEW p \in Processes,
             MakeFolder(p) \/ RemoveFolder(p) \/ RenameFolder(p) \/ \E b \in Bookmarks : Link(p, b)
      PROVE  NamesInv'
  <2>1. /\ UNCHANGED <<database, tx, torn>>
        /\ proc[p].pc \in {"mkdir", "link", "switch"} /\ Wrote(p)
        /\ \A q \in Processes \ {p} : proc'[q] = proc[q]
    BY <1>5 DEF MakeFolder, RemoveFolder, RenameFolder, Link, Goto, history, MigrationsTypeOK,
                NextInv, Pending
  <2>2. \A q \in Processes \ {p} : ~proc[q].moved /\ NamesOf(q)'
    BY <2>1, OthersNameNone
  <2>3. proc[p].pc # "switch" =>
           /\ ~proc[p].moved /\ proc[p].old = database.draw
           /\ ~torn => Named(cur, database.draw)
    <3>1. proc[p].pc # "switch" => ~proc[p].moved
      BY <2>1, NamingOnce DEF Naming
    <3> QED
      BY <2>1, <2>2, <3>1 DEF MovedInv, MovedOf, NamesInv
  <2>4. CASE MakeFolder(p)
    <3>1. /\ proc[p].pc = "mkdir" /\ cur' = cur
          /\ proc'[p].pc = "link" /\ proc'[p].todo = proc[p].todo /\ proc'[p].moved = proc[p].moved
      BY <2>4 DEF MakeFolder, Goto, MigrationsTypeOK, Process
    <3>2. ~torn => NamesOf(p)'
      BY <2>1, <2>3, <3>1 DEF NamesInv, NamesOf
    <3> QED
      BY <2>1, <2>2, <2>3, <3>1, <3>2 DEF NamesInv, Named
  <2>5. CASE RemoveFolder(p)
    <3>1. /\ proc[p].pc = "link" /\ proc[p].todo = {} /\ new' = new
          /\ proc'[p].pc = "switch" /\ proc'[p].moved = TRUE
      BY <2>5 DEF RemoveFolder, MigrationsTypeOK, Process
    <3>2. ~torn => NamesOf(p)'
      BY <2>1, <3>1 DEF NamesInv, NamesOf, Named, MovedInv, MovedOf
    <3> QED
      BY <2>1, <2>2, <3>1, <3>2 DEF NamesInv
  <2>6. CASE RenameFolder(p)
    <3>1. /\ proc[p].pc = "switch" /\ cur' = new
          /\ proc'[p].pc = "record" /\ proc'[p].moved = proc[p].moved /\ proc[p].moved
      BY <2>6 DEF RenameFolder, Goto, MigrationsTypeOK, Process, MovedInv, MovedOf
    <3>2. ~torn => NamesOf(p)'
      BY <2>1, <3>1 DEF NamesInv, NamesOf, Named
    <3> QED
      BY <2>1, <2>2, <3>1, <3>2 DEF NamesInv
  <2>7. CASE \E b \in Bookmarks : Link(p, b)
    <3>1. PICK b \in Bookmarks : Link(p, b)
      BY <2>7
    <3>2. /\ proc[p].pc = "link" /\ cur' = cur
          /\ new' = IF There(b) /\ cur[b].draw = proc[p].old
                    THEN [new EXCEPT ![b] = [draw |-> tx[p].view.draw, file |-> cur[b].file]] ELSE new
          /\ proc'[p].pc = "link" /\ proc'[p].todo = proc[p].todo \ {b}
          /\ proc'[p].moved = proc[p].moved
      BY <3>1 DEF Link, MigrationsTypeOK, Process
    <3>3. new \in Folder
      BY <3>2 DEF MovedInv, MovedOf, MigrationsTypeOK
    <3>4. ASSUME ~torn PROVE NamesOf(p)'
      <4>1. ASSUME NEW a \in database.rows \ proc'[p].todo
            PROVE  new'[a] # None /\ new'[a].draw = tx[p].view.draw
        <5>1. a \in Bookmarks /\ database.rows \subseteq Bookmarks
          BY DEF MigrationsTypeOK, Database
        <5>2. CASE a = b
          <6>1. There(b) /\ cur[b].draw = proc[p].old
            BY <2>3, <3>2, <3>4, <5>1, <5>2 DEF Named, There
          <6>2. new'[b] = [draw |-> tx[p].view.draw, file |-> cur[b].file]
            BY <3>2, <3>3, <6>1 DEF Folder
          <6>3. new'[b] \in Archive
            <7>1. tx[p].view.draw \in Nat
              BY <2>1 DEF WriterInv, Database
            <7>2. cur[b].file \in Files
              BY <6>1 DEF There, MigrationsTypeOK, Folder, Archive
            <7> QED
              BY <6>2, <7>1, <7>2 DEF Archive
          <6> QED
            BY <5>2, <6>2, <6>3, MigrationsAssumption
        <5>3. CASE a # b
          <6>1. new'[a] = new[a]
            BY <3>2, <3>3, <5>1, <5>3 DEF Folder
          <6>2. a \in database.rows \ proc[p].todo
            BY <3>2, <5>3
          <6> QED
            BY <3>2, <3>4, <6>1, <6>2 DEF NamesInv, NamesOf
        <5> QED
          BY <5>2, <5>3
      <4> QED
        BY <2>1, <2>3, <3>2, <4>1 DEF NamesOf
    <3> QED
      BY <2>1, <2>2, <2>3, <3>2, <3>4 DEF NamesInv, Named
  <2> QED
    BY <1>5, <2>4, <2>5, <2>6, <2>7
<1>6. ASSUME NEW p \in Processes,
             AfterRemoval(p) \/ LinkFails(p) \/ Conflict(p) \/ Fail(p) \/ Crash(p)
      PROVE  NamesInv'
  <2>1. /\ UNCHANGED <<database, cur>>
        /\ tx'[p] = None /\ proc'[p] = Idle /\ torn' = (torn \/ proc[p].moved)
        /\ \A q \in Processes \ {p} : proc'[q] = proc[q] /\ tx'[q] = tx[q]
        /\ new' = new \/ (new' = None /\ proc[p].pc = "link")
    BY <1>6, EndingIs
  <2>2. ASSUME ~torn' PROVE /\ (\A q \in Processes : ~proc'[q].moved) => Named(cur, database.draw)'
                            /\ \A q \in Processes : NamesOf(q)'
    <3>1. /\ (\A q \in Processes : ~proc[q].moved) => Named(cur, database.draw)
          /\ \A q \in Processes : NamesOf(q)
          /\ ~proc[p].moved
      BY <2>1, <2>2 DEF NamesInv, MigrationsTypeOK, Process
    <3>2. NamesOf(p)' /\ proc'[p].moved = FALSE
      BY <2>1 DEF NamesOf, Idle
    <3>3. new' = new \/ Wrote(p)
      BY <2>1 DEF NextInv, Pending
    <3>4. \A q \in Processes \ {p} : NamesOf(q)'
      BY <2>1, <3>1, <3>3, OthersNamed, OthersNameNone
    <3> QED
      BY <2>1, <3>1, <3>2, <3>4 DEF Named
  <2> QED
    BY <2>2 DEF NamesInv
<1>7. ASSUME NEW p \in Processes, Stop(p) PROVE NamesInv'
  <2>1. /\ UNCHANGED <<database, cur, new, tx, torn>> /\ proc[p].pc = "up" /\ proc'[p] = Idle
        /\ \A q \in Processes \ {p} : proc'[q] = proc[q]
    BY <1>7 DEF Stop, MigrationsTypeOK, disk, history
  <2>2. ~proc[p].moved /\ proc'[p].moved = FALSE /\ NamesOf(p)'
    BY <2>1 DEF MovedInv, MovedOf, Wrote, StageInv, Waiting, Idle, NamesOf
  <2>3. ASSUME ~torn PROVE \A q \in Processes \ {p} : NamesOf(q)'
    BY <2>1, <2>3, OthersNamed DEF NamesInv
  <2> QED
    BY <2>1, <2>2, <2>3 DEF NamesInv, Named
<1>8. CASE UNCHANGED vars
  BY <1>8 DEF vars, disk, history, NamesInv, NamesOf, Named
<1> QED
  BY <1>1, <1>2, <1>3, <1>4, <1>5, <1>6, <1>7, <1>8 DEF Next

\* FolderIsNotLeft is kept.
LEMMA LeftStep ==
  ASSUME MigrationsTypeOK, StageInv, WriterInv, MovedInv, FolderIsNotLeft, [Next]_vars
  PROVE  FolderIsNotLeft'
<1>1. ASSUME NEW p \in Processes, proc[p].pc \notin {"link", "switch"}, new' = new,
             stopped => stopped', torn => torn',
             \A q \in Processes \ {p} : proc'[q] = proc[q]
      PROVE  FolderIsNotLeft'
  BY <1>1 DEF FolderIsNotLeft
<1>2. ASSUME NEW p \in Processes,
             Start(p) \/ Begin(p) \/ ReadRows(p) \/ CreateSchema(p) \/ Alter(p) \/ RewriteRows(p) \/ Record(p)
      PROVE  FolderIsNotLeft'
  BY <1>1, <1>2, ReadingIs, WritingIs DEF disk, history
<1>3. ASSUME NEW p \in Processes, DrawUUIDs(p) PROVE FolderIsNotLeft'
  BY <1>1, <1>3, DrawUUIDsIs DEF disk, history
<1>4. ASSUME NEW p \in Processes, Commit(p) \/ Stop(p) PROVE FolderIsNotLeft'
  BY <1>1, <1>4 DEF Commit, Stop, disk, history, MigrationsTypeOK
<1>5. ASSUME NEW p \in Processes,
             \/ Walk(p) \/ CloseTemp(p) \/ WriteFails(p) \/ EndWalk(p) \/ EndRename(p)
             \/ \E b \in Bookmarks :
                   OpenTemp(p, b) \/ Skip(p, b) \/ BadArchive(p, b) \/ RemoveTemp(p, b) \/ RenameTemp(p, b)
      PROVE  FolderIsNotLeft'
  <2>1. stopped' = stopped
    BY Zenon, <1>5 DEF Walk, CloseTemp, WriteFails, EndWalk, EndRename, OpenTemp, Skip, BadArchive,
                RemoveTemp, RenameTemp, history
  <2> QED
    BY <1>1, <1>5, <2>1, ArchivingIs DEF Rewriting
<1>6. ASSUME NEW p \in Processes,
             MakeFolder(p) \/ RemoveFolder(p) \/ RenameFolder(p) \/ \E b \in Bookmarks : Link(p, b)
      PROVE  FolderIsNotLeft'
  <2>1. proc'[p].pc \in {"link", "switch"} \/ new' = None
    BY <1>6 DEF MakeFolder, RemoveFolder, RenameFolder, Link, Goto, MigrationsTypeOK, Process
  <2> QED
    BY <2>1 DEF FolderIsNotLeft
<1>7. ASSUME NEW p \in Processes,
             AfterRemoval(p) \/ LinkFails(p) \/ Conflict(p) \/ Fail(p) \/ Crash(p)
      PROVE  FolderIsNotLeft'
  <2>1. /\ torn' = (torn \/ proc[p].moved)
        /\ \A q \in Processes \ {p} : proc'[q] = proc[q]
        /\ new' = new \/ (new' = None /\ proc[p].pc = "link")
        /\ proc[p].pc = "link" => new' = None \/ stopped'
        /\ stopped => stopped'
    BY <1>7, EndingIs
  <2>2. proc[p].pc = "switch" => torn'
    BY <2>1 DEF MovedInv, MovedOf, MigrationsTypeOK, Process
  <2>3. torn => torn'
    BY <2>1 DEF MigrationsTypeOK
  <2> QED
    BY <1>1, <2>1, <2>2, <2>3 DEF FolderIsNotLeft
<1>8. CASE UNCHANGED vars
  BY <1>8 DEF vars, disk, history, FolderIsNotLeft
<1> QED
  BY <1>2, <1>3, <1>4, <1>5, <1>6, <1>7, <1>8 DEF Next

-----------------------------------------------------------------------------
(* The archives that number 7 writes.                                      *)

\* A folder has no files but those that the folders had.
Kept(folder) ==
    folder # None => \A b \in Bookmarks : folder[b] # None =>
        \/ cur # None /\ cur[b] # None /\ folder[b].file = cur[b].file
        \/ new # None /\ new[b] # None /\ folder[b].file = new[b].file

\* What the migration that moves the folder leaves of names.
LEMMA FoldersKept ==
  ASSUME MigrationsTypeOK, StageInv, WriterInv, NextInv, MovedInv, NEW p \in Processes,
         MakeFolder(p) \/ RemoveFolder(p) \/ RenameFolder(p) \/ \E b \in Bookmarks : Link(p, b)
  PROVE  /\ Kept(cur') /\ Kept(new')
         /\ temp' = temp \/ temp' = [b \in Bookmarks |-> None]
         /\ UNCHANGED <<data, shared>>
         /\ proc[p].pc \in {"mkdir", "link", "switch"}
         /\ proc'[p].pc \in {"link", "switch", "record"} /\ proc'[p].out = proc[p].out
         /\ \A q \in Processes \ {p} : proc'[q] = proc[q]
<1>1. CASE MakeFolder(p)
  BY <1>1 DEF MakeFolder, Goto, Kept, history, MigrationsTypeOK, Process
<1>2. CASE RemoveFolder(p)
  BY <1>2 DEF RemoveFolder, Goto, Kept, history, MigrationsTypeOK, Process
<1>3. CASE RenameFolder(p)
  BY <1>3 DEF RenameFolder, Goto, Kept, history, MigrationsTypeOK, Process
<1>4. CASE \E b \in Bookmarks : Link(p, b)
  <2>1. PICK b \in Bookmarks : Link(p, b)
    BY <1>4
  <2>2. /\ proc[p].pc = "link" /\ UNCHANGED <<cur, temp, data, shared>>
        /\ new' = IF There(b) /\ cur[b].draw = proc[p].old
                  THEN [new EXCEPT ![b] = [draw |-> tx[p].view.draw, file |-> cur[b].file]] ELSE new
        /\ proc'[p].pc = "link" /\ proc'[p].out = proc[p].out
        /\ \A q \in Processes \ {p} : proc'[q] = proc[q]
    BY <2>1 DEF Link, history, MigrationsTypeOK, Process
  <2>3. new \in Folder /\ new # None
    BY <2>2 DEF MovedInv, MovedOf, MigrationsTypeOK
  <2>4. ASSUME NEW a \in Bookmarks, new'[a] # None
        PROVE  \/ cur # None /\ cur[a] # None /\ new'[a].file = cur[a].file
               \/ new # None /\ new[a] # None /\ new'[a].file = new[a].file
    BY <2>2, <2>3, <2>4 DEF There, Folder
  <2> QED
    BY <2>2, <2>4 DEF Kept
<1> QED
  BY <1>1, <1>2, <1>3, <1>4

\* Beside the same folder a name with a tilde stays what it is.
LEMMA TempKept ==
  ASSUME TempInv, temp' = temp, cur' = cur, Kept(new')
  PROVE  TempInv'
BY DEF TempInv, There, Kept

\* Without a name with a tilde there is nothing to say of them.
LEMMA NoTemp ==
  ASSUME temp' = [b \in Bookmarks |-> None]
  PROVE  TempInv'
BY DEF TempInv

\* TempInv is kept when one is opened,
LEMMA OpenTempStep ==
  ASSUME MigrationsTypeOK, TempInv, NEW p \in Processes, NEW b \in Bookmarks, OpenTemp(p, b)
  PROVE  TempInv'
<1>1. PICK f \in Files :
         /\ f = IF HasTemp(p, b) THEN temp[b].file ELSE CHOOSE g \in Spare : g \notin Used
         /\ HasTemp(p, b) \/ f \notin Used
         /\ temp' = [temp EXCEPT ![b] = [draw |-> proc[p].names[b], file |-> f]]
  BY OpenTempIs
<1>2. UNCHANGED <<cur, new>> /\ There(b) /\ cur[b].draw = proc[p].names[b]
  BY Zenon DEF OpenTemp
<1>3. temp'[b] = [draw |-> proc[p].names[b], file |-> f] /\ \A a \in Bookmarks \ {b} : temp'[a] = temp[a]
  BY <1>1 DEF MigrationsTypeOK, Folder
<1>4. \A a \in Bookmarks :
         /\ a # b /\ temp[a] # None => temp[a].file # f
         /\ cur[a] # None => cur[a].file # f
         /\ new # None /\ new[a] # None => new[a].file # f
  <2>1. CASE HasTemp(p, b)
    BY <1>1, <2>1 DEF HasTemp, TempInv
  <2>2. CASE ~HasTemp(p, b)
    BY Zenon, <1>1, <1>2, <2>2 DEF Used, There
  <2> QED
    BY <2>1, <2>2
<1>5. ASSUME NEW c \in Bookmarks, temp'[c] # None
      PROVE  /\ There(c)' /\ cur'[c].draw = temp'[c].draw
             /\ \A a \in Bookmarks :
                   /\ a # c /\ temp'[a] # None => temp'[a].file # temp'[c].file
                   /\ cur'[a] # None => cur'[a].file # temp'[c].file
                   /\ new' # None /\ new'[a] # None => new'[a].file # temp'[c].file
  <2>1. CASE c = b
    BY <1>2, <1>3, <1>4, <2>1 DEF There
  <2>2. CASE c # b
    <3>1. temp'[c] = temp[c] /\ temp[c] # None
      BY <1>3, <1>5, <2>2
    <3> QED
      BY <1>2, <1>3, <1>4, <2>2, <3>1 DEF There, TempInv
  <2> QED
    BY <2>1, <2>2
<1> QED
  BY <1>5 DEF TempInv

\* when one takes its place,
LEMMA RenameTempStep ==
  ASSUME MigrationsTypeOK, TempInv, NEW p \in Processes, NEW b \in Bookmarks, RenameTemp(p, b)
  PROVE  TempInv'
<1>1. /\ cur # None /\ cur' = [cur EXCEPT ![b] = temp[b]] /\ temp' = [temp EXCEPT ![b] = None]
      /\ new' = new /\ temp[b] # None
  BY DEF RenameTemp, HasTemp
<1>2. /\ cur'[b] = temp[b] /\ temp'[b] = None
      /\ \A a \in Bookmarks \ {b} : cur'[a] = cur[a] /\ temp'[a] = temp[a]
  BY <1>1 DEF MigrationsTypeOK, Folder
<1>3. cur' # None
  <2>1. cur' \in Folder
    BY <1>1 DEF MigrationsTypeOK, Folder
  <2> QED
    BY <2>1, MigrationsAssumption
<1>4. ASSUME NEW c \in Bookmarks, temp'[c] # None
      PROVE  /\ There(c)' /\ cur'[c].draw = temp'[c].draw
             /\ \A a \in Bookmarks :
                   /\ a # c /\ temp'[a] # None => temp'[a].file # temp'[c].file
                   /\ cur'[a] # None => cur'[a].file # temp'[c].file
                   /\ new' # None /\ new'[a] # None => new'[a].file # temp'[c].file
  <2>1. c # b /\ temp'[c] = temp[c] /\ temp[c] # None /\ cur'[c] = cur[c]
    BY <1>2, <1>4
  <2> QED
    BY <1>1, <1>2, <1>3, <2>1 DEF There, TempInv
<1> QED
  BY <1>4 DEF TempInv

\* and by every step.
LEMMA TempStep ==
  ASSUME MigrationsTypeOK, StageInv, WriterInv, NextInv, MovedInv, TempInv, [Next]_vars
  PROVE  TempInv'
<1>1. ASSUME UNCHANGED <<cur, new, temp>> PROVE TempInv'
  BY <1>1 DEF TempInv, There
<1>2. ASSUME NEW p \in Processes,
             \/ Start(p) \/ Begin(p) \/ ReadRows(p) \/ CreateSchema(p) \/ Alter(p)
             \/ RewriteRows(p) \/ Record(p)
      PROVE  TempInv'
  BY <1>1, <1>2, ReadingIs, WritingIs DEF disk
<1>3. ASSUME NEW p \in Processes, DrawUUIDs(p) \/ Commit(p) \/ Stop(p) PROVE TempInv'
  BY <1>1, <1>3 DEF DrawUUIDs, Commit, Stop, disk
<1>4. ASSUME NEW p \in Processes, Walk(p) \/ CloseTemp(p) \/ WriteFails(p) \/ EndWalk(p) \/ EndRename(p)
      PROVE  TempInv'
  BY Zenon, <1>1, <1>4 DEF Walk, CloseTemp, WriteFails, EndWalk, EndRename, disk
<1>5. ASSUME NEW p \in Processes, NEW b \in Bookmarks, Skip(p, b) \/ BadArchive(p, b)
      PROVE  TempInv'
  BY <1>1, <1>5 DEF Skip, BadArchive, disk
<1>6. ASSUME NEW p \in Processes, NEW b \in Bookmarks, RemoveTemp(p, b) PROVE TempInv'
  <2>1. \A c \in Bookmarks : temp'[c] # None => temp'[c] = temp[c]
    BY <1>6 DEF RemoveTemp, MigrationsTypeOK, Folder
  <2>2. UNCHANGED <<cur, new>>
    BY <1>6 DEF RemoveTemp
  <2> QED
    BY <2>1, <2>2 DEF TempInv, There
<1>7. ASSUME NEW p \in Processes,
             MakeFolder(p) \/ RenameFolder(p) \/ \E b \in Bookmarks : Link(p, b)
      PROVE  TempInv'
  <2>1. Kept(new') /\ temp' = temp
    <3>1. temp' = temp
      BY <1>7 DEF MakeFolder, RenameFolder, Link
    <3> QED
      BY <1>7, <3>1, FoldersKept
  <2>2. CASE cur' = cur
    BY <2>1, <2>2, TempKept
  <2>3. CASE cur' # cur
    <3>1. cur = None
      BY <1>7, <2>3 DEF MakeFolder, RenameFolder, Link, MovedInv, MovedOf
    <3> QED
      BY <2>1, <3>1 DEF TempInv, There
  <2> QED
    BY <2>2, <2>3
<1>8. ASSUME NEW p \in Processes, RemoveFolder(p) PROVE TempInv'
  BY <1>8, NoTemp DEF RemoveFolder
<1>9. ASSUME NEW p \in Processes,
             AfterRemoval(p) \/ LinkFails(p) \/ Conflict(p) \/ Fail(p) \/ Crash(p)
      PROVE  TempInv'
  <2>1. cur' = cur /\ temp' = temp /\ (new' = new \/ new' = None)
    BY <1>9, EndingIs
  <2> QED
    BY <2>1, TempKept DEF Kept
<1>10. CASE UNCHANGED vars
  BY <1>1, <1>10 DEF vars, disk
<1> QED
  BY <1>2, <1>3, <1>4, <1>5, <1>6, <1>7, <1>8, <1>9, <1>10, OpenTempStep, RenameTempStep DEF Next

\* A step outside the rewriting of archives.
LEMMA WholeElsewhere ==
  ASSUME MigrationsTypeOK, WholeInv, NEW p \in Processes,
         UNCHANGED <<data, shared>>, Kept(cur'), Kept(new'),
         temp' = temp \/ temp' = [b \in Bookmarks |-> None],
         proc'[p].pc \notin InArchives,
         proc'[p].out = None \/ (proc[p].pc # "write" /\ proc'[p].out = proc[p].out),
         \A q \in Processes \ {p} : proc'[q] = proc[q]
  PROVE  WholeInv'
<1>1. \A q \in Processes : WritesOf(q)'
  BY DEF WholeInv, WritesOf, InArchives
<1>2. CASE ~shared
  <2>1. AllWhole(cur') /\ AllWhole(new')
    BY <1>2 DEF WholeInv, AllWhole, Kept
  <2>2. AllWhole(cur)' /\ AllWhole(new)'
    BY <2>1 DEF AllWhole
  <2>3. ASSUME NEW q \in Processes PROVE WroteWhole(q)'
    <3>1. CASE q = p
      BY <3>1 DEF WroteWhole
    <3>2. CASE q # p
      <4>1. proc'[q] = proc[q] /\ proc[q].mine \subseteq Bookmarks /\ WroteWhole(q)
        BY <1>2, <3>2 DEF WholeInv, MigrationsTypeOK, Process
      <4>2. CASE temp' = temp
        BY <4>1, <4>2 DEF WroteWhole, HasTemp
      <4>3. CASE temp' = [b \in Bookmarks |-> None]
        BY <4>1, <4>3 DEF WroteWhole, HasTemp
      <4> QED
        BY <4>2, <4>3
    <3> QED
      BY <3>1, <3>2
  <2>4. \A q, r \in Processes :
           q # r /\ proc'[q].pc \in InArchives /\ proc'[r].pc \in InArchives
              => proc'[q].mine = {} \/ proc'[r].mine = {}
    BY <1>2 DEF WholeInv
  <2>5. \A f \in Files : data'[f] # "mixed"
    BY <1>2 DEF WholeInv
  <2> QED
    BY <1>1, <2>2, <2>3, <2>4, <2>5 DEF WholeInv
<1>3. CASE shared
  BY <1>1, <1>3 DEF WholeInv
<1> QED
  BY <1>2, <1>3 DEF MigrationsTypeOK

\* A step of one that rewrites archives and neither writes nor renames one.
LEMMA WholeWithin ==
  ASSUME MigrationsTypeOK, WholeInv, NEW p \in Processes,
         UNCHANGED <<cur, new, temp, data, shared>>,
         WritesOf(p)',
         proc[p].pc \in InArchives \/ proc'[p].mine = {},
         proc'[p].mine = {} \/ proc'[p].mine = proc[p].mine,
         \/ proc'[p].mine = {} \/ proc'[p].bad
         \/ /\ proc'[p].names = proc[p].names /\ proc'[p].out = proc[p].out /\ ~proc[p].bad,
         \A q \in Processes \ {p} : proc'[q] = proc[q]
  PROVE  WholeInv'
<1>1. \A q \in Processes : WritesOf(q)'
  BY DEF WholeInv, WritesOf
<1>2. CASE ~shared
  <2>1. AllWhole(cur)' /\ AllWhole(new)'
    BY <1>2 DEF WholeInv, AllWhole
  <2>3. ASSUME NEW q \in Processes PROVE WroteWhole(q)'
    <3>1. CASE q = p
      BY <1>2, <3>1 DEF WroteWhole, HasTemp, WholeInv
    <3>2. CASE q # p
      BY <1>2, <3>2 DEF WroteWhole, HasTemp, WholeInv
    <3> QED
      BY <3>1, <3>2
  <2>4. ASSUME NEW q \in Processes, NEW r \in Processes, q # r,
               proc'[q].pc \in InArchives, proc'[r].pc \in InArchives
        PROVE  proc'[q].mine = {} \/ proc'[r].mine = {}
    BY <1>2, <2>4 DEF WholeInv
  <2>5. \A f \in Files : data'[f] # "mixed"
    BY <1>2 DEF WholeInv
  <2> QED
    BY <1>1, <2>1, <2>3, <2>4, <2>5 DEF WholeInv
<1>3. CASE shared
  BY <1>1, <1>3 DEF WholeInv
<1> QED
  BY <1>2, <1>3 DEF MigrationsTypeOK

\* WholeInv is kept when a name with a tilde is opened,
LEMMA OpenTempWhole ==
  ASSUME MigrationsTypeOK, TempInv, WholeInv, NEW p \in Processes, NEW b \in Bookmarks, OpenTemp(p, b)
  PROVE  WholeInv'
<1>1. PICK f \in Files :
         /\ f = IF HasTemp(p, b) THEN temp[b].file ELSE CHOOSE g \in Spare : g \notin Used
         /\ HasTemp(p, b) \/ f \notin Used
         /\ temp' = [temp EXCEPT ![b] = [draw |-> proc[p].names[b], file |-> f]]
         /\ data' = [data EXCEPT ![f] = IF \E q \in Processes : proc[q].out = f
                                        THEN "mixed" ELSE "partial"]
         /\ proc[p].pc = "walk" /\ proc'[p].pc = "write" /\ proc'[p].out = f
         /\ proc'[p].mine = proc[p].mine \cup {b}
         /\ proc'[p].names = proc[p].names /\ proc'[p].bad = proc[p].bad
         /\ \A q \in Processes \ {p} : proc'[q] = proc[q]
  BY OpenTempIs
<1>2. /\ UNCHANGED <<cur, new>> /\ There(b) /\ cur[b].draw = proc[p].names[b]
      /\ shared' = (shared \/ \E q \in Processes \ {p} : proc[q].pc \in InArchives)
  BY Zenon DEF OpenTemp
<1>3. \A q \in Processes : WritesOf(q)'
  BY <1>1 DEF WholeInv, WritesOf
<1>4. ASSUME ~shared, \A q \in Processes \ {p} : proc[q].pc \notin InArchives
      PROVE  WholeInv'
  <2>1. \A q \in Processes : proc[q].out = None
    BY <1>1, <1>4 DEF WholeInv, WritesOf, InArchives
  <2>2. data'[f] = "partial" /\ \A g \in Files \ {f} : data'[g] = data[g]
    <3>1. ~\E q \in Processes : proc[q].out = f
      BY <2>1, MigrationsAssumption
    <3> QED
      BY <1>1, <3>1 DEF MigrationsTypeOK
  <2>3. /\ temp'[b] = [draw |-> proc[p].names[b], file |-> f]
        /\ \A a \in Bookmarks \ {b} : temp'[a] = temp[a]
    BY <1>1 DEF MigrationsTypeOK, Folder
  <2>4. \A a \in Bookmarks :
           /\ a # b /\ temp[a] # None => temp[a].file # f /\ temp[a].file \in Files
           /\ cur # None /\ cur[a] # None => cur[a].file # f /\ cur[a].file \in Files
           /\ new # None /\ new[a] # None => new[a].file # f /\ new[a].file \in Files
    <3>1. CASE HasTemp(p, b)
      BY <1>1, <3>1 DEF HasTemp, TempInv, MigrationsTypeOK, Folder, Archive
    <3>2. CASE ~HasTemp(p, b)
      BY ZenonT(60), <1>1, <3>2 DEF Used, There, MigrationsTypeOK, Folder, Archive
    <3> QED
      BY <3>1, <3>2
  <2>5. AllWhole(cur)' /\ AllWhole(new)'
    <3>1. AllWhole(cur) /\ AllWhole(new)
      BY <1>4 DEF WholeInv
    <3> QED
      BY <1>2, <2>2, <2>4, <3>1 DEF AllWhole
  <2>6. \A g \in Files : data'[g] # "mixed"
    BY <1>4, <2>2 DEF WholeInv
  <2>7. WroteWhole(p)'
    <3>1. ASSUME ~proc[p].bad, NEW a \in proc[p].mine \cup {b}, HasTemp(p, a)', temp'[a].file # f
          PROVE  data'[temp'[a].file] = "whole"
      <4>1. a # b
        BY <2>3, <3>1
      <4>2. a \in Bookmarks /\ a \in proc[p].mine /\ temp'[a] = temp[a]
        BY <2>3, <3>1, <4>1 DEF MigrationsTypeOK, Process
      <4>3. HasTemp(p, a) /\ temp[a].file # None
        BY <1>1, <2>4, <3>1, <4>1, <4>2, MigrationsAssumption DEF HasTemp
      <4>4. data[temp[a].file] = "whole"
        BY <1>1, <1>4, <2>1, <3>1, <4>2, <4>3 DEF WholeInv, WroteWhole, InArchives
      <4> QED
        BY <2>2, <2>4, <4>1, <4>2, <4>3, <4>4 DEF HasTemp
    <3> QED
      BY <1>1, <3>1 DEF WroteWhole
  <2>8. \A q \in Processes \ {p} : proc'[q].pc \notin InArchives
    BY <1>1, <1>4
  <2> QED
    BY <1>3, <2>5, <2>6, <2>7, <2>8 DEF WholeInv, WroteWhole
<1>5. CASE shared'
  BY <1>3, <1>5 DEF WholeInv
<1> QED
  BY <1>2, <1>4, <1>5

\* and when it is closed.
LEMMA CloseTempWhole ==
  ASSUME MigrationsTypeOK, WholeInv, NEW p \in Processes, CloseTemp(p)
  PROVE  WholeInv'
<1>1. /\ UNCHANGED <<cur, new, temp, shared>>
      /\ proc[p].pc = "write" /\ proc'[p].pc = "walk" /\ proc'[p].out = None
      /\ data' = [data EXCEPT ![proc[p].out] = IF @ = "mixed" THEN "mixed" ELSE "whole"]
      /\ proc'[p].mine = proc[p].mine /\ proc'[p].bad = proc[p].bad
      /\ proc'[p].names = proc[p].names
      /\ \A q \in Processes \ {p} : proc'[q] = proc[q]
  BY DEF CloseTemp, history, MigrationsTypeOK, Process
<1>2. \A q \in Processes : WritesOf(q)'
  BY <1>1 DEF WholeInv, WritesOf
<1>3. CASE ~shared
  <2>1. \A g \in Files : data'[g] = IF g = proc[p].out THEN "whole" ELSE data[g]
    BY <1>1, <1>3 DEF MigrationsTypeOK, WholeInv
  <2>2. AllWhole(cur)' /\ AllWhole(new)'
    <3>1. AllWhole(cur) /\ AllWhole(new)
      BY <1>3 DEF WholeInv
    <3> QED
      BY <1>1, <2>1, <3>1 DEF AllWhole, MigrationsTypeOK, Folder, Archive
  <2>3. \A g \in Files : data'[g] # "mixed"
    BY <1>3, <2>1 DEF WholeInv
  <2>4. ASSUME NEW q \in Processes PROVE WroteWhole(q)'
    <3>1. ASSUME proc'[q].pc \in InArchives, ~proc'[q].bad, NEW a \in proc'[q].mine,
                 HasTemp(q, a)', temp'[a].file # proc'[q].out
          PROVE  data'[temp'[a].file] = "whole"
      <4>1. /\ proc[q].pc \in InArchives /\ ~proc[q].bad /\ a \in proc[q].mine
            /\ proc'[q].names = proc[q].names /\ a \in Bookmarks
        BY <1>1, <3>1 DEF InArchives, MigrationsTypeOK, Process
      <4>2. HasTemp(q, a) /\ temp[a].file \in Files
        BY <1>1, <3>1, <4>1 DEF HasTemp, MigrationsTypeOK, Folder, Archive
      <4>3. temp[a].file # proc[q].out => data[temp[a].file] = "whole"
        BY <1>3, <4>1, <4>2 DEF WholeInv, WroteWhole
      <4>4. temp[a].file = proc[q].out => temp[a].file = proc[p].out
        BY <1>1, <3>1
      <4> QED
        BY <1>1, <2>1, <4>2, <4>3, <4>4
    <3> QED
      BY <3>1 DEF WroteWhole
  <2>5. ASSUME NEW q \in Processes, NEW r \in Processes, q # r,
               proc'[q].pc \in InArchives, proc'[r].pc \in InArchives
        PROVE  proc'[q].mine = {} \/ proc'[r].mine = {}
    BY <1>1, <1>3, <2>5 DEF WholeInv, InArchives
  <2> QED
    BY <1>1, <1>2, <2>2, <2>3, <2>4, <2>5 DEF WholeInv
<1>4. CASE shared
  BY <1>1, <1>2, <1>4 DEF WholeInv
<1> QED
  BY <1>3, <1>4 DEF MigrationsTypeOK

\* A name with a tilde goes: it takes the place of another one, or is removed.
LEMMA TempGoesWhole ==
  ASSUME MigrationsTypeOK, WholeInv, NEW p \in Processes, NEW b \in Bookmarks,
         RemoveTemp(p, b) \/ RenameTemp(p, b)
  PROVE  WholeInv'
<1>1. /\ UNCHANGED <<new, data, shared>>
      /\ proc[p].pc \in {"remove", "rename"} /\ proc'[p].pc = proc[p].pc
      /\ proc'[p].out = proc[p].out /\ proc'[p].todo = proc[p].todo \ {b}
      /\ proc'[p].mine = proc[p].mine /\ proc'[p].bad = proc[p].bad
      /\ proc'[p].names = proc[p].names
      /\ \A q \in Processes \ {p} : proc'[q] = proc[q]
  BY DEF RemoveTemp, RenameTemp, history, MigrationsTypeOK, Process
<1>2. \A q \in Processes : WritesOf(q)'
  BY <1>1 DEF WholeInv, WritesOf
<1>3. \A a \in Bookmarks : temp'[a] # None => temp'[a] = temp[a]
  BY DEF RemoveTemp, RenameTemp, MigrationsTypeOK, Folder
<1>4. CASE ~shared
  <2>1. AllWhole(cur)'
    <3>1. CASE RemoveTemp(p, b)
      BY <1>1, <1>4, <3>1 DEF RemoveTemp, WholeInv, AllWhole
    <3>2. CASE RenameTemp(p, b)
      <4>1. /\ cur # None /\ cur' = [cur EXCEPT ![b] = temp[b]] /\ HasTemp(p, b)
            /\ proc[p].pc = "rename" /\ b \in proc[p].todo
        BY <3>2 DEF RenameTemp
      <4>2. proc[p].out = None /\ ~proc[p].bad /\ b \in proc[p].mine
        BY <4>1 DEF WholeInv, WritesOf
      <4>3. temp[b].file # None
        BY <4>1, MigrationsAssumption DEF HasTemp, MigrationsTypeOK, Folder, Archive
      <4>4. data[temp[b].file] = "whole"
        BY <1>4, <4>1, <4>2, <4>3 DEF WholeInv, WroteWhole, InArchives
      <4>5. AllWhole(cur) /\ cur \in Folder
        BY <1>4, <4>1 DEF WholeInv, MigrationsTypeOK
      <4> QED
        BY <1>1, <4>1, <4>4, <4>5 DEF AllWhole, Folder
    <3> QED
      BY <3>1, <3>2
  <2>2. AllWhole(new)'
    BY <1>1, <1>4 DEF WholeInv, AllWhole
  <2>3. ASSUME NEW q \in Processes PROVE WroteWhole(q)'
    <3>1. ASSUME proc'[q].pc \in InArchives, ~proc'[q].bad, NEW a \in proc'[q].mine,
                 HasTemp(q, a)', temp'[a].file # proc'[q].out
          PROVE  data'[temp'[a].file] = "whole"
      <4>1. /\ proc[q].pc \in InArchives /\ ~proc[q].bad /\ a \in proc[q].mine
            /\ proc'[q].names = proc[q].names /\ proc'[q].out = proc[q].out /\ a \in Bookmarks
        BY <1>1, <3>1 DEF MigrationsTypeOK, Process
      <4>2. HasTemp(q, a) /\ temp'[a] = temp[a]
        BY <1>3, <3>1, <4>1 DEF HasTemp
      <4> QED
        BY <1>1, <1>4, <3>1, <4>1, <4>2 DEF WholeInv, WroteWhole
    <3> QED
      BY <3>1 DEF WroteWhole
  <2>4. ASSUME NEW q \in Processes, NEW r \in Processes, q # r,
               proc'[q].pc \in InArchives, proc'[r].pc \in InArchives
        PROVE  proc'[q].mine = {} \/ proc'[r].mine = {}
    BY <1>1, <1>4, <2>4 DEF WholeInv, InArchives
  <2> QED
    BY <1>1, <1>2, <1>4, <2>1, <2>2, <2>3, <2>4 DEF WholeInv
<1>5. CASE shared
  BY <1>1, <1>2, <1>5 DEF WholeInv
<1> QED
  BY <1>4, <1>5 DEF MigrationsTypeOK

\* WholeInv is kept.
LEMMA WholeStep ==
  ASSUME MigrationsTypeOK, StageInv, WriterInv, NextInv, MovedInv, TempInv, WholeInv, [Next]_vars
  PROVE  WholeInv'
<1>0. Kept(cur) /\ Kept(new)
  BY DEF Kept
<1>1. ASSUME NEW p \in Processes,
             \/ Start(p) \/ Begin(p) \/ ReadRows(p) \/ CreateSchema(p) \/ Alter(p)
             \/ RewriteRows(p) \/ Record(p) \/ DrawUUIDs(p) \/ Commit(p) \/ EndRename(p)
      PROVE  WholeInv'
  <2>1. /\ UNCHANGED <<disk, shared>>
        /\ proc[p].pc # "write" /\ proc'[p].pc \notin InArchives /\ proc'[p].out = proc[p].out
        /\ \A q \in Processes \ {p} : proc'[q] = proc[q]
    <3>1. CASE Start(p) \/ Begin(p) \/ ReadRows(p)
      BY <3>1, ReadingIs DEF history
    <3>2. CASE CreateSchema(p) \/ Alter(p) \/ RewriteRows(p) \/ Record(p)
      BY <3>2, WritingIs DEF history
    <3>3. CASE DrawUUIDs(p)
      BY <3>3, DrawUUIDsIs DEF history, InArchives
    <3>4. CASE Commit(p) \/ EndRename(p)
      BY <3>4 DEF Commit, EndRename, Goto, history, InArchives, MigrationsTypeOK, Process
    <3> QED
      BY <1>1, <3>1, <3>2, <3>3, <3>4
  <2>2. /\ UNCHANGED <<data, shared>> /\ Kept(cur') /\ Kept(new') /\ temp' = temp
    BY <1>0, <2>1 DEF disk
  <2> QED
    BY <2>1, <2>2, WholeElsewhere
<1>2. ASSUME NEW p \in Processes,
             MakeFolder(p) \/ RemoveFolder(p) \/ RenameFolder(p) \/ \E b \in Bookmarks : Link(p, b)
      PROVE  WholeInv'
  <2>1. /\ Kept(cur') /\ Kept(new')
        /\ temp' = temp \/ temp' = [b \in Bookmarks |-> None]
        /\ UNCHANGED <<data, shared>>
        /\ proc[p].pc \in {"mkdir", "link", "switch"}
        /\ proc'[p].pc \in {"link", "switch", "record"} /\ proc'[p].out = proc[p].out
        /\ \A q \in Processes \ {p} : proc'[q] = proc[q]
    BY <1>2, FoldersKept
  <2>2. proc[p].pc # "write" /\ proc'[p].pc \notin InArchives
    BY <2>1 DEF InArchives
  <2> QED
    BY <2>1, <2>2, WholeElsewhere
<1>3. ASSUME NEW p \in Processes,
             AfterRemoval(p) \/ LinkFails(p) \/ Conflict(p) \/ Fail(p) \/ Crash(p) \/ Stop(p)
      PROVE  WholeInv'
  <2>1. /\ UNCHANGED <<cur, temp, data, shared>> /\ proc'[p] = Idle
        /\ \A q \in Processes \ {p} : proc'[q] = proc[q]
        /\ new' = new \/ new' = None
    <3>1. CASE Stop(p)
      BY <3>1 DEF Stop, disk, history, MigrationsTypeOK
    <3> QED
      BY <1>3, <3>1, EndingIs
  <2>2. Kept(cur') /\ Kept(new')
    BY <1>0, <2>1 DEF Kept
  <2>3. proc'[p].pc \notin InArchives /\ proc'[p].out = None
    BY <2>1 DEF Idle, InArchives
  <2> QED
    BY <2>1, <2>2, <2>3, WholeElsewhere
<1>4. ASSUME NEW p \in Processes, Walk(p) PROVE WholeInv'
  <2>1. /\ UNCHANGED <<cur, new, temp, data, shared>>
        /\ proc[p].pc = "archives" /\ proc'[p].pc = "walk" /\ proc'[p].mine = {}
        /\ proc'[p].out = proc[p].out
        /\ \A q \in Processes \ {p} : proc'[q] = proc[q]
    BY Zenon, <1>4, WalkIs DEF Walk, disk, history
  <2>2. WritesOf(p)'
    BY <2>1 DEF WholeInv, WritesOf
  <2> QED
    BY <2>1, <2>2, WholeWithin
<1>5. ASSUME NEW p \in Processes, WriteFails(p) PROVE WholeInv'
  <2>1. /\ UNCHANGED <<cur, new, temp, data, shared>>
        /\ proc[p].pc = "write" /\ proc'[p].pc = "walk" /\ proc'[p].mine = proc[p].mine
        /\ proc'[p].out = None /\ proc'[p].bad
        /\ \A q \in Processes \ {p} : proc'[q] = proc[q]
    BY <1>5 DEF WriteFails, disk, history, MigrationsTypeOK, Process
  <2>2. WritesOf(p)' /\ proc[p].pc \in InArchives
    BY <2>1 DEF WritesOf, InArchives
  <2> QED
    BY <2>1, <2>2, WholeWithin
<1>6. ASSUME NEW p \in Processes, EndWalk(p) PROVE WholeInv'
  <2>1. /\ UNCHANGED <<cur, new, temp, data, shared>>
        /\ proc[p].pc = "walk" /\ proc'[p].mine = proc[p].mine /\ proc'[p].todo = proc[p].mine
        /\ \/ proc[p].bad /\ proc'[p].pc = "remove"
           \/ ~proc[p].bad /\ proc'[p].pc = "rename"
        /\ proc'[p].names = proc[p].names /\ proc'[p].out = proc[p].out
        /\ proc'[p].bad = proc[p].bad
        /\ \A q \in Processes \ {p} : proc'[q] = proc[q]
    BY <1>6, EndWalkIs DEF disk, history
  <2>2. WritesOf(p)' /\ proc[p].pc \in InArchives
    BY <2>1 DEF WholeInv, WritesOf, InArchives
  <2> QED
    BY <2>1, <2>2, WholeWithin
<1>7. ASSUME NEW p \in Processes, NEW b \in Bookmarks, Skip(p, b) \/ BadArchive(p, b)
      PROVE  WholeInv'
  <2>1. /\ UNCHANGED <<cur, new, temp, data, shared>>
        /\ proc[p].pc = "walk" /\ proc'[p].pc = "walk" /\ proc'[p].mine = proc[p].mine
        /\ proc'[p].names = proc[p].names /\ proc'[p].out = proc[p].out
        /\ proc'[p].bad \/ proc'[p].bad = proc[p].bad
        /\ \A q \in Processes \ {p} : proc'[q] = proc[q]
    BY <1>7 DEF Skip, BadArchive, disk, history, MigrationsTypeOK, Process
  <2>2. WritesOf(p)' /\ proc[p].pc \in InArchives
    BY <2>1 DEF WholeInv, WritesOf, InArchives
  <2> QED
    BY <2>1, <2>2, WholeWithin
<1>8. CASE UNCHANGED vars
  BY <1>8 DEF vars, disk, history, WholeInv, WritesOf, WroteWhole, AllWhole, HasTemp
<1> QED
  BY <1>1, <1>2, <1>3, <1>4, <1>5, <1>6, <1>7, <1>8, OpenTempWhole, CloseTempWhole, TempGoesWhole
     DEF Next

-----------------------------------------------------------------------------
(* The theorems of the migrations.                                         *)

\* The parts together say that archives follow their rows.
LEMMA FilesFollow ==
  ASSUME MigrationsTypeOK, WholeInv, MovedInv, NamesInv
  PROVE  RowsKeepArchives
<1> SUFFICES ASSUME ~torn, ~shared, NEW b \in database.rows
             PROVE  \/ Follows(b, database.draw)
                    \/ \E p \in Processes :
                          proc[p].moved /\ (proc[p].pc = "switch" \/ Follows(b, tx[p].view.draw))
  BY DEF RowsKeepArchives
<1>1. b \in Bookmarks
  BY DEF MigrationsTypeOK, Database
<1>2. ASSUME NEW draw, Named(cur, draw) PROVE Follows(b, draw)
  BY <1>1, <1>2 DEF Named, Follows, There, WholeInv, AllWhole
<1>3. CASE \A p \in Processes : ~proc[p].moved
  BY <1>2, <1>3 DEF NamesInv
<1>4. CASE \E p \in Processes : proc[p].moved
  <2>1. PICK p \in Processes : proc[p].moved
    BY <1>4
  <2>2. NamesOf(p)
    BY DEF NamesInv
  <2> QED
    BY <1>2, <2>1, <2>2 DEF NamesOf
<1> QED
  BY <1>3, <1>4

-----------------------------------------------------------------------------

MigrationsInv ==
    /\ MigrationsTypeOK /\ StageInv /\ WriterInv /\ NextInv /\ AppliedOnce
    /\ MovedInv /\ TempInv /\ WholeInv /\ NamesInv /\ FolderIsNotLeft

\* A start finds every archive in its place, and no process at work.
Fresh ==
    /\ \E v \in -1 .. N :
          database = [version |-> v, times |-> Upto(v), draw |-> 0,
                      rows |-> IF v = -1 THEN {} ELSE Bookmarks]
    /\ drawn = 0
    /\ cur = [b \in Bookmarks |-> IF b \in database.rows THEN [draw |-> 0, file |-> b] ELSE None]
    /\ new = None
    /\ temp = [b \in Bookmarks |-> None]
    /\ data = [f \in Files |-> "whole"]
    /\ proc = [p \in Processes |-> Idle]
    /\ tx = [p \in Processes |-> None]
    /\ torn = FALSE /\ stopped = FALSE /\ shared = FALSE

\* A start on a database of any version has all parts.
LEMMA FreshInv == Fresh => MigrationsInv
<1> SUFFICES ASSUME Fresh PROVE MigrationsInv
  OBVIOUS
<1>1. PICK v \in -1 .. N :
         database = [version |-> v, times |-> Upto(v), draw |-> 0,
                     rows |-> IF v = -1 THEN {} ELSE Bookmarks]
  BY DEF Fresh
<1>2. database \in Database
  BY <1>1, UptoTyped DEF Database
<1>3. \A b \in Bookmarks : [draw |-> 0, file |-> b] \in Archive /\ [draw |-> 0, file |-> b] # None
  BY MigrationsAssumption DEF Archive, Files
<1>4. cur \in Folder /\ cur # None /\ temp \in Folder
  BY <1>3, MigrationsAssumption DEF Fresh, Folder
<1>5. MigrationsTypeOK
  BY <1>2, <1>4, IdleTyped DEF Fresh, MigrationsTypeOK
<1>6. StageInv /\ WriterInv /\ NextInv
  BY DEF Fresh, StageInv, WriterInv, NextInv, Wrote, Pending, Waiting, Idle, Applying, Naming,
         Rewriting, Stages
<1>7. AppliedOnce
  BY <1>1 DEF AppliedOnce
<1>8. MovedInv /\ TempInv
  BY DEF Fresh, MovedInv, MovedOf, TempInv, Wrote, Idle
<1>9. WholeInv
  <2>1. AllWhole(cur) /\ AllWhole(new)
    BY <1>3 DEF Fresh, AllWhole, Files
  <2>2. \A p \in Processes : WritesOf(p) /\ WroteWhole(p) /\ proc[p].pc \notin InArchives
    BY Zenon DEF Fresh, WritesOf, WroteWhole, Idle, InArchives
  <2>3. \A f \in Files : data[f] # "mixed"
    BY DEF Fresh
  <2> QED
    BY <2>1, <2>2, <2>3 DEF WholeInv
<1>10. NamesInv
  <2>1. Named(cur, database.draw)
    BY <1>1, <1>3, <1>4 DEF Fresh, Named
  <2>2. \A p \in Processes : NamesOf(p)
    BY Zenon DEF Fresh, NamesOf, Idle
  <2> QED
    BY <2>1, <2>2 DEF NamesInv
<1>11. FolderIsNotLeft
  BY DEF Fresh, FolderIsNotLeft
<1> QED
  BY <1>5, <1>6, <1>7, <1>8, <1>9, <1>10, <1>11 DEF MigrationsInv

\* It is where everything begins,
LEMMA FreshStarts == Init => Fresh
<1> SUFFICES ASSUME Init PROVE Fresh
  OBVIOUS
<1>1. \E v \in -1 .. N :
         database = [version |-> v, times |-> Upto(v), draw |-> 0,
                     rows |-> IF v = -1 THEN {} ELSE Bookmarks]
  BY MigrationsAssumption DEF Init
<1> QED
  BY <1>1 DEF Init, Fresh

\* and where a command leaves the migrations.
LEMMA FreshCommand == RunCommand => Fresh'
<1> SUFFICES ASSUME RunCommand PROVE Fresh'
  OBVIOUS
<1>1. N \in -1 .. N /\ N # -1
  BY NIsNat
<1>2. database' = [version |-> N, times |-> Upto(N), draw |-> 0, rows |-> Bookmarks]
  BY DEF RunCommand
<1>3. cur' = [b \in Bookmarks |-> IF b \in database'.rows THEN [draw |-> 0, file |-> b] ELSE None]
  BY <1>2 DEF RunCommand
<1> QED
  BY <1>1, <1>2, <1>3 DEF RunCommand, Fresh

\* The invariant is inductive.
LEMMA MigrationsStep == MigrationsInv /\ [Next]_vars => MigrationsInv'
<1> SUFFICES ASSUME MigrationsInv, [Next]_vars PROVE MigrationsInv'
  OBVIOUS
<1>1. /\ MigrationsTypeOK /\ StageInv /\ WriterInv /\ NextInv /\ AppliedOnce
      /\ MovedInv /\ TempInv /\ WholeInv /\ NamesInv /\ FolderIsNotLeft
  BY DEF MigrationsInv
<1>2. MigrationsTypeOK' /\ StageInv'
  BY <1>1, MigrationsTypeStep, StageStep
<1>3. WriterInv' /\ NextInv' /\ AppliedOnce'
  BY <1>1, AppliedStep
<1>4. MovedInv'
  BY <1>1, MovedStep
<1>5. TempInv' /\ WholeInv'
  BY <1>1, TempStep, WholeStep
<1>6. NamesInv'
  BY <1>1, NamesStep
<1>7. FolderIsNotLeft'
  BY <1>1, LeftStep
<1> QED
  BY <1>2, <1>3, <1>4, <1>5, <1>6, <1>7 DEF MigrationsInv

\* The migrations keep this whichever processes start, fail or are stopped, and
\* so does a command that follows them.
THEOREM MigrationsSafe == CommandSpec => []MigrationsInv
<1>1. CommandInit => MigrationsInv
  BY FreshStarts, FreshInv DEF CommandInit
<1>2. MigrationsInv /\ [Next]_vars => MigrationsInv'
  BY MigrationsStep
<1>3. RunCommand => MigrationsInv'
  BY FreshInv, FreshCommand, PTL
<1>4. [CommandNext]_<<vars, started, commands>> => [Next]_vars \/ RunCommand
  BY DEF CommandNext, Migrate, Work
<1> QED
  BY <1>1, <1>2, <1>3, <1>4, PTL DEF CommandSpec

\* Each migration is applied once to what is committed (internal/db): neither
\* processes that start at the same time nor failures and stops in any order
\* skip one or apply one again.
THEOREM EachAppliedOnce == CommandSpec => []AppliedOnce
<1>1. MigrationsInv => AppliedOnce
  BY DEF MigrationsInv
<1> QED
  BY <1>1, MigrationsSafe, PTL

\* Rows keep their archives through numbers 7 and 16, and the new folder is
\* only left by a process that was stopped in it or failed when it switched
\* (migrations/07_archives.go, 16_uuid.go).
THEOREM ArchivesFollowRows == CommandSpec => []ArchivesFollow
<1>1. MigrationsInv => ArchivesFollow
  BY FilesFollow DEF MigrationsInv, ArchivesFollow
<1> QED
  BY <1>1, MigrationsSafe, PTL

-----------------------------------------------------------------------------
(* Exports and imports: the inductive invariant, by parts.                 *)

ExportRecord ==
    [pc : {"idle", "list", "next", "open", "done", "failed"},
     users : Portable!Some(Portable!Ids, Users), todo : SUBSET Portable!UIDs,
     cur : Portable!UIDs \cup {None}, info : Portable!Row \cup {None},
     items : Portable!Some(Portable!UIDs, Portable!Item)]

Importing == {"clear", "users", "delete", "next", "create", "copy"}
Loading == {"next", "create", "copy"}
Sweeping == {"orphans", "remove"}

ImportRecord ==
    [pc : Importing \cup {"idle", "glob", "orphans", "remove", "done", "failed"},
     mode : {"append", "clear", "single", None}, names : SUBSET Users,
     me : Portable!Ids \cup {None}, users : Portable!Some(Portable!Ids, Portable!Ids),
     old : SUBSET Portable!UIDs, todo : SUBSET Portable!UIDs,
     cur : Portable!UIDs \cup {None}, uid : Portable!UIDs \cup {None}]

PortableTypeOK ==
    /\ connection \in {"sqlite", "postgres"}
    /\ user \in [Portable!Ids -> Users \cup {None}]
    /\ row \in [Portable!UIDs -> Portable!Row \cup {None}]
    /\ file \in [Portable!UIDs -> Created \cup {None, "partial", "empty"}]
    /\ job \in [Created -> {"none", "running", "filed", "done", "late"}]
    /\ del \in [Portable!UIDs -> {"none", "removing", "removed"}]
    /\ ex \in ExportRecord /\ zip \in Portable!Zip \cup {None}
    /\ im \in ImportRecord /\ import \in Portable!Transaction \cup {None}
    /\ lost \subseteq Portable!UIDs /\ crossed \subseteq Portable!UIDs /\ missed \subseteq Portable!UIDs

\* No import was committed yet.
Early == im.pc \in Importing \cup {"idle", "failed"}

\* Rows are those of bookmarks that were created and not deleted, until an import
\* brings others.
RowsInv ==
    /\ \A b \in Created : job[b] = "none" => row[b] = None /\ file[b] = None /\ del[b] = "none"
    /\ \A b \in Portable!UIDs : row[b] # None => user[row[b].owner] # None
    /\ \A b \in Created : row[b] # None => row[b].of = b
    /\ \A b \in Portable!UIDs : row[b] # None /\ ~row[b].imported =>
          /\ b \in Created /\ del[b] = "none"
          /\ row[b].loaded <=> row[b].path
          /\ row[b].path <=> job[b] = "done"
    /\ Early =>
          /\ \A b \in Portable!UIDs : row[b] # None => ~row[b].imported
          /\ \A b \in Created : job[b] # "none" /\ del[b] = "none" => row[b] # None
          /\ \A b \in NewUIDs : del[b] = "none"
          /\ \A u \in NewIds : user[u] = None

\* An item is what its row said, with its archive unless that was deleted.
Sound(items, users) ==
    \A x \in DOMAIN items :
        /\ x \in Created /\ job[x] # "none"
        /\ items[x].of = x /\ items[x].owner \in DOMAIN users
        /\ items[x].content \in {None, x}
        /\ items[x].loaded => items[x].content = x \/ del[x] # "none"

\* An export ends before an import of it begins.
ExportInv ==
    /\ zip # None <=> ex.pc = "done"
    /\ im.pc # "idle" => zip # None
    /\ ex.pc = "idle" => DOMAIN ex.items = {}
    /\ Sound(ex.items, ex.users)
    /\ ex.pc \in {"next", "open"} =>
          \A b \in ex.todo : b \in Created /\ job[b] # "none"
                                /\ (row[b] # None => row[b].owner \in DOMAIN ex.users)
    /\ ex.pc = "open" =>
          /\ ex.cur \in Created /\ job[ex.cur] # "none"
          /\ ex.info # None /\ ex.info.of = ex.cur /\ ex.info.owner \in DOMAIN ex.users
          /\ ex.info.loaded => ex.info.path /\ (file[ex.cur] = ex.cur \/ del[ex.cur] # "none")
    /\ zip # None => Sound(zip.items, zip.users)
    /\ im.pc = "idle" =>
          /\ \A b \in Created : file[b] \in {None, b}
          /\ \A b \in NewUIDs : file[b] = None

\* A row that is loaded, or about to be, has its archive.
Readable(b) ==
    row[b] # None /\ (row[b].loaded \/ (~row[b].imported /\ job[b] = "filed"))
        => \/ file[b] = row[b].of
           \/ row[b].imported /\ Portable!Torn(row[b].of)
           \/ b \in lost /\ (im.mode = "clear" \/ im.todo = {})
           \/ b \in crossed

ReadableInv ==
    /\ \A b \in Portable!UIDs : Readable(b)
    /\ \A b \in Portable!UIDs : row[b] # None /\ del[b] = "removing" => b \in crossed
    /\ im.pc \notin Loading \cup {"failed"} => lost = {}
    /\ im.pc = "idle" => crossed = {}
    /\ im.pc = "copy" /\ row[im.uid] # None => im.uid \in lost

\* What the import is at, and what it has selected.
StateInv ==
    /\ import # None <=> im.pc \in Importing
    /\ im.pc \in Importing => im.mode \in {"append", "clear", "single"}
    /\ im.pc \in {"clear", "glob"} \cup Sweeping => im.mode = "clear"
    /\ im.pc = "delete" => im.mode = "single"
    /\ im.mode # "single" \/ im.pc \notin Importing => im.old = {}
    /\ im.pc \in Importing =>
          /\ im.mode # "clear" \/ im.pc = "clear" => import.left = {}
          /\ im.mode = "append" \/ im.pc = "clear" \/ (im.mode = "single" /\ im.pc \notin Loading)
                => import.deleted = {}
          /\ im.mode = "clear" /\ im.pc \notin Loading => im.names = Users
          /\ im.pc \notin Loading => DOMAIN import.rows = {} /\ DOMAIN import.users = {}
          /\ im.mode = "single" => 
                /\ im.me \in Portable!Ids /\ DOMAIN import.users = {}
                /\ DOMAIN im.users = DOMAIN zip.users
                /\ \A u \in DOMAIN im.users : im.users[u] = im.me
                /\ \A b \in import.deleted \cup im.old :
                      b \in Created /\ job[b] # "none" /\ (row[b] # None => row[b].owner = im.me)
          /\ im.mode = "clear" /\ im.pc # "clear" =>
                /\ \A u \in Portable!Ids : user[u] # None => u \in import.left
                /\ \A b \in Portable!UIDs : row[b] # None => b \in import.deleted
          /\ im.mode # "single" /\ im.pc \in Loading =>
                \A u \in DOMAIN im.users :
                    /\ u \in DOMAIN zip.users /\ im.users[u] \in DOMAIN import.users
                    /\ import.users[im.users[u]] = zip.users[u]
    /\ im.pc \in Loading =>
          /\ \A x \in im.todo : x \in DOMAIN zip.items /\ zip.items[x].owner \in DOMAIN im.users
          /\ im.mode = "clear" => DOMAIN import.rows \cup im.todo = DOMAIN zip.items
    /\ im.pc \in {"create", "copy"} =>
          im.cur \in im.todo /\ im.uid \in DOMAIN import.rows /\ import.rows[im.uid].of = im.cur

\* The row of an item, with the user that it goes to and a UID that is free,
Inserted(b) ==
    LET r == import.rows[b] IN
    /\ r.imported /\ r.path
    /\ row[b] = None \/ b \in import.deleted
    /\ Portable!SeenUser(r.owner) # None
    /\ r.of \in DOMAIN zip.items /\ r.loaded = zip.items[r.of].loaded
    /\ zip.items[r.of].owner \in DOMAIN im.users /\ r.owner = im.users[zip.items[r.of].owner]
    /\ IF im.mode = "clear" THEN b = r.of ELSE b \in NewUIDs

\* and its file.
Filed(b) ==
    LET r == import.rows[b] IN
    /\ \/ im.pc \in {"create", "copy"} /\ b = im.uid
       \/ r.loaded => file[b] = r.of \/ Portable!Torn(r.of) \/ b \in crossed
    /\ del[b] = "removing" => b \in crossed \/ (im.pc = "create" /\ b = im.uid)

RowsOfImport ==
    im.pc \in Importing =>
        /\ \A b \in DOMAIN import.rows : Inserted(b) /\ Filed(b)
        /\ \A b \in lost : /\ b \in Created => job[b] # "none"
                           /\ b \in DOMAIN import.rows \/ row[b] = None \/ b \in import.deleted
        /\ im.pc \in Loading => \A b \in im.old : row[b] # None => b \in import.deleted

\* Why an archive may be left without a row.
Excused(b) ==
    \/ del[b] # "none"
    \/ b \in Created /\ job[b] \in {"running", "filed", "late"}
    \/ b \in missed /\ connection # "sqlite"

\* The archives that an import has to remove.
LeftInv ==
    /\ missed # {} => connection # "sqlite"
    /\ im.pc \in Importing => \A b \in NewUIDs : file[b] # None => b \in DOMAIN import.rows
    /\ im.pc = "delete" /\ connection = "sqlite" =>
          \A b \in Portable!UIDs :
              row[b] # None /\ row[b].owner = im.me /\ row[b].path => b \in im.old
    /\ im.mode = "single" /\ im.pc \in Loading =>
          \A b \in import.deleted : row[b] # None /\ row[b].path =>
              b \in im.old \/ file[b] = None \/ b \in missed
    /\ im.pc \in Sweeping =>
          /\ \A b \in im.todo \cap Created : job[b] # "none"
          /\ \A b \in Portable!UIDs : file[b] # None /\ row[b] = None => b \in im.todo \/ Excused(b)
    /\ im.pc = "remove" => im.cur \in im.todo /\ row[im.cur] = None
    /\ im.pc = "done" /\ im.mode # "append" =>
          \A b \in Portable!UIDs : file[b] # None /\ row[b] = None => Excused(b)

PortableInv ==
    /\ PortableTypeOK /\ RowsInv /\ ExportInv /\ ReadableInv /\ StateInv /\ RowsOfImport /\ LeftInv

-----------------------------------------------------------------------------
(* Types.                                                                  *)

\* Partial functions, their type
LEMMA SomeIs ==
  ASSUME NEW S, NEW T, NEW f \in Portable!Some(S, T)
  PROVE  DOMAIN f \subseteq S /\ \A x \in DOMAIN f : f[x] \in T
BY DEF Portable!Some

\* and their members.
LEMMA SomeOf ==
  ASSUME NEW S, NEW T, NEW D \in SUBSET S, NEW f \in [D -> T]
  PROVE  f \in Portable!Some(S, T) /\ DOMAIN f = D
BY DEF Portable!Some

\* The one without an argument.
LEMMA NoneOf ==
  ASSUME NEW S, NEW T
  PROVE  <<>> \in Portable!Some(S, T) /\ DOMAIN <<>> = {}
<1>1. <<>> \in [{} -> T]
  OBVIOUS
<1> QED
  BY <1>1, SomeOf

\* A partial function with one value more, or another one.
LEMMA WithIs ==
  ASSUME NEW S, NEW T, NEW f \in Portable!Some(S, T), NEW x \in S, NEW y \in T
  PROVE  /\ Portable!With(f, x, y) \in Portable!Some(S, T)
         /\ DOMAIN Portable!With(f, x, y) = DOMAIN f \cup {x}
         /\ Portable!With(f, x, y)[x] = y
         /\ \A z \in DOMAIN f \ {x} : Portable!With(f, x, y)[z] = f[z]
<1>1. Portable!With(f, x, y) \in [DOMAIN f \cup {x} -> T] /\ DOMAIN f \cup {x} \subseteq S
  BY SomeIs DEF Portable!With
<1>2. Portable!With(f, x, y) \in Portable!Some(S, T)
  BY <1>1, SomeOf
<1> QED
  BY <1>1, <1>2 DEF Portable!With

\* A row as its extraction saves it.
LEMMA SavedRow ==
  ASSUME NEW r \in Portable!Row
  PROVE  LET saved == [r EXCEPT !.loaded = TRUE, !.path = TRUE] IN
         /\ saved \in Portable!Row /\ saved.loaded /\ saved.path
         /\ saved.owner = r.owner /\ saved.of = r.of /\ saved.imported = r.imported
BY DEF Portable!Row

\* Types are kept by the server,
LEMMA ServerTypes == PortableTypeOK /\ Portable!Server => PortableTypeOK'
<1> SUFFICES ASSUME PortableTypeOK, Portable!Server PROVE PortableTypeOK'
  OBVIOUS
<1> USE DEF PortableTypeOK, Portable!export, Portable!import, Portable!UIDs
<1>1. ASSUME NEW b \in Created, NEW u \in Portable!Ids, Portable!Create(b, u) PROVE PortableTypeOK'
  <2>1. [owner |-> u, of |-> b, loaded |-> FALSE, path |-> FALSE, imported |-> FALSE] \in Portable!Row
    BY DEF Portable!Row
  <2> QED
    BY <1>1, <2>1 DEF Portable!Create
<1>2. ASSUME NEW b \in Created, Portable!Archive(b) PROVE PortableTypeOK'
  BY <1>2 DEF Portable!Archive
<1>3. ASSUME NEW b \in Created, Portable!SaveRow(b) PROVE PortableTypeOK'
  <2>1. CASE row[b] # None /\ ~row[b].imported
    <3>1. [row[b] EXCEPT !.loaded = TRUE, !.path = TRUE] \in Portable!Row
      BY Zenon, <2>1, SavedRow
    <3>2. /\ row' = [row EXCEPT ![b] = [row[b] EXCEPT !.loaded = TRUE, !.path = TRUE]]
          /\ job' = [job EXCEPT ![b] = "done"]
          /\ UNCHANGED <<connection, user, file, del, ex, zip, im, import, lost, crossed, missed>>
      BY <1>3, <2>1 DEF Portable!SaveRow
    <3> QED
      BY <3>1, <3>2
  <2>2. CASE ~(row[b] # None /\ ~row[b].imported)
    BY <1>3, <2>2 DEF Portable!SaveRow
  <2> QED
    BY <2>1, <2>2
<1>4. ASSUME NEW b \in Portable!UIDs, Portable!Delete(b) PROVE PortableTypeOK'
  BY <1>4 DEF Portable!Delete
<1>5. ASSUME NEW b \in Portable!UIDs, Portable!RemoveFiles(b) PROVE PortableTypeOK'
  BY <1>5 DEF Portable!RemoveFiles
<1>6. ASSUME NEW u \in Portable!Ids, Portable!DeleteUser(u) PROVE PortableTypeOK'
  BY <1>6 DEF Portable!DeleteUser
<1> QED
  BY <1>1, <1>2, <1>3, <1>4, <1>5, <1>6 DEF Portable!Server

\* An export that ended has forgotten all.
LEMMA NoExportTyped ==
  ASSUME NEW s \in {"failed", "done"}
  PROVE  [Portable!NoExport EXCEPT !.pc = s] \in ExportRecord
BY NoneOf DEF Portable!NoExport, ExportRecord

\* by an export
LEMMA ExportTypes ==
  PortableTypeOK /\ ExportInv /\ Portable!Export => PortableTypeOK'
<1> SUFFICES ASSUME PortableTypeOK, ExportInv, Portable!Export PROVE PortableTypeOK'
  OBVIOUS
<1>0. ASSUME ex' \in ExportRecord, zip' \in Portable!Zip \cup {None},
             UNCHANGED <<Portable!server, Portable!import>>
      PROVE  PortableTypeOK'
  BY <1>0 DEF PortableTypeOK, Portable!server, Portable!import
<1>1. ASSUME NEW us, us \subseteq {u \in Portable!Ids : user[u] # None}, Portable!ExportUsers(us)
      PROVE  PortableTypeOK'
  <2>1. [u \in us |-> user[u]] \in Portable!Some(Portable!Ids, Users)
    <3>1. [u \in us |-> user[u]] \in [us -> Users]
      BY <1>1 DEF PortableTypeOK
    <3> QED
      BY <1>1, <3>1, SomeOf
  <2>2. ex' = [ex EXCEPT !.pc = "list", !.users = [u \in us |-> user[u]]] /\ zip' = zip
    BY <1>1 DEF Portable!ExportUsers
  <2>3. ex' \in ExportRecord
    BY Zenon, <2>1, <2>2 DEF PortableTypeOK, ExportRecord
  <2> QED
    BY <1>0, <1>1, <2>2, <2>3 DEF Portable!ExportUsers, PortableTypeOK
<1>2. ASSUME Portable!GetBookmarks PROVE PortableTypeOK'
  BY Zenon, <1>0, <1>2 DEF Portable!GetBookmarks, PortableTypeOK, ExportRecord
<1>3. ASSUME NEW b \in Portable!UIDs, Portable!SaveInfo(b) PROVE PortableTypeOK'
  BY <1>0, <1>3 DEF Portable!SaveInfo, PortableTypeOK, ExportRecord
<1>4. ASSUME Portable!SaveContainer PROVE PortableTypeOK'
  <2> DEFINE content == IF ex.info.path THEN file[ex.cur] ELSE None
             item == [owner |-> ex.info.owner, of |-> ex.info.of, loaded |-> ex.info.loaded,
                      content |-> content]
  <2>1. /\ ex.pc = "open" /\ content # "partial"
        /\ ex' = [ex EXCEPT !.pc = "next", !.todo = @ \ {ex.cur},
                            !.items = Portable!With(@, ex.cur, item), !.cur = None, !.info = None]
        /\ UNCHANGED <<Portable!server, zip, Portable!import>>
    BY <1>4 DEF Portable!SaveContainer
  <2>2. ex.info \in Portable!Row /\ ex.cur \in Portable!UIDs /\ ex.items \in Portable!Some(Portable!UIDs, Portable!Item)
    BY <2>1 DEF PortableTypeOK, ExportRecord, ExportInv, Portable!UIDs
  <2>3. content \in Created \cup {"empty", None}
    BY <2>1, <2>2 DEF PortableTypeOK
  <2>4. item \in Portable!Item
    BY <2>2, <2>3 DEF Portable!Item, Portable!Row
  <2>5. Portable!With(ex.items, ex.cur, item) \in Portable!Some(Portable!UIDs, Portable!Item)
    BY <2>2, <2>4, WithIs
  <2> HIDE DEF item, content
  <2>6. ex' \in ExportRecord
    BY <2>1, <2>5 DEF PortableTypeOK, ExportRecord
  <2> QED
    BY <1>0, <2>1, <2>6 DEF PortableTypeOK
<1>5. ASSUME Portable!SaveData PROVE PortableTypeOK'
  <2>1. zip' \in Portable!Zip
    BY <1>5 DEF Portable!SaveData, PortableTypeOK, ExportRecord, Portable!Zip
  <2>2. ex' \in ExportRecord
    BY <1>5, NoExportTyped DEF Portable!SaveData
  <2> QED
    BY <1>0, <1>5, <2>1, <2>2 DEF Portable!SaveData
<1>6. ASSUME Portable!ExportFails PROVE PortableTypeOK'
  BY <1>0, <1>6, NoExportTyped DEF Portable!ExportFails, PortableTypeOK
<1> QED
  BY <1>1, <1>2, <1>3, <1>4, <1>5, <1>6 DEF Portable!Export

\* What an import keeps of itself when its transaction ends.
LEMMA ForgottenTyped ==
  ASSUME PortableTypeOK, NEW s \in {"done", "failed", "glob"}
  PROVE  /\ [Portable!Forgotten EXCEPT !.pc = s] \in ImportRecord
         /\ [Portable!Forgotten EXCEPT !.pc = s].pc = s
         /\ [Portable!Forgotten EXCEPT !.pc = s].mode = im.mode
         /\ [Portable!Forgotten EXCEPT !.pc = s].todo = im.todo
         /\ [Portable!Forgotten EXCEPT !.pc = s].old = {}
BY NoneOf DEF Portable!Forgotten, PortableTypeOK, ImportRecord

\* and by an import.
LEMMA ImportTypes ==
  PortableTypeOK /\ StateInv /\ ExportInv /\ RowsOfImport /\ Portable!Import
    => PortableTypeOK' /\ (import' # None <=> im'.pc \in Importing)
<1> SUFFICES ASSUME PortableTypeOK, StateInv, ExportInv, RowsOfImport, Portable!Import
             PROVE  PortableTypeOK' /\ (import' # None <=> im'.pc \in Importing)
  OBVIOUS
<1> DEFINE Goal == PortableTypeOK' /\ (import' # None <=> im'.pc \in Importing)
           Held == IF im.pc \in Importing THEN Portable!Transaction ELSE {None}
<1>n. None \notin Portable!Transaction
  BY CommandAssumption DEF Portable!PortabilityAssumption
<1>c. im \in ImportRecord /\ import \in Held
  BY DEF PortableTypeOK, StateInv
<1>0. ASSUME im' \in ImportRecord, import' \in Portable!Transaction \cup {None},
             import' # None <=> im'.pc \in Importing,
             user' \in [Portable!Ids -> Users \cup {None}],
             row' \in [Portable!UIDs -> Portable!Row \cup {None}],
             file' \in [Portable!UIDs -> Created \cup {None, "partial", "empty"}],
             lost' \subseteq Portable!UIDs, crossed' \subseteq Portable!UIDs,
             missed' \subseteq Portable!UIDs,
             UNCHANGED <<connection, job, del, ex, zip>>
      PROVE  Goal
  BY <1>0 DEF PortableTypeOK
<1>a. ASSUME im' \in ImportRecord, im'.pc \in Importing, import' \in Portable!Transaction,
             UNCHANGED <<Portable!server, Portable!export, lost, crossed>>,
             missed' \subseteq Portable!UIDs
      PROVE  Goal
  BY <1>a, <1>0, <1>n DEF PortableTypeOK, Portable!server, Portable!export
<1>d. ASSUME im' \in ImportRecord, im'.pc \notin Importing, import' = None,
             UNCHANGED <<Portable!server, Portable!export, lost, crossed, missed>>
      PROVE  Goal
  BY <1>d, <1>0 DEF PortableTypeOK, Portable!server, Portable!export
<1>b. ASSUME im' \in ImportRecord, file' \in [Portable!UIDs -> Created \cup {None, "partial", "empty"}],
             lost' \subseteq Portable!UIDs, crossed' \subseteq Portable!UIDs,
             (im'.pc \in Importing <=> im.pc \in Importing),
             UNCHANGED <<connection, user, row, job, del, Portable!export, import, missed>>
      PROVE  Goal
  BY <1>b, <1>c, <1>0, <1>n DEF PortableTypeOK, Portable!export
<1>1. ASSUME NEW mode \in {"append", "clear", "single"}, NEW names \in SUBSET Users,
             NEW me \in Portable!Ids \cup {None}, mode = "single" => me \in Portable!Ids,
             Portable!Begin(mode, names, me)
      PROVE  Goal
  <2>1. /\ zip \in Portable!Zip
        /\ im' = [im EXCEPT !.pc = IF mode = "clear" THEN "clear" ELSE "users", !.mode = mode,
                     !.names = names, !.me = me,
                     !.users = IF mode = "single" THEN [u \in DOMAIN zip.users |-> me] ELSE <<>>]
        /\ import' = [users |-> <<>>, left |-> {}, rows |-> <<>>, deleted |-> {}]
        /\ UNCHANGED <<Portable!server, Portable!export, lost, crossed, missed>>
    BY <1>1 DEF Portable!Begin, PortableTypeOK
  <2>2. import' \in Portable!Transaction
    BY <2>1, NoneOf DEF Portable!Transaction
  <2>3. DOMAIN zip.users \subseteq Portable!Ids
    BY <2>1, SomeIs DEF Portable!Zip
  <2>4. (IF mode = "single" THEN [u \in DOMAIN zip.users |-> me] ELSE <<>>)
           \in Portable!Some(Portable!Ids, Portable!Ids)
    <3>1. CASE mode = "single"
      <4>1. [u \in DOMAIN zip.users |-> me] \in [DOMAIN zip.users -> Portable!Ids]
        BY <1>1, <3>1
      <4> QED
        BY <2>3, <3>1, <4>1, SomeOf
    <3>2. CASE mode # "single"
      BY <3>2, NoneOf
    <3> QED
      BY <3>1, <3>2
  <2>5. im' \in ImportRecord
    BY ZenonT(60), <1>c, <2>1, <2>4 DEF ImportRecord, Importing
  <2> QED
    <3>1. im'.pc \in {"clear", "users"}
      BY <1>c, <2>1 DEF ImportRecord
    <3> QED
      BY <1>a, <2>1, <2>2, <2>5, <3>1 DEF PortableTypeOK, Importing
<1>2. ASSUME Portable!ClearDB PROVE Goal
  BY Zenon, <1>2, <1>a, <1>c DEF Portable!ClearDB, PortableTypeOK, ImportRecord, Importing, Portable!Transaction
<1>3. ASSUME Portable!LoadUsers PROVE Goal
  <2> DEFINE taken == {Portable!SeenUser(u) : u \in Portable!Ids}
             news == {u \in DOMAIN zip.users : zip.users[u] \in im.names \ taken}
             table(id) == [i \in {id[u] : u \in news} |-> zip.users[CHOOSE u \in news : id[u] = i]]
             items == {b \in DOMAIN zip.items : zip.items[b].owner \in news}
  <2>1. PICK id \in [news -> NewIds] :
           /\ import' = [import EXCEPT !.users = table(id)]
           /\ im' = [im EXCEPT !.pc = "next", !.users = id, !.todo = items]
    BY ZenonT(60), <1>3 DEF Portable!LoadUsers
  <2>2. im.pc = "users" /\ zip \in Portable!Zip
    BY <1>3 DEF Portable!LoadUsers, ExportInv, PortableTypeOK
  <2>3. /\ DOMAIN zip.users \subseteq Portable!Ids /\ \A u \in DOMAIN zip.users : zip.users[u] \in Users
        /\ items \subseteq Portable!UIDs
    BY <2>2, SomeIs DEF Portable!Zip
  <2>4. id \in Portable!Some(Portable!Ids, Portable!Ids)
    <3>1. id \in [news -> Portable!Ids] /\ news \in SUBSET Portable!Ids
      BY <2>3 DEF Portable!Ids
    <3> QED
      BY <3>1, SomeOf
  <2>5. table(id) \in Portable!Some(Portable!Ids, Users)
    <3> DEFINE given == {id[u] : u \in news}
    <3>1. \A i \in given : (CHOOSE u \in news : id[u] = i) \in news
      OBVIOUS
    <3>2. table(id) \in [given -> Users]
      BY <2>3, <3>1
    <3>3. given \in SUBSET Portable!Ids
      BY DEF Portable!Ids
    <3> HIDE DEF table, given
    <3> QED
      BY <3>2, <3>3, SomeOf
  <2> HIDE DEF taken, news, table, items
  <2>6. im' \in ImportRecord
    BY Zenon, <1>c, <2>1, <2>3, <2>4 DEF ImportRecord, Importing
  <2>7. import' \in Portable!Transaction
    BY <1>c, <2>1, <2>2, <2>5 DEF Portable!Transaction, Importing
  <2> QED
    <3>1. im'.pc = "next"
      BY <1>c, <2>1 DEF ImportRecord
    <3> QED
      BY Zenon, <1>3, <1>a, <2>6, <2>7, <3>1 DEF Portable!LoadUsers, PortableTypeOK, Importing
<1>4. ASSUME Portable!SelectOld PROVE Goal
  BY Zenon, <1>4, <1>a, <1>c DEF Portable!SelectOld, PortableTypeOK, ImportRecord, Importing
<1>5. ASSUME Portable!DeleteOld PROVE Goal
  <2> DEFINE rows == {b \in Portable!UIDs : row[b] # None /\ row[b].owner = im.me}
  <2>1. /\ im.pc = "delete" /\ zip \in Portable!Zip
        /\ import' = [import EXCEPT !.deleted = rows]
        /\ missed' = {b \in rows : row[b].path} \ im.old
        /\ im' = [im EXCEPT !.pc = "next", !.todo = DOMAIN zip.items]
        /\ UNCHANGED <<Portable!server, Portable!export, lost, crossed>>
    BY <1>5 DEF Portable!DeleteOld, ExportInv, PortableTypeOK
  <2>2. DOMAIN zip.items \subseteq Portable!UIDs /\ rows \subseteq Portable!UIDs
    BY <2>1, SomeIs DEF Portable!Zip
  <2> HIDE DEF rows
  <2>3. im' \in ImportRecord
    BY <1>c, <2>1, <2>2 DEF ImportRecord, Importing
  <2>4. import' \in Portable!Transaction
    BY <1>c, <2>1, <2>2 DEF Portable!Transaction, Importing
  <2> QED
    <3>1. im'.pc = "next" /\ missed' \subseteq Portable!UIDs
      BY <1>c, <2>1, <2>2 DEF ImportRecord
    <3> QED
      BY <1>a, <2>1, <2>3, <2>4, <3>1 DEF Importing
<1>6. ASSUME NEW b \in Portable!UIDs, NEW uid \in Portable!UIDs, Portable!InsertRow(b, uid)
      PROVE  Goal
  <2> DEFINE r == [owner |-> im.users[zip.items[b].owner], of |-> zip.items[b].of,
                   loaded |-> zip.items[b].loaded, path |-> TRUE, imported |-> TRUE]
  <2>1. /\ im.pc = "next" /\ b \in im.todo /\ zip \in Portable!Zip
        /\ import' = [import EXCEPT !.rows = Portable!With(@, uid, r)]
        /\ im' = [im EXCEPT !.pc = "create", !.cur = b, !.uid = uid]
        /\ UNCHANGED <<Portable!server, Portable!export, lost, crossed, missed>>
    BY <1>6 DEF Portable!InsertRow, ExportInv, PortableTypeOK
  <2>2. b \in DOMAIN zip.items /\ zip.items[b].owner \in DOMAIN im.users
    BY <2>1 DEF StateInv, Loading
  <2>3. zip.items[b] \in Portable!Item /\ im.users[zip.items[b].owner] \in Portable!Ids
    BY <1>c, <2>1, <2>2, SomeIs DEF Portable!Zip, ImportRecord
  <2>4. r \in Portable!Row
    BY <2>3 DEF Portable!Row, Portable!Item
  <2>5. import \in Portable!Transaction
    BY <1>c, <2>1 DEF Importing
  <2>r. import.rows \in Portable!Some(Portable!UIDs, Portable!Row)
    BY <2>5 DEF Portable!Transaction
  <2> HIDE DEF r
  <2>6. Portable!With(import.rows, uid, r) \in Portable!Some(Portable!UIDs, Portable!Row)
    BY <2>4, <2>r, WithIs
  <2>7. im' \in ImportRecord
    BY <1>c, <2>1 DEF ImportRecord, Importing
  <2>8. import' \in Portable!Transaction
    BY <2>1, <2>5, <2>6 DEF Portable!Transaction
  <2> QED
    <3>1. im'.pc = "create"
      BY <1>c, <2>1 DEF ImportRecord
    <3> QED
      BY <1>a, <2>1, <2>7, <2>8, <3>1 DEF PortableTypeOK, Importing
<1>7. ASSUME Portable!CreateFile PROVE Goal
  <2>1. im.pc = "create" /\ im.uid \in Portable!UIDs
    <3>1. im.uid \in DOMAIN import.rows /\ import \in Portable!Transaction /\ im.pc = "create"
      BY <1>7, <1>c DEF Portable!CreateFile, StateInv, Importing
    <3> QED
      BY <3>1, SomeIs DEF Portable!Transaction
  <2>2. im' \in ImportRecord
    BY <1>7, <1>c DEF Portable!CreateFile, ImportRecord, Importing
  <2>3. /\ file' \in [Portable!UIDs -> Created \cup {None, "partial", "empty"}]
        /\ lost' \subseteq Portable!UIDs /\ crossed' \subseteq Portable!UIDs
    BY <1>7, <2>1 DEF Portable!CreateFile, PortableTypeOK
  <2> QED
    <3>1. im.pc = "create" /\ im'.pc = "copy"
      BY <1>7, <1>c DEF Portable!CreateFile, ImportRecord
    <3> QED
      BY <1>7, <1>b, <2>2, <2>3, <3>1 DEF Portable!CreateFile, Importing
<1>8. ASSUME Portable!CopyFiles PROVE Goal
  <2>1. im.pc = "copy" /\ im.cur \in DOMAIN zip.items /\ zip \in Portable!Zip
    BY <1>8 DEF Portable!CopyFiles, StateInv, Loading, ExportInv, PortableTypeOK
  <2>2. zip.items[im.cur].content \in Created \cup {"empty", None}
    <3>1. zip.items \in Portable!Some(Portable!UIDs, Portable!Item)
      BY <2>1 DEF Portable!Zip
    <3>2. zip.items[im.cur] \in Portable!Item
      BY <2>1, <3>1, SomeIs
    <3> QED
      BY <3>2 DEF Portable!Item
  <2>3. im' \in ImportRecord
    BY <1>8, <1>c DEF Portable!CopyFiles, ImportRecord, Importing
  <2>4. file' \in [Portable!UIDs -> Created \cup {None, "partial", "empty"}]
    BY <1>8, <2>2 DEF Portable!CopyFiles, PortableTypeOK
  <2> QED
    <3>1. im.pc = "copy" /\ im'.pc = "next"
      BY <1>8, <1>c DEF Portable!CopyFiles, ImportRecord
    <3> QED
      BY <1>8, <1>b, <2>3, <2>4, <3>1 DEF Portable!CopyFiles, PortableTypeOK, Importing
<1>9. ASSUME NEW b \in Portable!UIDs, Portable!RemoveOld(b) PROVE Goal
  BY <1>9, <1>b, <1>c DEF Portable!RemoveOld, PortableTypeOK, ImportRecord
<1>10. ASSUME NEW b \in Portable!UIDs, Portable!FindOrphan(b) PROVE Goal
  <2>1. im.pc = "orphans" /\ im' \in ImportRecord /\ im'.pc \in {"orphans", "remove"}
    <3>1. CASE row[b] # None
      BY <1>10, <1>c, <3>1 DEF Portable!FindOrphan, ImportRecord
    <3>2. CASE row[b] = None
      BY <1>10, <1>c, <3>2 DEF Portable!FindOrphan, ImportRecord
    <3> QED
      BY <3>1, <3>2
  <2> QED
    BY <1>10, <1>c, <1>d, <2>1 DEF Portable!FindOrphan, Importing
<1>11. ASSUME Portable!Commit PROVE Goal
  <2>1. im.pc = "next" /\ import \in Portable!Transaction
    BY <1>11, <1>c DEF Portable!Commit, Importing
  <2>2. \A u \in Portable!Ids : Portable!SeenUser(u) \in Users \cup {None}
    BY <2>1, SomeIs DEF Portable!SeenUser, Portable!Transaction, PortableTypeOK
  <2>3. \A b \in Portable!UIDs : Portable!SeenRow(b) \in Portable!Row \cup {None}
    BY <2>1, SomeIs DEF Portable!SeenRow, Portable!Transaction, PortableTypeOK
  <2>4. im' \in ImportRecord
    BY <1>11, ForgottenTyped DEF Portable!Commit
  <2> QED
    <3>1. im'.pc \in {"glob", "done"}
      BY <1>11, ForgottenTyped DEF Portable!Commit
    <3> QED
      BY <1>11, <1>0, <2>2, <2>3, <2>4, <3>1 DEF Portable!Commit, Portable!export, PortableTypeOK, Importing
<1>12. ASSUME Portable!ImportFails PROVE Goal
  <2>1. im'.pc = "failed" /\ im' \in ImportRecord
    BY <1>12, ForgottenTyped DEF Portable!ImportFails
  <2> QED
    BY <1>12, <1>d, <2>1 DEF Portable!ImportFails, Importing
<1>13. ASSUME Portable!Glob PROVE Goal
  <2>1. im.pc = "glob" /\ im'.pc = "orphans" /\ im' \in ImportRecord
    BY Zenon, <1>13, <1>c DEF Portable!Glob, PortableTypeOK, ImportRecord
  <2> QED
    BY <1>13, <1>c, <1>d, <2>1 DEF Portable!Glob, Importing
<1>14. ASSUME Portable!RemoveOrphan PROVE Goal
  <2>1. /\ im.pc = "remove" /\ im'.pc = "orphans" /\ im' \in ImportRecord
        /\ file' \in [Portable!UIDs -> Created \cup {None, "partial", "empty"}]
    BY <1>14, <1>c DEF Portable!RemoveOrphan, PortableTypeOK, ImportRecord
  <2> QED
    BY <1>14, <1>b, <2>1 DEF Portable!RemoveOrphan, PortableTypeOK, Importing
<1>15. ASSUME Portable!AllDone PROVE Goal
  <2>1. im.pc = "orphans" /\ im'.pc = "done" /\ im' \in ImportRecord
    BY <1>15, <1>c DEF Portable!AllDone, PortableTypeOK, ImportRecord
  <2> QED
    BY <1>15, <1>c, <1>d, <2>1 DEF Portable!AllDone, Importing
<1> QED
  BY <1>1, <1>2, <1>3, <1>4, <1>5, <1>6, <1>7, <1>8, <1>9, <1>10, <1>11, <1>12, <1>13, <1>14,
     <1>15 DEF Portable!Import, Portable!BeginFull, Portable!BeginSingle, Portable!BeginClear

-----------------------------------------------------------------------------
(* Rows.                                                                   *)

\* Where the actions of an import lead.
LEMMA PcIs ==
  ASSUME PortableTypeOK, Portable!Import
  PROVE  \/ im.pc \in Importing \cup {"idle"} /\ im'.pc \in Importing
         \/ im.pc \in Importing /\ im'.pc = "failed"
         \/ Portable!Commit /\ im'.pc \in {"glob", "done"}
         \/ im.pc \in {"glob", "orphans", "remove"} /\ im'.pc \in {"orphans", "remove", "done"}
<1> USE DEF PortableTypeOK
<1> DEFINE Moves == im.pc \in Importing \cup {"idle"} /\ im'.pc \in Importing
<1>0. im \in ImportRecord
  OBVIOUS
<1>1. ASSUME NEW mode, NEW names, NEW me, Portable!Begin(mode, names, me) PROVE Moves
  BY <1>0, <1>1 DEF Portable!Begin, Importing, ImportRecord
<1>2. Portable!ClearDB \/ Portable!LoadUsers \/ Portable!SelectOld \/ Portable!DeleteOld => Moves
  BY ZenonT(60), <1>0 DEF Portable!ClearDB, Portable!LoadUsers, Portable!SelectOld,
     Portable!DeleteOld, Importing, ImportRecord
<1>3. ASSUME NEW b, NEW uid, Portable!InsertRow(b, uid) PROVE Moves
  BY <1>0, <1>3 DEF Portable!InsertRow, Importing, ImportRecord
<1>4. Portable!CreateFile \/ Portable!CopyFiles => Moves
  BY <1>0 DEF Portable!CreateFile, Portable!CopyFiles, Importing, ImportRecord
<1>5. ASSUME NEW b, Portable!RemoveOld(b) PROVE Moves
  BY <1>0, <1>5 DEF Portable!RemoveOld, Importing, ImportRecord
<1>6. ASSUME NEW b, Portable!FindOrphan(b)
      PROVE  im.pc = "orphans" /\ im'.pc \in {"orphans", "remove"}
  BY <1>0, <1>6 DEF Portable!FindOrphan, ImportRecord
<1>7. ASSUME Portable!Commit PROVE im'.pc \in {"glob", "done"}
  BY <1>7, ForgottenTyped DEF Portable!Commit
<1>8. ASSUME Portable!ImportFails PROVE im.pc \in Importing /\ im'.pc = "failed"
  BY <1>8, ForgottenTyped DEF Portable!ImportFails, Importing
<1>9. ASSUME Portable!Glob \/ Portable!RemoveOrphan \/ Portable!AllDone
      PROVE  im.pc \in {"glob", "orphans", "remove"} /\ im'.pc \in {"orphans", "remove", "done"}
  BY <1>0, <1>9 DEF Portable!Glob, Portable!RemoveOrphan, Portable!AllDone, ImportRecord
<1> QED
  BY <1>1, <1>2, <1>3, <1>4, <1>5, <1>6, <1>7, <1>8, <1>9
  DEF Portable!Import, Portable!BeginFull, Portable!BeginSingle, Portable!BeginClear

\* A request creates a row.
LEMMA CreateIs ==
  ASSUME PortableTypeOK, NEW b \in Created, NEW u \in Portable!Ids, Portable!Create(b, u)
  PROVE  /\ job[b] = "none" /\ user[u] # None
         /\ row'[b] \in Portable!Row /\ row'[b].owner = u /\ row'[b].of = b
         /\ ~row'[b].loaded /\ ~row'[b].path /\ ~row'[b].imported
         /\ job'[b] = "running"
         /\ \A c \in Portable!UIDs \ {b} : row'[c] = row[c]
         /\ \A c \in Created \ {b} : job'[c] = job[c]
         /\ UNCHANGED <<user, file, del, Portable!export, Portable!import>>
<1> DEFINE r == [owner |-> u, of |-> b, loaded |-> FALSE, path |-> FALSE, imported |-> FALSE]
<1>1. r \in Portable!Row /\ r.owner = u /\ r.of = b /\ ~r.loaded /\ ~r.path /\ ~r.imported
  BY DEF Portable!Row
<1>2. /\ row' = [row EXCEPT ![b] = r] /\ job' = [job EXCEPT ![b] = "running"]
      /\ job[b] = "none" /\ user[u] # None
      /\ UNCHANGED <<user, file, del, Portable!export, Portable!import>>
  BY DEF Portable!Create
<1>3. b \in Portable!UIDs
  BY DEF Portable!UIDs
<1> HIDE DEF r
<1> QED
  BY <1>1, <1>2, <1>3 DEF PortableTypeOK

\* An extraction saves its row.
LEMMA SaveRowIs ==
  ASSUME PortableTypeOK, NEW b \in Created, Portable!SaveRow(b)
  PROVE  /\ job[b] = "filed" /\ ~Portable!Held(b)
         /\ \A c \in Portable!UIDs \ {b} : row'[c] = row[c]
         /\ \A c \in Created \ {b} : job'[c] = job[c]
         /\ UNCHANGED <<user, file, del, Portable!export, Portable!import>>
         /\ row[b] # None /\ ~row[b].imported =>
               /\ job'[b] = "done"
               /\ row'[b] \in Portable!Row /\ row'[b].loaded /\ row'[b].path
               /\ row'[b].owner = row[b].owner /\ row'[b].of = row[b].of /\ ~row'[b].imported
         /\ row[b] = None \/ row[b].imported => job'[b] = "late" /\ row'[b] = row[b]
<1>0. b \in Portable!UIDs /\ row \in [Portable!UIDs -> Portable!Row \cup {None}] /\ job[b] = "filed"
        /\ job \in [Created -> {"none", "running", "filed", "done", "late"}] /\ ~Portable!Held(b)
        /\ UNCHANGED <<user, file, del, Portable!export, Portable!import>>
  BY DEF Portable!UIDs, PortableTypeOK, Portable!SaveRow
<1>1. CASE row[b] # None /\ ~row[b].imported
  <2> DEFINE saved == [row[b] EXCEPT !.loaded = TRUE, !.path = TRUE]
  <2>1. row[b] \in Portable!Row
    BY <1>0, <1>1
  <2>2. /\ saved \in Portable!Row /\ saved.loaded /\ saved.path
        /\ saved.owner = row[b].owner /\ saved.of = row[b].of /\ saved.imported = row[b].imported
    BY Zenon, <2>1, SavedRow
  <2>3. row' = [row EXCEPT ![b] = [row[b] EXCEPT !.loaded = TRUE, !.path = TRUE]]
          /\ job' = [job EXCEPT ![b] = "done"]
    BY <1>1 DEF Portable!SaveRow
  <2> HIDE DEF saved
  <2>4. row' = [row EXCEPT ![b] = saved]
    BY <2>3 DEF saved
  <2> QED
    BY <1>0, <1>1, <2>2, <2>3, <2>4
<1>2. CASE ~(row[b] # None /\ ~row[b].imported)
  BY <1>0, <1>2 DEF Portable!SaveRow
<1> QED
  BY <1>1, <1>2

\* RowsInv is kept by the server
LEMMA RowsServer ==
  PortableTypeOK /\ RowsInv /\ Portable!Server => RowsInv'
<1> SUFFICES ASSUME PortableTypeOK, RowsInv, Portable!Server PROVE RowsInv'
  OBVIOUS
<1> USE DEF RowsInv, Early, Portable!export, Portable!import, Portable!UIDs
<1>t. /\ user \in [Portable!Ids -> Users \cup {None}]
      /\ row \in [Portable!UIDs -> Portable!Row \cup {None}]
      /\ file \in [Portable!UIDs -> Created \cup {None, "partial", "empty"}]
      /\ job \in [Created -> {"none", "running", "filed", "done", "late"}]
      /\ del \in [Portable!UIDs -> {"none", "removing", "removed"}]
  BY DEF PortableTypeOK
<1>0. Created \cap NewUIDs = {} /\ None \notin Portable!Row /\ Users \cap NewIds = {} /\ None \notin Users
  BY CommandAssumption DEF Portable!PortabilityAssumption, Portable!Ids
<1>1. ASSUME NEW b \in Created, NEW u \in Portable!Ids, Portable!Create(b, u) PROVE RowsInv'
  <2>1. /\ job[b] = "none" /\ user[u] # None
        /\ row'[b] \in Portable!Row /\ row'[b].owner = u /\ row'[b].of = b
        /\ ~row'[b].loaded /\ ~row'[b].path /\ ~row'[b].imported
        /\ job'[b] = "running"
        /\ \A c \in Portable!UIDs \ {b} : row'[c] = row[c]
        /\ \A c \in Created \ {b} : job'[c] = job[c]
        /\ UNCHANGED <<user, file, del, im>>
    BY <1>1, CreateIs
  <2> QED
    BY <1>t, <1>0, <2>1
<1>2. ASSUME NEW b \in Created, Portable!Archive(b) PROVE RowsInv'
  BY <1>t, <1>0, <1>2 DEF Portable!Archive
<1>3. ASSUME NEW b \in Created, Portable!SaveRow(b) PROVE RowsInv'
  <2>1. /\ job[b] = "filed"
        /\ \A c \in Portable!UIDs \ {b} : row'[c] = row[c]
        /\ \A c \in Created \ {b} : job'[c] = job[c]
        /\ UNCHANGED <<user, file, del, im>>
    BY <1>3, SaveRowIs
  <2>2. CASE row[b] # None /\ ~row[b].imported
    <3>1. /\ job'[b] = "done"
          /\ row'[b] \in Portable!Row /\ row'[b].loaded /\ row'[b].path
          /\ row'[b].owner = row[b].owner /\ row'[b].of = row[b].of /\ ~row'[b].imported
      BY <1>3, <2>2, SaveRowIs
    <3> QED
      BY <1>t, <1>0, <2>1, <2>2, <3>1
  <2>3. CASE row[b] = None \/ row[b].imported
    <3>1. job'[b] = "late" /\ row'[b] = row[b]
      BY <1>3, <2>3, SaveRowIs
    <3> QED
      BY <1>t, <1>0, <2>1, <2>3, <3>1
  <2> QED
    BY <2>2, <2>3
<1>4. ASSUME NEW b \in Portable!UIDs, Portable!Delete(b) PROVE RowsInv'
  BY <1>t, <1>0, <1>4 DEF Portable!Delete
<1>5. ASSUME NEW b \in Portable!UIDs, Portable!RemoveFiles(b) PROVE RowsInv'
  BY <1>t, <1>0, <1>5 DEF Portable!RemoveFiles
<1>6. ASSUME NEW u \in Portable!Ids, Portable!DeleteUser(u) PROVE RowsInv'
  BY <1>t, <1>0, <1>6 DEF Portable!DeleteUser
<1> QED
  BY <1>1, <1>2, <1>3, <1>4, <1>5, <1>6 DEF Portable!Server

\* What does not commit leaves the tables as they are.
LEMMA ImportKeeps ==
  ASSUME Portable!Import, ~Portable!Commit
  PROVE  UNCHANGED <<connection, user, row, job, del, ex, zip>>
BY ZenonT(60) DEF Portable!Import, Portable!BeginFull, Portable!BeginSingle,
       Portable!BeginClear, Portable!Begin,
       Portable!ClearDB, Portable!LoadUsers, Portable!SelectOld, Portable!DeleteOld, Portable!InsertRow,
       Portable!CreateFile, Portable!CopyFiles, Portable!RemoveOld, Portable!FindOrphan,
       Portable!ImportFails, Portable!Glob, Portable!RemoveOrphan, Portable!AllDone,
       Portable!server, Portable!export

\* Archives are written under the UID of the item that the import is at.
LEMMA ImportFiles ==
  ASSUME PortableTypeOK, StateInv, Portable!Import
  PROVE  \A b \in Portable!UIDs :
            \/ file'[b] \in {file[b], None}
            \/ im.pc \in {"create", "copy"} /\ b = im.uid
<1>1. im.pc \in {"create", "copy"} => im.uid \in Portable!UIDs
  <2>1. CASE im.pc \in {"create", "copy"}
    <3>1. im.uid \in DOMAIN import.rows /\ import.rows \in Portable!Some(Portable!UIDs, Portable!Row)
      BY <2>1 DEF StateInv, PortableTypeOK, Importing, Portable!Transaction
    <3> QED
      BY <3>1, SomeIs
  <2> QED
    BY <2>1
<1>2. file \in [Portable!UIDs -> Created \cup {None, "partial", "empty"}]
  BY DEF PortableTypeOK
<1> QED
  BY Zenon, <1>1, <1>2
  DEF Portable!Import, Portable!BeginFull, Portable!BeginSingle,
      Portable!BeginClear, Portable!Begin,
      Portable!ClearDB, Portable!LoadUsers, Portable!SelectOld, Portable!DeleteOld, Portable!InsertRow,
      Portable!CreateFile, Portable!CopyFiles, Portable!RemoveOld, Portable!FindOrphan, Portable!Commit,
      Portable!ImportFails, Portable!Glob, Portable!RemoveOrphan, Portable!AllDone, Portable!server

\* The tables after a commit.
LEMMA CommitIs ==
  ASSUME PortableTypeOK, StateInv, RowsOfImport, Portable!Commit
  PROVE  /\ im.pc = "next" /\ im.todo = {} /\ im.old = {}
         /\ import \in Portable!Transaction
         /\ \A u \in Portable!Ids : user'[u] = Portable!SeenUser(u)
         /\ \A b \in DOMAIN import.rows :
               /\ b \in Portable!UIDs /\ row'[b] = import.rows[b] /\ row'[b] \in Portable!Row
               /\ row'[b].imported /\ row'[b].path /\ Inserted(b) /\ Filed(b)
         /\ \A b \in Portable!UIDs \ DOMAIN import.rows :
               row'[b] = IF b \in import.deleted THEN None ELSE row[b]
         /\ import' = None /\ lost' = {}
         /\ im'.pc = (IF im.mode = "clear" THEN "glob" ELSE "done")
         /\ im'.mode = im.mode /\ im'.todo = {} /\ im'.old = {}
         /\ UNCHANGED <<connection, file, job, del, ex, zip, crossed, missed>>
<1>1. /\ im.pc = "next" /\ im.todo = {} /\ im.old = {}
      /\ import' = None /\ lost' = {}
      /\ user' = [u \in Portable!Ids |-> Portable!SeenUser(u)]
      /\ row' = [b \in Portable!UIDs |-> Portable!SeenRow(b)]
      /\ UNCHANGED <<connection, file, job, del, ex, zip, crossed, missed>>
  BY DEF Portable!Commit, Portable!export
<1>2. import \in Portable!Transaction /\ im.pc \in Importing
  BY <1>1 DEF PortableTypeOK, StateInv, Importing
<1>3. import.rows \in Portable!Some(Portable!UIDs, Portable!Row)
  BY SMTT(30), <1>2 DEF Portable!Transaction
<1>4. ASSUME NEW b \in DOMAIN import.rows
      PROVE  /\ b \in Portable!UIDs /\ row'[b] = import.rows[b] /\ row'[b] \in Portable!Row
             /\ row'[b].imported /\ row'[b].path /\ Inserted(b) /\ Filed(b)
  <2>1. b \in Portable!UIDs /\ import.rows[b] \in Portable!Row
    BY <1>3, SomeIs
  <2>2. Inserted(b) /\ Filed(b)
    BY <1>2 DEF RowsOfImport
  <2>3. row'[b] = import.rows[b]
    BY <1>1, <2>1 DEF Portable!SeenRow
  <2> QED
    BY <2>1, <2>2, <2>3 DEF Inserted
<1>5. \A b \in Portable!UIDs \ DOMAIN import.rows :
         row'[b] = IF b \in import.deleted THEN None ELSE row[b]
  BY <1>1 DEF Portable!SeenRow
<1>6. /\ im'.pc = (IF im.mode = "clear" THEN "glob" ELSE "done")
      /\ im'.mode = im.mode /\ im'.todo = {} /\ im'.old = {}
  BY <1>1, ForgottenTyped DEF Portable!Commit
<1> QED
  BY <1>1, <1>2, <1>4, <1>5, <1>6

\* and by an import.
LEMMA RowsImport ==
  PortableTypeOK /\ StateInv /\ ExportInv /\ RowsOfImport /\ RowsInv /\ Portable!Import => RowsInv'
<1> SUFFICES ASSUME PortableTypeOK, StateInv, ExportInv, RowsOfImport, RowsInv, Portable!Import
             PROVE  RowsInv'
  OBVIOUS
<1>0. Created \cap NewUIDs = {} /\ None \notin Users
  BY CommandAssumption DEF Portable!PortabilityAssumption, Portable!Ids
<1>1. Early' /\ ~Portable!Commit => Early
  BY PcIs DEF Early, Importing
<1>2. CASE ~Portable!Commit
  <2>1. ASSUME NEW b \in Created, job[b] = "none" PROVE file'[b] = None
    <3>1. b \in Portable!UIDs /\ file[b] = None
      BY <2>1 DEF RowsInv, Portable!UIDs
    <3>2. CASE im.pc \in {"create", "copy"} /\ b = im.uid
      <4>1. Inserted(b) /\ im.mode \in {"append", "clear", "single"} /\ zip # None
        BY <3>2 DEF StateInv, RowsOfImport, Importing, ExportInv
      <4>2. b \in DOMAIN zip.items
        BY <1>0, <4>1 DEF Inserted
      <4> QED
        BY <2>1, <4>1, <4>2 DEF ExportInv, Sound
    <3> QED
      BY <3>1, <3>2, ImportFiles
  <2>2. UNCHANGED <<user, row, job, del>>
    BY <1>2, ImportKeeps
  <2> QED
    BY <1>1, <1>2, <2>1, <2>2 DEF RowsInv
<1>3. CASE Portable!Commit
  <2>1. /\ im.pc = "next" /\ UNCHANGED <<file, job, del>> /\ import \in Portable!Transaction
        /\ \A u \in Portable!Ids : user'[u] = Portable!SeenUser(u)
        /\ \A b \in DOMAIN import.rows :
              b \in Portable!UIDs /\ row'[b] = import.rows[b] /\ row'[b].imported /\ Inserted(b)
        /\ \A b \in Portable!UIDs \ DOMAIN import.rows :
               row'[b] = IF b \in import.deleted THEN None ELSE row[b]
        /\ im'.pc \in {"glob", "done"}
    BY <1>3, CommitIs
  <2>2. zip # None /\ im.mode \in {"append", "clear", "single"}
    BY <2>1 DEF ExportInv, StateInv, Importing
  <2>3. ASSUME NEW b \in Created, job[b] = "none" PROVE row'[b] = None /\ file[b] = None /\ del[b] = "none"
    <3>1. b \in Portable!UIDs /\ row[b] = None /\ file[b] = None /\ del[b] = "none"
      BY <2>3 DEF RowsInv, Portable!UIDs
    <3>2. CASE b \in DOMAIN import.rows
      <4>1. b \in DOMAIN zip.items
        BY <1>0, <2>1, <2>2, <3>2 DEF Inserted
      <4> QED
        BY <2>2, <2>3, <4>1 DEF ExportInv, Sound
    <3> QED
      BY <2>1, <3>1, <3>2
  <2>4. ASSUME NEW b \in Portable!UIDs, row'[b] # None PROVE user'[row'[b].owner] # None
    <3>1. row'[b] \in Portable!Row
      <4>1. row' \in [Portable!UIDs -> Portable!Row \cup {None}]
        BY ImportTypes DEF PortableTypeOK
      <4> QED
        BY <2>4, <4>1
    <3>2. row'[b].owner \in Portable!Ids
      BY <3>1 DEF Portable!Row
    <3>3. Portable!SeenUser(row'[b].owner) # None
      <4>1. CASE b \in DOMAIN import.rows
        BY <2>1, <4>1 DEF Inserted
      <4>2. CASE b \notin DOMAIN import.rows
        <5>1. b \notin import.deleted /\ row'[b] = row[b]
          BY <2>1, <2>4, <4>2
        <5>2. user[row[b].owner] # None
          BY <2>4, <5>1 DEF RowsInv
        <5>3. row[b].owner \notin import.left
          BY <2>1, <2>2, <2>4, <5>1 DEF StateInv, Importing
        <5>4. \A u \in DOMAIN import.users : import.users[u] # None
          BY <1>0, <2>1, SomeIs DEF Portable!Transaction
        <5> QED
          BY <5>1, <5>2, <5>3, <5>4 DEF Portable!SeenUser
      <4> QED
        BY <4>1, <4>2
    <3> QED
      BY <2>1, <3>2, <3>3
  <2>5. ASSUME NEW b \in Portable!UIDs, row'[b] # None, ~row'[b].imported PROVE row'[b] = row[b]
    BY <2>1, <2>5
  <2>6. ASSUME NEW b \in Created, row'[b] # None PROVE row'[b].of = b
    <3>1. CASE b \in DOMAIN import.rows
      BY <1>0, <2>1, <3>1 DEF Inserted
    <3>2. CASE b \notin DOMAIN import.rows
      BY <2>1, <2>6, <3>2 DEF RowsInv, Portable!UIDs
    <3> QED
      BY <3>1, <3>2
  <2> QED
    BY <2>1, <2>3, <2>4, <2>5, <2>6 DEF RowsInv, Early, Importing
<1> QED
  BY <1>2, <1>3

-----------------------------------------------------------------------------
(* What an export has read.                                                *)

\* A bookmark that was created stays so, and one that was deleted too.
LEMMA ServerKeeps ==
  ASSUME PortableTypeOK, Portable!Server
  PROVE  /\ UNCHANGED <<connection, ex, zip, im, import, lost, crossed, missed>>
         /\ \A b \in Created : job[b] # "none" => job'[b] # "none"
         /\ \A b \in Portable!UIDs : del[b] # "none" => del'[b] # "none"
<1> USE DEF Portable!export, Portable!import, Portable!UIDs
<1>t. /\ job \in [Created -> {"none", "running", "filed", "done", "late"}]
      /\ del \in [Portable!UIDs -> {"none", "removing", "removed"}]
  BY DEF PortableTypeOK
<1> QED
  BY ZenonT(60), <1>t DEF Portable!Server, Portable!Create, Portable!Archive, Portable!SaveRow, Portable!Delete,
     Portable!RemoveFiles, Portable!DeleteUser

\* ExportInv is kept by the server,
LEMMA ExportServer ==
  PortableTypeOK /\ RowsInv /\ ExportInv /\ Portable!Server => ExportInv'
<1> SUFFICES ASSUME PortableTypeOK, RowsInv, ExportInv, Portable!Server PROVE ExportInv'
  OBVIOUS
<1>t. /\ row \in [Portable!UIDs -> Portable!Row \cup {None}]
      /\ file \in [Portable!UIDs -> Created \cup {None, "partial", "empty"}]
      /\ job \in [Created -> {"none", "running", "filed", "done", "late"}]
      /\ del \in [Portable!UIDs -> {"none", "removing", "removed"}]
  BY DEF PortableTypeOK
<1>0. Created \subseteq Portable!UIDs /\ NewUIDs \subseteq Portable!UIDs /\ Created \cap NewUIDs = {}
  BY CommandAssumption DEF Portable!UIDs, Portable!PortabilityAssumption
<1>1. /\ UNCHANGED <<ex, zip, im>>
      /\ \A b \in Created : job[b] # "none" => job'[b] # "none"
      /\ \A b \in Portable!UIDs : del[b] # "none" => del'[b] # "none"
  BY ServerKeeps
<1>2. Sound(ex.items, ex.users)' /\ (zip # None => Sound(zip.items, zip.users)')
  BY <1>0, <1>1 DEF ExportInv, Sound
<1>3. ASSUME NEW b \in Created, job[b] # "none", row'[b] # None
      PROVE  row[b] # None /\ row'[b].owner = row[b].owner
  <2>1. ASSUME NEW c \in Created, NEW u \in Portable!Ids, Portable!Create(c, u)
        PROVE  row[b] # None /\ row'[b].owner = row[b].owner
    BY <1>0, <1>3, <2>1, CreateIs
  <2>2. ASSUME NEW c \in Created, Portable!SaveRow(c)
        PROVE  row[b] # None /\ row'[b].owner = row[b].owner
    <3>1. CASE c = b /\ row[b] # None /\ ~row[b].imported
      BY <2>2, <3>1, SaveRowIs
    <3>2. CASE c # b \/ row[b] = None \/ row[b].imported
      <4>1. row'[b] = row[b]
        BY <1>0, <2>2, <3>2, SaveRowIs
      <4> QED
        BY <1>3, <4>1
    <3> QED
      BY <3>1, <3>2
  <2> QED
    BY <1>t, <1>0, <1>3, <2>1, <2>2
    DEF Portable!Server, Portable!Archive, Portable!Delete, Portable!RemoveFiles, Portable!DeleteUser
<1>4. ASSUME NEW b \in Portable!UIDs
      PROVE  \/ file'[b] = file[b]
             \/ b \in Created /\ file'[b] = b
             \/ file'[b] = None /\ del'[b] # "none"
  <2>1. ASSUME NEW c \in Created, NEW u \in Portable!Ids, Portable!Create(c, u) \/ Portable!SaveRow(c)
        PROVE  file' = file
    BY <2>1 DEF Portable!Create, Portable!SaveRow
  <2>2. ASSUME NEW c \in Created, Portable!Archive(c)
        PROVE  file'[b] = file[b] \/ (b \in Created /\ file'[b] = b)
    BY <1>t, <2>2 DEF Portable!Archive
  <2>3. ASSUME NEW c \in Portable!UIDs, Portable!RemoveFiles(c)
        PROVE  file'[b] = file[b] \/ (file'[b] = None /\ del'[b] # "none")
    BY <1>t, <2>3 DEF Portable!RemoveFiles
  <2>4. ASSUME NEW c, Portable!Delete(c) \/ Portable!DeleteUser(c) PROVE file' = file
    BY <2>4 DEF Portable!Delete, Portable!DeleteUser
  <2> QED
    BY <2>1, <2>2, <2>3, <2>4 DEF Portable!Server, Portable!SaveRow
<1> QED
  BY <1>0, <1>1, <1>2, <1>3, <1>4 DEF ExportInv

\* by an export
LEMMA ExportExport ==
  PortableTypeOK /\ RowsInv /\ ExportInv /\ ReadableInv /\ Portable!Export => ExportInv'
<1> SUFFICES ASSUME PortableTypeOK, RowsInv, ExportInv, ReadableInv, Portable!Export PROVE ExportInv'
  OBVIOUS
<1>0. /\ Created \subseteq Portable!UIDs /\ Created \cap NewUIDs = {}
      /\ ex \in ExportRecord /\ None \notin Portable!Zip
  BY CommandAssumption DEF Portable!UIDs, Portable!PortabilityAssumption, PortableTypeOK
<1>1. UNCHANGED <<row, file, job, del, im>>
  BY Zenon DEF Portable!Export, Portable!ExportUsers, Portable!GetBookmarks, Portable!SaveInfo, Portable!SaveContainer,
     Portable!SaveData, Portable!ExportFails, Portable!server, Portable!import
<1>2. ex.pc # "done"
  BY Zenon DEF Portable!Export, Portable!ExportUsers, Portable!GetBookmarks, Portable!SaveInfo, Portable!SaveContainer,
     Portable!SaveData, Portable!ExportFails
<1>3. zip = None /\ im.pc = "idle"
  BY <1>2 DEF ExportInv
<1>4. ASSUME NEW b \in Portable!UIDs, row[b] # None
      PROVE  b \in Created /\ job[b] # "none" /\ row[b].of = b
  BY <1>3, <1>4 DEF RowsInv, Early
<1>5. ASSUME NEW us, Portable!ExportUsers(us) PROVE ExportInv'
  <2>1. ex'.pc = "list" /\ DOMAIN ex'.items = {} /\ zip' = zip
    BY <1>0, <1>5 DEF Portable!ExportUsers, ExportInv, ExportRecord
  <2> QED
    BY <1>1, <1>3, <2>1 DEF ExportInv, Sound
<1>6. ASSUME Portable!GetBookmarks PROVE ExportInv'
  <2>1. /\ ex'.pc = "next" /\ ex'.items = ex.items /\ ex'.users = ex.users /\ zip' = zip
        /\ ex'.todo = {b \in Portable!UIDs : row[b] # None /\ row[b].owner \in DOMAIN ex.users}
    BY <1>0, <1>6 DEF Portable!GetBookmarks, ExportRecord
  <2> QED
    BY <1>1, <1>3, <1>4, <2>1 DEF ExportInv, Sound
<1>7. ASSUME NEW b \in Portable!UIDs, Portable!SaveInfo(b) PROVE ExportInv'
  <2>1. /\ ex.pc = "next" /\ b \in ex.todo /\ row[b] # None /\ zip' = zip
        /\ ex'.pc = "open" /\ ex'.items = ex.items /\ ex'.users = ex.users /\ ex'.todo = ex.todo
        /\ ex'.cur = b /\ ex'.info = row[b]
    BY <1>0, <1>7 DEF Portable!SaveInfo, ExportRecord
  <2>2. row[b].owner \in DOMAIN ex.users
    BY <2>1 DEF ExportInv
  <2>3. row[b].loaded => row[b].path /\ (file[b] = b \/ del[b] # "none")
    <3>1. ~row[b].imported /\ lost = {} /\ crossed = {}
      BY <1>3, <2>1 DEF RowsInv, Early, ReadableInv, Loading
    <3> QED
      BY <1>4, <2>1, <3>1 DEF ReadableInv, Readable, RowsInv
  <2> QED
    BY <1>1, <1>3, <1>4, <2>1, <2>2, <2>3 DEF ExportInv, Sound
<1>8. ASSUME Portable!SaveContainer PROVE ExportInv'
  <2> DEFINE content == IF ex.info.path THEN file[ex.cur] ELSE None
             item == [owner |-> ex.info.owner, of |-> ex.info.of, loaded |-> ex.info.loaded,
                      content |-> content]
  <2>1. /\ ex.pc = "open" /\ zip' = zip
        /\ ex'.pc = "next" /\ ex'.users = ex.users /\ ex'.todo = ex.todo \ {ex.cur}
        /\ ex'.items = Portable!With(ex.items, ex.cur, item)
    BY <1>0, <1>8 DEF Portable!SaveContainer, ExportRecord
  <2>2. /\ ex.cur \in Created /\ job[ex.cur] # "none" /\ ex.info.of = ex.cur
        /\ ex.info.owner \in DOMAIN ex.users
        /\ ex.info.loaded => ex.info.path /\ (file[ex.cur] = ex.cur \/ del[ex.cur] # "none")
        /\ file[ex.cur] \in {None, ex.cur}
    BY <1>3, <2>1 DEF ExportInv
  <2>3. /\ item.of = ex.cur /\ item.owner \in DOMAIN ex.users /\ item.content \in {None, ex.cur}
        /\ item.loaded => item.content = ex.cur \/ del[ex.cur] # "none"
    BY <2>2
  <2> HIDE DEF item
  <2>4. \A x \in DOMAIN ex'.items :
           /\ x \in DOMAIN ex.items \/ x = ex.cur
           /\ ex'.items[x] = IF x = ex.cur THEN item ELSE ex.items[x]
    BY <2>1 DEF Portable!With
  <2>5. Sound(ex.items, ex.users)'
    BY <1>1, <2>1, <2>2, <2>3, <2>4 DEF ExportInv, Sound
  <2> QED
    BY <1>1, <1>3, <2>1, <2>5 DEF ExportInv
<1>9. ASSUME Portable!SaveData PROVE ExportInv'
  <2>1. /\ zip'.users = ex.users /\ zip'.items = ex.items
        /\ ex'.pc = "done" /\ DOMAIN ex'.items = {}
    BY <1>9, NoneOf DEF Portable!SaveData, Portable!NoExport
  <2>2. zip' # None
    <3>1. zip' \in Portable!Zip
      BY <1>0, <1>9 DEF Portable!SaveData, Portable!Zip, ExportRecord
    <3> QED
      BY <1>0, <3>1
  <2> QED
    BY <1>1, <1>3, <2>1, <2>2 DEF ExportInv, Sound
<1>10. ASSUME Portable!ExportFails PROVE ExportInv'
  <2>1. ex'.pc = "failed" /\ DOMAIN ex'.items = {} /\ zip' = zip
    BY <1>10, NoneOf DEF Portable!ExportFails, Portable!NoExport
  <2> QED
    BY <1>1, <1>3, <2>1 DEF ExportInv, Sound
<1> QED
  BY <1>5, <1>6, <1>7, <1>8, <1>9, <1>10 DEF Portable!Export

\* An import has its file before it, which stays as it is.
LEMMA ImportHasFile ==
  ASSUME ExportInv, Portable!Import
  PROVE  zip # None /\ ex.pc = "done"
BY Zenon DEF ExportInv, Portable!Import, Portable!BeginFull, Portable!BeginSingle,
       Portable!BeginClear, Portable!Begin,
       Portable!ClearDB, Portable!LoadUsers, Portable!SelectOld, Portable!DeleteOld, Portable!InsertRow,
       Portable!CreateFile, Portable!CopyFiles, Portable!RemoveOld, Portable!FindOrphan, Portable!Commit,
       Portable!ImportFails, Portable!Glob, Portable!RemoveOrphan, Portable!AllDone

\* and by an import, which begins when the export is done.
LEMMA ExportImport ==
  PortableTypeOK /\ StateInv /\ RowsOfImport /\ ExportInv /\ Portable!Import => ExportInv'
<1> SUFFICES ASSUME PortableTypeOK, StateInv, RowsOfImport, ExportInv, Portable!Import PROVE ExportInv'
  OBVIOUS
<1>1. zip # None /\ ex.pc = "done"
  BY ImportHasFile
<1>2. UNCHANGED <<job, del, ex, zip>>
  BY ImportKeeps, CommitIs
<1>3. im'.pc # "idle"
  BY PcIs DEF Importing
<1> QED
  BY <1>1, <1>2, <1>3 DEF ExportInv, Sound

-----------------------------------------------------------------------------
(* Archives of rows, next to the server.                                   *)

\* ReadableInv is kept by the server
LEMMA ReadableServer ==
  PortableTypeOK /\ RowsInv /\ ExportInv /\ StateInv /\ RowsOfImport /\ ReadableInv /\ Portable!Server
    => ReadableInv'
<1> SUFFICES ASSUME PortableTypeOK, RowsInv, ExportInv, StateInv, RowsOfImport, ReadableInv, Portable!Server
             PROVE  ReadableInv'
  OBVIOUS
<1>t. /\ row \in [Portable!UIDs -> Portable!Row \cup {None}]
      /\ file \in [Portable!UIDs -> Created \cup {None, "partial", "empty"}]
      /\ job \in [Created -> {"none", "running", "filed", "done", "late"}]
      /\ del \in [Portable!UIDs -> {"none", "removing", "removed"}]
  BY DEF PortableTypeOK
<1>0. Created \subseteq Portable!UIDs
  BY DEF Portable!UIDs
<1>1. UNCHANGED <<zip, im, import, lost, crossed>>
  BY ServerKeeps
<1>r. \A c \in Portable!UIDs : row[c] # None /\ ~row[c].imported => c \in Created
  BY DEF RowsInv
<1>c. im.pc = "copy" => im.uid \in Portable!UIDs
  <2>1. CASE im.pc = "copy"
    <3>1. im.uid \in DOMAIN import.rows /\ import.rows \in Portable!Some(Portable!UIDs, Portable!Row)
      BY <2>1 DEF StateInv, PortableTypeOK, Importing, Portable!Transaction
    <3> QED
      BY <3>1, SomeIs
  <2> QED
    BY <2>1
<1>2. ASSUME NEW b \in Created, NEW u \in Portable!Ids, Portable!Create(b, u) PROVE ReadableInv'
  <2>1. /\ job[b] = "none" /\ job'[b] = "running" /\ ~row'[b].loaded /\ ~row'[b].imported
        /\ \A c \in Portable!UIDs \ {b} : row'[c] = row[c]
        /\ \A c \in Created \ {b} : job'[c] = job[c]
        /\ UNCHANGED <<file, del>>
    BY <1>2, CreateIs
  <2>2. del[b] = "none"
    BY <2>1 DEF RowsInv
  <2>3. im.pc = "copy" => im.uid # b
    <3>1. CASE im.pc = "copy" /\ im.uid = b
      <4>1. Inserted(b) /\ zip # None /\ im.mode \in {"append", "clear", "single"}
        BY SMTT(30), <3>1 DEF StateInv, RowsOfImport, ExportInv, Importing
      <4>2. b \in DOMAIN zip.items
        BY <4>1, CommandAssumption DEF Inserted, Portable!PortabilityAssumption
      <4> QED
        BY <2>1, <4>1, <4>2 DEF ExportInv, Sound
    <3> QED
      BY <3>1
  <2> QED
    <3>1. ASSUME NEW c \in Portable!UIDs PROVE Readable(c)'
      <4>1. CASE c = b
        BY <2>1, <4>1 DEF Readable
      <4>2. CASE c # b
        BY <1>1, <1>r, <2>1, <4>2 DEF ReadableInv, Readable, Portable!Torn
      <4> QED
        BY <4>1, <4>2
    <3> QED
      BY <1>0, <1>1, <2>1, <2>2, <2>3, <1>c, <3>1 DEF ReadableInv
<1>3. ASSUME NEW b \in Created, Portable!Archive(b) PROVE ReadableInv'
  <2>1. /\ UNCHANGED <<row, del>> /\ file'[b] = b
        /\ \A c \in Portable!UIDs \ {b} : file'[c] = file[c]
        /\ \A c \in Created \ {b} : job'[c] = job[c]
    BY <1>t, <1>0, <1>3 DEF Portable!Archive
  <2>2. row[b] # None => row[b].of = b
    BY DEF RowsInv
  <2> QED
    BY <1>0, <1>1, <2>1, <2>2 DEF ReadableInv, Readable, RowsInv, Portable!Torn
<1>4. ASSUME NEW b \in Created, Portable!SaveRow(b) PROVE ReadableInv'
  <2>1. /\ job[b] = "filed" /\ b \in Portable!UIDs
        /\ \A c \in Portable!UIDs \ {b} : row'[c] = row[c]
        /\ \A c \in Created \ {b} : job'[c] = job[c]
        /\ UNCHANGED <<file, del>>
    BY <1>0, <1>4, SaveRowIs
  <2>2. CASE row[b] # None /\ ~row[b].imported
    <3>1. job'[b] = "done" /\ row'[b].of = row[b].of /\ ~row'[b].imported
      BY <1>4, <2>2, SaveRowIs
    <3> QED
      <4>1. ASSUME NEW c \in Portable!UIDs PROVE Readable(c)'
        <5>1. CASE c = b
          BY <1>1, <2>1, <2>2, <3>1, <5>1 DEF ReadableInv, Readable, Portable!Torn
        <5>2. CASE c # b
          BY <1>1, <1>r, <2>1, <5>2 DEF ReadableInv, Readable, Portable!Torn
        <5> QED
          BY <5>1, <5>2
      <4> QED
        BY <1>1, <1>c, <2>1, <2>2, <3>1, <4>1 DEF ReadableInv
  <2>3. CASE row[b] = None \/ row[b].imported
    <3>1. job'[b] = "late" /\ row'[b] = row[b]
      BY <1>4, <2>3, SaveRowIs
    <3> QED
      <4>1. ASSUME NEW c \in Portable!UIDs PROVE Readable(c)'
        <5>1. CASE c = b
          BY <1>1, <2>1, <2>3, <3>1, <5>1 DEF ReadableInv, Readable, Portable!Torn
        <5>2. CASE c # b
          BY <1>1, <1>r, <2>1, <5>2 DEF ReadableInv, Readable, Portable!Torn
        <5> QED
          BY <5>1, <5>2
      <4> QED
        BY <1>1, <1>c, <2>1, <2>3, <3>1, <4>1 DEF ReadableInv
  <2> QED
    BY <2>2, <2>3
<1>5. ASSUME NEW b \in Portable!UIDs, Portable!Delete(b) PROVE ReadableInv'
  <2>1. /\ UNCHANGED <<file, job>> /\ row'[b] = None
        /\ \A c \in Portable!UIDs \ {b} : row'[c] = row[c] /\ del'[c] = del[c]
    BY <1>t, <1>5 DEF Portable!Delete
  <2> QED
    BY <1>1, <1>c, <2>1 DEF ReadableInv, Readable, RowsInv, Portable!Torn
<1>6. ASSUME NEW b \in Portable!UIDs, Portable!RemoveFiles(b) PROVE ReadableInv'
  <2>1. /\ UNCHANGED <<row, job>> /\ del[b] = "removing" /\ del'[b] = "removed"
        /\ \A c \in Portable!UIDs \ {b} : file'[c] = file[c] /\ del'[c] = del[c]
    BY <1>t, <1>6 DEF Portable!RemoveFiles
  <2> QED
    BY <1>1, <2>1 DEF ReadableInv, Readable, RowsInv, Portable!Torn
<1>7. ASSUME NEW u \in Portable!Ids, Portable!DeleteUser(u) PROVE ReadableInv'
  BY <1>1, <1>7 DEF Portable!DeleteUser, ReadableInv, Readable, Portable!Torn
<1> QED
  BY <1>2, <1>3, <1>4, <1>5, <1>6, <1>7 DEF Portable!Server

\* and by an export, which only reads.
LEMMA ReadableExport ==
  ExportInv /\ ReadableInv /\ Portable!Export => ReadableInv'
<1> SUFFICES ASSUME ExportInv, ReadableInv, Portable!Export PROVE ReadableInv'
  OBVIOUS
<1>1. UNCHANGED <<row, file, job, del, im, lost, crossed>> /\ zip = None
  BY Zenon DEF ExportInv, Portable!Export, Portable!ExportUsers, Portable!GetBookmarks, Portable!SaveInfo,
     Portable!SaveContainer, Portable!SaveData, Portable!ExportFails, Portable!server, Portable!import
<1> QED
  BY <1>1 DEF ReadableInv, Readable, Portable!Torn

-----------------------------------------------------------------------------
(* The steps of an import, by what each does.                              *)

\* The steps of an import, by the fields of its record and of its transaction.
Still == im'.mode = im.mode /\ im'.me = im.me /\ im'.users = im.users

\* The state of an import is a record.
LEMMA Recorded == PortableTypeOK => im \in ImportRecord
BY DEF PortableTypeOK

\* An import has a transaction until it commits or fails.
LEMMA InTransaction ==
  ASSUME PortableTypeOK, StateInv, im.pc \in Importing
  PROVE  /\ import \in Portable!Transaction
         /\ import.rows \in Portable!Some(Portable!UIDs, Portable!Row)
         /\ import.users \in Portable!Some(Portable!Ids, Users)
         /\ \A b \in DOMAIN import.rows : b \in Portable!UIDs /\ import.rows[b] \in Portable!Row
         /\ im.pc \in {"create", "copy"} => im.uid \in Portable!UIDs
<1>1. import \in Portable!Transaction
  BY DEF PortableTypeOK, StateInv
<1>2. import.rows \in Portable!Some(Portable!UIDs, Portable!Row)
      /\ import.users \in Portable!Some(Portable!Ids, Users)
  BY <1>1 DEF Portable!Transaction
<1>3. \A b \in DOMAIN import.rows : b \in Portable!UIDs /\ import.rows[b] \in Portable!Row
  BY <1>2, SomeIs
<1>4. im.pc \in {"create", "copy"} => im.uid \in Portable!UIDs
  BY <1>3 DEF StateInv
<1> QED
  BY <1>1, <1>2, <1>3, <1>4

\* It begins with nothing inserted and nothing deleted,
LEMMA ImportBeginIs ==
  ASSUME PortableTypeOK, NEW mode, NEW names, NEW me, Portable!Begin(mode, names, me)
  PROVE  /\ im.pc = "idle" /\ zip # None
         /\ im'.pc = (IF mode = "clear" THEN "clear" ELSE "users")
         /\ im'.mode = mode /\ im'.names = names /\ im'.me = me /\ im'.old = im.old /\ im'.todo = im.todo
         /\ im'.cur = im.cur /\ im'.uid = im.uid
         /\ mode = "single" => im'.users = [u \in DOMAIN zip.users |-> me]
         /\ import'.left = {} /\ import'.deleted = {}
         /\ DOMAIN import'.rows = {} /\ DOMAIN import'.users = {}
         /\ UNCHANGED <<Portable!server, Portable!export, lost, crossed, missed>>
BY Recorded, NoneOf DEF Portable!Begin, ImportRecord

\* for one user with the items of the file,
LEMMA SingleIs ==
  ASSUME PortableTypeOK, NEW me, Portable!BeginSingle(me)
  PROVE  /\ im.pc = "idle" /\ im'.pc = "users" /\ im'.mode = "single" /\ im'.me = me /\ im'.old = im.old
         /\ im'.users = [u \in DOMAIN zip.users |-> me] /\ zip' = zip
         /\ import'.left = {} /\ import'.deleted = {}
         /\ DOMAIN import'.rows = {} /\ DOMAIN import'.users = {}
<1>1. Portable!Begin("single", {}, me)
  BY DEF Portable!BeginSingle
<1> QED
  BY <1>1, Recorded, NoneOf DEF Portable!Begin, ImportRecord, Portable!export

\* and with -clear it deletes all it sees.
LEMMA ClearIs ==
  ASSUME PortableTypeOK, StateInv, Portable!ClearDB
  PROVE  /\ im.pc = "clear" /\ im'.pc = "users" /\ Still
         /\ im'.names = im.names /\ im'.old = im.old /\ im'.todo = im.todo
         /\ im'.cur = im.cur /\ im'.uid = im.uid
         /\ import'.deleted = {b \in Portable!UIDs : row[b] # None}
         /\ import'.left = {u \in Portable!Ids : user[u] # None}
         /\ import'.rows = import.rows /\ import'.users = import.users
         /\ UNCHANGED <<Portable!server, Portable!export, lost, crossed, missed>>
<1>1. im.pc = "clear" /\ im.pc \in Importing
  BY DEF Portable!ClearDB, Importing
<1> QED
  BY <1>1, Recorded, InTransaction DEF Portable!ClearDB, ImportRecord, Portable!Transaction, Still

\* It selects the bookmarks of its user
LEMMA SelectIs ==
  ASSUME PortableTypeOK, Portable!SelectOld
  PROVE  /\ im.pc = "users" /\ im.mode = "single" /\ im'.pc = "delete" /\ Still
         /\ im'.old = {b \in Portable!UIDs : row[b] # None /\ row[b].owner = im.me /\ row[b].path}
         /\ im'.todo = im.todo /\ im'.cur = im.cur /\ im'.uid = im.uid
         /\ UNCHANGED <<Portable!server, Portable!export, import, lost, crossed, missed>>
BY Recorded DEF Portable!SelectOld, ImportRecord, Still

\* and deletes them.
LEMMA DeleteIs ==
  ASSUME PortableTypeOK, StateInv, Portable!DeleteOld
  PROVE  /\ im.pc = "delete" /\ im'.pc = "next" /\ Still
         /\ im'.todo = DOMAIN zip.items /\ im'.old = im.old /\ im'.cur = im.cur /\ im'.uid = im.uid
         /\ import'.deleted = {b \in Portable!UIDs : row[b] # None /\ row[b].owner = im.me}
         /\ import'.left = import.left /\ import'.rows = import.rows /\ import'.users = import.users
         /\ missed' = {b \in import'.deleted : row[b].path} \ im.old
         /\ UNCHANGED <<Portable!server, Portable!export, lost, crossed>>
<1>1. im.pc = "delete" /\ im.pc \in Importing
  BY DEF Portable!DeleteOld, Importing
<1>2. import \in Portable!Transaction
  BY <1>1, InTransaction
<1>3. /\ import'.deleted = {b \in Portable!UIDs : row[b] # None /\ row[b].owner = im.me}
      /\ import'.left = import.left /\ import'.rows = import.rows /\ import'.users = import.users
  BY SMTT(30), <1>2 DEF Portable!DeleteOld, Portable!Transaction
<1> QED
  BY <1>1, <1>3, Recorded DEF Portable!DeleteOld, ImportRecord, Still

\* It inserts the row of an item, with its new identifiers,
LEMMA InsertIs ==
  ASSUME PortableTypeOK, StateInv, NEW b, NEW uid, Portable!InsertRow(b, uid)
  PROVE  LET owner == im.users[zip.items[b].owner] IN
         /\ im.pc = "next" /\ b \in im.todo
         /\ IF im.mode = "clear" THEN uid = b ELSE uid \in NewUIDs
         /\ Portable!SeenRow(uid) = None /\ Portable!SeenUser(owner) # None
         /\ im'.pc = "create" /\ im'.cur = b /\ im'.uid = uid /\ Still
         /\ im'.old = im.old /\ im'.todo = im.todo
         /\ DOMAIN import'.rows = DOMAIN import.rows \cup {uid}
         /\ \A c \in DOMAIN import.rows \ {uid} : import'.rows[c] = import.rows[c]
         /\ import'.rows[uid].owner = owner /\ import'.rows[uid].of = zip.items[b].of
         /\ import'.rows[uid].loaded = zip.items[b].loaded
         /\ import'.rows[uid].path /\ import'.rows[uid].imported
         /\ import'.users = import.users /\ import'.left = import.left /\ import'.deleted = import.deleted
         /\ UNCHANGED <<Portable!server, Portable!export, lost, crossed, missed>>
<1> DEFINE r == [owner |-> im.users[zip.items[b].owner], of |-> zip.items[b].of,
                 loaded |-> zip.items[b].loaded, path |-> TRUE, imported |-> TRUE]
<1>1. im.pc = "next" /\ im.pc \in Importing
  BY DEF Portable!InsertRow, Importing
<1>2. import \in Portable!Transaction
  BY <1>1, InTransaction
<1>3. import' = [import EXCEPT !.rows = Portable!With(import.rows, uid, r)]
  BY DEF Portable!InsertRow
<1>4. /\ r.owner = im.users[zip.items[b].owner] /\ r.of = zip.items[b].of
      /\ r.loaded = zip.items[b].loaded /\ r.path /\ r.imported
  OBVIOUS
<1> HIDE DEF r
<1>5. /\ import'.rows = Portable!With(import.rows, uid, r)
      /\ import'.users = import.users /\ import'.left = import.left /\ import'.deleted = import.deleted
  BY <1>2, <1>3 DEF Portable!Transaction
<1>6. /\ DOMAIN import'.rows = DOMAIN import.rows \cup {uid}
      /\ \A c \in DOMAIN import.rows \ {uid} : import'.rows[c] = import.rows[c]
      /\ import'.rows[uid] = r
  BY <1>5 DEF Portable!With
<1>7. im'.pc = "create" /\ im'.cur = b /\ im'.uid = uid /\ Still /\ im'.old = im.old /\ im'.todo = im.todo
  BY Recorded DEF Portable!InsertRow, ImportRecord, Still
<1> QED
  BY <1>1, <1>4, <1>5, <1>6, <1>7 DEF Portable!InsertRow

\* creates its archive
LEMMA CreateFileIs ==
  ASSUME PortableTypeOK, StateInv, Portable!CreateFile
  PROVE  /\ im.pc = "create" /\ im'.pc = "copy" /\ Still /\ im.uid \in Portable!UIDs
         /\ im'.old = im.old /\ im'.todo = im.todo /\ im'.cur = im.cur /\ im'.uid = im.uid
         /\ file'[im.uid] = "partial"
         /\ \A b \in Portable!UIDs \ {im.uid} : file'[b] = file[b]
         /\ lost \subseteq lost' /\ lost' \subseteq lost \cup {im.uid}
         /\ row[im.uid] # None => im.uid \in lost'
         /\ im.uid \in lost' => im.uid \in lost \/ row[im.uid] # None
         /\ crossed \subseteq crossed' /\ crossed' \subseteq crossed \cup {im.uid}
         /\ del[im.uid] = "removing" => im.uid \in crossed'
         /\ UNCHANGED <<connection, user, row, job, del, Portable!export, import, missed>>
<1>1. im.pc = "create" /\ im.pc \in Importing
  BY DEF Portable!CreateFile, Importing
<1>2. im.uid \in Portable!UIDs
  BY <1>1, InTransaction
<1>3. file \in [Portable!UIDs -> Created \cup {None, "partial", "empty"}]
  BY DEF PortableTypeOK
<1>4. im'.pc = "copy" /\ Still /\ im'.old = im.old /\ im'.todo = im.todo /\ im'.cur = im.cur /\ im'.uid = im.uid
  BY Recorded DEF Portable!CreateFile, ImportRecord, Still
<1> QED
  BY <1>1, <1>2, <1>3, <1>4 DEF Portable!CreateFile

\* and fills it.
LEMMA CopyIs ==
  ASSUME PortableTypeOK, StateInv, Portable!CopyFiles
  PROVE  /\ im.pc = "copy" /\ im'.pc = "next" /\ Still /\ im.uid \in Portable!UIDs
         /\ im'.old = im.old /\ im'.todo = im.todo \ {im.cur}
         /\ file'[im.uid] = IF zip.items[im.cur].content = None THEN "empty" ELSE zip.items[im.cur].content
         /\ \A b \in Portable!UIDs \ {im.uid} : file'[b] = file[b]
         /\ UNCHANGED <<connection, user, row, job, del, Portable!export, import, lost, crossed, missed>>
<1>1. im.pc = "copy" /\ im.pc \in Importing
  BY DEF Portable!CopyFiles, Importing
<1>2. im.uid \in Portable!UIDs
  BY <1>1, InTransaction
<1>3. file \in [Portable!UIDs -> Created \cup {None, "partial", "empty"}]
  BY DEF PortableTypeOK
<1>4. im'.pc = "next" /\ Still /\ im'.old = im.old /\ im'.todo = im.todo \ {im.cur}
  BY Recorded DEF Portable!CopyFiles, ImportRecord, Still
<1> QED
  BY <1>1, <1>2, <1>3, <1>4 DEF Portable!CopyFiles

\* It removes the archives that it selected.
LEMMA RemoveOldIs ==
  ASSUME PortableTypeOK, NEW b \in Portable!UIDs, Portable!RemoveOld(b)
  PROVE  /\ im.pc = "next" /\ im.todo = {} /\ b \in im.old /\ im'.pc = "next" /\ Still
         /\ im'.old = im.old \ {b} /\ im'.todo = im.todo /\ im'.cur = im.cur /\ im'.uid = im.uid
         /\ file'[b] = None /\ \A c \in Portable!UIDs \ {b} : file'[c] = file[c]
         /\ lost' = lost \cup {b}
         /\ UNCHANGED <<connection, user, row, job, del, Portable!export, import, crossed, missed>>
<1>1. file \in [Portable!UIDs -> Created \cup {None, "partial", "empty"}]
  BY DEF PortableTypeOK
<1> QED
  BY <1>1, Recorded DEF Portable!RemoveOld, ImportRecord, Still

\* It fails: the transaction is gone and the files stay.
LEMMA FailsIs ==
  ASSUME PortableTypeOK, Portable!ImportFails
  PROVE  /\ im.pc \in Importing /\ im'.pc = "failed" /\ im'.mode = im.mode /\ im'.todo = im.todo
         /\ im'.old = {} /\ import' = None
         /\ UNCHANGED <<Portable!server, Portable!export, lost, crossed, missed>>
BY ForgottenTyped DEF Portable!ImportFails, Importing

\* It lists the archives,
LEMMA GlobIs ==
  ASSUME PortableTypeOK, Portable!Glob
  PROVE  /\ im.pc = "glob" /\ im'.pc = "orphans" /\ Still /\ im'.old = im.old
         /\ im'.todo = {b \in Portable!UIDs : file[b] # None}
         /\ UNCHANGED <<Portable!server, Portable!export, import, lost, crossed, missed>>
BY Recorded DEF Portable!Glob, ImportRecord, Still

\* looks for those without a row
LEMMA FindOrphanIs ==
  ASSUME PortableTypeOK, NEW b \in Portable!UIDs, Portable!FindOrphan(b)
  PROVE  /\ im.pc = "orphans" /\ b \in im.todo /\ Still /\ im'.old = im.old
         /\ row[b] # None => im'.pc = "orphans" /\ im'.todo = im.todo \ {b}
         /\ row[b] = None => im'.pc = "remove" /\ im'.todo = im.todo /\ im'.cur = b
         /\ UNCHANGED <<Portable!server, Portable!export, import, lost, crossed, missed>>
<1>1. CASE row[b] = None
  BY <1>1, Recorded DEF Portable!FindOrphan, ImportRecord, Still
<1>2. CASE row[b] # None
  BY <1>2, Recorded DEF Portable!FindOrphan, ImportRecord, Still
<1> QED
  BY <1>1, <1>2

\* and removes them.
LEMMA RemoveOrphanIs ==
  ASSUME PortableTypeOK, Portable!RemoveOrphan
  PROVE  /\ im.pc = "remove" /\ im'.pc = "orphans" /\ Still /\ im'.old = im.old
         /\ im'.todo = im.todo \ {im.cur}
         /\ im.cur \in Portable!UIDs => file'[im.cur] = None
         /\ \A b \in Portable!UIDs \ {im.cur} : file'[b] = file[b]
         /\ UNCHANGED <<connection, user, row, job, del, Portable!export, import, lost, crossed, missed>>
<1>1. file \in [Portable!UIDs -> Created \cup {None, "partial", "empty"}]
  BY DEF PortableTypeOK
<1> QED
  BY <1>1, Recorded DEF Portable!RemoveOrphan, ImportRecord, Still

\* It is done.
LEMMA AllDoneIs ==
  ASSUME PortableTypeOK, Portable!AllDone
  PROVE  /\ im.pc = "orphans" /\ im.todo = {} /\ im'.pc = "done" /\ Still
         /\ im'.old = im.old /\ im'.todo = im.todo
         /\ UNCHANGED <<Portable!server, Portable!export, import, lost, crossed, missed>>
BY Recorded DEF Portable!AllDone, ImportRecord, Still

\* Users get new identifiers, each its own, with their names.
LEMMA LoadIs ==
  ASSUME PortableTypeOK, StateInv, Portable!LoadUsers
  PROVE  /\ im.pc = "users" /\ im.mode # "single" /\ im'.pc = "next"
         /\ im'.mode = im.mode /\ im'.me = im.me /\ im'.old = im.old /\ im'.cur = im.cur /\ im'.uid = im.uid
         /\ \A u \in DOMAIN im'.users :
               /\ u \in DOMAIN zip.users /\ im'.users[u] \in DOMAIN import'.users
               /\ import'.users[im'.users[u]] = zip.users[u]
         /\ im'.todo = {b \in DOMAIN zip.items : zip.items[b].owner \in DOMAIN im'.users}
         /\ \A u \in DOMAIN zip.users :
               zip.users[u] \in im.names \ {Portable!SeenUser(v) : v \in Portable!Ids} => u \in DOMAIN im'.users
         /\ import'.rows = import.rows /\ import'.left = import.left /\ import'.deleted = import.deleted
         /\ UNCHANGED <<Portable!server, Portable!export, lost, crossed, missed>>
<1> DEFINE taken == {Portable!SeenUser(u) : u \in Portable!Ids}
           news == {u \in DOMAIN zip.users : zip.users[u] \in im.names \ taken}
           table(id) == [i \in {id[u] : u \in news} |-> zip.users[CHOOSE u \in news : id[u] = i]]
           items == {b \in DOMAIN zip.items : zip.items[b].owner \in news}
<1>1. PICK id \in [news -> NewIds] :
         /\ \A u, v \in news : id[u] = id[v] => u = v
         /\ import' = [import EXCEPT !.users = table(id)]
         /\ im' = [im EXCEPT !.pc = "next", !.users = id, !.todo = items]
  BY Zenon DEF Portable!LoadUsers
<1>2. \A u \in news : u \in DOMAIN zip.users /\ id[u] \in DOMAIN table(id) /\ table(id)[id[u]] = zip.users[u]
  BY Zenon, <1>1
<1>3. \A u \in DOMAIN zip.users : zip.users[u] \in im.names \ taken => u \in news
  OBVIOUS
<1>4. items = {b \in DOMAIN zip.items : zip.items[b].owner \in news}
  OBVIOUS
<1>5. DOMAIN id = news
  BY <1>1
<1> HIDE DEF news, table, items
<1>6. im.pc = "users" /\ im.pc \in Importing
  BY DEF Portable!LoadUsers, Importing
<1>7. import \in Portable!Transaction
  BY <1>6, InTransaction
<1>8. /\ import'.users = table(id)
      /\ import'.rows = import.rows /\ import'.left = import.left /\ import'.deleted = import.deleted
  BY <1>1, <1>7 DEF Portable!Transaction
<1>9. /\ im'.pc = "next" /\ im'.users = id /\ im'.todo = items
      /\ im'.mode = im.mode /\ im'.me = im.me /\ im'.old = im.old /\ im'.cur = im.cur /\ im'.uid = im.uid
  BY <1>1, Recorded DEF ImportRecord
<1> QED
  BY ZenonT(60), <1>2, <1>3, <1>4, <1>5, <1>6, <1>8, <1>9 DEF Portable!LoadUsers

-----------------------------------------------------------------------------
(* Archives of rows, during an import.                                     *)

\* A row under whose UID the import writes is one that it has deleted, and that
\* happens only when it has deleted all.
LEMMA OpenedIsCleared ==
  ASSUME PortableTypeOK, RowsInv, StateInv, RowsOfImport, im.pc \in {"create", "copy"},
         row[im.uid] # None
  PROVE  im.mode = "clear"
<1>1. im.pc \in Importing /\ im.uid \in DOMAIN import.rows /\ im.uid \in Portable!UIDs
  BY InTransaction DEF Importing, StateInv
<1>2. Inserted(im.uid)
  BY <1>1 DEF RowsOfImport
<1>3. im.uid \in Created
  BY <1>1 DEF RowsInv, Early
<1>4. im.uid \notin NewUIDs
  BY <1>3, CommandAssumption DEF Portable!PortabilityAssumption
<1> QED
  BY Zenon, <1>2, <1>4 DEF Inserted

\* What only changes the state of an import keeps archives readable.
LEMMA ReadableStep ==
  ASSUME ReadableInv, im'.pc \notin {"idle", "copy"},
         UNCHANGED <<row, job, del, zip, crossed>>, lost \subseteq lost', crossed \subseteq crossed',
         im'.pc \notin Loading \cup {"failed"} => lost' = {},
         \A b \in lost : im.mode = "clear" \/ im.todo = {} => im'.mode = "clear" \/ im'.todo = {},
         \A b \in Portable!UIDs : row[b] # None =>
             file'[b] = file[b] \/ (b \in lost' /\ (im'.mode = "clear" \/ im'.todo = {}))
  PROVE  ReadableInv'
<1>1. ASSUME NEW b \in Portable!UIDs PROVE Readable(b)'
  <2>1. Readable(b)
    BY DEF ReadableInv
  <2> QED
    BY <2>1 DEF Readable, Portable!Torn
<1>2. \A b \in Portable!UIDs : row'[b] # None /\ del'[b] = "removing" => b \in crossed'
  BY DEF ReadableInv
<1> QED
  BY <1>1, <1>2 DEF ReadableInv

\* ReadableInv is kept by an import.
LEMMA ReadableImport ==
  PortableTypeOK /\ RowsInv /\ StateInv /\ RowsOfImport /\ LeftInv /\ ReadableInv /\ Portable!Import
    => ReadableInv'
<1> SUFFICES ASSUME PortableTypeOK, RowsInv, StateInv, RowsOfImport, LeftInv, ReadableInv, Portable!Import
             PROVE  ReadableInv'
  OBVIOUS
<1>0. im.pc \notin Loading \cup {"failed"} => lost = {}
  BY DEF ReadableInv
<1>1. ASSUME NEW mode, NEW names, NEW me, Portable!Begin(mode, names, me) PROVE ReadableInv'
  <2>1. /\ im.pc = "idle" /\ im'.pc \in {"clear", "users"}
        /\ UNCHANGED <<row, file, job, del, zip, lost, crossed>>
    BY <1>1, ImportBeginIs DEF Portable!server, Portable!export
  <2>2. lost = {}
    BY <1>0, <2>1 DEF Loading
  <2> QED
    BY <2>1, <2>2, ReadableStep
<1>2. ASSUME Portable!ClearDB \/ Portable!SelectOld \/ Portable!DeleteOld \/ Portable!LoadUsers
      PROVE  ReadableInv'
  <2>1. /\ im.pc \in {"clear", "users", "delete"} /\ im'.pc \in {"users", "delete", "next"}
        /\ UNCHANGED <<row, file, job, del, zip, lost, crossed>>
    BY <1>2, ClearIs, SelectIs, DeleteIs, LoadIs DEF Portable!server, Portable!export
  <2>2. lost = {}
    BY <1>0, <2>1 DEF Loading
  <2> QED
    BY <2>1, <2>2, ReadableStep
<1>3. ASSUME NEW b, NEW uid, Portable!InsertRow(b, uid) PROVE ReadableInv'
  <2>1. /\ im'.pc = "create" /\ im'.mode = im.mode /\ im'.todo = im.todo
        /\ UNCHANGED <<row, file, job, del, zip, lost, crossed>>
    BY <1>3, InsertIs DEF Portable!server, Portable!export, Still
  <2> QED
    BY <2>1, ReadableStep DEF Loading
<1>4. ASSUME Portable!CreateFile PROVE ReadableInv'
  <2>1. /\ im.pc = "create" /\ im'.pc = "copy" /\ im'.mode = im.mode /\ im'.todo = im.todo
        /\ im.uid \in Portable!UIDs /\ im'.uid = im.uid
        /\ \A b \in Portable!UIDs \ {im.uid} : file'[b] = file[b]
        /\ lost \subseteq lost' /\ crossed \subseteq crossed'
        /\ row[im.uid] # None => im.uid \in lost'
        /\ UNCHANGED <<row, job, del, zip>>
    BY <1>4, CreateFileIs DEF Portable!export, Still
  <2>2. row[im.uid] # None => im.mode = "clear"
    BY <2>1, OpenedIsCleared
  <2>3. ASSUME NEW b \in Portable!UIDs PROVE Readable(b)'
    <3>1. Readable(b)
      BY DEF ReadableInv
    <3> QED
      BY <2>1, <2>2, <3>1 DEF Readable, Portable!Torn
  <2> QED
    BY <2>1, <2>3 DEF ReadableInv, Loading
<1>5. ASSUME Portable!CopyFiles PROVE ReadableInv'
  <2>1. /\ im.pc = "copy" /\ im'.pc = "next" /\ im'.mode = im.mode /\ im'.todo = im.todo \ {im.cur}
        /\ im.uid \in Portable!UIDs
        /\ \A b \in Portable!UIDs \ {im.uid} : file'[b] = file[b]
        /\ UNCHANGED <<row, job, del, zip, lost, crossed>>
    BY <1>5, CopyIs DEF Portable!export, Still
  <2>2. row[im.uid] # None => im.mode = "clear" /\ im.uid \in lost
    BY <2>1, OpenedIsCleared DEF ReadableInv
  <2> QED
    BY <2>1, <2>2, ReadableStep DEF Loading
<1>6. ASSUME NEW b \in Portable!UIDs, Portable!RemoveOld(b) PROVE ReadableInv'
  <2>1. /\ im.todo = {} /\ im'.pc = "next" /\ im'.mode = im.mode /\ im'.todo = im.todo
        /\ \A c \in Portable!UIDs \ {b} : file'[c] = file[c]
        /\ lost' = lost \cup {b}
        /\ UNCHANGED <<row, job, del, zip, crossed>>
    BY <1>6, RemoveOldIs DEF Portable!export, Still
  <2> QED
    BY <2>1, ReadableStep DEF Loading
<1>7. ASSUME Portable!Commit PROVE ReadableInv'
  <2>1. /\ im.pc = "next" /\ im'.pc \in {"glob", "done"} /\ lost' = {}
        /\ \A b \in DOMAIN import.rows :
              row'[b] = import.rows[b] /\ row'[b].imported /\ Inserted(b) /\ Filed(b)
        /\ \A b \in Portable!UIDs \ DOMAIN import.rows :
               row'[b] = IF b \in import.deleted THEN None ELSE row[b]
        /\ UNCHANGED <<file, job, del, zip, crossed>>
    BY <1>7, CommitIs
  <2>2. ASSUME NEW b \in Portable!UIDs, row'[b] # None
        PROVE  Readable(b)' /\ (del[b] = "removing" => b \in crossed)
    <3>1. CASE b \in DOMAIN import.rows
      BY <2>1, <3>1 DEF Filed, Readable, Portable!Torn
    <3>2. CASE b \notin DOMAIN import.rows
      <4>1. b \notin import.deleted /\ row'[b] = row[b] /\ row[b] # None
        BY <2>1, <2>2, <3>2
      <4>2. b \notin lost
        BY <2>1, <3>2, <4>1 DEF RowsOfImport, Importing
      <4>3. Readable(b) /\ (del[b] = "removing" => b \in crossed)
        BY <4>1 DEF ReadableInv
      <4> QED
        BY <2>1, <4>1, <4>2, <4>3 DEF Readable, Portable!Torn
    <3> QED
      BY <3>1, <3>2
  <2>3. \A b \in Portable!UIDs : Readable(b)'
    BY <2>2 DEF Readable
  <2> QED
    BY <2>1, <2>2, <2>3 DEF ReadableInv
<1>8. ASSUME Portable!ImportFails PROVE ReadableInv'
  <2>1. /\ im'.pc = "failed" /\ im'.mode = im.mode /\ im'.todo = im.todo
        /\ UNCHANGED <<row, file, job, del, zip, lost, crossed>>
    BY <1>8, FailsIs DEF Portable!server, Portable!export
  <2> QED
    BY <2>1, ReadableStep
<1>9. ASSUME NEW b \in Portable!UIDs, Portable!FindOrphan(b) PROVE ReadableInv'
  <2>1. /\ im.pc = "orphans" /\ im'.pc \in {"orphans", "remove"}
        /\ UNCHANGED <<row, file, job, del, zip, lost, crossed>>
    BY <1>9, FindOrphanIs DEF Portable!server, Portable!export
  <2>2. lost = {}
    BY <1>0, <2>1 DEF Loading
  <2> QED
    BY <2>1, <2>2, ReadableStep
<1>10. ASSUME Portable!RemoveOrphan PROVE ReadableInv'
  <2>1. /\ im.pc = "remove" /\ im'.pc = "orphans"
        /\ \A b \in Portable!UIDs \ {im.cur} : file'[b] = file[b]
        /\ UNCHANGED <<row, job, del, zip, lost, crossed>>
    BY <1>10, RemoveOrphanIs DEF Portable!export
  <2>2. lost = {} /\ row[im.cur] = None
    BY <1>0, <2>1 DEF Loading, LeftInv
  <2> QED
    BY <2>1, <2>2, ReadableStep
<1>11. ASSUME Portable!Glob \/ Portable!AllDone PROVE ReadableInv'
  <2>1. /\ im.pc \in {"glob", "orphans"} /\ im'.pc \in {"orphans", "done"}
        /\ UNCHANGED <<row, file, job, del, zip, lost, crossed>>
    BY <1>11, GlobIs, AllDoneIs DEF Portable!server, Portable!export
  <2>2. lost = {}
    BY <1>0, <2>1 DEF Loading
  <2> QED
    BY <2>1, <2>2, ReadableStep
<1> QED
  BY <1>1, <1>2, <1>3, <1>4, <1>5, <1>6, <1>7, <1>8, <1>9, <1>10, <1>11
  DEF Portable!Import, Portable!BeginFull, Portable!BeginSingle, Portable!BeginClear

-----------------------------------------------------------------------------
(* The state of an import.                                                 *)

\* StateInv is kept by the server,
LEMMA StateServer ==
  PortableTypeOK /\ RowsInv /\ StateInv /\ Portable!Server => StateInv'
<1> SUFFICES ASSUME PortableTypeOK, RowsInv, StateInv, Portable!Server PROVE StateInv'
  OBVIOUS
<1>t. /\ user \in [Portable!Ids -> Users \cup {None}]
      /\ row \in [Portable!UIDs -> Portable!Row \cup {None}]
      /\ job \in [Created -> {"none", "running", "filed", "done", "late"}]
  BY DEF PortableTypeOK
<1>0. Created \subseteq Portable!UIDs
  BY DEF Portable!UIDs
<1>1. UNCHANGED <<zip, im, import>>
  BY ServerKeeps
<1>2. \A b \in Created : job[b] # "none" => job'[b] # "none"
  BY ServerKeeps
<1>3. ASSUME NEW b \in Portable!UIDs, row'[b] # None
      PROVE  \/ row[b] # None /\ row'[b].owner = row[b].owner
             \/ /\ b \in Created /\ job[b] = "none"
                /\ import # None => \E u \in Portable!Ids : user[u] # None /\ u \notin import.left
  <2>1. ASSUME NEW c \in Created, NEW u \in Portable!Ids, Portable!Create(c, u), b = c
        PROVE  /\ b \in Created /\ job[b] = "none" /\ user[u] # None
               /\ import # None => u \notin import.left
    BY <2>1 DEF Portable!Create
  <2>2. ASSUME NEW c \in Created, NEW u \in Portable!Ids, Portable!Create(c, u), b # c
        PROVE  row[b] # None /\ row'[b].owner = row[b].owner
    <3>1. row'[b] = row[b]
      BY <2>2, CreateIs
    <3> QED
      BY <1>3, <3>1
  <2>3. ASSUME NEW c \in Created, Portable!SaveRow(c)
        PROVE  row[b] # None /\ row'[b].owner = row[b].owner
    <3>1. CASE c = b /\ row[b] # None /\ ~row[b].imported
      BY <2>3, <3>1, SaveRowIs
    <3>2. CASE c # b \/ row[b] = None \/ row[b].imported
      <4>1. row'[b] = row[b]
        BY <1>0, <2>3, <3>2, SaveRowIs
      <4> QED
        BY <1>3, <4>1
    <3> QED
      BY <3>1, <3>2
  <2>4. ASSUME NEW c \in Portable!UIDs, Portable!Delete(c)
        PROVE  row[b] # None /\ row'[b].owner = row[b].owner
    BY <1>t, <1>3, <2>4 DEF Portable!Delete
  <2> QED
    BY <1>3, <2>1, <2>2, <2>3, <2>4
    DEF Portable!Server, Portable!Archive, Portable!RemoveFiles, Portable!DeleteUser
<1>4. \A u \in Portable!Ids : user'[u] # None => user[u] # None
  <2>1. ASSUME NEW v \in Portable!Ids, Portable!DeleteUser(v)
        PROVE  \A u \in Portable!Ids : user'[u] # None => user[u] # None
    BY <1>t, <2>1 DEF Portable!DeleteUser
  <2> QED
    BY <2>1 DEF Portable!Server, Portable!Create, Portable!Archive, Portable!SaveRow, Portable!Delete,
                Portable!RemoveFiles
<1>5. ASSUME im.pc \in Importing, im.mode = "single", NEW b \in import.deleted \cup im.old
      PROVE  b \in Created /\ job'[b] # "none" /\ (row'[b] # None => row'[b].owner = im.me)
  <2>1. b \in Created /\ job[b] # "none" /\ (row[b] # None => row[b].owner = im.me)
    BY <1>5 DEF StateInv
  <2> QED
    BY <1>0, <1>2, <1>3, <2>1
<1>6. ASSUME im.pc \in Importing, im.mode = "clear", im.pc # "clear", NEW b \in Portable!UIDs, row'[b] # None
      PROVE  b \in import.deleted
  <2>1. import # None /\ \A u \in Portable!Ids : user[u] # None => u \in import.left
    BY <1>6 DEF StateInv
  <2>2. row[b] # None
    BY <1>3, <1>6, <2>1
  <2> QED
    BY <1>6, <2>2 DEF StateInv
<1> QED
  BY <1>1, <1>4, <1>5, <1>6 DEF StateInv

\* by an export
LEMMA StateExport ==
  ExportInv /\ StateInv /\ Portable!Export => StateInv'
<1> SUFFICES ASSUME ExportInv, StateInv, Portable!Export PROVE StateInv'
  OBVIOUS
<1>1. UNCHANGED <<user, row, job, im, import>> /\ im.pc = "idle"
  BY Zenon DEF ExportInv, Portable!Export, Portable!ExportUsers, Portable!GetBookmarks, Portable!SaveInfo,
     Portable!SaveContainer, Portable!SaveData, Portable!ExportFails, Portable!server, Portable!import
<1> QED
  BY <1>1 DEF StateInv, Importing, Loading, Sweeping

\* What an import finds in the file: items with their users.
LEMMA ItemsHaveUsers ==
  ASSUME ExportInv, zip # None
  PROVE  \A x \in DOMAIN zip.items :
            /\ x \in Created /\ job[x] # "none" /\ zip.items[x].of = x
            /\ zip.items[x].owner \in DOMAIN zip.users
BY DEF ExportInv, Sound

\* With all users deleted no name is taken.
LEMMA NamesAreFree ==
  ASSUME PortableTypeOK, StateInv, zip # None, im.pc = "users", im.mode = "clear"
  PROVE  \A u \in DOMAIN zip.users : zip.users[u] \in im.names \ {Portable!SeenUser(v) : v \in Portable!Ids}
<1>1. /\ im.names = Users /\ DOMAIN import.users = {}
      /\ \A v \in Portable!Ids : user[v] # None => v \in import.left
  BY DEF StateInv, Importing, Loading
<1>2. \A v \in Portable!Ids : Portable!SeenUser(v) = None
  BY <1>1 DEF Portable!SeenUser
<1>3. zip.users \in Portable!Some(Portable!Ids, Users)
  BY DEF PortableTypeOK, Portable!Zip
<1>4. None \notin Users
  BY CommandAssumption DEF Portable!PortabilityAssumption, Portable!Ids
<1> QED
  BY <1>1, <1>2, <1>3, <1>4, SomeIs

\* and by an import.
LEMMA StateImport ==
  PortableTypeOK /\ RowsInv /\ ExportInv /\ RowsOfImport /\ StateInv /\ Portable!Import => StateInv'
<1> SUFFICES ASSUME PortableTypeOK, RowsInv, ExportInv, RowsOfImport, StateInv, Portable!Import PROVE StateInv'
  OBVIOUS
<1>i. import' # None <=> im'.pc \in Importing
  BY ImportTypes
<1>z. zip # None
  BY ImportHasFile
<1>x. \A x \in DOMAIN zip.items :
            /\ x \in Created /\ job[x] # "none" /\ zip.items[x].of = x
            /\ zip.items[x].owner \in DOMAIN zip.users
  BY <1>z, ItemsHaveUsers
<1> USE DEF Importing, Loading, Sweeping
<1>1. ASSUME NEW names \in SUBSET Users, Portable!BeginFull(names) PROVE StateInv'
  <2>1. /\ im.pc = "idle" /\ im'.pc = "users" /\ im'.mode = "append" /\ im'.old = im.old
        /\ import'.left = {} /\ import'.deleted = {} /\ DOMAIN import'.rows = {} /\ DOMAIN import'.users = {}
    BY <1>1, ImportBeginIs DEF Portable!BeginFull
  <2> QED
    BY <1>i, <2>1 DEF StateInv
<1>2. ASSUME Portable!BeginClear PROVE StateInv'
  <2>1. /\ im.pc = "idle" /\ im'.pc = "clear" /\ im'.mode = "clear" /\ im'.old = im.old /\ im'.names = Users
        /\ import'.left = {} /\ import'.deleted = {} /\ DOMAIN import'.rows = {} /\ DOMAIN import'.users = {}
    BY <1>2, ImportBeginIs DEF Portable!BeginClear
  <2> QED
    BY <1>i, <2>1 DEF StateInv
<1>3. ASSUME NEW me \in Portable!Ids, Portable!BeginSingle(me) PROVE StateInv'
  <2>1. /\ im.pc = "idle" /\ im'.pc = "users" /\ im'.mode = "single" /\ im'.old = im.old /\ im'.me = me
        /\ im'.users = [u \in DOMAIN zip.users |-> me] /\ zip' = zip
        /\ import'.left = {} /\ import'.deleted = {} /\ DOMAIN import'.rows = {} /\ DOMAIN import'.users = {}
    BY <1>3, SingleIs
  <2> QED
    BY <1>i, <2>1 DEF StateInv
<1>4. ASSUME Portable!ClearDB PROVE StateInv'
  <2>1. /\ im.pc = "clear" /\ im'.pc = "users" /\ im'.mode = im.mode /\ im'.old = im.old /\ im'.names = im.names
        /\ import'.deleted = {b \in Portable!UIDs : row[b] # None}
        /\ import'.left = {u \in Portable!Ids : user[u] # None}
        /\ import'.rows = import.rows /\ import'.users = import.users
        /\ UNCHANGED <<user, row>>
    BY <1>4, ClearIs DEF Still, Portable!server
  <2> QED
    BY <1>i, <2>1 DEF StateInv
<1>5. ASSUME Portable!LoadUsers PROVE StateInv'
  <2>1. /\ im.pc = "users" /\ im.mode # "single" /\ im'.pc = "next" /\ im'.mode = im.mode /\ im'.old = im.old
        /\ \A u \in DOMAIN im'.users :
              /\ u \in DOMAIN zip.users /\ im'.users[u] \in DOMAIN import'.users
              /\ import'.users[im'.users[u]] = zip.users[u]
        /\ im'.todo = {b \in DOMAIN zip.items : zip.items[b].owner \in DOMAIN im'.users}
        /\ \A u \in DOMAIN zip.users :
              zip.users[u] \in im.names \ {Portable!SeenUser(v) : v \in Portable!Ids} => u \in DOMAIN im'.users
        /\ import'.rows = import.rows /\ import'.left = import.left /\ import'.deleted = import.deleted
        /\ UNCHANGED <<user, row, zip>>
    BY <1>5, LoadIs DEF Portable!server, Portable!export
  <2>2. im.mode = "clear" => im'.todo = DOMAIN zip.items
    BY <1>z, <1>x, <2>1, NamesAreFree
  <2> HIDE <2>1
  <2>3. /\ im.pc = "users" /\ im.mode # "single" /\ im'.pc = "next" /\ im'.mode = im.mode /\ im'.old = im.old
        /\ \A u \in DOMAIN im'.users :
              /\ u \in DOMAIN zip.users /\ im'.users[u] \in DOMAIN import'.users
              /\ import'.users[im'.users[u]] = zip.users[u]
        /\ \A x \in im'.todo : x \in DOMAIN zip.items /\ zip.items[x].owner \in DOMAIN im'.users
        /\ import'.rows = import.rows /\ import'.left = import.left /\ import'.deleted = import.deleted
        /\ UNCHANGED <<user, row, zip>>
    BY <2>1
  <2> QED
    BY <1>i, <2>2, <2>3 DEF StateInv
<1>6. ASSUME Portable!SelectOld PROVE StateInv'
  <2>1. /\ im.pc = "users" /\ im.mode = "single" /\ im'.pc = "delete" /\ Still
        /\ im'.old = {b \in Portable!UIDs : row[b] # None /\ row[b].owner = im.me /\ row[b].path}
        /\ UNCHANGED <<user, row, job, import, zip>>
    BY <1>6, SelectIs DEF Portable!server, Portable!export
  <2>2. \A b \in im'.old : b \in Created /\ job[b] # "none" /\ row[b].owner = im.me
    BY <2>1 DEF RowsInv, Early
  <2> QED
    BY <1>i, <2>1, <2>2 DEF StateInv, Still
<1>7. ASSUME Portable!DeleteOld PROVE StateInv'
  <2>1. /\ im.pc = "delete" /\ im'.pc = "next" /\ Still
        /\ im'.todo = DOMAIN zip.items /\ im'.old = im.old
        /\ import'.deleted = {b \in Portable!UIDs : row[b] # None /\ row[b].owner = im.me}
        /\ import'.left = import.left /\ import'.rows = import.rows /\ import'.users = import.users
        /\ UNCHANGED <<user, row, job, zip>>
    BY <1>7, DeleteIs DEF Portable!server, Portable!export
  <2>2. \A b \in import'.deleted : b \in Created /\ job[b] # "none" /\ row[b].owner = im.me
    BY <2>1 DEF RowsInv, Early
  <2>3. im.mode = "single" /\ DOMAIN im.users = DOMAIN zip.users
    BY <2>1 DEF StateInv
  <2> QED
    BY <1>i, <1>x, <2>1, <2>2, <2>3 DEF StateInv, Still
<1>8. ASSUME NEW b \in Portable!UIDs, NEW uid \in Portable!UIDs, Portable!InsertRow(b, uid) PROVE StateInv'
  <2>1. /\ im.pc = "next" /\ b \in im.todo /\ (im.mode = "clear" => uid = b)
        /\ im'.pc = "create" /\ im'.cur = b /\ im'.uid = uid /\ Still
        /\ im'.old = im.old /\ im'.todo = im.todo
        /\ DOMAIN import'.rows = DOMAIN import.rows \cup {uid}
        /\ import'.rows[uid].of = zip.items[b].of
        /\ import'.users = import.users /\ import'.left = import.left /\ import'.deleted = import.deleted
        /\ UNCHANGED <<user, row, job, zip>>
    BY <1>8, InsertIs DEF Portable!server, Portable!export
  <2>2. zip.items[b].of = b
    BY <1>x, <2>1 DEF StateInv
  <2> QED
    BY <1>i, <2>1, <2>2 DEF StateInv, Still
<1>9. ASSUME Portable!CreateFile PROVE StateInv'
  <2>1. /\ im.pc = "create" /\ im'.pc = "copy" /\ Still
        /\ im'.old = im.old /\ im'.todo = im.todo /\ im'.cur = im.cur /\ im'.uid = im.uid
        /\ UNCHANGED <<user, row, job, zip, import>>
    BY <1>9, CreateFileIs DEF Portable!export
  <2> QED
    BY <1>i, <2>1 DEF StateInv, Still
<1>10. ASSUME Portable!CopyFiles PROVE StateInv'
  <2>1. /\ im.pc = "copy" /\ im'.pc = "next" /\ Still
        /\ im'.old = im.old /\ im'.todo = im.todo \ {im.cur}
        /\ UNCHANGED <<user, row, job, zip, import>>
    BY <1>10, CopyIs DEF Portable!export
  <2>2. im.uid \in DOMAIN import.rows /\ import.rows[im.uid].of = im.cur
    BY <2>1 DEF StateInv
  <2>3. im.mode = "clear" => im.uid = im.cur
    BY <2>1, <2>2 DEF RowsOfImport, Inserted
  <2> QED
    BY <1>i, <2>1, <2>2, <2>3 DEF StateInv, Still
<1>11. ASSUME NEW b \in Portable!UIDs, Portable!RemoveOld(b) PROVE StateInv'
  <2>1. /\ im.pc = "next" /\ im'.pc = "next" /\ Still
        /\ im'.old = im.old \ {b} /\ im'.todo = im.todo
        /\ UNCHANGED <<user, row, job, zip, import>>
    BY <1>11, RemoveOldIs DEF Portable!export
  <2> QED
    BY <1>i, <2>1 DEF StateInv, Still
<1>12. ASSUME Portable!Commit PROVE StateInv'
  <2>1. im'.pc = (IF im.mode = "clear" THEN "glob" ELSE "done") /\ im'.mode = im.mode /\ im'.old = {}
    BY <1>12, CommitIs
  <2> QED
    BY <1>i, <2>1 DEF StateInv
<1>13. ASSUME Portable!ImportFails PROVE StateInv'
  <2>1. im'.pc = "failed" /\ im'.mode = im.mode /\ im'.old = {}
    BY <1>13, FailsIs
  <2> QED
    BY <1>i, <2>1 DEF StateInv
<1>14. ASSUME NEW b \in Portable!UIDs, Portable!FindOrphan(b) PROVE StateInv'
  <2>1. im.pc = "orphans" /\ im'.pc \in {"orphans", "remove"} /\ im'.mode = im.mode /\ im'.old = im.old
    BY <1>14, FindOrphanIs DEF Still
  <2> QED
    BY <1>i, <2>1 DEF StateInv
<1>15. ASSUME Portable!Glob \/ Portable!RemoveOrphan \/ Portable!AllDone PROVE StateInv'
  <2>1. /\ im.pc \in {"glob", "orphans", "remove"} /\ im'.pc \in {"orphans", "done"}
        /\ im'.mode = im.mode /\ im'.old = im.old
    BY <1>15, GlobIs, RemoveOrphanIs, AllDoneIs DEF Still
  <2> QED
    BY <1>i, <2>1 DEF StateInv
<1> QED
  BY <1>1, <1>2, <1>3, <1>4, <1>5, <1>6, <1>7, <1>8, <1>9, <1>10, <1>11, <1>12, <1>13, <1>14, <1>15
  DEF Portable!Import

-----------------------------------------------------------------------------
(* What an import inserts.                                                 *)

\* RowsOfImport is kept by the server
LEMMA ImportedServer ==
  PortableTypeOK /\ RowsInv /\ ExportInv /\ StateInv /\ RowsOfImport /\ Portable!Server => RowsOfImport'
<1> SUFFICES ASSUME PortableTypeOK, RowsInv, ExportInv, StateInv, RowsOfImport, Portable!Server,
                    im.pc \in Importing
             PROVE  RowsOfImport'
  BY ServerKeeps DEF RowsOfImport
<1>t. /\ user \in [Portable!Ids -> Users \cup {None}]
      /\ row \in [Portable!UIDs -> Portable!Row \cup {None}]
      /\ file \in [Portable!UIDs -> Created \cup {None, "partial", "empty"}]
      /\ del \in [Portable!UIDs -> {"none", "removing", "removed"}]
  BY DEF PortableTypeOK
<1>0. Created \subseteq Portable!UIDs /\ Created \cap NewUIDs = {}
  BY CommandAssumption DEF Portable!UIDs, Portable!PortabilityAssumption
<1>1. UNCHANGED <<zip, im, import, lost, crossed>>
  BY ServerKeeps
<1>2. \A b \in Created : job[b] # "none" => job'[b] # "none"
  BY ServerKeeps
<1>m. zip # None /\ im.mode \in {"append", "clear", "single"} /\ import # None
  BY DEF ExportInv, StateInv, Importing
<1>3. ASSUME NEW b \in Created, row[b] = None, job[b] # "none" PROVE row'[b] = None
  <2>1. ASSUME NEW c \in Created, NEW u \in Portable!Ids, Portable!Create(c, u) PROVE row'[b] = None
    BY <1>0, <1>3, <2>1, CreateIs
  <2>2. ASSUME NEW c \in Created, Portable!SaveRow(c) PROVE row'[b] = None
    BY <1>0, <1>3, <2>2, SaveRowIs
  <2>3. ASSUME NEW c \in Portable!UIDs, Portable!Delete(c) PROVE row'[b] = None
    BY <1>t, <1>0, <1>3, <2>3 DEF Portable!Delete
  <2> QED
    BY <1>3, <2>1, <2>2, <2>3
    DEF Portable!Server, Portable!Archive, Portable!RemoveFiles, Portable!DeleteUser
<1>4. ASSUME NEW b \in NewUIDs, row[b] = None PROVE row'[b] = None
  <2>0. b \in Portable!UIDs
    BY DEF Portable!UIDs
  <2>1. ASSUME NEW c \in Created, NEW u \in Portable!Ids, Portable!Create(c, u) PROVE row'[b] = None
    BY <1>0, <1>4, <2>0, <2>1, CreateIs
  <2>2. ASSUME NEW c \in Created, Portable!SaveRow(c) PROVE row'[b] = None
    BY <1>0, <1>4, <2>0, <2>2, SaveRowIs
  <2>3. ASSUME NEW c \in Portable!UIDs, Portable!Delete(c) PROVE row'[b] = None
    BY <1>t, <1>4, <2>0, <2>3 DEF Portable!Delete
  <2> QED
    BY <1>4, <2>1, <2>2, <2>3
    DEF Portable!Server, Portable!Archive, Portable!RemoveFiles, Portable!DeleteUser
<1>5. ASSUME NEW b \in DOMAIN import.rows PROVE Inserted(b)' /\ Filed(b)'
  <2>1. Inserted(b) /\ Filed(b) /\ b \in Portable!UIDs
    BY InTransaction DEF RowsOfImport
  <2>2. b \in NewUIDs \/ (b \in Created /\ job[b] # "none" /\ import.rows[b].of = b)
    BY ZenonT(60), <1>m, <2>1, ItemsHaveUsers DEF Inserted
  <2>3. row'[b] = None \/ b \in import.deleted
    BY <1>3, <1>4, <2>1, <2>2 DEF Inserted
  <2>4. Portable!SeenUser(import.rows[b].owner)' # None
    <3> DEFINE o == import.rows[b].owner
    <3>1. Portable!SeenUser(o) # None
      BY <2>1 DEF Inserted
    <3>2. CASE o \in DOMAIN import.users
      BY <1>1, <3>1, <3>2 DEF Portable!SeenUser
    <3>3. CASE o \notin DOMAIN import.users
      <4>1. im.pc \in Loading
        BY DEF StateInv
      <4>2. o = im.users[zip.items[import.rows[b].of].owner] /\ zip.items[import.rows[b].of].owner \in DOMAIN im.users
        BY <2>1 DEF Inserted
      <4>3. im.mode = "single" /\ o = im.me /\ o \in Portable!Ids
        BY Zenon, <1>m, <3>3, <4>1, <4>2 DEF StateInv
      <4>4. ASSUME NEW u \in Portable!Ids, Portable!DeleteUser(u) PROVE user'[o] = user[o]
        BY <1>t, <1>m, <4>1, <4>3, <4>4 DEF Portable!DeleteUser, Loading
      <4>5. user'[o] = user[o]
        BY Zenon, <4>4 DEF Portable!Server, Portable!Create, Portable!Archive, Portable!SaveRow, Portable!Delete,
                    Portable!RemoveFiles
      <4> QED
        BY <1>1, <3>1, <4>5 DEF Portable!SeenUser
    <3> QED
      BY SMTT(30), <3>2, <3>3
  <2>5. Inserted(b)'
    BY Zenon, <1>1, <2>1, <2>3, <2>4 DEF Inserted
  <2>6. file'[b] = file[b] \/ (b \in Created /\ file'[b] = b) \/ del[b] = "removing"
    <3>1. ASSUME NEW c \in Created, NEW u \in Portable!Ids, Portable!Create(c, u) \/ Portable!SaveRow(c)
          PROVE  file' = file
      BY <3>1 DEF Portable!Create, Portable!SaveRow
    <3>2. ASSUME NEW c \in Created, Portable!Archive(c)
          PROVE  file'[b] = file[b] \/ (b \in Created /\ file'[b] = b)
      BY <1>t, <2>1, <3>2 DEF Portable!Archive
    <3>3. ASSUME NEW c \in Portable!UIDs, Portable!RemoveFiles(c)
          PROVE  file'[b] = file[b] \/ del[b] = "removing"
      BY <1>t, <2>1, <3>3 DEF Portable!RemoveFiles
    <3>4. ASSUME NEW c, Portable!Delete(c) \/ Portable!DeleteUser(c) PROVE file' = file
      BY <3>4 DEF Portable!Delete, Portable!DeleteUser
    <3> QED
      BY <3>1, <3>2, <3>3, <3>4 DEF Portable!Server, Portable!SaveRow
  <2>7. del'[b] = "removing" => del[b] = "removing"
    <3>1. ASSUME NEW c \in Portable!UIDs, Portable!Delete(c) PROVE del'[b] = del[b]
      <4>1. c # b
        BY <1>m, <2>1, <3>1 DEF Portable!Delete, Portable!Held, Inserted
      <4> QED
        BY <1>t, <3>1, <4>1 DEF Portable!Delete
    <3>2. ASSUME NEW c \in Portable!UIDs, Portable!RemoveFiles(c) PROVE del'[b] = "removing" => del[b] = "removing"
      BY <1>t, <2>1, <3>2 DEF Portable!RemoveFiles
    <3> QED
      BY <3>1, <3>2 DEF Portable!Server, Portable!Create, Portable!Archive, Portable!SaveRow, Portable!DeleteUser
  <2>8. Filed(b)'
    BY <1>0, <1>1, <2>1, <2>2, <2>6, <2>7 DEF Filed, Portable!Torn
  <2> QED
    BY <2>5, <2>8
<1>6. ASSUME NEW b \in lost
      PROVE  /\ b \in Created => job'[b] # "none"
             /\ b \in DOMAIN import.rows \/ row'[b] = None \/ b \in import.deleted
  <2>1. /\ b \in Created => job[b] # "none"
        /\ b \in DOMAIN import.rows \/ row[b] = None \/ b \in import.deleted
    BY DEF RowsOfImport
  <2>2. b \in Created \/ b \in NewUIDs
    BY DEF PortableTypeOK, Portable!UIDs
  <2> QED
    BY <1>2, <1>3, <1>4, <2>1, <2>2
<1>7. ASSUME im.pc \in Loading, NEW b \in im.old, row'[b] # None PROVE b \in import.deleted
  <2>1. im.mode = "single"
    BY <1>7 DEF StateInv
  <2>2. b \in Created /\ job[b] # "none"
    BY <1>7, <2>1 DEF StateInv
  <2>3. row[b] # None
    BY <1>3, <1>7, <2>2
  <2> QED
    BY <1>7, <2>3 DEF RowsOfImport
<1> QED
  BY <1>1, <1>5, <1>6, <1>7 DEF RowsOfImport

\* What an import has inserted stays so while tables, transaction and file do.
LEMMA InsertedStays ==
  ASSUME NEW b, Inserted(b), UNCHANGED <<user, row, zip>>, Still,
         import'.rows[b] = import.rows[b], import'.deleted = import.deleted,
         import'.users = import.users, import'.left = import.left
  PROVE  Inserted(b)'
BY Zenon DEF Inserted, Still, Portable!SeenUser

\* and by an import.
LEMMA ImportedImport ==
  PortableTypeOK /\ RowsInv /\ ExportInv /\ ReadableInv /\ StateInv /\ RowsOfImport /\ Portable!Import
    => RowsOfImport'
<1> SUFFICES ASSUME PortableTypeOK, RowsInv, ExportInv, ReadableInv, StateInv, RowsOfImport, Portable!Import
             PROVE  RowsOfImport'
  OBVIOUS
<1>z. zip # None
  BY ImportHasFile
<1>x. \A x \in DOMAIN zip.items :
            /\ x \in Created /\ job[x] # "none" /\ zip.items[x].of = x
            /\ zip.items[x].owner \in DOMAIN zip.users
  BY <1>z, ItemsHaveUsers
<1>0. Created \subseteq Portable!UIDs /\ NewUIDs \subseteq Portable!UIDs /\ Created \cap NewUIDs = {}
  BY CommandAssumption DEF Portable!UIDs, Portable!PortabilityAssumption
<1>e. im.pc \notin Loading \cup {"failed"} => lost = {}
  BY DEF ReadableInv
<1>1. ASSUME NEW mode, NEW names, NEW me, Portable!Begin(mode, names, me) PROVE RowsOfImport'
  <2>1. im.pc = "idle" /\ im'.pc \in {"clear", "users"} /\ DOMAIN import'.rows = {} /\ lost' = lost
    BY <1>1, ImportBeginIs
  <2> QED
    BY <1>e, <2>1 DEF RowsOfImport, Loading
<1>2. ASSUME Portable!ClearDB \/ Portable!SelectOld PROVE RowsOfImport'
  <2>1. /\ im.pc \in {"clear", "users"} /\ im'.pc \in {"users", "delete"} /\ lost' = lost
        /\ import'.rows = import.rows
    BY <1>2, ClearIs, SelectIs
  <2>2. DOMAIN import.rows = {}
    BY <2>1 DEF StateInv, Importing, Loading
  <2> QED
    BY <1>e, <2>1, <2>2 DEF RowsOfImport, Loading
<1>3. ASSUME Portable!LoadUsers PROVE RowsOfImport'
  <2>1. /\ im.pc = "users" /\ im.mode # "single" /\ im'.pc = "next" /\ lost' = lost /\ im'.old = im.old
        /\ import'.rows = import.rows
    BY <1>3, LoadIs
  <2>2. DOMAIN import.rows = {} /\ im.old = {}
    BY <2>1 DEF StateInv, Importing, Loading
  <2> QED
    BY <1>e, <2>1, <2>2 DEF RowsOfImport, Loading
<1>4. ASSUME Portable!DeleteOld PROVE RowsOfImport'
  <2>1. /\ im.pc = "delete" /\ im'.pc = "next" /\ lost' = lost /\ im'.old = im.old
        /\ import'.rows = import.rows /\ row' = row
        /\ import'.deleted = {b \in Portable!UIDs : row[b] # None /\ row[b].owner = im.me}
    BY <1>4, DeleteIs DEF Portable!server
  <2>2. DOMAIN import.rows = {}
    BY <2>1 DEF StateInv, Importing, Loading
  <2>3. \A b \in im.old : b \in Portable!UIDs /\ (row[b] # None => row[b].owner = im.me)
    BY <1>0, <2>1 DEF StateInv, Importing
  <2> QED
    BY <1>e, <2>1, <2>2, <2>3 DEF RowsOfImport, Loading
<1>5. ASSUME NEW b \in Portable!UIDs, NEW uid \in Portable!UIDs, Portable!InsertRow(b, uid)
      PROVE  RowsOfImport'
  <2> DEFINE owner == im.users[zip.items[b].owner]
  <2>1. /\ im.pc = "next" /\ b \in im.todo
        /\ IF im.mode = "clear" THEN uid = b ELSE uid \in NewUIDs
        /\ Portable!SeenRow(uid) = None /\ Portable!SeenUser(owner) # None
        /\ im'.pc = "create" /\ im'.cur = b /\ im'.uid = uid /\ Still
        /\ im'.old = im.old
    BY <1>5, InsertIs
  <2>2. /\ DOMAIN import'.rows = DOMAIN import.rows \cup {uid}
        /\ \A c \in DOMAIN import.rows \ {uid} : import'.rows[c] = import.rows[c]
        /\ import'.rows[uid].owner = owner /\ import'.rows[uid].of = zip.items[b].of
        /\ import'.rows[uid].loaded = zip.items[b].loaded
        /\ import'.rows[uid].path /\ import'.rows[uid].imported
        /\ import'.users = import.users /\ import'.left = import.left /\ import'.deleted = import.deleted
    BY <1>5, InsertIs
  <2>3. UNCHANGED <<user, row, job, del, file, zip, lost, crossed>>
    BY <1>5, InsertIs DEF Portable!server, Portable!export
  <2> HIDE DEF owner
  <2>4. /\ b \in DOMAIN zip.items /\ zip.items[b].of = b /\ zip.items[b].owner \in DOMAIN im.users
    BY <1>x, <2>1 DEF StateInv, Loading
  <2>5. uid \notin DOMAIN import.rows /\ (row[uid] = None \/ uid \in import.deleted)
    <3>1. \A c \in DOMAIN import.rows : import.rows[c] # None
      BY <2>1, InTransaction, CommandAssumption DEF Importing, Portable!PortabilityAssumption
    <3> QED
      BY <2>1, <3>1 DEF Portable!SeenRow
  <2>6. Inserted(uid)'
    <3>1. Portable!SeenUser(import.rows[uid].owner)' # None
      BY <2>1, <2>2, <2>3 DEF Portable!SeenUser
    <3> QED
      BY <2>1, <2>2, <2>3, <2>4, <2>5, <3>1 DEF Inserted, Still, owner
  <2>7. Filed(uid)'
    BY <2>1 DEF Filed
  <2>8. ASSUME NEW c \in DOMAIN import.rows PROVE Inserted(c)' /\ Filed(c)'
    <3>1. c # uid /\ Inserted(c) /\ Filed(c) /\ import'.rows[c] = import.rows[c]
      BY <2>1, <2>2, <2>5 DEF RowsOfImport, Importing
    <3>2. Inserted(c)'
      BY <2>1, <2>2, <2>3, <3>1, InsertedStays
    <3>3. Filed(c)'
      BY <2>1, <2>3, <3>1 DEF Filed, Portable!Torn
    <3> QED
      BY <3>2, <3>3
  <2>9. \A c \in DOMAIN import'.rows : Inserted(c)' /\ Filed(c)'
    BY <2>2, <2>6, <2>7, <2>8
  <2>10. im.pc \in Importing /\ im.pc \in Loading
    BY <2>1 DEF Importing, Loading
  <2> QED
    BY <2>1, <2>2, <2>3, <2>9, <2>10 DEF RowsOfImport
<1>6. ASSUME Portable!CreateFile PROVE RowsOfImport'
  <2>1. /\ im.pc = "create" /\ im'.pc = "copy" /\ Still /\ im.uid \in Portable!UIDs
        /\ im'.old = im.old /\ im'.uid = im.uid
        /\ \A b \in Portable!UIDs \ {im.uid} : file'[b] = file[b]
        /\ lost' \subseteq lost \cup {im.uid}
        /\ im.uid \in lost' => im.uid \in lost \/ row[im.uid] # None
        /\ crossed \subseteq crossed' /\ (del[im.uid] = "removing" => im.uid \in crossed')
        /\ UNCHANGED <<user, row, job, del, zip, import>>
    BY <1>6, CreateFileIs DEF Portable!export
  <2>2. im.pc \in Importing /\ im.pc \in Loading /\ im.uid \in DOMAIN import.rows
    BY <2>1 DEF Importing, Loading, StateInv
  <2>3. ASSUME NEW b \in DOMAIN import.rows PROVE Inserted(b)' /\ Filed(b)'
    <3>1. Inserted(b) /\ Filed(b) /\ b \in Portable!UIDs
      BY <2>2, InTransaction DEF RowsOfImport
    <3>2. Inserted(b)'
      BY <2>1, <3>1, InsertedStays
    <3>3. Filed(b)'
      BY <2>1, <3>1 DEF Filed, Portable!Torn
    <3> QED
      BY <3>2, <3>3
  <2>4. im.uid \in Created /\ row[im.uid] # None => job[im.uid] # "none"
    BY DEF RowsInv
  <2> QED
    BY <2>1, <2>2, <2>3, <2>4 DEF RowsOfImport
<1>7. ASSUME Portable!CopyFiles PROVE RowsOfImport'
  <2>1. /\ im.pc = "copy" /\ im'.pc = "next" /\ Still /\ im.uid \in Portable!UIDs
        /\ im'.old = im.old
        /\ \A b \in Portable!UIDs \ {im.uid} : file'[b] = file[b]
        /\ UNCHANGED <<user, row, job, del, zip, import, lost, crossed>>
    BY <1>7, CopyIs DEF Portable!export
  <2>0. file'[im.uid] = IF zip.items[im.cur].content = None THEN "empty" ELSE zip.items[im.cur].content
    BY <1>7, CopyIs
  <2>2. im.pc \in Importing /\ im.pc \in Loading /\ im.uid \in DOMAIN import.rows /\ import.rows[im.uid].of = im.cur
    BY <2>1 DEF Importing, Loading, StateInv
  <2>3. ASSUME NEW b \in DOMAIN import.rows PROVE Inserted(b)' /\ Filed(b)'
    <3>1. Inserted(b) /\ Filed(b) /\ b \in Portable!UIDs
      BY <2>2, InTransaction DEF RowsOfImport
    <3>2. Inserted(b)'
      BY <2>1, <3>1, InsertedStays
    <3>3. CASE b = im.uid
      <4>1. zip.items[im.cur].content \in {None, im.cur}
        BY ZenonT(60), <1>z, <2>2, <3>1, <3>3 DEF Inserted, ExportInv, Sound
      <4>2. /\ im.cur \in DOMAIN zip.items
            /\ import.rows[b].loaded = zip.items[im.cur].loaded /\ import.rows[b].of = im.cur
        BY Zenon, <2>2, <3>1, <3>3 DEF Inserted
      <4>3. CASE zip.items[im.cur].content = None
        BY <1>z, <2>1, <3>1, <3>2, <3>3, <4>2, <4>3 DEF Filed, Portable!Torn
      <4>4. CASE zip.items[im.cur].content # None
        <5>1. file'[b] = im.cur
          BY <2>0, <3>3, <4>1, <4>4
        <5> QED
          BY <2>1, <3>1, <3>2, <3>3, <4>2, <5>1 DEF Filed
      <4> QED
        BY <4>3, <4>4
    <3>4. CASE b # im.uid
      BY <2>1, <3>1, <3>2, <3>4 DEF Filed, Portable!Torn
    <3> QED
      BY <3>3, <3>4
  <2> QED
    BY <2>1, <2>2, <2>3 DEF RowsOfImport
<1>8. ASSUME NEW b \in Portable!UIDs, Portable!RemoveOld(b) PROVE RowsOfImport'
  <2>1. /\ im.pc = "next" /\ b \in im.old /\ im'.pc = "next" /\ Still
        /\ im'.old = im.old \ {b} /\ im'.uid = im.uid
        /\ \A c \in Portable!UIDs \ {b} : file'[c] = file[c]
        /\ lost' = lost \cup {b}
        /\ UNCHANGED <<user, row, job, del, zip, import, crossed>>
    BY <1>8, RemoveOldIs DEF Portable!export
  <2>2. im.pc \in Importing /\ im.pc \in Loading
    BY <2>1 DEF Importing, Loading
  <2>3. im.mode = "single" /\ b \in Created /\ job[b] # "none"
    BY <2>1, <2>2 DEF StateInv
  <2>4. row[b] # None => b \in import.deleted
    BY <2>1, <2>2 DEF RowsOfImport
  <2>5. ASSUME NEW c \in DOMAIN import.rows PROVE Inserted(c)' /\ Filed(c)'
    <3>1. Inserted(c) /\ Filed(c) /\ c \in Portable!UIDs
      BY <2>2, InTransaction DEF RowsOfImport
    <3>2. Inserted(c)'
      BY <2>1, <3>1, InsertedStays
    <3>3. c # b
      BY <1>0, <2>3, <3>1 DEF Inserted
    <3>4. Filed(c)'
      BY <2>1, <3>1, <3>3 DEF Filed, Portable!Torn
    <3> QED
      BY <3>2, <3>4
  <2> QED
    BY <2>1, <2>2, <2>3, <2>4, <2>5 DEF RowsOfImport
<1>9. ASSUME im'.pc \notin Importing PROVE RowsOfImport'
  BY <1>9 DEF RowsOfImport
<1>10. ASSUME NEW b \in Portable!UIDs, Portable!FindOrphan(b) PROVE im'.pc \notin Importing
  <2>1. im'.pc \in {"orphans", "remove"}
    BY <1>10, FindOrphanIs
  <2> QED
    BY <2>1 DEF Importing
<1>11. ASSUME Portable!Commit \/ Portable!ImportFails \/ Portable!Glob \/ Portable!RemoveOrphan \/ Portable!AllDone
       PROVE  im'.pc \notin Importing
  <2>1. im'.pc \in {"glob", "done", "failed", "orphans"}
    BY <1>11, CommitIs, FailsIs, GlobIs, RemoveOrphanIs, AllDoneIs
  <2> QED
    BY <2>1 DEF Importing
<1> QED
  BY <1>1, <1>2, <1>3, <1>4, <1>5, <1>6, <1>7, <1>8, <1>9, <1>10, <1>11
  DEF Portable!Import, Portable!BeginFull, Portable!BeginSingle, Portable!BeginClear

-----------------------------------------------------------------------------
(* Archives without a row.                                                 *)

\* The server leaves no archive without a row but where the row was deleted or
\* is still being extracted.
LEMMA ServerLeaves ==
  ASSUME PortableTypeOK, RowsInv, Portable!Server, NEW b \in Portable!UIDs,
         file'[b] # None, row'[b] = None
  PROVE  Excused(b)' \/ (file[b] # None /\ row[b] = None /\ ~Excused(b))
<1>t. /\ row \in [Portable!UIDs -> Portable!Row \cup {None}]
      /\ file \in [Portable!UIDs -> Created \cup {None, "partial", "empty"}]
      /\ job \in [Created -> {"none", "running", "filed", "done", "late"}]
      /\ del \in [Portable!UIDs -> {"none", "removing", "removed"}]
  BY DEF PortableTypeOK
<1>0. Created \subseteq Portable!UIDs /\ None \notin Portable!Row
  BY CommandAssumption DEF Portable!UIDs, Portable!PortabilityAssumption
<1>k. UNCHANGED <<connection, missed>>
  BY ServerKeeps
<1> DEFINE Goal == Excused(b)' \/ (file[b] # None /\ row[b] = None /\ ~Excused(b))
<1>s. ASSUME file'[b] = file[b], row'[b] = row[b], del'[b] = del[b], b \in Created => job'[b] = job[b]
      PROVE  Goal
  BY <1>k, <1>s DEF Excused
<1>1. ASSUME NEW c \in Created, NEW u \in Portable!Ids, Portable!Create(c, u) PROVE Goal
  <2>1. /\ row'[c] # None /\ file' = file /\ del' = del
        /\ \A d \in Portable!UIDs \ {c} : row'[d] = row[d]
        /\ \A d \in Created \ {c} : job'[d] = job[d]
    BY <1>0, <1>1, CreateIs
  <2>2. c # b
    BY <2>1
  <2> QED
    BY <1>s, <2>1, <2>2
<1>2. ASSUME NEW c \in Created, Portable!Archive(c) PROVE Goal
  <2>1. /\ row' = row /\ del' = del
        /\ file' = [file EXCEPT ![c] = c] /\ job' = [job EXCEPT ![c] = "filed"]
    BY <1>2 DEF Portable!Archive
  <2>2. CASE c = b
    BY <1>t, <2>1, <2>2 DEF Excused
  <2>3. CASE c # b
    BY <1>t, <1>s, <2>1, <2>3
  <2> QED
    BY <2>2, <2>3
<1>3. ASSUME NEW c \in Created, Portable!SaveRow(c) PROVE Goal
  <2>1. /\ file' = file /\ del' = del
        /\ \A d \in Portable!UIDs \ {c} : row'[d] = row[d]
        /\ \A d \in Created \ {c} : job'[d] = job[d]
    BY <1>3, SaveRowIs
  <2>2. CASE c = b
    <3>1. row'[b] \in Portable!Row \/ (row'[b] = row[b] /\ job'[b] = "late")
      BY <1>3, <2>2, SaveRowIs
    <3> QED
      BY <1>0, <2>2, <3>1 DEF Excused
  <2>3. CASE c # b
    BY <1>s, <2>1, <2>3
  <2> QED
    BY <2>2, <2>3
<1>4. ASSUME NEW c \in Portable!UIDs, Portable!Delete(c) PROVE Goal
  <2>1. /\ file' = file /\ job' = job /\ row' = [row EXCEPT ![c] = None]
        /\ del' = [del EXCEPT ![c] = IF row[c].path THEN "removing" ELSE "removed"]
    BY <1>4 DEF Portable!Delete
  <2>2. CASE c = b
    BY <1>t, <2>1, <2>2 DEF Excused
  <2>3. CASE c # b
    BY <1>t, <1>s, <2>1, <2>3
  <2> QED
    BY <2>2, <2>3
<1>5. ASSUME NEW c \in Portable!UIDs, Portable!RemoveFiles(c) PROVE Goal
  <2>1. /\ row' = row /\ job' = job /\ file' = [file EXCEPT ![c] = None]
        /\ del' = [del EXCEPT ![c] = "removed"]
    BY <1>5 DEF Portable!RemoveFiles
  <2>2. CASE c = b
    BY <1>t, <2>1, <2>2
  <2>3. CASE c # b
    BY <1>t, <1>s, <2>1, <2>3
  <2> QED
    BY <2>2, <2>3
<1>6. ASSUME NEW u \in Portable!Ids, Portable!DeleteUser(u) PROVE Goal
  BY <1>6, <1>s DEF Portable!DeleteUser
<1> QED
  BY <1>1, <1>2, <1>3, <1>4, <1>5, <1>6 DEF Portable!Server

\* LeftInv is kept by the server,
LEMMA LeftServer ==
  PortableTypeOK /\ RowsInv /\ StateInv /\ LeftInv /\ Portable!Server => LeftInv'
<1> SUFFICES ASSUME PortableTypeOK, RowsInv, StateInv, LeftInv, Portable!Server PROVE LeftInv'
  OBVIOUS
<1>t. /\ row \in [Portable!UIDs -> Portable!Row \cup {None}]
      /\ file \in [Portable!UIDs -> Created \cup {None, "partial", "empty"}]
      /\ job \in [Created -> {"none", "running", "filed", "done", "late"}]
      /\ del \in [Portable!UIDs -> {"none", "removing", "removed"}]
  BY DEF PortableTypeOK
<1>0. Created \subseteq Portable!UIDs /\ NewUIDs \subseteq Portable!UIDs /\ Created \cap NewUIDs = {}
  BY CommandAssumption DEF Portable!UIDs, Portable!PortabilityAssumption
<1>1. UNCHANGED <<connection, im, import, missed>>
  BY ServerKeeps
<1>2. \A b \in Created : job[b] # "none" => job'[b] # "none"
  BY ServerKeeps
<1>3. ASSUME NEW b \in NewUIDs PROVE file'[b] \in {file[b], None}
  <2>1. ASSUME NEW c \in Created, Portable!Archive(c) PROVE file'[b] = file[b]
    BY <1>t, <1>0, <2>1 DEF Portable!Archive
  <2>2. ASSUME NEW c \in Portable!UIDs, Portable!RemoveFiles(c) PROVE file'[b] \in {file[b], None}
    BY <1>t, <1>0, <2>2 DEF Portable!RemoveFiles
  <2> QED
    BY <2>1, <2>2 DEF Portable!Server, Portable!Create, Portable!SaveRow, Portable!Delete, Portable!DeleteUser
<1>4. ASSUME connection = "sqlite", import # None PROVE row' = row
  BY <1>4 DEF Portable!Server, Portable!Create, Portable!SaveRow, Portable!Delete, Portable!DeleteUser,
              Portable!Archive, Portable!RemoveFiles, Portable!Held, Portable!Locked, Portable!OneWriter
<1>5. ASSUME im.mode = "single", im.pc \in Loading, NEW b \in import.deleted, row'[b] # None, row'[b].path
      PROVE  b \in im.old \/ file'[b] = None \/ b \in missed
  <2>0. import # None /\ im.pc \in Importing /\ Early
    BY <1>5 DEF StateInv, Importing, Loading, Early
  <2>1. b \in Created /\ b \in Portable!UIDs /\ job[b] # "none" /\ Portable!Held(b)
    BY <1>0, <1>5, <2>0 DEF StateInv, Portable!Held
  <2>2. row'[b] = row[b]
    <3>1. ASSUME NEW c \in Created, NEW u \in Portable!Ids, Portable!Create(c, u) PROVE row'[b] = row[b]
      BY <2>1, <3>1, CreateIs
    <3>2. ASSUME NEW c \in Created, Portable!SaveRow(c) PROVE row'[b] = row[b]
      BY <2>1, <3>2, SaveRowIs
    <3>3. ASSUME NEW c \in Portable!UIDs, Portable!Delete(c) PROVE row'[b] = row[b]
      BY <1>t, <2>1, <3>3 DEF Portable!Delete
    <3> QED
      BY <3>1, <3>2, <3>3 DEF Portable!Server, Portable!Archive, Portable!RemoveFiles, Portable!DeleteUser
  <2>3. row[b] # None /\ row[b].path
    BY <1>5, <2>2
  <2>4. job[b] = "done"
    BY <2>0, <2>1, <2>3 DEF RowsInv
  <2>5. file'[b] \in {file[b], None}
    <3>1. ASSUME NEW c \in Created, Portable!Archive(c) PROVE file'[b] = file[b]
      BY <1>t, <2>1, <2>4, <3>1 DEF Portable!Archive
    <3>2. ASSUME NEW c \in Portable!UIDs, Portable!RemoveFiles(c) PROVE file'[b] \in {file[b], None}
      BY <1>t, <2>1, <3>2 DEF Portable!RemoveFiles
    <3> QED
      BY <3>1, <3>2 DEF Portable!Server, Portable!Create, Portable!SaveRow, Portable!Delete, Portable!DeleteUser
  <2> QED
    BY <1>5, <2>3, <2>5 DEF LeftInv
<1>6. ASSUME im.pc \in Sweeping PROVE
         /\ \A b \in im.todo \cap Created : job'[b] # "none"
         /\ \A b \in Portable!UIDs : file'[b] # None /\ row'[b] = None => b \in im.todo \/ Excused(b)'
  BY <1>2, <1>6, ServerLeaves DEF LeftInv
<1>7. ASSUME im.pc = "remove" PROVE im.cur \in im.todo /\ row'[im.cur] = None
  <2>1. im.cur \in im.todo /\ row[im.cur] = None /\ im.cur \in Portable!UIDs
        /\ (im.cur \in Created => job[im.cur] # "none")
    BY <1>7 DEF LeftInv, Sweeping, PortableTypeOK, ImportRecord
  <2>2. ASSUME NEW c \in Created, NEW u \in Portable!Ids, Portable!Create(c, u) PROVE row'[im.cur] = None
    BY <2>1, <2>2, CreateIs
  <2>3. ASSUME NEW c \in Created, Portable!SaveRow(c) PROVE row'[im.cur] = None
    BY <2>1, <2>3, SaveRowIs
  <2>4. ASSUME NEW c \in Portable!UIDs, Portable!Delete(c) PROVE row'[im.cur] = None
    BY <1>t, <2>1, <2>4 DEF Portable!Delete
  <2> QED
    BY <2>1, <2>2, <2>3, <2>4 DEF Portable!Server, Portable!Archive, Portable!RemoveFiles, Portable!DeleteUser
<1>8. ASSUME im.pc = "done", im.mode # "append" PROVE
         \A b \in Portable!UIDs : file'[b] # None /\ row'[b] = None => Excused(b)'
  BY <1>8, ServerLeaves DEF LeftInv
<1>9. im.pc = "delete" => import # None
  BY DEF StateInv, Importing
<1>10. im.pc = "delete" /\ connection = "sqlite" =>
          \A b \in Portable!UIDs :
              row'[b] # None /\ row'[b].owner = im.me /\ row'[b].path => b \in im.old
  BY <1>4, <1>9 DEF LeftInv
<1> QED
  BY <1>1, <1>3, <1>5, <1>6, <1>7, <1>8, <1>10 DEF LeftInv

\* by an export
LEMMA LeftExport ==
  LeftInv /\ Portable!Export => LeftInv'
<1> SUFFICES ASSUME LeftInv, Portable!Export PROVE LeftInv'
  OBVIOUS
<1>1. UNCHANGED <<connection, row, file, job, del, im, import, missed>>
  BY Zenon DEF Portable!Export, Portable!ExportUsers, Portable!GetBookmarks, Portable!SaveInfo,
     Portable!SaveContainer, Portable!SaveData, Portable!ExportFails, Portable!server, Portable!import
<1> QED
  BY <1>1 DEF LeftInv, Excused

\* and by an import.
LEMMA LeftImport ==
  PortableTypeOK /\ RowsInv /\ ExportInv /\ StateInv /\ RowsOfImport /\ LeftInv /\ Portable!Import => LeftInv'
<1> SUFFICES ASSUME PortableTypeOK, RowsInv, ExportInv, StateInv, RowsOfImport, LeftInv, Portable!Import
             PROVE  LeftInv'
  OBVIOUS
<1>0. Created \subseteq Portable!UIDs /\ NewUIDs \subseteq Portable!UIDs /\ Created \cap NewUIDs = {}
        /\ None \notin Portable!Row /\ Portable!UIDs = Created \cup NewUIDs
  BY CommandAssumption DEF Portable!UIDs, Portable!PortabilityAssumption
<1>m. missed # {} => connection # "sqlite"
  BY DEF LeftInv
<1>1. ASSUME NEW mode, NEW names, NEW me, Portable!Begin(mode, names, me) PROVE LeftInv'
  <2>1. /\ im.pc = "idle" /\ im'.pc \in {"clear", "users"} /\ UNCHANGED <<connection, file, missed>>
    BY <1>1, ImportBeginIs DEF Portable!server
  <2>2. \A b \in NewUIDs : file[b] = None
    BY <2>1 DEF ExportInv
  <2> QED
    BY <1>m, <2>1, <2>2 DEF LeftInv, Loading, Sweeping
<1>2. ASSUME Portable!ClearDB PROVE LeftInv'
  <2>1. /\ im.pc = "clear" /\ im'.pc = "users" /\ import'.rows = import.rows
        /\ UNCHANGED <<connection, file, missed>>
    BY <1>2, ClearIs DEF Portable!server
  <2> QED
    BY <1>m, <2>1 DEF LeftInv, Importing, Loading, Sweeping
<1>3. ASSUME Portable!LoadUsers PROVE LeftInv'
  <2>1. /\ im.pc = "users" /\ im'.pc = "next" /\ im.mode # "single" /\ im'.mode = im.mode
        /\ import'.rows = import.rows /\ UNCHANGED <<connection, file, missed>>
    BY <1>3, LoadIs DEF Portable!server
  <2> QED
    BY <1>m, <2>1 DEF LeftInv, Importing, Loading, Sweeping
<1>4. ASSUME Portable!SelectOld PROVE LeftInv'
  <2>1. /\ im.pc = "users" /\ im'.pc = "delete" /\ im'.me = im.me
        /\ im'.old = {b \in Portable!UIDs : row[b] # None /\ row[b].owner = im.me /\ row[b].path}
        /\ UNCHANGED <<connection, file, row, import, missed>>
    BY <1>4, SelectIs DEF Portable!server, Still
  <2> QED
    BY <1>m, <2>1 DEF LeftInv, Importing, Loading, Sweeping
<1>5. ASSUME Portable!DeleteOld PROVE LeftInv'
  <2>1. /\ im.pc = "delete" /\ im'.pc = "next" /\ im'.old = im.old
        /\ import'.deleted = {b \in Portable!UIDs : row[b] # None /\ row[b].owner = im.me}
        /\ import'.rows = import.rows
        /\ missed' = {b \in import'.deleted : row[b].path} \ im.old
        /\ UNCHANGED <<connection, file, row>>
    BY <1>5, DeleteIs DEF Portable!server
  <2>2. missed' # {} => connection # "sqlite"
    BY <2>1 DEF LeftInv
  <2>3. \A b \in import'.deleted : row[b].path => b \in im.old \/ b \in missed'
    BY <2>1
  <2>4. \A b \in NewUIDs : file[b] # None => b \in DOMAIN import.rows
    BY <2>1 DEF LeftInv, Importing
  <2>5. im'.pc = "next" /\ im'.old = im.old /\ import'.rows = import.rows /\ UNCHANGED <<connection, file, row>>
    BY <2>1
  <2> HIDE <2>1
  <2> QED
    BY <2>2, <2>3, <2>4, <2>5 DEF LeftInv, Importing, Loading, Sweeping
<1>6. ASSUME NEW b \in Portable!UIDs, NEW uid \in Portable!UIDs, Portable!InsertRow(b, uid) PROVE LeftInv'
  <2>1. /\ im.pc = "next" /\ im'.pc = "create" /\ im'.mode = im.mode /\ im'.old = im.old
        /\ DOMAIN import'.rows = DOMAIN import.rows \cup {uid} /\ import'.deleted = import.deleted
        /\ UNCHANGED <<connection, file, row, missed>>
    BY <1>6, InsertIs DEF Portable!server, Still
  <2> QED
    BY <1>m, <2>1 DEF LeftInv, Importing, Loading, Sweeping
<1>7. ASSUME Portable!CreateFile \/ Portable!CopyFiles PROVE LeftInv'
  <2>1. /\ im.pc \in {"create", "copy"} /\ im'.pc \in {"copy", "next"} /\ im'.mode = im.mode /\ im'.old = im.old
        /\ im.uid \in Portable!UIDs
        /\ \A b \in Portable!UIDs \ {im.uid} : file'[b] = file[b]
        /\ UNCHANGED <<connection, row, import, missed>>
    BY <1>7, CreateFileIs, CopyIs DEF Still
  <2>2. im.uid \in DOMAIN import.rows /\ im.pc \in Importing /\ im.pc \in Loading
    BY <2>1 DEF StateInv, Importing, Loading
  <2>3. im.mode = "single" => im.uid \notin import.deleted
    <3>1. Inserted(im.uid)
      BY <2>2 DEF RowsOfImport
    <3> QED
      BY Zenon, <1>0, <2>2, <3>1 DEF Inserted, StateInv
  <2>4. im.mode = "single" => import.deleted \subseteq Portable!UIDs
    BY <1>0, <2>2 DEF StateInv
  <2>5. \A b \in NewUIDs : file'[b] # None => b \in DOMAIN import.rows
    BY <1>0, <2>1, <2>2 DEF LeftInv
  <2>6. im.mode = "single" => \A b \in import.deleted : row[b] # None /\ row[b].path =>
              b \in im.old \/ file'[b] = None \/ b \in missed
    BY <2>1, <2>2, <2>3, <2>4 DEF LeftInv
  <2> QED
    BY <1>m, <2>1, <2>5, <2>6 DEF LeftInv, Importing, Loading, Sweeping
<1>8. ASSUME NEW b \in Portable!UIDs, Portable!RemoveOld(b) PROVE LeftInv'
  <2>1. /\ im.pc = "next" /\ b \in im.old /\ im'.pc = "next" /\ im'.mode = im.mode
        /\ im'.old = im.old \ {b}
        /\ file'[b] = None /\ \A c \in Portable!UIDs \ {b} : file'[c] = file[c]
        /\ UNCHANGED <<connection, row, import, missed>>
    BY <1>8, RemoveOldIs DEF Still
  <2>2. im.mode = "single" /\ import.deleted \subseteq Portable!UIDs
    BY <1>0, <2>1 DEF StateInv, Importing
  <2>3. \A c \in NewUIDs : file'[c] # None => c \in DOMAIN import.rows
    BY <1>0, <2>1 DEF LeftInv, Importing
  <2>4. \A c \in import.deleted : row[c] # None /\ row[c].path =>
              c \in im'.old \/ file'[c] = None \/ c \in missed
    BY <2>1, <2>2 DEF LeftInv, Loading
  <2> QED
    BY <1>m, <2>1, <2>3, <2>4 DEF LeftInv, Importing, Loading, Sweeping
<1>9. ASSUME Portable!Commit PROVE LeftInv'
  <2>1. /\ im.pc = "next" /\ im.todo = {} /\ im.old = {}
        /\ \A b \in DOMAIN import.rows : row'[b] \in Portable!Row
        /\ \A b \in Portable!UIDs \ DOMAIN import.rows :
               row'[b] = IF b \in import.deleted THEN None ELSE row[b]
        /\ im'.pc = (IF im.mode = "clear" THEN "glob" ELSE "done") /\ im'.mode = im.mode
        /\ UNCHANGED <<connection, file, job, del, missed>>
    BY <1>9, CommitIs
  <2>2. im.pc \in Importing /\ im.pc \in Loading /\ Early
    BY <2>1 DEF Importing, Loading, Early
  <2>3. ASSUME im.mode = "single", NEW b \in Portable!UIDs, file[b] # None, row'[b] = None PROVE Excused(b)'
    <3>1. b \notin DOMAIN import.rows
      BY <1>0, <2>1, <2>3
    <3>2. b \in Created
      BY <1>0, <2>2, <2>3, <3>1 DEF LeftInv
    <3>3. job[b] # "none" /\ job[b] \in {"none", "running", "filed", "done", "late"}
      BY <2>3, <3>2 DEF RowsInv, PortableTypeOK
    <3>4. CASE row[b] = None
      BY <2>1, <2>2, <3>2, <3>3, <3>4 DEF RowsInv, Excused
    <3>5. CASE row[b] # None
      <4>1. b \in import.deleted
        BY <2>1, <2>3, <3>1, <3>5
      <4>2. CASE row[b].path
        BY <1>m, <2>1, <2>2, <2>3, <3>5, <4>1, <4>2 DEF LeftInv, Excused
      <4>3. CASE ~row[b].path
        BY <2>1, <2>2, <3>2, <3>3, <3>5, <4>3 DEF RowsInv, Excused
      <4> QED
        BY <4>2, <4>3
    <3> QED
      BY <3>4, <3>5
  <2>4. im.mode \in {"append", "clear", "single"}
    BY <2>2 DEF StateInv
  <2> QED
    BY <1>m, <2>1, <2>3, <2>4 DEF LeftInv, Importing, Loading, Sweeping
<1>10. ASSUME Portable!ImportFails PROVE LeftInv'
  <2>1. im'.pc = "failed" /\ UNCHANGED <<connection, missed>>
    BY <1>10, FailsIs DEF Portable!server
  <2> QED
    BY <1>m, <2>1 DEF LeftInv, Importing, Loading, Sweeping
<1>11. ASSUME Portable!Glob PROVE LeftInv'
  <2>1. /\ im'.pc = "orphans" /\ im'.todo = {b \in Portable!UIDs : file[b] # None}
        /\ UNCHANGED <<connection, row, file, job, del, missed>>
    BY <1>11, GlobIs DEF Portable!server
  <2>2. \A b \in Created : file[b] # None => job[b] # "none"
    BY DEF RowsInv
  <2>3. \A b \in im'.todo \cap Created : job[b] # "none"
    BY <2>1, <2>2
  <2>4. \A b \in Portable!UIDs : file[b] # None => b \in im'.todo
    BY <2>1
  <2>5. im'.pc = "orphans" /\ UNCHANGED <<connection, row, file, job, del, missed>>
    BY <2>1
  <2> HIDE <2>1
  <2> QED
    BY <1>m, <2>3, <2>4, <2>5 DEF LeftInv, Importing, Loading, Sweeping
<1>12. ASSUME NEW b \in Portable!UIDs, Portable!FindOrphan(b) PROVE LeftInv'
  <2>1. /\ im.pc = "orphans" /\ b \in im.todo
        /\ UNCHANGED <<connection, row, file, job, del, missed>>
    BY <1>12, FindOrphanIs DEF Portable!server
  <2>2. CASE row[b] # None
    <3>1. im'.pc = "orphans" /\ im'.todo = im.todo \ {b}
      BY <1>12, <2>2, FindOrphanIs
    <3> QED
      BY <1>m, <2>1, <2>2, <3>1 DEF LeftInv, Importing, Loading, Sweeping, Excused
  <2>3. CASE row[b] = None
    <3>1. im'.pc = "remove" /\ im'.todo = im.todo /\ im'.cur = b
      BY <1>12, <2>3, FindOrphanIs
    <3> QED
      BY <1>m, <2>1, <2>3, <3>1 DEF LeftInv, Importing, Loading, Sweeping, Excused
  <2> QED
    BY <2>2, <2>3
<1>13. ASSUME Portable!RemoveOrphan PROVE LeftInv'
  <2>1. /\ im.pc = "remove" /\ im'.pc = "orphans" /\ im'.todo = im.todo \ {im.cur}
        /\ (im.cur \in Portable!UIDs => file'[im.cur] = None)
        /\ \A b \in Portable!UIDs \ {im.cur} : file'[b] = file[b]
        /\ UNCHANGED <<connection, row, job, del, missed>>
    BY <1>13, RemoveOrphanIs
  <2> QED
    BY <1>m, <2>1 DEF LeftInv, Importing, Loading, Sweeping, Excused
<1>14. ASSUME Portable!AllDone PROVE LeftInv'
  <2>1. /\ im.pc = "orphans" /\ im.todo = {} /\ im'.pc = "done"
        /\ UNCHANGED <<connection, row, file, job, del, missed>>
    BY <1>14, AllDoneIs DEF Portable!server
  <2> QED
    BY <1>m, <2>1 DEF LeftInv, Importing, Loading, Sweeping, Excused
<1> QED
  BY <1>1, <1>2, <1>3, <1>4, <1>5, <1>6, <1>7, <1>8, <1>9, <1>10, <1>11, <1>12, <1>13, <1>14
  DEF Portable!Import, Portable!BeginFull, Portable!BeginSingle, Portable!BeginClear

-----------------------------------------------------------------------------
(* The theorems of exports and imports.                                    *)

\* Nothing is exported or imported at first.
LEMMA PortableInit == CommandInit => PortableInv
<1> SUFFICES ASSUME CommandInit PROVE PortableInv
  OBVIOUS
<1>0. /\ None \notin Portable!Row /\ None \notin Users /\ None \notin Portable!UIDs /\ None \notin Portable!Ids
      /\ Users \cap NewIds = {}
  BY CommandAssumption DEF Portable!PortabilityAssumption, Portable!Ids
<1>1. /\ connection \in {"sqlite", "postgres"}
      /\ user = [u \in Portable!Ids |-> IF u \in Users THEN u ELSE None]
      /\ row = [b \in Portable!UIDs |-> None] /\ file = [b \in Portable!UIDs |-> None]
      /\ job = [b \in Created |-> "none"] /\ del = [b \in Portable!UIDs |-> "none"]
      /\ ex = Portable!NoExport /\ zip = None /\ import = None
      /\ im = [pc |-> "idle", mode |-> None, names |-> {}, me |-> None, users |-> <<>>, old |-> {},
               todo |-> {}, cur |-> None, uid |-> None]
      /\ lost = {} /\ crossed = {} /\ missed = {}
  BY DEF CommandInit, Portable!Init
<1>2. ex \in ExportRecord /\ ex.pc = "idle" /\ DOMAIN ex.items = {}
  BY <1>1, NoneOf DEF Portable!NoExport, ExportRecord
<1>3. im \in ImportRecord /\ im.pc = "idle" /\ im.mode = None /\ im.old = {}
  BY <1>1, NoneOf DEF ImportRecord
<1>4. Created \subseteq Portable!UIDs /\ NewUIDs \subseteq Portable!UIDs
        /\ Users \subseteq Portable!Ids /\ NewIds \subseteq Portable!Ids
  BY DEF Portable!UIDs, Portable!Ids
<1>5. /\ user \in [Portable!Ids -> Users \cup {None}] /\ \A u \in NewIds : user[u] = None
      /\ \A b \in Portable!UIDs : row[b] = None /\ file[b] = None /\ del[b] = "none"
      /\ \A b \in Created : job[b] = "none"
  BY <1>0, <1>1, <1>4
<1>6. PortableTypeOK
  BY <1>1, <1>2, <1>3, <1>5 DEF PortableTypeOK
<1>7. RowsInv
  BY <1>4, <1>5 DEF RowsInv
<1>8. ExportInv
  BY <1>1, <1>2, <1>3, <1>4, <1>5 DEF ExportInv, Sound
<1>9. ReadableInv
  BY <1>1, <1>3, <1>5 DEF ReadableInv, Readable
<1>10. StateInv /\ RowsOfImport /\ LeftInv
  BY <1>1, <1>3 DEF StateInv, RowsOfImport, LeftInv, Importing, Loading, Sweeping
<1> QED
  BY <1>6, <1>7, <1>8, <1>9, <1>10 DEF PortableInv

\* The invariant is inductive.
LEMMA PortableNext == PortableInv /\ Portable!Next => PortableInv'
<1> SUFFICES ASSUME PortableInv, Portable!Next PROVE PortableInv'
  OBVIOUS
<1>1. /\ PortableTypeOK /\ RowsInv /\ ExportInv /\ ReadableInv /\ StateInv /\ RowsOfImport /\ LeftInv
  BY DEF PortableInv
<1>2. CASE Portable!Server
  <2>1. PortableTypeOK' /\ RowsInv' /\ ExportInv'
    BY <1>1, <1>2, ServerTypes, RowsServer, ExportServer
  <2>2. ReadableInv' /\ StateInv' /\ RowsOfImport' /\ LeftInv'
    BY <1>1, <1>2, ReadableServer, StateServer, ImportedServer, LeftServer
  <2> QED
    BY <2>1, <2>2 DEF PortableInv
<1>3. CASE Portable!Export
  <2>1. PortableTypeOK' /\ ExportInv'
    BY <1>1, <1>3, ExportTypes, ExportExport
  <2>2. ReadableInv' /\ StateInv' /\ LeftInv'
    BY <1>1, <1>3, ReadableExport, StateExport, LeftExport
  <2>3. UNCHANGED <<user, row, file, job, del, im>> /\ im.pc = "idle"
    BY Zenon, <1>1, <1>3
    DEF ExportInv, Portable!Export, Portable!ExportUsers, Portable!GetBookmarks, Portable!SaveInfo,
        Portable!SaveContainer, Portable!SaveData, Portable!ExportFails, Portable!server, Portable!import
  <2>4. RowsInv'
    BY <1>1, <2>3 DEF RowsInv, Early
  <2>5. RowsOfImport'
    BY <2>3 DEF RowsOfImport, Importing
  <2> QED
    BY <2>1, <2>2, <2>4, <2>5 DEF PortableInv
<1>4. CASE Portable!Import
  <2>1. PortableTypeOK' /\ RowsInv' /\ ExportInv'
    BY <1>1, <1>4, ImportTypes, RowsImport, ExportImport
  <2>2. ReadableInv' /\ StateInv'
    BY <1>1, <1>4, ReadableImport, StateImport
  <2>3. RowsOfImport' /\ LeftInv'
    BY <1>1, <1>4, ImportedImport, LeftImport
  <2> QED
    BY <2>1, <2>2, <2>3 DEF PortableInv
<1> QED
  BY <1>2, <1>3, <1>4 DEF Portable!Next

\* A step of the command is one of the migrations, which leave all this alone,
\* or of Portability.
LEMMA CommandWorks ==
  ASSUME [CommandNext]_<<vars, started, commands>>
  PROVE  Portable!Next \/ UNCHANGED commands
BY DEF CommandNext, Migrate, RunCommand, Work, commands

\* Export, import and the server keep this, whatever fails on the way.
THEOREM PortableSafe == CommandSpec => []PortableInv
<1>1. ASSUME PortableInv, UNCHANGED commands PROVE PortableInv'
  <2>1. /\ PortableTypeOK /\ RowsInv /\ ExportInv /\ ReadableInv /\ StateInv /\ RowsOfImport /\ LeftInv
        /\ UNCHANGED <<connection, user, row, file, job, del, ex, zip, im, import, lost, crossed, missed>>
    BY <1>1 DEF PortableInv, commands
  <2>2. PortableTypeOK'
    BY <2>1 DEF PortableTypeOK
  <2>3. RowsInv'
    BY <2>1 DEF RowsInv, Early
  <2>4. ExportInv'
    BY <2>1 DEF ExportInv, Sound
  <2>5. ReadableInv'
    BY <2>1 DEF ReadableInv, Readable, Portable!Torn
  <2>6. StateInv'
    BY SMTT(30), <2>1 DEF StateInv
  <2>7. RowsOfImport'
    BY <2>1 DEF RowsOfImport, Inserted, Filed, Portable!Torn, Portable!SeenUser
  <2>8. LeftInv'
    BY <2>1 DEF LeftInv, Excused
  <2> QED
    BY <2>2, <2>3, <2>4, <2>5, <2>6, <2>7, <2>8 DEF PortableInv
<1>2. PortableInv /\ [CommandNext]_<<vars, started, commands>> => PortableInv'
  BY <1>1, CommandWorks, PortableNext
<1> QED
  BY <1>2, PortableInit, PTL DEF CommandSpec

\* An export has the archive of each bookmark that it says is loaded, unless
\* that was deleted while it went on (portability/export.go).
THEOREM ExportsAreWhole == CommandSpec => []ExportIsWhole
<1>1. PortableInv => ExportIsWhole
  BY DEF PortableInv, ExportInv, Sound, ExportIsWhole, Portable!ExportIsWhole
<1> QED
  BY <1>1, PortableSafe, PTL

\* Users, rows and archives agree, during an import, after one that failed at
\* any point and after one that went through (portability/import.go).
THEOREM RowsAndFilesAgree == CommandSpec => []FilesFollowRows
<1>1. ASSUME PortableInv PROVE FilesFollowRows
  <2>1. /\ PortableTypeOK /\ RowsInv /\ ReadableInv /\ StateInv /\ LeftInv
    BY <1>1 DEF PortableInv
  <2>2. Portable!TypeOK
    <3>1. \A b \in Portable!UIDs : row[b] # None => row[b].owner \in Portable!Ids /\ row[b].of \in Created
      BY <2>1 DEF PortableTypeOK, Portable!Row
    <3>2. import # None <=> im.pc \in {"clear", "users", "delete", "next", "create", "copy"}
      BY <2>1 DEF StateInv, Importing
    <3> QED
      BY <2>1, <3>1, <3>2 DEF PortableTypeOK, RowsInv, Portable!TypeOK
  <2>3. Portable!LoadedIsReadable
    BY <2>1 DEF ReadableInv, Readable, Portable!LoadedIsReadable
  <2>4. Portable!NothingIsLeft
    BY <2>1 DEF LeftInv, Excused, Portable!NothingIsLeft, Portable!OneWriter
  <2> QED
    BY <2>2, <2>3, <2>4 DEF FilesFollowRows, Portable!FilesFollowRows
<1> QED
  BY <1>1, PortableSafe, PTL

\* What an import may do to bookmarks that there are.
Spares ==
    im' # im /\ im.mode \in {"append", "single"}
        => \A b \in Portable!UIDs :
              row[b] # None /\ row[b].owner # im.me
                  => row'[b] = row[b] /\ file'[b] = file[b]

\* A step of an import leaves others alone.
LEMMA ImportSpares == PortableInv /\ Portable!Import => Spares
<1> SUFFICES ASSUME PortableInv, Portable!Import, im.mode \in {"append", "single"},
                    NEW b \in Portable!UIDs, row[b] # None, row[b].owner # im.me
             PROVE  row'[b] = row[b] /\ file'[b] = file[b]
  BY DEF Spares
<1>0. /\ PortableTypeOK /\ RowsInv /\ ExportInv /\ ReadableInv /\ StateInv /\ RowsOfImport /\ LeftInv
  BY DEF PortableInv
<1>1. CASE Portable!Commit
  <2>1. /\ im.pc = "next"
        /\ \A c \in DOMAIN import.rows : Inserted(c)
        /\ \A c \in Portable!UIDs \ DOMAIN import.rows :
               row'[c] = IF c \in import.deleted THEN None ELSE row[c]
        /\ file' = file
    BY <1>0, <1>1, CommitIs
  <2>2. b \notin import.deleted
    BY <1>0, <2>1 DEF StateInv, Importing
  <2>3. b \notin DOMAIN import.rows
    BY <2>1, <2>2 DEF Inserted
  <2> QED
    BY <2>1, <2>2, <2>3
<1>2. CASE ~Portable!Commit
  <2>1. row' = row
    BY <1>2, ImportKeeps
  <2>2. CASE im.pc \in {"create", "copy"}
    <3>1. b # im.uid
      BY <1>0, <2>2, OpenedIsCleared
    <3>2. Portable!CreateFile \/ Portable!CopyFiles \/ file' = file
      BY ZenonT(60), <2>2 DEF Portable!Import, Portable!BeginFull, Portable!BeginSingle,
         Portable!BeginClear, Portable!Begin,
         Portable!ClearDB, Portable!LoadUsers, Portable!SelectOld, Portable!DeleteOld, Portable!InsertRow,
         Portable!RemoveOld, Portable!FindOrphan, Portable!Commit,
         Portable!ImportFails, Portable!Glob, Portable!RemoveOrphan, Portable!AllDone, Portable!server
    <3> QED
      BY <1>0, <2>1, <3>1, <3>2, CreateFileIs, CopyIs
  <2>3. CASE im.pc \notin {"create", "copy"}
    <3>1. \/ \E c \in Portable!UIDs : Portable!RemoveOld(c)
          \/ Portable!RemoveOrphan
          \/ file' = file
      BY Zenon, <2>3 DEF Portable!Import, Portable!BeginFull, Portable!BeginSingle,
         Portable!BeginClear, Portable!Begin,
         Portable!ClearDB, Portable!LoadUsers, Portable!SelectOld, Portable!DeleteOld, Portable!InsertRow,
         Portable!CreateFile, Portable!CopyFiles, Portable!FindOrphan, Portable!Commit,
         Portable!ImportFails, Portable!Glob, Portable!AllDone, Portable!server
    <3>2. ASSUME NEW c \in Portable!UIDs, Portable!RemoveOld(c) PROVE file'[b] = file[b]
      <4>1. /\ im.pc = "next" /\ c \in im.old /\ \A d \in Portable!UIDs \ {c} : file'[d] = file[d]
        BY <1>0, <3>2, RemoveOldIs
      <4>2. row[c] # None => row[c].owner = im.me
        BY <1>0, <4>1 DEF StateInv, Importing
      <4> QED
        BY <4>1, <4>2
    <3>3. ~Portable!RemoveOrphan
      BY <1>0 DEF Portable!RemoveOrphan, StateInv, Sweeping
    <3> QED
      BY <2>1, <3>1, <3>2, <3>3
  <2> QED
    BY <2>2, <2>3
<1> QED
  BY <1>1, <1>2

\* An import that adds users, and that of one user, leaves the rows and the
\* archives of all others as they are (portability/import.go).
THEOREM ImportsSpareOthers == CommandSpec => OthersAreSpared
<1>1. PortableInv /\ [CommandNext]_<<vars, started, commands>> => [Spares]_Portable!vars
  <2> SUFFICES ASSUME PortableInv, [CommandNext]_<<vars, started, commands>>, im' # im PROVE Spares
    BY DEF Spares
  <2>1. PortableTypeOK /\ Portable!Next
    BY CommandWorks DEF commands, PortableInv
  <2>2. ~Portable!Server
    BY <2>1, ServerKeeps
  <2>3. ~Portable!Export
    BY Zenon DEF Portable!Export, Portable!ExportUsers, Portable!GetBookmarks, Portable!SaveInfo,
       Portable!SaveContainer, Portable!SaveData, Portable!ExportFails, Portable!import
  <2> QED
    BY <2>1, <2>2, <2>3, ImportSpares DEF Portable!Next
<1> QED
  BY <1>1, PortableSafe, PTL DEF CommandSpec, OthersAreSpared, Portable!OthersAreSpared, Spares

\* What an import has inserted when it commits.
Exact ==
    import # None /\ import' = None /\ im'.pc # "failed"
        => \A b \in Portable!UIDs :
              LET r == row'[b]
                  item == zip.items[r.of]
              IN  /\ r # None /\ r.imported /\ b \in DOMAIN import.rows
                        => /\ r.of \in DOMAIN zip.items
                           /\ r.loaded = item.loaded
                           /\ IF im.mode = "single" THEN r.owner = im.me
                              ELSE user'[r.owner] = zip.users[item.owner]
                  /\ im.mode = "clear"
                        => (r # None <=> b \in DOMAIN zip.items) /\ (r # None => r.of = b)

\* The commit of an import is exact.
LEMMA CommitExact == PortableInv /\ Portable!Commit => Exact
<1> SUFFICES ASSUME PortableInv, Portable!Commit, NEW b \in Portable!UIDs
             PROVE  LET r == row'[b]
                        item == zip.items[r.of]
                    IN  /\ r # None /\ r.imported /\ b \in DOMAIN import.rows
                              => /\ r.of \in DOMAIN zip.items
                                 /\ r.loaded = item.loaded
                                 /\ IF im.mode = "single" THEN r.owner = im.me
                                    ELSE user'[r.owner] = zip.users[item.owner]
                        /\ im.mode = "clear"
                              => (r # None <=> b \in DOMAIN zip.items) /\ (r # None => r.of = b)
  BY DEF Exact
<1>0. /\ PortableTypeOK /\ RowsInv /\ ExportInv /\ ReadableInv /\ StateInv /\ RowsOfImport /\ LeftInv
      /\ None \notin Portable!Row
  BY CommandAssumption DEF PortableInv, Portable!PortabilityAssumption
<1>1. /\ im.pc = "next" /\ im.todo = {}
      /\ \A u \in Portable!Ids : user'[u] = Portable!SeenUser(u)
      /\ \A c \in DOMAIN import.rows : row'[c] = import.rows[c] /\ row'[c] \in Portable!Row /\ Inserted(c)
      /\ \A c \in Portable!UIDs \ DOMAIN import.rows :
             row'[c] = IF c \in import.deleted THEN None ELSE row[c]
  BY <1>0, CommitIs
<1>2. im.pc \in Importing /\ im.pc \in Loading
  BY <1>1 DEF Importing, Loading
<1>3. CASE b \in DOMAIN import.rows
  <2> DEFINE r == import.rows[b]
  <2>1. /\ row'[b] = r /\ r \in Portable!Row /\ r # None
        /\ r.of \in DOMAIN zip.items /\ r.loaded = zip.items[r.of].loaded
        /\ zip.items[r.of].owner \in DOMAIN im.users /\ r.owner = im.users[zip.items[r.of].owner]
        /\ (im.mode = "clear" => b = r.of)
    BY <1>0, <1>1, <1>3 DEF Inserted
  <2>2. CASE im.mode = "single"
    <3>1. r.owner = im.me
      BY <1>0, <1>2, <2>1, <2>2 DEF StateInv
    <3> QED
      BY SMTT(30), <2>1, <2>2, <3>1
  <2>3. CASE im.mode # "single"
    <3>1. r.owner \in DOMAIN import.users /\ import.users[r.owner] = zip.users[zip.items[r.of].owner]
      BY ZenonT(60), <1>0, <1>2, <2>1, <2>3 DEF StateInv
    <3>2. r.owner \in Portable!Ids
      BY <2>1 DEF Portable!Row
    <3>3. user'[r.owner] = zip.users[zip.items[r.of].owner]
      BY <1>1, <3>1, <3>2 DEF Portable!SeenUser
    <3> QED
      BY Zenon, <2>1, <2>3, <3>3
  <2> QED
    BY <2>2, <2>3
<1>4. CASE b \notin DOMAIN import.rows
  <2>1. im.mode = "clear" => b \notin DOMAIN zip.items
    BY <1>0, <1>1, <1>2, <1>4 DEF StateInv
  <2>2. im.mode = "clear" => row'[b] = None
    BY <1>0, <1>1, <1>2, <1>4 DEF StateInv, Loading
  <2> QED
    BY <1>4, <2>1, <2>2
<1> QED
  BY <1>3, <1>4

\* An import gives each bookmark to the user of the name that it had, or to the
\* one who sent the file, and with -clear there is just what was exported
\* (portability/import.go).
THEOREM ImportsAreExact == CommandSpec => ImportIsExact
<1>1. PortableInv /\ [CommandNext]_<<vars, started, commands>> => [Exact]_Portable!vars
  <2> SUFFICES ASSUME PortableInv, [CommandNext]_<<vars, started, commands>>,
                      import # None, import' = None, im'.pc # "failed"
               PROVE  Exact
    BY DEF Exact
  <2>1. Portable!Next /\ PortableTypeOK /\ StateInv /\ ExportInv /\ RowsOfImport
    BY CommandWorks DEF commands, PortableInv
  <2>2. ~Portable!Server
    BY <2>1, ServerKeeps
  <2>3. ~Portable!Export
    BY Zenon DEF Portable!Export, Portable!ExportUsers, Portable!GetBookmarks, Portable!SaveInfo,
       Portable!SaveContainer, Portable!SaveData, Portable!ExportFails, Portable!import
  <2>4. Portable!Import
    BY <2>1, <2>2, <2>3 DEF Portable!Next
  <2>5. im.pc \in Importing /\ im'.pc \notin Importing
    BY <2>1, <2>4, ImportTypes DEF StateInv
  <2>6. Portable!Commit
    BY <2>1, <2>4, <2>5, PcIs DEF Importing
  <2> QED
    BY <2>6, CommitExact
<1> QED
  BY <1>1, PortableSafe, PTL DEF CommandSpec, ImportIsExact, Portable!ImportIsExact, Exact
=============================================================================
