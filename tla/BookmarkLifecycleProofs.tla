----------------------- MODULE BookmarkLifecycleProofs -----------------------
(***************************************************************************)
(* What TLC checks of BookmarkLifecycle on one bookmark, proved for any    *)
(* set of bookmarks and marks, any deleters and any faults.                *)
(***************************************************************************)
EXTENDS BookmarkLifecycle, TLAPS

\* The program's rows and their updates are rows.
LEMMA NewRow == \A m \in Marks, s \in {"loading", "error"} :
                   [state |-> s, path |-> FALSE, mark |-> m] \in Row
  BY DEF Row

LEMMA RowUpdate ==
    ASSUME NEW r \in Row
    PROVE  /\ r.path \in BOOLEAN
           /\ \A m \in Marks : [r EXCEPT !.mark = m] \in Row
           /\ [r EXCEPT !.state = "error"] \in Row
           /\ [r EXCEPT !.state = "loaded"] \in Row
           /\ [r EXCEPT !.path = FALSE] \in Row
           /\ [[r EXCEPT !.state = "loaded"] EXCEPT !.path = TRUE] \in Row
  BY DEF Row

LEMMA PathIsBoolean ==
    TypeOK => \A b \in Bookmarks : row[b] # None => row[b].path \in BOOLEAN
  BY RowUpdate DEF TypeOK

LEMMA TypeInit == Init => TypeOK
  BY LifecycleAssumption DEF Init, TypeOK, Stages, Busy

LEMMA TypeStep == TypeOK /\ [Next]_vars => TypeOK'
<1> SUFFICES ASSUME TypeOK, [Next]_vars
              PROVE  TypeOK'
  OBVIOUS
<1> USE LifecycleAssumption
      DEF TypeOK, AllDeleters, Stages, Busy, extraction, deletion, command
<1>1. ASSUME NEW b \in Bookmarks, NEW m \in Marks, Create(b, m)
      PROVE  TypeOK'
  BY <1>1, NewRow, ZenonT(30) DEF Create
<1>2. ASSUME NEW b \in Bookmarks, NEW m \in Marks, LaunchFails(b, m)
      PROVE  TypeOK'
  <2>1. CASE UNCHANGED row
    BY <1>2, <2>1 DEF LaunchFails
  <2>2. CASE Save(b, [state |-> "error", path |-> FALSE, mark |-> m])
    BY <1>2, <2>2, NewRow, ZenonT(30) DEF LaunchFails, Save, Written
  <2> QED
    BY <1>2, <2>1, <2>2 DEF LaunchFails
<1>3. ASSUME NEW b \in Bookmarks, NEW m \in Marks, Edit(b, m) PROVE TypeOK'
  BY <1>3, RowUpdate, ZenonT(30) DEF Edit
<1>4. ASSUME NEW b \in Bookmarks, Launch(b) \/ Start(b) PROVE TypeOK'
  <2>1. CASE Launch(b)
    BY <2>1 DEF Launch
  <2>2. CASE Start(b) /\ ex'[b] = "started"
    <3>1. /\ row[b] # None /\ copy' = [copy EXCEPT ![b] = row[b]]
          /\ ex' = [ex EXCEPT ![b] = "started"]
          /\ saved' = [saved EXCEPT ![b] = FALSE]
          /\ UNCHANGED <<row, born, file, deletion, trash, up, user, command,
                         wish, mishap>>
      BY <2>2 DEF Start
    <3> QED
      BY <3>1
  <2>3. CASE Start(b) /\ ex'[b] # "started"
    BY <2>3 DEF Start
  <2> QED
    BY <1>4, <2>1, <2>2, <2>3
<1>5. ASSUME NEW b \in Bookmarks, NoExtractor(b) \/ FetchLinks(b)
      PROVE  TypeOK'
  BY <1>5 DEF NoExtractor, FetchLinks
<1>6. ASSUME NEW b \in Bookmarks,
             BeginArchive(b) \/ FinishArchive(b) \/ ArchiveFails(b)
      PROVE  TypeOK'
  <2>1. CASE BeginArchive(b)
    <3>1. copy[b] \in Row
      BY <2>1 DEF BeginArchive
    <3>2. [[copy[b] EXCEPT !.state = "loaded"] EXCEPT !.path = TRUE] \in Row
      BY <3>1, RowUpdate
    <3>3. copy' \in [Bookmarks -> Row \cup {None}]
      BY <2>1, <3>2 DEF BeginArchive
    <3>4. /\ file' = [file EXCEPT ![b] = "partial"]
          /\ ex' = [ex EXCEPT ![b] = "archiving"]
      BY <2>1 DEF BeginArchive
    <3>5. UNCHANGED <<row, born, saved, del, held, trash, up, user, cleaning,
                      listed, clean, wish, mishap>>
      BY <2>1 DEF BeginArchive
    <3>6. /\ file' \in [Bookmarks -> {"none", "partial", "whole"}]
          /\ ex' \in [Bookmarks -> Stages]
      BY <3>4
    <3>7. b \in born /\ \A c \in Bookmarks : c # b =>
             copy'[c] = copy[c] /\ file'[c] = file[c] /\ ex'[c] = ex[c]
      BY <2>1 DEF BeginArchive
    <3>8. copy'[b] \in Row
      BY <2>1, <3>2 DEF BeginArchive
    <3>9. \A c \in Bookmarks :
             /\ c \notin born' => row'[c] = None /\ ex'[c] = "none" /\ file'[c] = "none"
             /\ ex'[c] \in Busy => copy'[c] \in Row
      BY <3>5, <3>7, <3>8
    <3> QED
      BY <3>3, <3>5, <3>6, <3>9
  <2>2. CASE FinishArchive(b)
    BY <2>2 DEF FinishArchive
  <2>3. CASE ArchiveFails(b)
    <3>1. copy[b] \in Row
      BY <2>3 DEF ArchiveFails
    <3>2. [copy[b] EXCEPT !.path = FALSE] \in Row
      BY <3>1, RowUpdate
    <3>3. copy' \in [Bookmarks -> Row \cup {None}]
      BY <2>3, <3>2 DEF ArchiveFails
    <3>4. /\ file' = [file EXCEPT ![b] = "none"]
          /\ ex' = [ex EXCEPT ![b] = "archived"]
      BY <2>3 DEF ArchiveFails
    <3>5. UNCHANGED <<row, born, saved, del, held, trash, up, user, cleaning,
                      listed, clean, wish, mishap>>
      BY <2>3 DEF ArchiveFails
    <3>6. /\ file' \in [Bookmarks -> {"none", "partial", "whole"}]
          /\ ex' \in [Bookmarks -> Stages]
      BY <3>4
    <3>7. b \in born /\ \A c \in Bookmarks : c # b =>
             copy'[c] = copy[c] /\ file'[c] = file[c] /\ ex'[c] = ex[c]
      BY <2>3 DEF ArchiveFails
    <3>8. copy'[b] \in Row
      BY <2>3, <3>2 DEF ArchiveFails
    <3>9. \A c \in Bookmarks :
             /\ c \notin born' => row'[c] = None /\ ex'[c] = "none" /\ file'[c] = "none"
             /\ ex'[c] \in Busy => copy'[c] \in Row
      BY <3>5, <3>7, <3>8
    <3> QED
      BY <3>3, <3>5, <3>6, <3>9
  <2> QED
    BY <1>6, <2>1, <2>2, <2>3
<1>7. ASSUME NEW b \in Bookmarks, SaveBookmark(b) PROVE TypeOK'
  BY <1>7, ZenonT(30) DEF SaveBookmark, Save, Written
<1>8. ASSUME NEW b \in Bookmarks, Panic(b) PROVE TypeOK'
  BY <1>8, RowUpdate, ZenonT(30) DEF Panic
<1>9. ASSUME NEW b \in Bookmarks, End(b) PROVE TypeOK'
  <2>1. copy[b] \in Row
    BY <1>9 DEF End
  <2>2. Settled(copy[b]) \in Row
    BY <2>1, RowUpdate DEF Settled
  <2>3. row' \in [Bookmarks -> Row \cup {None}]
    BY <1>9, <2>2 DEF End, Save, Written
  <2> QED
    BY <1>9, <2>3, ZenonT(30) DEF End, Save, Written
<1>10. ASSUME NEW b \in Bookmarks, MoveToTrash(b) \/ Restore(b) \/ TrashDue(b)
      PROVE  TypeOK'
  BY <1>10 DEF MoveToTrash, Restore, TrashDue
<1>11. ASSUME NEW b \in Bookmarks, RequestDelete(b) \/ RunDeleteTask(b)
      PROVE  TypeOK'
  <2>1. CASE RequestDelete(b)
    BY <2>1, PathIsBoolean DEF RequestDelete, Read
  <2>2. CASE RunDeleteTask(b)
    BY <2>2, PathIsBoolean DEF RunDeleteTask, Read
  <2> QED
    BY <1>11, <2>1, <2>2
<1>12. ASSUME NEW d \in Deleters, NEW b \in Bookmarks, DeleteRow(d, b)
      PROVE  TypeOK'
  BY <1>12 DEF DeleteRow
<1>13. ASSUME NEW d \in Deleters, NEW b \in Bookmarks, DeleteFile(d, b)
      PROVE  TypeOK'
  BY <1>13 DEF DeleteFile
<1>14. CASE PurgeUser \/ DeleteUser
  <2>1. CASE PurgeUser
    BY <2>1, PathIsBoolean DEF PurgeUser, Read
  <2>2. CASE DeleteUser
    BY <2>2 DEF DeleteUser
  <2> QED
    BY <1>14, <2>1, <2>2
<1>15. CASE CleanupRows
  BY <1>15, PathIsBoolean DEF CleanupRows, Read, Loading
<1>16. CASE CleanupFiles \/ CleanupEnds
  BY <1>16 DEF CleanupFiles, CleanupEnds
<1>17. ASSUME NEW b \in Bookmarks, CleanupFile(b) PROVE TypeOK'
  BY <1>17 DEF CleanupFile
<1>18. CASE Stop
  <2>1. /\ ex' \in [Bookmarks -> Stages]
        /\ trash' \in [Bookmarks -> {"no", "waiting", "due"}]
    BY <1>18 DEF Stop
  <2>2. \A b \in Bookmarks : b \notin born => ex'[b] = "none"
    BY <1>18 DEF Stop
  <2>3. \A b \in Bookmarks : ex'[b] \notin Busy
    BY <1>18 DEF Stop
  <2>4. del' \in [AllDeleters -> [Bookmarks -> {"idle", "read", "gone"}]]
    BY <1>18 DEF Stop
  <2>5. copy' \in [Bookmarks -> Row \cup {None}]
    BY <1>18 DEF Stop
  <2>6. mishap' \subseteq Bookmarks /\ user' \in {"here", "leaving", "gone"}
    BY <1>18 DEF Stop
  <2> QED
    BY <1>18, <2>1, <2>2, <2>3, <2>4, <2>5, <2>6 DEF Stop
<1>19. CASE Boot
  BY <1>19 DEF Boot
<1>20. CASE UNCHANGED vars
  BY <1>20 DEF vars
<1> QED
  BY <1>1, <1>2, <1>3, <1>4, <1>5, <1>6, <1>7, <1>8, <1>9, <1>10, <1>11,
     <1>12, <1>13, <1>14, <1>15, <1>16, <1>17, <1>18, <1>19, <1>20, ZenonT(30)
  DEF Next, Extract, Users, Deletion, Cleanup

\* The variables stay in their ranges; the handler has a copy of a row while
\* it works, and nothing exists of a bookmark before it is created.
THEOREM TypeCorrect == Spec => []TypeOK
  BY TypeInit, TypeStep, PTL DEF Spec

\* A bookmark that was deleted stays deleted: whatever writes the row of a
\* bookmark that was born updates it, and an update does not insert.
THEOREM DeletionIsFinal == Spec => StaysDeleted
<1>1. ASSUME TypeOK, [Next]_vars
      PROVE  \A b \in born : row[b] = None => row'[b] = None
  <2> SUFFICES ASSUME NEW c \in born, row[c] = None PROVE row'[c] = None
    OBVIOUS
  <2> USE <1>1 DEF TypeOK
  <2>1. ASSUME NEW b \in Bookmarks, NEW m \in Marks,
             Create(b, m) \/ LaunchFails(b, m) \/ Edit(b, m)
       PROVE  row'[c] = None
    BY <2>1 DEF Create, LaunchFails, Edit, Save, Written
  <2>2. ASSUME NEW b \in Bookmarks, SaveBookmark(b) \/ End(b)
       PROVE  row'[c] = None
    BY <2>2 DEF SaveBookmark, End, Save, Written
  <2>3. ASSUME NEW d \in Deleters, NEW b \in Bookmarks, DeleteRow(d, b)
       PROVE  row'[c] = None
    BY <2>3 DEF DeleteRow
  <2>4. CASE DeleteUser
    BY <2>4 DEF DeleteUser
  <2>5. CASE row' = row
    BY <2>5
  <2>6. \/ row' = row
        \/ \E b \in Bookmarks, m \in Marks :
              Create(b, m) \/ LaunchFails(b, m) \/ Edit(b, m)
        \/ \E b \in Bookmarks : SaveBookmark(b) \/ End(b)
        \/ \E d \in Deleters, b \in Bookmarks : DeleteRow(d, b)
        \/ DeleteUser
    BY DEF Next, Extract, Users, Deletion, Cleanup, vars, Launch, Start,
           NoExtractor, BeginArchive, FinishArchive, ArchiveFails, FetchLinks,
           Panic, MoveToTrash, Restore, TrashDue, RequestDelete, RunDeleteTask,
           DeleteFile, PurgeUser, CleanupRows, CleanupFiles, CleanupFile,
           CleanupEnds, Stop, Boot
  <2> QED
    BY <2>1, <2>2, <2>3, <2>4, <2>5, <2>6
<1>2. TypeOK /\ [Next]_vars
         => [\A b \in born : row[b] = None => row'[b] = None]_vars
  BY <1>1
<1> QED
  BY <1>2, TypeCorrect, PTL DEF Spec, StaysDeleted

-----------------------------------------------------------------------------
(* The inductive invariant, part by part.                                  *)

\* Before the archive is saved the row of a bookmark is the one that was
\* inserted, if it is still there, and there is no file before the archive.
EarlyInv ==
    \A b \in Bookmarks :
       /\ ex[b] \in {"created", "queued", "started", "archiving", "archived"}
             => row[b] = None \/ (row[b].state = "loading" /\ ~ row[b].path)
       /\ ex[b] \in {"none", "created", "queued", "started"} => file[b] = "none"
       /\ ex[b] \in {"started", "archiving", "archived"} => ~ saved[b]
       /\ ex[b] = "started" => copy[b].state = "loading" /\ ~ copy[b].path
       /\ ex[b] \in {"archiving", "archived"} => copy[b].state = "loaded"
       /\ ex[b] = "archiving" => copy[b].path
       /\ ex[b] \in Busy /\ copy[b].state = "loading" => ~ copy[b].path

LEMMA EarlyStep == TypeOK /\ EarlyInv /\ [Next]_vars => EarlyInv'
<1> SUFFICES ASSUME TypeOK, EarlyInv, [Next]_vars
              PROVE  EarlyInv'
  OBVIOUS
<1> USE LifecycleAssumption
      DEF TypeOK, EarlyInv, Row, AllDeleters, Stages, Busy, extraction,
          deletion, command
<1>1. ASSUME NEW b \in Bookmarks, NEW m \in Marks, Create(b, m)
      PROVE  EarlyInv'
  BY <1>1 DEF Create
<1>2. ASSUME NEW b \in Bookmarks, NEW m \in Marks, LaunchFails(b, m)
      PROVE  EarlyInv'
  BY <1>2 DEF LaunchFails, Save, Written
<1>3. ASSUME NEW b \in Bookmarks, NEW m \in Marks, Edit(b, m)
      PROVE  EarlyInv'
  BY <1>3 DEF Edit
<1>4. ASSUME NEW b \in Bookmarks, Launch(b) \/ Start(b) PROVE EarlyInv'
  BY <1>4 DEF Launch, Start
<1>5. ASSUME NEW b \in Bookmarks, NoExtractor(b) \/ FetchLinks(b)
      PROVE  EarlyInv'
  BY <1>5 DEF NoExtractor, FetchLinks
<1>6. ASSUME NEW b \in Bookmarks,
             BeginArchive(b) \/ FinishArchive(b) \/ ArchiveFails(b)
      PROVE  EarlyInv'
  BY <1>6 DEF BeginArchive, FinishArchive, ArchiveFails
<1>7. ASSUME NEW b \in Bookmarks, SaveBookmark(b) PROVE EarlyInv'
  BY <1>7 DEF SaveBookmark, Save, Written
<1>8. ASSUME NEW b \in Bookmarks, Panic(b) PROVE EarlyInv'
  BY <1>8 DEF Panic
<1>9. ASSUME NEW b \in Bookmarks, End(b) PROVE EarlyInv'
  BY <1>9 DEF End, Save, Written, Settled
<1>10. ASSUME NEW b \in Bookmarks, MoveToTrash(b) \/ Restore(b) \/ TrashDue(b)
      PROVE  EarlyInv'
  BY <1>10 DEF MoveToTrash, Restore, TrashDue
<1>11. ASSUME NEW b \in Bookmarks, RequestDelete(b) \/ RunDeleteTask(b)
      PROVE  EarlyInv'
  BY <1>11 DEF RequestDelete, RunDeleteTask, Read
<1>12. ASSUME NEW d \in Deleters, NEW b \in Bookmarks, DeleteRow(d, b)
      PROVE  EarlyInv'
  BY <1>12 DEF DeleteRow
<1>13. ASSUME NEW d \in Deleters, NEW b \in Bookmarks, DeleteFile(d, b)
      PROVE  EarlyInv'
  BY <1>13 DEF DeleteFile
<1>14. CASE PurgeUser \/ DeleteUser
  BY <1>14 DEF PurgeUser, DeleteUser, Read
<1>15. CASE CleanupRows
  BY <1>15 DEF CleanupRows, Read, Loading
<1>16. CASE CleanupFiles \/ CleanupEnds
  BY <1>16 DEF CleanupFiles, CleanupEnds
<1>17. ASSUME NEW b \in Bookmarks, CleanupFile(b) PROVE EarlyInv'
  BY <1>17 DEF CleanupFile
<1>18. CASE Stop
  BY <1>18 DEF Stop
<1>19. CASE Boot
  BY <1>19 DEF Boot
<1>20. CASE UNCHANGED vars
  BY <1>20 DEF vars
<1> QED
  BY <1>1, <1>2, <1>3, <1>4, <1>5, <1>6, <1>7, <1>8, <1>9, <1>10, <1>11,
     <1>12, <1>13, <1>14, <1>15, <1>16, <1>17, <1>18, <1>19, <1>20, ZenonT(30)
  DEF Next, Extract, Users, Deletion, Cleanup

\* A deleter holds a bookmark that was born, and removes the file of one
\* whose row is gone for good.
DeleterInv ==
    \A d \in AllDeleters, b \in Bookmarks :
       /\ del[d][b] # "idle" => b \in born
       /\ del[d][b] = "gone" => row[b] = None

LEMMA DeleterStep == TypeOK /\ DeleterInv /\ [Next]_vars => DeleterInv'
<1> SUFFICES ASSUME TypeOK, DeleterInv, [Next]_vars
              PROVE  DeleterInv'
  OBVIOUS
<1> USE LifecycleAssumption
      DEF TypeOK, DeleterInv, Row, AllDeleters, Stages, Busy, extraction,
          deletion, command
<1>1. ASSUME NEW b \in Bookmarks, NEW m \in Marks, Create(b, m)
      PROVE  DeleterInv'
  BY <1>1 DEF Create
<1>2. ASSUME NEW b \in Bookmarks, NEW m \in Marks, LaunchFails(b, m)
      PROVE  DeleterInv'
  BY <1>2 DEF LaunchFails, Save, Written
<1>3. ASSUME NEW b \in Bookmarks, NEW m \in Marks, Edit(b, m)
      PROVE  DeleterInv'
  BY <1>3 DEF Edit
<1>4. ASSUME NEW b \in Bookmarks, Launch(b) \/ Start(b) PROVE DeleterInv'
  BY <1>4 DEF Launch, Start
<1>5. ASSUME NEW b \in Bookmarks, NoExtractor(b) \/ FetchLinks(b)
      PROVE  DeleterInv'
  BY <1>5 DEF NoExtractor, FetchLinks
<1>6. ASSUME NEW b \in Bookmarks,
             BeginArchive(b) \/ FinishArchive(b) \/ ArchiveFails(b)
      PROVE  DeleterInv'
  BY <1>6 DEF BeginArchive, FinishArchive, ArchiveFails
<1>7. ASSUME NEW b \in Bookmarks, SaveBookmark(b) PROVE DeleterInv'
  BY <1>7 DEF SaveBookmark, Save, Written
<1>8. ASSUME NEW b \in Bookmarks, Panic(b) PROVE DeleterInv'
  BY <1>8 DEF Panic
<1>9. ASSUME NEW b \in Bookmarks, End(b) PROVE DeleterInv'
  BY <1>9 DEF End, Save, Written, Settled
<1>10. ASSUME NEW b \in Bookmarks, MoveToTrash(b) \/ Restore(b) \/ TrashDue(b)
      PROVE  DeleterInv'
  BY <1>10 DEF MoveToTrash, Restore, TrashDue
<1>11. ASSUME NEW b \in Bookmarks, RequestDelete(b) \/ RunDeleteTask(b)
      PROVE  DeleterInv'
  BY <1>11 DEF RequestDelete, RunDeleteTask, Read
<1>12. ASSUME NEW d \in Deleters, NEW b \in Bookmarks, DeleteRow(d, b)
      PROVE  DeleterInv'
  BY <1>12 DEF DeleteRow
<1>13. ASSUME NEW d \in Deleters, NEW b \in Bookmarks, DeleteFile(d, b)
      PROVE  DeleterInv'
  BY <1>13 DEF DeleteFile
<1>14. CASE PurgeUser \/ DeleteUser
  BY <1>14 DEF PurgeUser, DeleteUser, Read
<1>15. CASE CleanupRows
  BY <1>15 DEF CleanupRows, Read, Loading
<1>16. CASE CleanupFiles \/ CleanupEnds
  BY <1>16 DEF CleanupFiles, CleanupEnds
<1>17. ASSUME NEW b \in Bookmarks, CleanupFile(b) PROVE DeleterInv'
  BY <1>17 DEF CleanupFile
<1>18. CASE Stop
  BY <1>18 DEF Stop
<1>19. CASE Boot
  BY <1>19 DEF Boot
<1>20. CASE UNCHANGED vars
  BY <1>20 DEF vars
<1> QED
  BY <1>1, <1>2, <1>3, <1>4, <1>5, <1>6, <1>7, <1>8, <1>9, <1>10, <1>11,
     <1>12, <1>13, <1>14, <1>15, <1>16, <1>17, <1>18, <1>19, <1>20, ZenonT(30)
  DEF Next, Extract, Users, Deletion, Cleanup

\* The archive that a loaded row, or the copy that will become one, names is
\* complete; while it is being written it is there.
ArchiveInv ==
    \A b \in Bookmarks : row[b] # None =>
       /\ row[b].state = "loaded" /\ row[b].path => file[b] = "whole"
       /\ ex[b] = "archiving" => file[b] # "none"
       /\ ex[b] \in {"archived", "linking", "ending"} =>
             (copy[b].state = "loaded" /\ copy[b].path => file[b] = "whole")

LEMMA ArchiveStep ==
    TypeOK /\ EarlyInv /\ DeleterInv /\ ArchiveInv /\ [Next]_vars => ArchiveInv'
<1> SUFFICES ASSUME TypeOK, EarlyInv, DeleterInv, ArchiveInv, [Next]_vars
              PROVE  ArchiveInv'
  OBVIOUS
<1> USE LifecycleAssumption
      DEF TypeOK, EarlyInv, DeleterInv, ArchiveInv, Row, AllDeleters, Busy,
          extraction, deletion, command
<1>1. ASSUME NEW b \in Bookmarks, NEW m \in Marks, Create(b, m)
      PROVE  ArchiveInv'
  BY <1>1 DEF Create
<1>2. ASSUME NEW b \in Bookmarks, NEW m \in Marks, LaunchFails(b, m)
      PROVE  ArchiveInv'
  BY <1>2 DEF LaunchFails, Save, Written
<1>3. ASSUME NEW b \in Bookmarks, NEW m \in Marks, Edit(b, m)
      PROVE  ArchiveInv'
  BY <1>3 DEF Edit
<1>4. ASSUME NEW b \in Bookmarks, Launch(b) \/ Start(b) PROVE ArchiveInv'
  BY <1>4 DEF Launch, Start
<1>5. ASSUME NEW b \in Bookmarks, NoExtractor(b) \/ FetchLinks(b)
      PROVE  ArchiveInv'
  BY <1>5 DEF NoExtractor, FetchLinks
<1>6. ASSUME NEW b \in Bookmarks,
             BeginArchive(b) \/ FinishArchive(b) \/ ArchiveFails(b)
      PROVE  ArchiveInv'
  BY <1>6 DEF BeginArchive, FinishArchive, ArchiveFails
<1>7. ASSUME NEW b \in Bookmarks, SaveBookmark(b) PROVE ArchiveInv'
  BY <1>7 DEF SaveBookmark, Save, Written
<1>8. ASSUME NEW b \in Bookmarks, Panic(b) PROVE ArchiveInv'
  BY <1>8 DEF Panic
<1>9. ASSUME NEW b \in Bookmarks, End(b) PROVE ArchiveInv'
  <2>1. CASE saved[b] \/ row' = row
    BY <1>9, <2>1 DEF End
  <2>2. CASE ~ saved[b] /\ Save(b, Settled(copy[b])) /\ copy[b].state = "loading"
    BY <1>9, <2>2 DEF End, Save, Written, Settled
  <2>3. CASE ~ saved[b] /\ Save(b, Settled(copy[b])) /\ copy[b].state # "loading"
    BY <1>9, <2>3 DEF End, Save, Written, Settled
  <2> QED
    BY <1>9, <2>1, <2>2, <2>3 DEF End
<1>10. ASSUME NEW b \in Bookmarks, MoveToTrash(b) \/ Restore(b) \/ TrashDue(b)
      PROVE  ArchiveInv'
  BY <1>10 DEF MoveToTrash, Restore, TrashDue
<1>11. ASSUME NEW b \in Bookmarks, RequestDelete(b) \/ RunDeleteTask(b)
      PROVE  ArchiveInv'
  BY <1>11 DEF RequestDelete, RunDeleteTask, Read
<1>12. ASSUME NEW d \in Deleters, NEW b \in Bookmarks, DeleteRow(d, b)
      PROVE  ArchiveInv'
  BY <1>12 DEF DeleteRow
<1>13. ASSUME NEW d \in Deleters, NEW b \in Bookmarks, DeleteFile(d, b)
      PROVE  ArchiveInv'
  BY <1>13 DEF DeleteFile
<1>14. CASE PurgeUser \/ DeleteUser
  BY <1>14 DEF PurgeUser, DeleteUser, Read
<1>15. CASE CleanupRows
  BY <1>15 DEF CleanupRows, Read, Loading
<1>16. CASE CleanupFiles \/ CleanupEnds
  BY <1>16 DEF CleanupFiles, CleanupEnds
<1>17. ASSUME NEW b \in Bookmarks, CleanupFile(b) PROVE ArchiveInv'
  BY <1>17 DEF CleanupFile
<1>18. CASE Stop
  BY <1>18 DEF Stop
<1>19. CASE Boot
  BY <1>19 DEF Boot
<1>20. CASE UNCHANGED vars
  BY <1>20 DEF vars
<1> QED
  BY <1>1, <1>2, <1>3, <1>4, <1>5, <1>6, <1>7, <1>8, <1>9, <1>10, <1>11,
     <1>12, <1>13, <1>14, <1>15, <1>16, <1>17, <1>18, <1>19, <1>20, ZenonT(30)
  DEF Next, Extract, Users, Deletion, Cleanup

\* A row that is still loading was not edited as a loaded one, and a copy
\* that has yet to be saved finds the row loading, or makes it an error.
EditedRow(b) ==
    /\ row[b].state = "loading" => wish[b] = None
    /\ row[b].state = "loaded" /\ wish[b] # None => row[b].mark = wish[b]
    /\ ex[b] \in {"linking", "ending"} /\ ~ saved[b]
          => row[b].state = "loading" \/ copy[b].state = "error"

EditInv ==
    \A b \in Bookmarks : /\ b \notin born => wish[b] = None
                         /\ row[b] # None => EditedRow(b)

LEMMA EditStep == TypeOK /\ EarlyInv /\ EditInv /\ [Next]_vars => EditInv'
<1> SUFFICES ASSUME TypeOK, EarlyInv, EditInv, [Next]_vars
              PROVE  EditInv'
  OBVIOUS
<1> USE LifecycleAssumption
      DEF TypeOK, EarlyInv, EditInv, EditedRow, Row, AllDeleters, Busy,
          extraction, deletion, command
<1>1. ASSUME NEW b \in Bookmarks, NEW m \in Marks, Create(b, m)
      PROVE  EditInv'
  BY <1>1 DEF Create
<1>2. ASSUME NEW b \in Bookmarks, NEW m \in Marks, LaunchFails(b, m)
      PROVE  EditInv'
  BY <1>2 DEF LaunchFails, Save, Written
<1>3. ASSUME NEW b \in Bookmarks, NEW m \in Marks, Edit(b, m) PROVE EditInv'
  BY <1>3 DEF Edit
<1>4. ASSUME NEW b \in Bookmarks, Launch(b) \/ Start(b) PROVE EditInv'
  BY <1>4 DEF Launch, Start
<1>5. ASSUME NEW b \in Bookmarks, NoExtractor(b) \/ FetchLinks(b)
      PROVE  EditInv'
  BY <1>5 DEF NoExtractor, FetchLinks
<1>6. ASSUME NEW b \in Bookmarks,
             BeginArchive(b) \/ FinishArchive(b) \/ ArchiveFails(b)
      PROVE  EditInv'
  BY <1>6 DEF BeginArchive, FinishArchive, ArchiveFails
<1>7. ASSUME NEW b \in Bookmarks, SaveBookmark(b) PROVE EditInv'
  BY <1>7 DEF SaveBookmark, Save, Written
<1>8. ASSUME NEW b \in Bookmarks, Panic(b) PROVE EditInv'
  BY <1>8 DEF Panic
<1>9. ASSUME NEW b \in Bookmarks, End(b) PROVE EditInv'
  BY <1>9 DEF End, Save, Written, Settled
<1>10. ASSUME NEW b \in Bookmarks, MoveToTrash(b) \/ Restore(b) \/ TrashDue(b)
      PROVE  EditInv'
  BY <1>10 DEF MoveToTrash, Restore, TrashDue
<1>11. ASSUME NEW b \in Bookmarks, RequestDelete(b) \/ RunDeleteTask(b)
      PROVE  EditInv'
  BY <1>11 DEF RequestDelete, RunDeleteTask, Read
<1>12. ASSUME NEW d \in Deleters, NEW b \in Bookmarks, DeleteRow(d, b)
      PROVE  EditInv'
  BY <1>12 DEF DeleteRow
<1>13. ASSUME NEW d \in Deleters, NEW b \in Bookmarks, DeleteFile(d, b)
      PROVE  EditInv'
  BY <1>13 DEF DeleteFile
<1>14. CASE PurgeUser \/ DeleteUser
  BY <1>14 DEF PurgeUser, DeleteUser, Read
<1>15. CASE CleanupRows
  BY <1>15 DEF CleanupRows, Read, Loading
<1>16. CASE CleanupFiles \/ CleanupEnds
  BY <1>16 DEF CleanupFiles, CleanupEnds
<1>17. ASSUME NEW b \in Bookmarks, CleanupFile(b) PROVE EditInv'
  BY <1>17 DEF CleanupFile
<1>18. CASE Stop
  BY <1>18 DEF Stop
<1>19. CASE Boot
  BY <1>19 DEF Boot
<1>20. CASE UNCHANGED vars
  BY <1>20 DEF vars
<1> QED
  BY <1>1, <1>2, <1>3, <1>4, <1>5, <1>6, <1>7, <1>8, <1>9, <1>10, <1>11,
     <1>12, <1>13, <1>14, <1>15, <1>16, <1>17, <1>18, <1>19, <1>20, ZenonT(30)
  DEF Next, Extract, Users, Deletion, Cleanup

\* Who answers for a file: its row, the extraction that will save the path,
\* a deleter that is about to remove it; or there was a mishap.
OwnerInv ==
    \A b \in Bookmarks :
       /\ row[b] # None /\ ex[b] \in Busy /\ row[b].path => copy[b].path
       /\ file[b] # "none" =>
             \/ b \in mishap
             \/ row[b] = None /\ FileIsDue(b)
             \/ row[b] # None /\ row[b].path
             \/ row[b] # None /\ Unsettled(b) /\ copy[b].path

LEMMA OwnerStep ==
    TypeOK /\ EarlyInv /\ DeleterInv /\ OwnerInv /\ [Next]_vars => OwnerInv'
<1> SUFFICES ASSUME TypeOK, EarlyInv, DeleterInv, OwnerInv, [Next]_vars
              PROVE  OwnerInv'
  OBVIOUS
<1> USE LifecycleAssumption
      DEF TypeOK, EarlyInv, DeleterInv, OwnerInv, Row, AllDeleters, Busy,
          Unsettled, FileIsDue, extraction, deletion, command
<1>1. ASSUME NEW b \in Bookmarks, NEW m \in Marks, Create(b, m)
      PROVE  OwnerInv'
  BY <1>1 DEF Create
<1>2. ASSUME NEW b \in Bookmarks, NEW m \in Marks, LaunchFails(b, m)
      PROVE  OwnerInv'
  BY <1>2 DEF LaunchFails, Save, Written
<1>3. ASSUME NEW b \in Bookmarks, NEW m \in Marks, Edit(b, m)
      PROVE  OwnerInv'
  BY <1>3 DEF Edit
<1>4. ASSUME NEW b \in Bookmarks, Launch(b) \/ Start(b) PROVE OwnerInv'
  BY <1>4, SMTT(30) DEF Launch, Start
<1>5. ASSUME NEW b \in Bookmarks, NoExtractor(b) \/ FetchLinks(b)
      PROVE  OwnerInv'
  <2>1. CASE NoExtractor(b)
    BY <2>1 DEF NoExtractor
  <2>2. CASE FetchLinks(b)
    BY <2>2 DEF FetchLinks
  <2> QED
    BY <1>5, <2>1, <2>2
<1>6. ASSUME NEW b \in Bookmarks,
             BeginArchive(b) \/ FinishArchive(b) \/ ArchiveFails(b)
      PROVE  OwnerInv'
  <2>1. CASE BeginArchive(b)
    BY <2>1 DEF BeginArchive
  <2>2. CASE FinishArchive(b)
    BY <2>2 DEF FinishArchive
  <2>3. CASE ArchiveFails(b)
    BY <2>3 DEF ArchiveFails
  <2> QED
    BY <1>6, <2>1, <2>2, <2>3
<1>7. ASSUME NEW b \in Bookmarks, SaveBookmark(b) PROVE OwnerInv'
  BY <1>7 DEF SaveBookmark, Save, Written
<1>8. ASSUME NEW b \in Bookmarks, Panic(b) PROVE OwnerInv'
  BY <1>8 DEF Panic
<1>9. ASSUME NEW b \in Bookmarks, End(b) PROVE OwnerInv'
  BY <1>9 DEF End, Save, Written, Settled
<1>10. ASSUME NEW b \in Bookmarks, MoveToTrash(b) \/ Restore(b) \/ TrashDue(b)
      PROVE  OwnerInv'
  <2>1. CASE MoveToTrash(b)
    BY <2>1 DEF MoveToTrash
  <2>2. CASE Restore(b)
    BY <2>2 DEF Restore
  <2>3. CASE TrashDue(b)
    BY <2>3 DEF TrashDue
  <2> QED
    BY <1>10, <2>1, <2>2, <2>3
<1>11. ASSUME NEW b \in Bookmarks, RequestDelete(b) \/ RunDeleteTask(b)
      PROVE  OwnerInv'
  <2>1. CASE RequestDelete(b)
    BY <2>1 DEF RequestDelete, Read
  <2>2. CASE RunDeleteTask(b)
    BY <2>2 DEF RunDeleteTask, Read
  <2> QED
    BY <1>11, <2>1, <2>2
<1>12. ASSUME NEW d \in Deleters, NEW b \in Bookmarks, DeleteRow(d, b)
      PROVE  OwnerInv'
  BY <1>12 DEF DeleteRow
<1>13. ASSUME NEW d \in Deleters, NEW b \in Bookmarks, DeleteFile(d, b)
      PROVE  OwnerInv'
  BY <1>13 DEF DeleteFile
<1>14. CASE PurgeUser \/ DeleteUser
  <2>1. CASE PurgeUser
    <3>1. \A b \in Bookmarks : row[b] = None /\ FileIsDue(b) => FileIsDue(b)'
      BY <2>1 DEF PurgeUser, Read
    <3> HIDE DEF FileIsDue
    <3> QED
      BY <2>1, <3>1 DEF PurgeUser
  <2>2. CASE DeleteUser
    BY <2>2 DEF DeleteUser
  <2> QED
    BY <1>14, <2>1, <2>2
<1>15. CASE CleanupRows
  BY <1>15 DEF CleanupRows, Read, Loading
<1>16. CASE CleanupFiles \/ CleanupEnds
  BY <1>16, SMTT(30) DEF CleanupFiles, CleanupEnds
<1>17. ASSUME NEW b \in Bookmarks, CleanupFile(b) PROVE OwnerInv'
  BY <1>17 DEF CleanupFile
<1>18. CASE Stop
  <2>1. \A b \in Bookmarks : Unsettled(b) => b \in mishap'
    BY <1>18 DEF Stop
  <2>2. \A b \in Bookmarks : FileIsDue(b) => FileIsDue(b)' \/ b \in mishap'
    BY <1>18 DEF Stop
  <2>3. \A b \in Bookmarks : ex'[b] \notin Busy
    BY <1>18 DEF Stop
  <2>4. mishap \subseteq mishap' /\ row' = row /\ file' = file
    BY <1>18 DEF Stop
  <2> HIDE DEF FileIsDue, Unsettled
  <2> QED
    BY <2>1, <2>2, <2>3, <2>4
<1>19. CASE Boot
  BY <1>19 DEF Boot
<1>20. CASE UNCHANGED vars
  BY <1>20 DEF vars
<1> QED
  BY <1>1, <1>2, <1>3, <1>4, <1>5, <1>6, <1>7, <1>8, <1>9, <1>10, <1>11,
     <1>12, <1>13, <1>14, <1>15, <1>16, <1>17, <1>18, <1>19, <1>20, ZenonT(30)
  DEF Next, Extract, Users, Deletion, Cleanup

\* While no server runs only the cleanup command does anything.
DownInv ==
    /\ ~ up => \A b \in Bookmarks :
                  /\ ex[b] \in {"none", "queued", "done"}
                  /\ \A d \in AllDeleters \ {"cleanup"} : del[d][b] = "idle"
    /\ cleaning # "rows" => \A b \in Bookmarks : del["cleanup"][b] = "idle"
    /\ clean # "no" => ~ up
    /\ clean = "running" => cleaning # "off"
    /\ clean = "yes" => cleaning = "off"

LEMMA DownStep == TypeOK /\ DownInv /\ [Next]_vars => DownInv'
<1> SUFFICES ASSUME TypeOK, DownInv, [Next]_vars
              PROVE  DownInv'
  OBVIOUS
<1> USE LifecycleAssumption
      DEF TypeOK, DownInv, Row, AllDeleters, Busy, extraction, deletion,
          command
<1>1. ASSUME NEW b \in Bookmarks, NEW m \in Marks, Create(b, m)
      PROVE  DownInv'
  BY <1>1 DEF Create
<1>2. ASSUME NEW b \in Bookmarks, NEW m \in Marks, LaunchFails(b, m)
      PROVE  DownInv'
  BY <1>2 DEF LaunchFails, Save, Written
<1>3. ASSUME NEW b \in Bookmarks, NEW m \in Marks, Edit(b, m) PROVE DownInv'
  BY <1>3 DEF Edit
<1>4. ASSUME NEW b \in Bookmarks, Launch(b) \/ Start(b) PROVE DownInv'
  BY <1>4 DEF Launch, Start
<1>5. ASSUME NEW b \in Bookmarks, NoExtractor(b) \/ FetchLinks(b)
      PROVE  DownInv'
  BY <1>5 DEF NoExtractor, FetchLinks
<1>6. ASSUME NEW b \in Bookmarks,
             BeginArchive(b) \/ FinishArchive(b) \/ ArchiveFails(b)
      PROVE  DownInv'
  BY <1>6 DEF BeginArchive, FinishArchive, ArchiveFails
<1>7. ASSUME NEW b \in Bookmarks, SaveBookmark(b) PROVE DownInv'
  BY <1>7 DEF SaveBookmark, Save, Written
<1>8. ASSUME NEW b \in Bookmarks, Panic(b) PROVE DownInv'
  BY <1>8 DEF Panic
<1>9. ASSUME NEW b \in Bookmarks, End(b) PROVE DownInv'
  BY <1>9 DEF End, Save, Written, Settled
<1>10. ASSUME NEW b \in Bookmarks, MoveToTrash(b) \/ Restore(b) \/ TrashDue(b)
      PROVE  DownInv'
  BY <1>10 DEF MoveToTrash, Restore, TrashDue
<1>11. ASSUME NEW b \in Bookmarks, RequestDelete(b) \/ RunDeleteTask(b)
      PROVE  DownInv'
  BY <1>11 DEF RequestDelete, RunDeleteTask, Read
<1>12. ASSUME NEW d \in Deleters, NEW b \in Bookmarks, DeleteRow(d, b)
      PROVE  DownInv'
  BY <1>12 DEF DeleteRow
<1>13. ASSUME NEW d \in Deleters, NEW b \in Bookmarks, DeleteFile(d, b)
      PROVE  DownInv'
  BY <1>13 DEF DeleteFile
<1>14. CASE PurgeUser \/ DeleteUser
  BY <1>14, SMTT(30) DEF PurgeUser, DeleteUser, Read
<1>15. CASE CleanupRows
  BY <1>15 DEF CleanupRows, Read, Loading
<1>16. CASE CleanupFiles \/ CleanupEnds
  BY <1>16 DEF CleanupFiles, CleanupEnds
<1>17. ASSUME NEW b \in Bookmarks, CleanupFile(b) PROVE DownInv'
  BY <1>17 DEF CleanupFile
<1>18. CASE Stop
  BY <1>18 DEF Stop
<1>19. CASE Boot
  BY <1>19 DEF Boot
<1>20. CASE UNCHANGED vars
  BY <1>20 DEF vars
<1> QED
  BY <1>1, <1>2, <1>3, <1>4, <1>5, <1>6, <1>7, <1>8, <1>9, <1>10, <1>11,
     <1>12, <1>13, <1>14, <1>15, <1>16, <1>17, <1>18, <1>19, <1>20, ZenonT(30)
  DEF Next, Extract, Users, Deletion, Cleanup

\* How far a cleanup that runs alone has come.
CleanInv ==
    /\ clean = "running" /\ cleaning = "rows" =>
          \A b \in Bookmarks : Loading(b) => del["cleanup"][b] = "read"
    /\ clean = "running" /\ cleaning = "files" =>
          \A b \in Bookmarks :
             ~ Loading(b) /\ (row[b] = None /\ file[b] # "none" => b \in listed)
    /\ CleanupCleans

LEMMA CleanStep == TypeOK /\ DownInv /\ CleanInv /\ [Next]_vars => CleanInv'
<1> SUFFICES ASSUME TypeOK, DownInv, CleanInv, [Next]_vars
              PROVE  CleanInv'
  OBVIOUS
<1> USE LifecycleAssumption
      DEF TypeOK, DownInv, CleanInv, CleanupCleans, Row, AllDeleters, Busy,
          Loading, extraction, deletion, command
<1>1. ASSUME NEW b \in Bookmarks, NEW m \in Marks, Create(b, m)
      PROVE  CleanInv'
  BY <1>1 DEF Create
<1>2. ASSUME NEW b \in Bookmarks, NEW m \in Marks, LaunchFails(b, m)
      PROVE  CleanInv'
  BY <1>2 DEF LaunchFails, Save, Written
<1>3. ASSUME NEW b \in Bookmarks, NEW m \in Marks, Edit(b, m)
      PROVE  CleanInv'
  BY <1>3 DEF Edit
<1>4. ASSUME NEW b \in Bookmarks, Launch(b) \/ Start(b) PROVE CleanInv'
  BY <1>4 DEF Launch, Start
<1>5. ASSUME NEW b \in Bookmarks, NoExtractor(b) \/ FetchLinks(b)
      PROVE  CleanInv'
  BY <1>5 DEF NoExtractor, FetchLinks
<1>6. ASSUME NEW b \in Bookmarks,
             BeginArchive(b) \/ FinishArchive(b) \/ ArchiveFails(b)
      PROVE  CleanInv'
  BY <1>6 DEF BeginArchive, FinishArchive, ArchiveFails
<1>7. ASSUME NEW b \in Bookmarks, SaveBookmark(b) PROVE CleanInv'
  BY <1>7 DEF SaveBookmark, Save, Written
<1>8. ASSUME NEW b \in Bookmarks, Panic(b) PROVE CleanInv'
  BY <1>8 DEF Panic
<1>9. ASSUME NEW b \in Bookmarks, End(b) PROVE CleanInv'
  BY <1>9 DEF End, Save, Written, Settled
<1>10. ASSUME NEW b \in Bookmarks, MoveToTrash(b) \/ Restore(b) \/ TrashDue(b)
      PROVE  CleanInv'
  BY <1>10 DEF MoveToTrash, Restore, TrashDue
<1>11. ASSUME NEW b \in Bookmarks, RequestDelete(b) \/ RunDeleteTask(b)
      PROVE  CleanInv'
  BY <1>11 DEF RequestDelete, RunDeleteTask, Read
<1>12. ASSUME NEW d \in Deleters, NEW b \in Bookmarks, DeleteRow(d, b)
      PROVE  CleanInv'
  BY <1>12 DEF DeleteRow
<1>13. ASSUME NEW d \in Deleters, NEW b \in Bookmarks, DeleteFile(d, b)
      PROVE  CleanInv'
  BY <1>13 DEF DeleteFile
<1>14. CASE PurgeUser \/ DeleteUser
  BY <1>14 DEF PurgeUser, DeleteUser, Read
<1>15. CASE CleanupRows
  BY <1>15 DEF CleanupRows, Read, Loading
<1>16. CASE CleanupFiles \/ CleanupEnds
  BY <1>16 DEF CleanupFiles, CleanupEnds
<1>17. ASSUME NEW b \in Bookmarks, CleanupFile(b) PROVE CleanInv'
  BY <1>17 DEF CleanupFile
<1>18. CASE Stop
  BY <1>18 DEF Stop
<1>19. CASE Boot
  BY <1>19 DEF Boot
<1>20. CASE UNCHANGED vars
  BY <1>20 DEF vars
<1> QED
  BY <1>1, <1>2, <1>3, <1>4, <1>5, <1>6, <1>7, <1>8, <1>9, <1>10, <1>11,
     <1>12, <1>13, <1>14, <1>15, <1>16, <1>17, <1>18, <1>19, <1>20, ZenonT(30)
  DEF Next, Extract, Users, Deletion, Cleanup

-----------------------------------------------------------------------------
IInv ==
    /\ TypeOK /\ EarlyInv /\ DeleterInv /\ ArchiveInv /\ EditInv /\ OwnerInv
    /\ DownInv /\ CleanInv

LEMMA InvInit == Init => IInv
<1> SUFFICES ASSUME Init PROVE IInv
  OBVIOUS
<1>1. TypeOK
  BY TypeInit
<1>2. EarlyInv /\ DeleterInv /\ ArchiveInv /\ EditInv /\ OwnerInv
  BY LifecycleAssumption DEF Init, EarlyInv, DeleterInv, ArchiveInv, EditInv,
     EditedRow, OwnerInv, Busy
<1>3. DownInv /\ CleanInv
  BY LifecycleAssumption DEF Init, DownInv, CleanInv, CleanupCleans, AllDeleters
<1> QED
  BY <1>1, <1>2, <1>3 DEF IInv

LEMMA Inductive == Spec => []IInv
<1>1. IInv /\ [Next]_vars => IInv'
  BY TypeStep, EarlyStep, DeleterStep, ArchiveStep, EditStep, OwnerStep,
     DownStep, CleanStep DEF IInv
<1> QED
  BY <1>1, InvInit, PTL DEF Spec

\* The archive that a loaded bookmark names is complete, at any moment of any
\* extraction, deletion or cleanup.
THEOREM ArchiveSafe == Spec => []ArchiveReadable
<1>1. IInv => ArchiveReadable
  BY DEF IInv, ArchiveInv, ArchiveReadable
<1> QED
  BY <1>1, Inductive, PTL

\* What a user writes into a loaded bookmark is never undone by the
\* extraction that is still running.
THEOREM EditSafe == Spec => []LateEditSurvives
<1>1. IInv => LateEditSurvives
  BY DEF IInv, EditInv, EditedRow, LateEditSurvives
<1> QED
  BY <1>1, Inductive, PTL

\* An archive that has lost its row is about to be removed, or one of the
\* known mishaps came before.
THEOREM OrphanSafe == Spec => []OrphansAreExplained
<1>1. IInv => OrphansAreExplained
  BY DEF IInv, TypeOK, OwnerInv, OrphansAreExplained
<1> QED
  BY <1>1, Inductive, PTL

\* A cleanup that runs alone leaves no loading row and no orphan.
THEOREM CleanupSafe == Spec => []CleanupCleans
<1>1. IInv => CleanupCleans
  BY DEF IInv, CleanInv
<1> QED
  BY <1>1, Inductive, PTL

=============================================================================
