----------------------------- MODULE Extraction -----------------------------
(***************************************************************************)
(* The inside of one extraction: a run of the extractor, and, when it has  *)
(* put a page together, the archive that the last step of the run makes of *)
(* it (createZipFile calls ArchiveDocument), before the run is done.       *)
(***************************************************************************)
EXTENDS ExtractRun

CONSTANTS Urls, Page, Nodes, Images, Sources, Cached, Small, Inline, Copied, Slots

VARIABLES
    phase, known, url, ref, step, flight, from, answer, unread, slots, lock,
    entries, failed, broken, index

Archive == INSTANCE Archiver WITH pc <- step

ASSUME ArchiveAssumption == Archive!ArchiverAssumption

archive == <<phase, known, url, ref, step, flight, from, answer, unread, slots, lock,
             entries, failed, broken, index>>

\* The run; its last step waits for the archive.
Extract ==
    /\ pc = "done" /\ html => Archive!Ended
    /\ Next
    /\ UNCHANGED archive

\* The archive is not made of what the run remembers: that is forgotten, so that
\* each archive is looked at once.
HandOver ==
    /\ pc = "done" /\ html /\ drops # <<>>
    /\ drops' = <<>> /\ i' = 1 /\ visited' = {} /\ position' = 0 /\ resets' = 0
    /\ canceled' = FALSE /\ nextPage' = None /\ asked' = <<>>
    /\ UNCHANGED <<pc, html, done, archive>>

MakeArchive ==
    /\ pc = "done" /\ drops = <<>>
    /\ Archive!Next
    /\ UNCHANGED vars

ExtractionNext == Extract \/ HandOver \/ MakeArchive

ExtractionInit == Init /\ Archive!Init

\* The run calls its steps one after the other and waits for the goroutines of
\* the archive; Go runs every goroutine, and a request has a timeout.
ExtractionSpec ==
    /\ ExtractionInit
    /\ [][ExtractionNext]_<<vars, archive>>
    /\ WF_<<vars, archive>>(ExtractionNext)

\* An archive that is done has what its document refers to.
ArchiveIsWhole == Archive!ArchiveIsWhole

\* An archive is given up for the network, or because of two icons with one body.
FailsForAReason == Archive!FailsForAReason

\* The archive of a page that was put together comes to its end.
ArchiveEnds == html ~> Archive!Ended
=============================================================================
