------------------------------ MODULE Reading ------------------------------
(***************************************************************************)
(* A reader: finds bookmarks by a search, in a list, a collection or the   *)
(* page of a label, then opens one and highlights what it says.            *)
(***************************************************************************)
EXTENDS Annotations, Filters

VARIABLE open \* whether a bookmark is open

readingVars == <<open, annotationVars, filterVars>>

ReadingInit == AnnotationsInit /\ FiltersInit /\ open = FALSE

Search == ~open /\ FiltersNext /\ UNCHANGED <<open, annotationVars>>

\* A bookmark of a list; the list is forgotten.
OpenBookmark ==
    /\ ~open /\ listed # Nothing
    /\ open' = TRUE
    /\ form' = EmptyForm /\ saved' = Nothing /\ listed' = Nothing /\ asked' = <<>>
    /\ UNCHANGED annotationVars

Highlight == open /\ AnnotationsNext /\ UNCHANGED <<open, filterVars>>

ReadingNext == Search \/ OpenBookmark \/ Highlight

ReadingSpec == ReadingInit /\ [][ReadingNext]_readingVars

\* What both keep has its type: fields are texts and ask the index for what it
\* has, and no highlight is in the list twice.
ReadingTypeOK == AnnotationsTypeOK /\ FiltersTypeOK
=============================================================================
