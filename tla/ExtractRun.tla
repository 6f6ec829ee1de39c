----------------------------- MODULE ExtractRun -----------------------------
(***************************************************************************)
(* The extraction of a page and of the pages it continues on: the loop of  *)
(* Extractor.Run (pkg/extract/extract.go) with the processors that steer   *)
(* it (pkg/extract/contentscripts/processors.go and                        *)
(* internal/bookmarks/tasks/processors.go).                                *)
(*                                                                         *)
(* A drop is a page to load.  A processor may replace the only drop and    *)
(* start over, or append a drop for the next page; the loop has to end, to *)
(* load nothing twice and to lose no page, whatever the pages link to.     *)
(* Run is sequential: one action is one pass over the processors, or what  *)
(* Run does between two passes.  What the pages contain is free.           *)
(***************************************************************************)
EXTENDS Naturals, Sequences, FiniteSets

CONSTANTS
    URLs,       \* as a drop holds them: in unicode, without a needless port
    Links,      \* as pages write them
    SetURL,     \* the URL a drop gets for a link
    None,
    MaxReset,   \* maxReset of a ProcessMessage
    MaxDrops    \* maxDrops of a ProcessMessage

ASSUME ExtractAssumption ==
    /\ None \notin Links
    /\ URLs \subseteq Links /\ SetURL \in [Links -> URLs]
    /\ MaxReset \in Nat
    /\ MaxDrops \in Nat /\ MaxDrops >= 1

VARIABLES
    pc,         \* what Run does next
    i,          \* the loop's counter; drops are counted from 1 here
    drops,      \* the pages, with their URL and whether they have a body
    visited,    \* Visited
    position,   \* position of the message; 0 after ResetPosition
    resets,     \* resetCounter
    canceled,
    nextPage,   \* the next page that FindNextPage put in the context
    html,       \* setFinalHTML was called
    asked,      \* history: the requests, each with the URL it was for and the
                \* one it was redirected to
    done        \* history: passes of StepDone

vars == <<pc, i, drops, visited, position, resets, canceled, nextPage, html,
          asked, done>>

Stages == {"loop", "start", "load", "body", "dom", "links", "next", "content",
           "finish", "done", "end"}
PageStates == {"new", "loaded", "empty"}
Drops == [url : URLs, state : PageStates]
NewDrop(l) == [url |-> SetURL[l], state |-> "new"]
SetDrop(k, u, s) == [drops EXCEPT ![k] = [url |-> u, state |-> s]]

\* Every variable stays in its range, and the limits are the code's.
TypeOK ==
    /\ pc \in Stages
    /\ i \in Nat \ {0} /\ position \in Nat
    /\ drops \in Seq(Drops) /\ drops # <<>>
    /\ visited \subseteq URLs
    /\ resets \in 0 .. MaxReset + 1
    /\ Len(drops) <= MaxDrops
    /\ canceled \in BOOLEAN /\ html \in BOOLEAN
    /\ nextPage \in Links \cup {None}
    /\ asked \in Seq([url : URLs, got : URLs]) /\ done \in Nat

Init ==
    /\ pc = "loop" /\ i = 1 /\ position = 0
    /\ \E l \in Links : drops = <<NewDrop(l)>>
    /\ visited = {} /\ resets = 0 /\ canceled = FALSE
    /\ nextPage = None /\ html = FALSE /\ asked = <<>> /\ done = 0

-----------------------------------------------------------------------------
(* Run, up to the connection.                                              *)

\* A mistake to catch: the loop goes on without counting the drop it skips.
Skip_Stays ==
    /\ pc = "loop" /\ i <= Len(drops) /\ drops[i].url \in visited
    /\ UNCHANGED vars

\* The same URL is not visited twice.
Skip ==
    /\ pc = "loop" /\ i <= Len(drops) /\ drops[i].url \in visited
    /\ i' = i + 1
    /\ UNCHANGED <<pc, drops, visited, position, resets, canceled, nextPage,
                   html, asked, done>>

\* Too many drops cancel the run; StepStart is processed even so.
Start ==
    /\ pc = "loop" /\ i <= Len(drops) /\ drops[i].url \notin visited
    /\ visited' = visited \cup {drops[i].url}
    /\ canceled' = IF Len(drops) >= MaxDrops THEN TRUE ELSE canceled
    /\ position' = i
    /\ pc' = "start"
    /\ UNCHANGED <<i, drops, resets, nextPage, html, asked, done>>

Started ==
    /\ pc = "start"
    /\ pc' = IF canceled THEN "done" ELSE "load"
    /\ UNCHANGED <<i, drops, visited, position, resets, canceled, nextPage,
                   html, asked, done>>

\* Drop.Load.  The server may redirect to another URL, which becomes the URL of
\* the drop; a page that cannot be loaded ends the run.
Load ==
    /\ pc = "load"
    /\ \E u \in URLs :
          /\ asked' = Append(asked, [url |-> drops[i].url, got |-> u])
          /\ \/ drops' = SetDrop(i, u, "loaded") /\ pc' = "body"
             \/ drops' = SetDrop(i, u, "new") /\ pc' = "done"
    /\ UNCHANGED <<i, visited, position, resets, canceled, nextPage, html, done>>

\* Only HTML that can be parsed has a DOM to process.
Body ==
    /\ pc = "body"
    /\ pc' \in {"dom", "finish"}
    /\ UNCHANGED <<i, drops, visited, position, resets, canceled, nextPage,
                   html, asked, done>>

-----------------------------------------------------------------------------
(* The processors of StepDom that steer the run.                           *)

\* A mistake to catch: the position is put on the new drop instead of before it.
Restart_AtFirst(l) ==
    /\ Len(drops) = 1
    /\ drops' = <<NewDrop(l)>>
    /\ canceled' = IF resets >= MaxReset THEN TRUE ELSE canceled
    /\ resets' = resets + 1
    /\ position' = 1
    /\ pc' = "finish"
    /\ UNCHANGED <<i, visited, nextPage, html, asked, done>>

\* ResetPosition, after the drop was replaced: the processor ends the pass.
Restart(l) ==
    /\ Len(drops) = 1
    /\ drops' = <<NewDrop(l)>>
    /\ canceled' = IF resets >= MaxReset THEN TRUE ELSE canceled
    /\ resets' = resets + 1
    /\ position' = 0
    /\ pc' = "finish"
    /\ UNCHANGED <<i, visited, nextPage, html, asked, done>>

\* OriginalLinkProcessor, on the first page: the page says that it stands for
\* another one, which is extracted instead; it may be one visited before.
SwapOriginal ==
    /\ pc = "dom" /\ position = 1
    /\ \E l \in Links : Restart(l)

\* OriginalLinkProcessor: or only its URL is taken over.
OriginalURL ==
    /\ pc = "dom"
    /\ \/ /\ position = 1
          /\ \E l \in Links : drops' = SetDrop(1, SetURL[l], drops[1].state)
       \/ UNCHANGED drops
    /\ pc' = "links"
    /\ UNCHANGED <<i, visited, position, resets, canceled, nextPage, html,
                   asked, done>>

\* FindContentPage: the whole content is on a page that was not visited.  Visited
\* is asked for the link as it is written.  With more than one drop it cannot be
\* replaced, and the pass ends.
FindContentPage ==
    /\ pc = "links"
    /\ \/ \E l \in Links \ visited : Restart(l)
       \/ /\ \/ pc' = "next"
             \/ Len(drops) # 1 /\ Links \ visited # {} /\ pc' = "finish"
          /\ UNCHANGED <<i, drops, visited, position, resets, canceled,
                         nextPage, html, asked, done>>

\* FindNextPage: the page has a link to the next one, or none.
FindNextPage ==
    /\ pc = "next"
    /\ nextPage' \in Links \cup {nextPage}
    /\ pc' = "content"
    /\ UNCHANGED <<i, drops, visited, position, resets, canceled, html, asked, done>>

\* Readability either leaves a content to render or calls ResetContent, which
\* works on the drop at the message's position.
Content ==
    /\ pc = "content"
    /\ \/ UNCHANGED drops
       \/ drops' = SetDrop(position, drops[position].url, "empty")
    /\ pc' = "finish"
    /\ UNCHANGED <<i, visited, position, resets, canceled, nextPage, html,
                   asked, done>>

-----------------------------------------------------------------------------
(* The end of an iteration and the end of the run.                         *)

\* StepFinish, where GoToNextPage appends the next page, runs even if a
\* processor of StepDom canceled the run.  A processor can have changed the
\* position in the loop.
Finish ==
    /\ pc = "finish"
    /\ IF nextPage # None /\ nextPage \notin visited
       THEN drops' = Append(drops, NewDrop(nextPage)) /\ nextPage' = None
       ELSE UNCHANGED <<drops, nextPage>>
    /\ IF canceled THEN pc' = "done" /\ i' = i
                   ELSE pc' = "loop" /\ i' = position + 1
    /\ UNCHANGED <<visited, position, resets, canceled, html, asked, done>>

PostProcess ==
    /\ pc = "loop" /\ i > Len(drops)
    /\ html' = TRUE
    /\ pc' = "done"
    /\ UNCHANGED <<i, drops, visited, position, resets, canceled, nextPage,
                   asked, done>>

\* The deferred function, on every way out of Run.
Done ==
    /\ pc = "done"
    /\ done' = done + 1
    /\ pc' = "end"
    /\ UNCHANGED <<i, drops, visited, position, resets, canceled, nextPage,
                   html, asked>>

Next ==
    \/ Skip \/ Start \/ Started \/ Load \/ Body
    \/ SwapOriginal \/ OriginalURL \/ FindContentPage \/ FindNextPage
    \/ Content \/ Finish \/ PostProcess \/ Done

Spec == Init /\ [][Next]_vars

-----------------------------------------------------------------------------
(* Properties.                                                             *)

\* No URL is asked for twice, wherever the pages link to and however often the
\* run starts over.
AskedOnce ==
    \A j, k \in DOMAIN asked : asked[j].url = asked[k].url => j = k

\* "Don't let any page fool us into processing an unlimited number of pages"
\* (extract.go:363): both limits together bound the requests of a run.
WorkIsBounded == Len(asked) < MaxReset + MaxDrops

\* The content is never reset after the position was: ResetContent would take
\* the drop at index -1.
ContentHasDrop == pc = "content" => position \in DOMAIN drops

\* A run that was canceled asks for nothing any more; the passes that still
\* follow only end it.
CancelEnds == [][ canceled => asked' = asked ]_vars

\* The final HTML is put together when every page was processed, or skipped
\* because its URL was visited before.
NoPageIsLost ==
    html => \A k \in DOMAIN drops :
               drops[k].state # "new" \/ drops[k].url \in visited

\* Every run ends, and StepDone, which saves the bookmark, is processed once on
\* every way out.
RunEnds == <>(pc = "end" /\ done = 1)

=============================================================================
