--------------------------- MODULE ExtractionProofs ---------------------------
(* Proofs about a run of the extractor, for any set of URLs and any limits, *)
(* and about the archive that it makes, for any page.                       *)
EXTENDS Extraction, SequenceTheorems, TLAPS

-----------------------------------------------------------------------------
(* Types.                                                                  *)

LEMMA DropOf ==
  ASSUME NEW u \in URLs, NEW s \in PageStates
  PROVE  [url |-> u, state |-> s] \in Drops
  BY DEF Drops

LEMMA StatesAre ==
  "new" \in PageStates /\ "loaded" \in PageStates /\ "empty" \in PageStates
  BY DEF PageStates

LEMMA NewDropOf ==
  ASSUME NEW l \in Links
  PROVE  NewDrop(l) \in Drops
<1>1. SetURL[l] \in URLs
  BY ExtractAssumption
<1> QED
  BY <1>1, DropOf, StatesAre DEF NewDrop

LEMMA OneDrop ==
  ASSUME NEW d \in Drops
  PROVE  /\ <<d>> \in Seq(Drops) /\ <<d>> # <<>>
         /\ Len(<<d>>) = 1 /\ <<d>>[1] = d
  OBVIOUS

LEMMA LongerDrops ==
  ASSUME drops \in Seq(Drops), NEW d \in Drops
  PROVE  /\ Append(drops, d) \in Seq(Drops) /\ Append(drops, d) # <<>>
         /\ Len(Append(drops, d)) = Len(drops) + 1
         /\ \A j \in 1 .. Len(drops) : Append(drops, d)[j] = drops[j]
         /\ Append(drops, d)[Len(drops) + 1] = d
  BY AppendProperties

LEMMA OtherDrop ==
  ASSUME drops \in Seq(Drops), NEW k \in 1 .. Len(drops),
         NEW u \in URLs, NEW s \in PageStates
  PROVE  /\ SetDrop(k, u, s) \in Seq(Drops) /\ SetDrop(k, u, s) # <<>>
         /\ Len(SetDrop(k, u, s)) = Len(drops)
         /\ \A j \in 1 .. Len(drops) : SetDrop(k, u, s)[j] =
               IF j = k THEN [url |-> u, state |-> s] ELSE drops[j]
<1>1. [url |-> u, state |-> s] \in Drops
  BY DropOf
<1>2. Len(drops) \in Nat \ {0}
  BY LenProperties
<1> QED
  BY <1>1, <1>2, ExceptSeq, EmptySeq DEF SetDrop

\* The same, for the sequence that results.
LEMMA LoadedDrop ==
  ASSUME drops \in Seq(Drops), NEW k \in 1 .. Len(drops), NEW u \in URLs,
         NEW s \in PageStates, drops' = SetDrop(k, u, s)
  PROVE  /\ drops' \in Seq(Drops) /\ drops' # <<>>
         /\ Len(drops') = Len(drops)
         /\ drops'[k].state = s
         /\ \A j \in 1 .. Len(drops) : j # k => drops'[j] = drops[j]
<1>1. /\ SetDrop(k, u, s) \in Seq(Drops) /\ SetDrop(k, u, s) # <<>>
      /\ Len(SetDrop(k, u, s)) = Len(drops)
      /\ \A j \in 1 .. Len(drops) : SetDrop(k, u, s)[j] =
            IF j = k THEN [url |-> u, state |-> s] ELSE drops[j]
  BY OtherDrop
<1> HIDE DEF SetDrop
<1>2. SetDrop(k, u, s)[k] = [url |-> u, state |-> s]
  BY <1>1
<1>3. \A j \in 1 .. Len(drops) : j # k => SetDrop(k, u, s)[j] = drops[j]
  BY <1>1
<1> QED
  BY <1>1, <1>2, <1>3

LEMMA ADrop ==
  ASSUME drops \in Seq(Drops), NEW k \in 1 .. Len(drops)
  PROVE  drops[k].url \in URLs /\ drops[k].state \in PageStates
<1>1. drops[k] \in Drops
  BY ElementOfSeq
<1> QED
  BY <1>1 DEF Drops

LEMMA MoreAsked ==
  ASSUME TypeOK, NEW u \in URLs, NEW g \in URLs
  PROVE  /\ Append(asked, [url |-> u, got |-> g]) \in Seq([url : URLs, got : URLs])
         /\ Len(Append(asked, [url |-> u, got |-> g])) = Len(asked) + 1
  BY AppendProperties DEF TypeOK

LEMMA RestartFacts ==
  ASSUME NEW l \in Links, Restart(l), resets \in Nat, MaxReset \in Nat,
         canceled \in BOOLEAN, ~ canceled, resets <= MaxReset
  PROVE  /\ drops' \in Seq(Drops) /\ drops' # <<>> /\ Len(drops') = 1
         /\ resets' \in 0 .. MaxReset + 1 /\ canceled' \in BOOLEAN
         /\ ~ canceled' => resets' <= MaxReset
<1>1. drops' \in Seq(Drops) /\ drops' # <<>> /\ Len(drops') = 1
  BY NewDropOf, OneDrop DEF Restart
<1>2. /\ resets' = resets + 1
      /\ canceled' = IF resets >= MaxReset THEN TRUE ELSE canceled
  BY DEF Restart
<1>3. canceled = FALSE
  OBVIOUS
<1>4. resets' \in 0 .. MaxReset + 1
  BY <1>2
<1>5. canceled' \in BOOLEAN
  BY <1>2
<1>6. ~ canceled' => resets' <= MaxReset
  <2>1. CASE resets >= MaxReset
    <3>1. canceled'
      BY <1>2, <2>1
    <3> QED
      BY <3>1
  <2>2. CASE ~ (resets >= MaxReset)
    BY <1>2, <2>2
  <2> QED
    BY <2>1, <2>2
<1> QED
  BY <1>1, <1>4, <1>5, <1>6

\* What the type invariant needs to be inductive: where the counters are at
\* each stage of the loop.
FlowInv ==
    /\ pc \in {"start", "load", "body", "dom", "links", "next", "content"}
       => position = i /\ i <= Len(drops)
    /\ pc = "finish" => i <= Len(drops) /\ position \in {0, i}
    /\ (pc = "finish" /\ position = 0) => Len(drops) = 1
    /\ pc \in {"load", "body", "dom", "links", "next", "content", "finish"}
       => Len(drops) < MaxDrops
    /\ (pc = "start" /\ ~ canceled) => Len(drops) < MaxDrops
    /\ canceled => pc \in {"start", "finish", "done", "end"}
    /\ ~ canceled => resets <= MaxReset

LEMMA FlowInit == Init => TypeOK /\ FlowInv
<1> SUFFICES ASSUME Init PROVE TypeOK /\ FlowInv
  OBVIOUS
<1>1. PICK l \in Links : drops = <<NewDrop(l)>>
  BY DEF Init
<1>2. NewDrop(l) \in Drops
  BY NewDropOf
<1>3. drops \in Seq(Drops) /\ drops # <<>> /\ Len(drops) = 1
  BY <1>1, <1>2, OneDrop
<1>4. asked \in Seq([url : URLs, got : URLs])
  BY EmptySeq DEF Init
<1>5. /\ pc \in Stages /\ i \in Nat \ {0} /\ position \in Nat
      /\ visited \subseteq URLs /\ resets \in 0 .. MaxReset + 1
  BY ExtractAssumption DEF Init, Stages
<1>6. /\ canceled \in BOOLEAN /\ html \in BOOLEAN
      /\ nextPage \in Links \cup {None} /\ done \in Nat
  BY DEF Init
<1>7. TypeOK
  BY <1>3, <1>4, <1>5, <1>6, ExtractAssumption DEF TypeOK
<1> QED
  BY <1>3, <1>7, ExtractAssumption DEF Init, FlowInv

LEMMA TypeStep ==
    TypeOK /\ FlowInv /\ [Next]_vars => TypeOK'
<1> SUFFICES ASSUME TypeOK, FlowInv, [Next]_vars
              PROVE  TypeOK'
  OBVIOUS
<1> USE ExtractAssumption
      DEF TypeOK, FlowInv, Stages
<1>1. CASE Skip
  BY <1>1 DEF Skip
<1>2. CASE Start
  <2>1. drops[i].url \in URLs
    BY <1>2, ADrop DEF Start
  <2>2. canceled' \in BOOLEAN
    BY <1>2 DEF Start
  <2> QED
    BY <1>2, <2>1, <2>2 DEF Start
<1>3. CASE Started \/ Body
  BY <1>3 DEF Started, Body
<1>4. CASE Load
  <2>1. PICK u \in URLs :
          /\ asked' = Append(asked, [url |-> drops[i].url, got |-> u])
          /\ \/ drops' = SetDrop(i, u, "loaded") /\ pc' = "body"
             \/ drops' = SetDrop(i, u, "new") /\ pc' = "done"
    BY <1>4 DEF Load
  <2>2. /\ i \in 1 .. Len(drops) /\ drops[i].url \in URLs
        /\ drops \in Seq(Drops)
    BY <1>4, ADrop DEF Load
  <2>3. asked' \in Seq([url : URLs, got : URLs])
    BY <2>1, <2>2, MoreAsked
  <2>4. drops' \in Seq(Drops) /\ drops' # <<>> /\ Len(drops') = Len(drops)
    <3>1. CASE drops' = SetDrop(i, u, "loaded")
      BY <2>2, <3>1, LoadedDrop, StatesAre
    <3>2. CASE drops' = SetDrop(i, u, "new")
      BY <2>2, <3>2, LoadedDrop, StatesAre
    <3> QED
      BY <2>1, <3>1, <3>2
  <2> QED
    BY <1>4, <2>1, <2>3, <2>4 DEF Load
<1>5. CASE SwapOriginal
  <2>1. PICK l \in Links : Restart(l)
    BY <1>5 DEF SwapOriginal
  <2>2. pc = "dom" /\ ~ canceled /\ resets \in Nat /\ resets <= MaxReset
    BY <1>5 DEF SwapOriginal
  <2>3. /\ drops' \in Seq(Drops) /\ drops' # <<>> /\ Len(drops') = 1
        /\ resets' \in 0 .. MaxReset + 1 /\ canceled' \in BOOLEAN
        /\ ~ canceled' => resets' <= MaxReset
    BY <2>1, <2>2, RestartFacts
  <2> QED
    BY <2>1, <2>2, <2>3 DEF Restart
<1>6. CASE OriginalURL
  <2>1. CASE UNCHANGED drops
    BY <1>6, <2>1 DEF OriginalURL
  <2>2. ASSUME position = 1, NEW u \in URLs,
               drops' = SetDrop(1, u, drops[1].state)
        PROVE  TypeOK'
    <3>1. /\ 1 \in 1 .. Len(drops) /\ drops \in Seq(Drops)
          /\ drops[1].state \in PageStates
      BY <1>6, <2>2, ADrop DEF OriginalURL
    <3>2. drops' \in Seq(Drops) /\ drops' # <<>> /\ Len(drops') = Len(drops)
      BY <2>2, <3>1, LoadedDrop
    <3> QED
      BY <1>6, <2>2, <3>2 DEF OriginalURL
  <2>3. ASSUME NEW l \in Links PROVE SetURL[l] \in URLs
    OBVIOUS
  <2> QED
    BY <1>6, <2>1, <2>2, <2>3 DEF OriginalURL
<1>7. CASE FindContentPage
  <2>1. CASE /\ pc' = "next" \/ pc' = "finish"
             /\ pc = "links"
             /\ UNCHANGED <<i, drops, visited, position, resets, canceled,
                            nextPage, html, asked, done>>
    BY <2>1
  <2>2. ASSUME NEW l \in Links, Restart(l) PROVE TypeOK'
    <3>1. pc = "links" /\ ~ canceled /\ resets \in Nat /\ resets <= MaxReset
      BY <1>7 DEF FindContentPage
    <3>2. /\ drops' \in Seq(Drops) /\ drops' # <<>> /\ Len(drops') = 1
          /\ resets' \in 0 .. MaxReset + 1 /\ canceled' \in BOOLEAN
          /\ ~ canceled' => resets' <= MaxReset
      BY <2>2, <3>1, RestartFacts
    <3> QED
      BY <2>2, <3>1, <3>2 DEF Restart
  <2>3. pc = "links"
    BY <1>7 DEF FindContentPage
  <2> QED
    BY <1>7, <2>1, <2>2, <2>3 DEF FindContentPage
<1>8. CASE FindNextPage
  BY <1>8 DEF FindNextPage
<1>9. CASE Content
  <2>1. CASE UNCHANGED drops
    BY <1>9, <2>1 DEF Content
  <2>2. CASE drops' = SetDrop(position, drops[position].url, "empty")
    <3>1. /\ drops \in Seq(Drops) /\ position \in 1 .. Len(drops)
          /\ drops[position].url \in URLs
      BY <1>9, ADrop DEF Content
    <3>2. drops' \in Seq(Drops) /\ drops' # <<>> /\ Len(drops') = Len(drops)
      BY <3>1, <2>2, LoadedDrop, StatesAre
    <3> QED
      BY <1>9, <3>2 DEF Content
  <2> QED
    BY <1>9, <2>1, <2>2 DEF Content
<1>10. CASE Finish
  <2>1. CASE UNCHANGED <<drops, nextPage>>
    BY <1>10, <2>1 DEF Finish
  <2>2. CASE /\ nextPage # None /\ nextPage' = None
             /\ drops' = Append(drops, NewDrop(nextPage))
    <3>1. /\ drops' \in Seq(Drops) /\ drops' # <<>>
          /\ Len(drops') = Len(drops) + 1
      BY <2>2, NewDropOf, LongerDrops
    <3> QED
      BY <1>10, <2>2, <3>1 DEF Finish
  <2> QED
    BY <1>10, <2>1, <2>2 DEF Finish
<1>11. CASE PostProcess \/ Done
  <2>1. CASE PostProcess
    BY <2>1 DEF PostProcess
  <2>2. CASE Done
    BY <2>2 DEF Done
  <2> QED
    BY <1>11, <2>1, <2>2
<1>12. CASE UNCHANGED vars
  BY <1>12 DEF vars
<1> QED
  BY <1>1, <1>2, <1>3, <1>4, <1>5, <1>6, <1>7, <1>8, <1>9, <1>10, <1>11,
     <1>12
  DEF Next

LEMMA FlowStep ==
    TypeOK /\ FlowInv /\ [Next]_vars => FlowInv'
<1> SUFFICES ASSUME TypeOK, FlowInv, [Next]_vars
              PROVE  FlowInv'
  OBVIOUS
<1> USE ExtractAssumption
      DEF TypeOK, FlowInv
<1>1. CASE Skip
  BY <1>1 DEF Skip
<1>2. CASE Start
  <2>1. drops[i].url \in URLs
    BY <1>2, ADrop DEF Start
  <2>2. canceled' \in BOOLEAN
    BY <1>2 DEF Start
  <2> QED
    BY <1>2, <2>1, <2>2 DEF Start
<1>3. CASE Started \/ Body
  BY <1>3 DEF Started, Body
<1>4. CASE Load
  <2>1. PICK u \in URLs :
          /\ asked' = Append(asked, [url |-> drops[i].url, got |-> u])
          /\ \/ drops' = SetDrop(i, u, "loaded") /\ pc' = "body"
             \/ drops' = SetDrop(i, u, "new") /\ pc' = "done"
    BY <1>4 DEF Load
  <2>2. /\ i \in 1 .. Len(drops) /\ drops[i].url \in URLs
        /\ drops \in Seq(Drops)
    BY <1>4, ADrop DEF Load
  <2>3. asked' \in Seq([url : URLs, got : URLs])
    BY <2>1, <2>2, MoreAsked
  <2>4. drops' \in Seq(Drops) /\ drops' # <<>> /\ Len(drops') = Len(drops)
    <3>1. CASE drops' = SetDrop(i, u, "loaded")
      BY <2>2, <3>1, LoadedDrop, StatesAre
    <3>2. CASE drops' = SetDrop(i, u, "new")
      BY <2>2, <3>2, LoadedDrop, StatesAre
    <3> QED
      BY <2>1, <3>1, <3>2
  <2> QED
    BY <1>4, <2>1, <2>3, <2>4 DEF Load
<1>5. CASE SwapOriginal
  <2>1. PICK l \in Links : Restart(l)
    BY <1>5 DEF SwapOriginal
  <2>2. pc = "dom" /\ ~ canceled /\ resets \in Nat /\ resets <= MaxReset
    BY <1>5 DEF SwapOriginal
  <2>3. /\ drops' \in Seq(Drops) /\ drops' # <<>> /\ Len(drops') = 1
        /\ resets' \in 0 .. MaxReset + 1 /\ canceled' \in BOOLEAN
        /\ ~ canceled' => resets' <= MaxReset
    BY <2>1, <2>2, RestartFacts
  <2> QED
    BY <2>1, <2>2, <2>3 DEF Restart
<1>6. CASE OriginalURL
  <2>1. CASE UNCHANGED drops
    BY <1>6, <2>1 DEF OriginalURL
  <2>2. ASSUME position = 1, NEW u \in URLs,
               drops' = SetDrop(1, u, drops[1].state)
        PROVE  FlowInv'
    <3>1. /\ 1 \in 1 .. Len(drops) /\ drops \in Seq(Drops)
          /\ drops[1].state \in PageStates
      BY <1>6, <2>2, ADrop DEF OriginalURL
    <3>2. drops' \in Seq(Drops) /\ drops' # <<>> /\ Len(drops') = Len(drops)
      BY <2>2, <3>1, LoadedDrop
    <3> QED
      BY <1>6, <2>2, <3>2 DEF OriginalURL
  <2>3. ASSUME NEW l \in Links PROVE SetURL[l] \in URLs
    OBVIOUS
  <2> QED
    BY <1>6, <2>1, <2>2, <2>3 DEF OriginalURL
<1>7. CASE FindContentPage
  <2>1. CASE /\ pc' = "next" \/ pc' = "finish"
             /\ pc = "links"
             /\ UNCHANGED <<i, drops, visited, position, resets, canceled,
                            nextPage, html, asked, done>>
    BY <2>1
  <2>2. ASSUME NEW l \in Links, Restart(l) PROVE FlowInv'
    <3>1. pc = "links" /\ ~ canceled /\ resets \in Nat /\ resets <= MaxReset
      BY <1>7 DEF FindContentPage
    <3>2. /\ drops' \in Seq(Drops) /\ drops' # <<>> /\ Len(drops') = 1
          /\ resets' \in 0 .. MaxReset + 1 /\ canceled' \in BOOLEAN
          /\ ~ canceled' => resets' <= MaxReset
      BY <2>2, <3>1, RestartFacts
    <3> QED
      BY <2>2, <3>1, <3>2 DEF Restart
  <2>3. pc = "links"
    BY <1>7 DEF FindContentPage
  <2> QED
    BY <1>7, <2>1, <2>2, <2>3 DEF FindContentPage
<1>8. CASE FindNextPage
  BY <1>8 DEF FindNextPage
<1>9. CASE Content
  <2>1. CASE UNCHANGED drops
    BY <1>9, <2>1 DEF Content
  <2>2. CASE drops' = SetDrop(position, drops[position].url, "empty")
    <3>1. /\ drops \in Seq(Drops) /\ position \in 1 .. Len(drops)
          /\ drops[position].url \in URLs
      BY <1>9, ADrop DEF Content
    <3>2. drops' \in Seq(Drops) /\ drops' # <<>> /\ Len(drops') = Len(drops)
      BY <3>1, <2>2, LoadedDrop, StatesAre
    <3> QED
      BY <1>9, <3>2 DEF Content
  <2> QED
    BY <1>9, <2>1, <2>2 DEF Content
<1>10. CASE Finish
  <2>1. CASE UNCHANGED <<drops, nextPage>>
    BY <1>10, <2>1 DEF Finish
  <2>2. CASE /\ nextPage # None /\ nextPage' = None
             /\ drops' = Append(drops, NewDrop(nextPage))
    <3>1. /\ drops' \in Seq(Drops) /\ drops' # <<>>
          /\ Len(drops') = Len(drops) + 1
      BY <2>2, NewDropOf, LongerDrops
    <3> QED
      BY <1>10, <2>2, <3>1 DEF Finish
  <2> QED
    BY <1>10, <2>1, <2>2 DEF Finish
<1>11. CASE PostProcess \/ Done
  <2>1. CASE PostProcess
    BY <2>1 DEF PostProcess
  <2>2. CASE Done
    BY <2>2 DEF Done
  <2> QED
    BY <1>11, <2>1, <2>2
<1>12. CASE UNCHANGED vars
  BY <1>12 DEF vars
<1> QED
  BY <1>1, <1>2, <1>3, <1>4, <1>5, <1>6, <1>7, <1>8, <1>9, <1>10, <1>11,
     <1>12
  DEF Next

\* Every variable keeps its range: the drops and the restarts stay within the
\* limits of the code.
THEOREM TypeCorrect == Spec => []TypeOK
<1>1. Init => TypeOK /\ FlowInv
  BY FlowInit
<1>2. TypeOK /\ FlowInv /\ [Next]_vars => (TypeOK /\ FlowInv)'
  BY TypeStep, FlowStep
<1> QED
  BY <1>1, <1>2, PTL DEF Spec

-----------------------------------------------------------------------------
(* What the requests and the drops have to do with the loop.               *)

\* What was asked for was visited, and what is about to be asked for was not
\* asked for before.
AskedInv ==
    /\ AskedOnce
    /\ \A j \in DOMAIN asked : asked[j].url \in visited
    /\ pc \in {"start", "load"} =>
          /\ drops[i].url \in visited
          /\ \A j \in DOMAIN asked : asked[j].url # drops[i].url

LEMMA AskedStep ==
    TypeOK /\ FlowInv /\ AskedInv /\ [Next]_vars => AskedInv'
<1> SUFFICES ASSUME TypeOK, FlowInv, AskedInv, [Next]_vars
              PROVE  AskedInv'
  OBVIOUS
<1> USE ExtractAssumption
      DEF TypeOK, FlowInv, AskedInv, AskedOnce
<1>1. CASE Skip
  BY <1>1 DEF Skip
<1>2. CASE Start
  BY <1>2 DEF Start
<1>3. CASE Started \/ Body
  BY <1>3 DEF Started, Body
<1>4. CASE Load
  BY <1>4 DEF Load
<1>5. CASE SwapOriginal
  BY <1>5 DEF SwapOriginal, Restart
<1>6. CASE OriginalURL
  BY <1>6 DEF OriginalURL
<1>7. CASE FindContentPage
  BY <1>7 DEF FindContentPage, Restart
<1>8. CASE FindNextPage
  BY <1>8 DEF FindNextPage
<1>9. CASE Content
  BY <1>9 DEF Content
<1>10. CASE Finish
  BY <1>10 DEF Finish
<1>11. CASE PostProcess \/ Done
  BY <1>11 DEF PostProcess, Done
<1>12. CASE UNCHANGED vars
  BY <1>12 DEF vars
<1> QED
  BY <1>1, <1>2, <1>3, <1>4, <1>5, <1>6, <1>7, <1>8, <1>9, <1>10, <1>11,
     <1>12
  DEF Next

\* Each request is paid by a restart or by a drop.
WorkInv ==
    /\ WorkIsBounded
    /\ pc \in {"loop", "start", "load"} => Len(asked) + 1 <= resets + i
    /\ pc \in {"body", "dom", "links", "next", "content", "finish"}
       => Len(asked) <= resets + position

LEMMA WorkStep ==
    TypeOK /\ FlowInv /\ WorkInv /\ [Next]_vars => WorkInv'
<1> SUFFICES ASSUME TypeOK, FlowInv, WorkInv, [Next]_vars
              PROVE  WorkInv'
  OBVIOUS
<1> USE ExtractAssumption
      DEF TypeOK, FlowInv, WorkInv, WorkIsBounded
<1>1. CASE Skip
  BY <1>1 DEF Skip
<1>2. CASE Start
  BY <1>2 DEF Start
<1>3. CASE Started \/ Body
  BY <1>3 DEF Started, Body
<1>4. CASE Load
  BY <1>4 DEF Load
<1>5. CASE SwapOriginal
  BY <1>5 DEF SwapOriginal, Restart
<1>6. CASE OriginalURL
  BY <1>6 DEF OriginalURL
<1>7. CASE FindContentPage
  <2>1. CASE /\ pc' = "next" \/ pc' = "finish"
             /\ pc = "links"
             /\ UNCHANGED <<i, drops, visited, position, resets, canceled,
                            nextPage, html, asked, done>>
    BY <2>1
  <2>2. ASSUME NEW l \in Links, Restart(l), pc = "links" PROVE WorkInv'
    BY <2>2 DEF Restart
  <2>3. pc = "links"
    BY <1>7 DEF FindContentPage
  <2> QED
    BY <1>7, <2>1, <2>2, <2>3 DEF FindContentPage
<1>8. CASE FindNextPage
  BY <1>8 DEF FindNextPage
<1>9. CASE Content
  BY <1>9 DEF Content
<1>10. CASE Finish
  BY <1>10 DEF Finish
<1>11. CASE PostProcess \/ Done
  BY <1>11 DEF PostProcess, Done
<1>12. CASE UNCHANGED vars
  BY <1>12 DEF vars
<1> QED
  BY <1>1, <1>2, <1>3, <1>4, <1>5, <1>6, <1>7, <1>8, <1>9, <1>10, <1>11,
     <1>12
  DEF Next

\* The drops behind the counter were processed or skipped.
Processed(k) == drops[k].state # "new" \/ drops[k].url \in visited

PagesInv ==
    /\ pc \in {"loop", "start", "load", "body", "dom", "links", "next", "content"}
       => \A k \in 1 .. Len(drops) : k < i => Processed(k)
    /\ pc = "finish"
       => \A k \in 1 .. Len(drops) : k <= position => Processed(k)
    /\ pc \in {"body", "dom", "links", "next", "content"} => drops[i].state # "new"
    /\ html => pc \in {"done", "end"}
    /\ NoPageIsLost

LEMMA PagesStep ==
    TypeOK /\ FlowInv /\ PagesInv /\ [Next]_vars => PagesInv'
<1> SUFFICES ASSUME TypeOK, FlowInv, PagesInv, [Next]_vars
              PROVE  PagesInv'
  OBVIOUS
<1> USE ExtractAssumption
      DEF TypeOK, FlowInv, PagesInv, Processed, NoPageIsLost
<1>1. CASE Skip
  BY <1>1 DEF Skip
<1>2. CASE Start
  BY <1>2 DEF Start
<1>3. CASE Started \/ Body
  BY <1>3 DEF Started, Body
<1>4. CASE Load
  <2>1. PICK u \in URLs :
          \/ drops' = SetDrop(i, u, "loaded") /\ pc' = "body"
          \/ drops' = SetDrop(i, u, "new") /\ pc' = "done"
    BY <1>4 DEF Load
  <2>2. i \in 1 .. Len(drops) /\ drops \in Seq(Drops)
    BY <1>4 DEF Load
  <2>3. CASE drops' = SetDrop(i, u, "loaded") /\ pc' = "body"
    <3>1. /\ Len(drops') = Len(drops)
          /\ drops'[i].state = "loaded"
          /\ \A j \in 1 .. Len(drops) : j # i => drops'[j] = drops[j]
      BY <2>2, <2>3, LoadedDrop, StatesAre
    <3> QED
      BY <1>4, <2>2, <2>3, <3>1 DEF Load
  <2>4. CASE drops' = SetDrop(i, u, "new") /\ pc' = "done"
    <3>1. /\ Len(drops') = Len(drops)
          /\ \A j \in 1 .. Len(drops) : j # i => drops'[j] = drops[j]
      BY <2>2, <2>4, LoadedDrop, StatesAre
    <3> QED
      BY <1>4, <2>2, <2>4, <3>1 DEF Load
  <2> QED
    BY <2>1, <2>3, <2>4
<1>5. CASE SwapOriginal
  BY <1>5 DEF SwapOriginal, Restart
<1>6. CASE OriginalURL
  <2>1. CASE UNCHANGED drops
    BY <1>6, <2>1 DEF OriginalURL
  <2>2. ASSUME position = 1, NEW u \in URLs,
               drops' = SetDrop(1, u, drops[1].state)
        PROVE  PagesInv'
    <3>1. /\ 1 \in 1 .. Len(drops) /\ drops \in Seq(Drops)
          /\ drops[1].state \in PageStates
      BY <1>6, <2>2, ADrop DEF OriginalURL
    <3>2. /\ Len(drops') = Len(drops)
          /\ drops'[1].state = drops[1].state
          /\ \A j \in 1 .. Len(drops) : j # 1 => drops'[j] = drops[j]
      BY <2>2, <3>1, LoadedDrop, StatesAre
    <3> QED
      BY <1>6, <2>2, <3>2 DEF OriginalURL
  <2>3. ASSUME NEW l \in Links PROVE SetURL[l] \in URLs
    OBVIOUS
  <2> QED
    BY <1>6, <2>1, <2>2, <2>3 DEF OriginalURL
<1>7. CASE FindContentPage
  <2>1. CASE /\ pc' = "next" \/ pc' = "finish"
             /\ pc = "links"
             /\ UNCHANGED <<i, drops, visited, position, resets, canceled,
                            nextPage, html, asked, done>>
    BY <2>1
  <2>2. ASSUME NEW l \in Links, Restart(l), pc = "links" PROVE PagesInv'
    BY <2>2 DEF Restart
  <2>3. pc = "links"
    BY <1>7 DEF FindContentPage
  <2> QED
    BY <1>7, <2>1, <2>2, <2>3 DEF FindContentPage
<1>8. CASE FindNextPage
  BY <1>8 DEF FindNextPage
<1>9. CASE Content
  <2>1. CASE UNCHANGED drops
    BY <1>9, <2>1 DEF Content
  <2>2. CASE drops' = SetDrop(position, drops[position].url, "empty")
    <3>1. /\ position \in 1 .. Len(drops) /\ drops \in Seq(Drops)
          /\ drops[position].url \in URLs
      BY <1>9, ADrop DEF Content
    <3>2. /\ Len(drops') = Len(drops)
          /\ drops'[position].state = "empty"
          /\ \A j \in 1 .. Len(drops) : j # position => drops'[j] = drops[j]
      BY <2>2, <3>1, LoadedDrop, StatesAre
    <3> QED
      BY <1>9, <2>2, <3>2 DEF Content
  <2> QED
    BY <1>9, <2>1, <2>2 DEF Content
<1>10. CASE Finish
  <2>1. CASE UNCHANGED <<drops, nextPage>>
    BY <1>10, <2>1 DEF Finish
  <2>2. CASE /\ nextPage # None /\ nextPage' = None
             /\ drops' = Append(drops, NewDrop(nextPage))
    <3>1. NewDrop(nextPage) \in Drops /\ drops \in Seq(Drops)
      BY <2>2, NewDropOf
    <3>2. /\ Len(drops') = Len(drops) + 1
          /\ \A j \in 1 .. Len(drops) : drops'[j] = drops[j]
      BY <2>2, <3>1, LongerDrops
    <3>3. position <= Len(drops) /\ Len(drops) \in Nat /\ pc = "finish"
      BY <1>10, <3>1, LenProperties DEF Finish
    <3>4. \A k \in 1 .. Len(drops') : k <= position => Processed(k)'
      BY <1>10, <3>2, <3>3 DEF Finish
    <3> QED
      BY <1>10, <2>2, <3>3, <3>4 DEF Finish
  <2> QED
    BY <1>10, <2>1, <2>2 DEF Finish
<1>11. CASE PostProcess \/ Done
  BY <1>11 DEF PostProcess, Done
<1>12. CASE UNCHANGED vars
  BY <1>12 DEF vars
<1> QED
  BY <1>1, <1>2, <1>3, <1>4, <1>5, <1>6, <1>7, <1>8, <1>9, <1>10, <1>11,
     <1>12
  DEF Next

IInv == TypeOK /\ FlowInv /\ AskedInv /\ WorkInv /\ PagesInv

LEMMA InvInit == Init => IInv
<1> SUFFICES ASSUME Init PROVE IInv
  OBVIOUS
<1>1. TypeOK /\ FlowInv
  BY FlowInit
<1>2. /\ pc = "loop" /\ i = 1 /\ asked = <<>> /\ Len(asked) = 0
      /\ DOMAIN asked = {} /\ resets = 0 /\ html = FALSE
  BY EmptySeq DEF Init
<1>3. AskedInv
  BY <1>2 DEF AskedInv, AskedOnce
<1>4. WorkInv
  BY <1>2, ExtractAssumption DEF WorkInv, WorkIsBounded
<1>5. PagesInv
  BY <1>1, <1>2, LenProperties DEF TypeOK, PagesInv, NoPageIsLost
<1> QED
  BY <1>1, <1>3, <1>4, <1>5 DEF IInv

LEMMA Inductive == IInv /\ [Next]_vars => IInv'
  BY TypeStep, FlowStep, AskedStep, WorkStep, PagesStep DEF IInv

\* No URL is asked for twice: Visited holds what was asked for across every
\* restart and every next page.
THEOREM AskOnce == Spec => []AskedOnce
<1>1. IInv => AskedOnce
  BY DEF IInv, AskedInv
<1> QED
  BY InvInit, Inductive, <1>1, PTL DEF Spec

\* However the pages link to each other, the limits on restarts and on drops
\* together bound the requests of a run.
THEOREM WorkBounded == Spec => []WorkIsBounded
<1>1. IInv => WorkIsBounded
  BY DEF IInv, WorkInv
<1> QED
  BY InvInit, Inductive, <1>1, PTL DEF Spec

\* The content of a page is only looked at while the position of the message
\* names a drop.
THEOREM ContentSafe == Spec => []ContentHasDrop
<1>1. IInv => ContentHasDrop
  <2> SUFFICES ASSUME IInv, pc = "content" PROVE position \in DOMAIN drops
    BY DEF ContentHasDrop
  <2>1. position = i /\ i <= Len(drops) /\ i \in Nat \ {0} /\ drops \in Seq(Drops)
    BY DEF IInv, FlowInv, TypeOK
  <2> QED
    BY <2>1, LenProperties
<1> QED
  BY InvInit, Inductive, <1>1, PTL DEF Spec

\* When the final HTML is put together, every page was loaded or its URL was
\* visited before.
THEOREM PagesSafe == Spec => []NoPageIsLost
<1>1. IInv => NoPageIsLost
  BY DEF IInv, PagesInv
<1> QED
  BY InvInit, Inductive, <1>1, PTL DEF Spec

\* A canceled run asks for nothing any more.
THEOREM CancelSafe == Spec => CancelEnds
<1>1. IInv /\ [Next]_vars => [canceled => asked' = asked]_vars
  <2> SUFFICES ASSUME IInv, Next, canceled PROVE asked' = asked
    BY DEF vars
  <2>1. pc # "load"
    BY DEF IInv, FlowInv
  <2> QED
    BY <2>1 DEF Next, Skip, Start, Started, Load, Body, SwapOriginal, Restart,
       OriginalURL, FindContentPage, FindNextPage, Content, Finish,
       PostProcess, Done
<1> QED
  BY InvInit, Inductive, <1>1, PTL DEF Spec, CancelEnds

-----------------------------------------------------------------------------
(* The archive.  An element waits only for one that fetches the same URL,  *)
(* so all who share an answer can be named: of them, only one that saves,  *)
(* or an icon, takes the body from the others.                             *)

\* Where the goroutine of an element is before it joins a fetch, while one is
\* under way for it, and when it was answered.
Before == {"choose", "look", "join"}
Leading == {"acquire", "fetch"}
Answered == {"forget", "lock", "save", "copy", "close", "done"}

ArchiveTypeOK ==
    /\ phase \in {"best", "nodes", "done", "failed"}
    /\ known \in [Urls -> Archive!Kinds \cup {"no", "saved"}]
    /\ url \in [Nodes -> Urls \cup {None}]
    /\ ref \in [Nodes -> {"remote", "local", "page", "gone"}]
    /\ step \in [Nodes -> Before \cup Leading \cup {"wait"} \cup Answered]
    /\ flight \in [Urls -> Nodes \cup {None}]
    /\ from \in [Nodes -> Nodes \cup {None}]
    /\ answer \in [Nodes -> Archive!Kinds \cup {None}]
    /\ unread \in [Nodes -> BOOLEAN]
    /\ slots \in Nat
    /\ lock \in Nodes \cup {None}
    /\ entries \in [Urls -> Nat]
    /\ failed \in BOOLEAN /\ broken \in BOOLEAN /\ index \in BOOLEAN

\* The images are chosen before any goroutine starts; an element that is left
\* wants one of its sources.
StageInv ==
    /\ phase = "best" => \A n \in Nodes : step[n] \in {"choose", "look", "done"}
    /\ phase # "best" => \A n \in Nodes : step[n] # "choose"
    /\ phase \in {"done", "failed"} => \A n \in Nodes : step[n] = "done"
    /\ phase = "done" => ~failed
    /\ phase = "failed" => failed
    /\ \A n \in Nodes : step[n] = "choose" => n \in Images
    /\ \A n \in Nodes : step[n] \notin {"choose", "done"} => url[n] \in Sources[n]

\* Who waits does so for an element that fetches the same URL; who was answered
\* has the answer of one that was answered.
FlightInv ==
    /\ \A u \in Urls : flight[u] # None => url[flight[u]] = u /\ step[flight[u]] \in Leading
    /\ \A n \in Nodes :
          /\ step[n] \in Before => from[n] = None
          /\ step[n] \in Before \cup Leading \cup {"wait"} => answer[n] = None
          /\ step[n] \in Leading => from[n] = n
          /\ step[n] = "wait" => from[n] # None /\ step[from[n]] \in Leading
          /\ step[n] \in Answered \ {"done"} => from[n] # None
          /\ step[n] \in Answered /\ from[n] # None =>
                step[from[n]] \in Answered /\ answer[from[n]] # None
          /\ from[n] # None =>
                from[from[n]] = from[n] /\ url[n] \in Urls /\ url[from[n]] = url[n]
          /\ step[n] \in {"lock", "save", "copy"} => answer[from[n]] = "image"
          /\ answer[n] = "image" => url[n] # Page

\* The lock is with the element that saves.
LockInv == \A n \in Nodes : step[n] \in {"save", "copy"} <=> lock = n

\* An entry is made by the element that copies, or belongs to what is saved.
EntriesInv ==
    /\ phase = "best" => ~failed /\ \A u \in Urls : known[u] # "saved"
    /\ \A n \in Nodes : step[n] = "copy" =>
          /\ known[url[n]] # "saved" /\ (~failed => entries[url[n]] = 1)
          /\ url[n] \in Copied /\ ~ Archive!IsIcon(n)
    /\ ~failed => \A u \in Urls :
          /\ known[u] = "saved" => entries[u] = 1
          /\ known[u] # "saved" /\ (\A n \in Nodes : step[n] = "copy" => url[n] # u) =>
                entries[u] = 0

\* What is local in the document was saved, and the collector knows the document
\* only as the source of an image.
LocalInv ==
    /\ \A n \in Nodes : ref[n] = "local" =>
          step[n] \in {"close", "done"} /\ url[n] \in Urls /\ known[url[n]] = "saved"
    /\ known[Page] = "no" \/ \E n \in Images : Page \in Sources[n]
    /\ phase = "done" => index = (known[Page] = "no")

\* A body that is gone was saved, or an icon closed it; and an icon is all that
\* closes the body of an image that can be kept and is not saved.
BodyInv ==
    ~failed => \A n \in Nodes :
        /\ from[n] = n /\ answer[n] = "image" /\ url[n] \in Copied /\ ~unread[n] =>
              \/ known[url[n]] = "saved"
              \/ url[n] \notin Cached /\ \E m \in Nodes : from[m] = n /\ Archive!IsIcon(m)
        /\ step[n] = "close" /\ answer[from[n]] = "image" /\ url[n] \in Copied =>
              known[url[n]] = "saved" \/ Archive!IsIcon(n)

\* The group that failed for nothing has the two elements.
BlameInv ==
    failed /\ ~broken => \E n, m \in Nodes :
        /\ Archive!Shared(n, m) /\ url[n] \in Copied \ Cached
        /\ Archive!IsIcon(n) /\ ~ Archive!IsIcon(m)

ArchiveInv ==
    /\ ArchiveTypeOK /\ StageInv /\ FlightInv /\ LockInv /\ EntriesInv /\ LocalInv
    /\ BodyInv /\ BlameInv

\* What is answered to an element is answered to all who wait for it, and to
\* nobody else.
LEMMA ToldKeepsFlights ==
  ASSUME ArchiveTypeOK, FlightInv, NEW n \in Nodes, step[n] \in Leading,
         NEW kind \in Archive!Answers(url[n]), Archive!Told(n, kind)
  PROVE  FlightInv'
<1> USE ArchiveAssumption
        DEF Archive!ArchiverAssumption, ArchiveTypeOK, Before, Leading, Answered
<1>1. url' = url /\ from' = from /\ kind \in Archive!Kinds /\ (kind = "image" => url[n] # Page)
  BY DEF Archive!Told, Archive!doc, Archive!Answers, Archive!Kinds
<1>2. \A m \in Nodes : step'[m] = IF from[m] = n /\ step[m] \in {"acquire", "fetch", "wait"}
                                  THEN "forget" ELSE step[m]
  BY DEF Archive!Told
<1>3. \A m \in Nodes : answer'[m] = IF m = n THEN kind ELSE answer[m]
  BY DEF Archive!Told
<1>4. \A u \in Urls : flight'[u] # None => flight'[u] = flight[u] /\ flight[u] # n
  BY DEF Archive!Told, FlightInv
<1>5. from[n] = n /\ step'[n] = "forget"
  BY <1>2 DEF FlightInv
<1>6. \A u \in Urls : flight'[u] # None =>
         url'[flight'[u]] = u /\ step'[flight'[u]] \in Leading
  BY <1>1, <1>2, <1>4 DEF FlightInv
<1>7. ASSUME NEW m \in Nodes, from[m] = n
      PROVE  step'[m] \in Answered /\ step[m] \in Leading \cup {"wait"}
  BY <1>2, <1>7 DEF FlightInv, Archive!Kinds
<1> QED
  BY <1>1, <1>2, <1>3, <1>5, <1>6, <1>7 DEF FlightInv, Archive!Kinds

LEMMA ArchiveTypeStep == ArchiveInv /\ [Archive!Next]_archive => ArchiveTypeOK'
<1> SUFFICES ASSUME ArchiveInv, [Archive!Next]_archive PROVE ArchiveTypeOK'
  OBVIOUS
<1> StageInv /\ FlightInv /\ ArchiveTypeOK
  BY DEF ArchiveInv
<1> USE ArchiveAssumption DEF Archive!ArchiverAssumption, StageInv, FlightInv,
        ArchiveTypeOK, Before, Leading, Answered, Archive!Kinds
<1>1. CASE Archive!StartNodes
  BY <1>1 DEF Archive!StartNodes, Archive!fetching, Archive!saving
<1>2. CASE Archive!Finish
  BY <1>2 DEF Archive!Finish, Archive!fetching
<1>3. ASSUME NEW n \in Nodes, Archive!Choose(n) PROVE ArchiveTypeOK'
  BY <1>3 DEF Archive!Choose, Archive!fetching, Archive!Answers, Archive!Goes
<1>4. ASSUME NEW n \in Nodes,
             Archive!Look(n) \/ Archive!Join(n) \/ Archive!Acquire(n)
      PROVE  ArchiveTypeOK'
  BY <1>4 DEF Archive!Look, Archive!Join, Archive!Acquire, Archive!doc,
     Archive!fetching, Archive!saving, Archive!Goes
<1>5. ASSUME NEW n \in Nodes, Archive!Answer(n) PROVE ArchiveTypeOK'
  BY <1>5 DEF Archive!Answer, Archive!Told, Archive!Answers, Archive!doc, Archive!saving
<1>6. ASSUME NEW n \in Nodes, Archive!GiveUp(n) PROVE ArchiveTypeOK'
  BY <1>6 DEF Archive!GiveUp, Archive!Told, Archive!doc, Archive!saving
<1>7. ASSUME NEW n \in Nodes, Archive!Forget(n) PROVE ArchiveTypeOK'
  BY <1>7 DEF Archive!Forget, Archive!doc, Archive!saving, Archive!Goes
<1>8. ASSUME NEW n \in Nodes, Archive!Lock(n) PROVE ArchiveTypeOK'
  BY <1>8 DEF Archive!Lock, Archive!doc, Archive!fetching, Archive!saving, Archive!Goes
<1>9. ASSUME NEW n \in Nodes, Archive!Close(n) PROVE ArchiveTypeOK'
  BY <1>9 DEF Archive!Close, Archive!doc, Archive!fetching, Archive!saving, Archive!Goes
<1>10. ASSUME NEW n \in Nodes, Archive!SavedByOther(n) \/ Archive!DropIcon(n)
      PROVE  ArchiveTypeOK'
  BY <1>10 DEF Archive!SavedByOther, Archive!DropIcon, Archive!doc, Archive!fetching,
     Archive!saving, Archive!Unlock, Archive!Goes, Archive!New, Archive!IsIcon
<1>11. ASSUME NEW n \in Nodes, Archive!ConvertImage(n) PROVE ArchiveTypeOK'
  BY <1>11 DEF Archive!ConvertImage, Archive!New, Archive!IsIcon, Archive!Unlock,
     Archive!Goes, Archive!doc, Archive!fetching, Archive!saving, Archive!Stored
<1>12. ASSUME NEW n \in Nodes, Archive!CopyImage(n) PROVE ArchiveTypeOK'
  BY <1>12 DEF Archive!CopyImage, Archive!New, Archive!IsIcon, Archive!Goes,
     Archive!doc, Archive!fetching, Archive!saving
<1>13. ASSUME NEW n \in Nodes, Archive!Copies(n) PROVE ArchiveTypeOK'
  BY <1>13 DEF Archive!Copies, Archive!IsIcon, Archive!Stored, Archive!Unlock,
     Archive!Goes, Archive!doc, Archive!fetching
<1>14. ASSUME NEW n \in Nodes, Archive!CopyBreaks(n) PROVE ArchiveTypeOK'
  BY <1>14 DEF Archive!CopyBreaks, Archive!IsIcon, Archive!Unlock, Archive!Goes,
     Archive!doc, Archive!fetching
<1>15. CASE UNCHANGED archive
  BY <1>15 DEF archive
<1> QED
  BY <1>1, <1>2, <1>3, <1>4, <1>5, <1>6, <1>7, <1>8, <1>9, <1>10, <1>11, <1>12, <1>13,
     <1>14, <1>15
  DEF Archive!Next, Archive!Node

LEMMA StageStep == ArchiveInv /\ [Archive!Next]_archive => StageInv'
<1> SUFFICES ASSUME ArchiveInv, [Archive!Next]_archive PROVE StageInv'
  OBVIOUS
<1> ArchiveTypeOK /\ StageInv
  BY DEF ArchiveInv
<1> USE ArchiveAssumption DEF Archive!ArchiverAssumption, ArchiveTypeOK, StageInv,
        Before, Leading, Answered, Archive!Kinds
<1>1. CASE Archive!StartNodes \/ Archive!Finish
  BY <1>1 DEF Archive!StartNodes, Archive!Finish, Archive!fetching, Archive!saving
<1>2. ASSUME NEW n \in Nodes, Archive!Choose(n) PROVE StageInv'
  BY <1>2 DEF Archive!Choose, Archive!fetching, Archive!Answers, Archive!Goes
<1>3. ASSUME NEW n \in Nodes,
             Archive!Look(n) \/ Archive!Join(n) \/ Archive!Acquire(n)
      PROVE  StageInv'
  BY <1>3 DEF Archive!Look, Archive!Join, Archive!Acquire, Archive!doc,
     Archive!fetching, Archive!saving, Archive!Goes
<1>4. ASSUME NEW n \in Nodes, Archive!Answer(n) \/ Archive!GiveUp(n) PROVE StageInv'
  BY <1>4 DEF Archive!Answer, Archive!GiveUp, Archive!Told, Archive!Answers,
     Archive!doc, Archive!saving
<1>5. ASSUME NEW n \in Nodes, Archive!Forget(n) PROVE StageInv'
  BY <1>5 DEF Archive!Forget, Archive!doc, Archive!saving, Archive!Goes
<1>6. ASSUME NEW n \in Nodes,
             Archive!Lock(n) \/ Archive!SavedByOther(n)
             \/ Archive!DropIcon(n) \/ Archive!Close(n)
      PROVE  StageInv'
  BY <1>6 DEF Archive!Lock, Archive!SavedByOther, Archive!DropIcon, Archive!Close,
     Archive!doc, Archive!fetching, Archive!saving, Archive!Goes, Archive!Unlock,
     Archive!New, Archive!IsIcon
<1>7. ASSUME NEW n \in Nodes, Archive!ConvertImage(n) PROVE StageInv'
  BY <1>7 DEF Archive!ConvertImage, Archive!New, Archive!IsIcon, Archive!Unlock,
     Archive!Goes, Archive!doc, Archive!fetching, Archive!saving, Archive!Stored
<1>8. ASSUME NEW n \in Nodes, Archive!CopyImage(n) PROVE StageInv'
  BY <1>8 DEF Archive!CopyImage, Archive!New, Archive!IsIcon, Archive!Goes, Archive!doc,
     Archive!fetching, Archive!saving
<1>9. ASSUME NEW n \in Nodes, Archive!Copies(n) PROVE StageInv'
  BY <1>9 DEF Archive!Copies, Archive!IsIcon, Archive!Stored, Archive!Unlock,
     Archive!Goes, Archive!doc, Archive!fetching
<1>10. ASSUME NEW n \in Nodes, Archive!CopyBreaks(n) PROVE StageInv'
  BY <1>10 DEF Archive!CopyBreaks, Archive!IsIcon, Archive!Unlock, Archive!Goes,
     Archive!doc, Archive!fetching
<1>11. CASE UNCHANGED archive
  BY <1>11 DEF archive
<1> QED
  BY <1>1, <1>2, <1>3, <1>4, <1>5, <1>6, <1>7, <1>8, <1>9, <1>10, <1>11
  DEF Archive!Next, Archive!Node

LEMMA FlightStep == ArchiveInv /\ [Archive!Next]_archive => FlightInv'
<1> SUFFICES ASSUME ArchiveInv, [Archive!Next]_archive PROVE FlightInv'
  OBVIOUS
<1> ArchiveTypeOK /\ StageInv /\ FlightInv
  BY DEF ArchiveInv
<1> USE ArchiveAssumption DEF Archive!ArchiverAssumption, ArchiveTypeOK, StageInv,
        FlightInv, Before, Leading, Answered, Archive!Kinds
<1>1. CASE Archive!StartNodes \/ Archive!Finish
  BY <1>1 DEF Archive!StartNodes, Archive!Finish, Archive!fetching, Archive!saving
<1>2. ASSUME NEW n \in Nodes, Archive!Choose(n) PROVE FlightInv'
  BY <1>2 DEF Archive!Choose, Archive!fetching, Archive!Answers, Archive!Goes
<1>3. ASSUME NEW n \in Nodes,
             Archive!Look(n) \/ Archive!Join(n) \/ Archive!Acquire(n)
      PROVE  FlightInv'
  BY <1>3 DEF Archive!Look, Archive!Join, Archive!Acquire, Archive!doc,
     Archive!fetching, Archive!saving, Archive!Goes
<1>4. ASSUME NEW n \in Nodes, Archive!Answer(n) \/ Archive!GiveUp(n) PROVE FlightInv'
  <2>1. CASE Archive!Answer(n)
    BY <2>1, ToldKeepsFlights DEF Archive!Answer
  <2>2. CASE Archive!GiveUp(n)
    <3>1. "error" \in Archive!Answers(url[n])
      BY DEF Archive!Answers
    <3> QED
      BY <2>2, <3>1, ToldKeepsFlights DEF Archive!GiveUp
  <2> QED
    BY <1>4, <2>1, <2>2
<1>5. ASSUME NEW n \in Nodes, Archive!Forget(n) PROVE FlightInv'
  BY <1>5 DEF Archive!Forget, Archive!doc, Archive!saving, Archive!Goes
<1>6. ASSUME NEW n \in Nodes,
             Archive!Lock(n) \/ Archive!SavedByOther(n)
             \/ Archive!DropIcon(n) \/ Archive!Close(n)
      PROVE  FlightInv'
  BY <1>6 DEF Archive!Lock, Archive!SavedByOther, Archive!DropIcon, Archive!Close,
     Archive!doc, Archive!fetching, Archive!saving, Archive!Goes, Archive!Unlock,
     Archive!New, Archive!IsIcon
<1>7. ASSUME NEW n \in Nodes, Archive!ConvertImage(n) PROVE FlightInv'
  BY <1>7 DEF Archive!ConvertImage, Archive!New, Archive!IsIcon, Archive!Unlock,
     Archive!Goes, Archive!doc, Archive!fetching, Archive!saving, Archive!Stored
<1>8. ASSUME NEW n \in Nodes, Archive!CopyImage(n) PROVE FlightInv'
  BY <1>8 DEF Archive!CopyImage, Archive!New, Archive!IsIcon, Archive!Goes, Archive!doc,
     Archive!fetching, Archive!saving
<1>9. ASSUME NEW n \in Nodes, Archive!Copies(n) PROVE FlightInv'
  BY <1>9 DEF Archive!Copies, Archive!IsIcon, Archive!Stored, Archive!Unlock,
     Archive!Goes, Archive!doc, Archive!fetching
<1>10. ASSUME NEW n \in Nodes, Archive!CopyBreaks(n) PROVE FlightInv'
  BY <1>10 DEF Archive!CopyBreaks, Archive!IsIcon, Archive!Unlock, Archive!Goes,
     Archive!doc, Archive!fetching
<1>11. CASE UNCHANGED archive
  BY <1>11 DEF archive
<1> QED
  BY <1>1, <1>2, <1>3, <1>4, <1>5, <1>6, <1>7, <1>8, <1>9, <1>10, <1>11
  DEF Archive!Next, Archive!Node

LEMMA LockStep == ArchiveInv /\ [Archive!Next]_archive => LockInv'
<1> SUFFICES ASSUME ArchiveInv, [Archive!Next]_archive PROVE LockInv'
  OBVIOUS
<1> ArchiveTypeOK /\ StageInv /\ LockInv
  BY DEF ArchiveInv
<1> USE ArchiveAssumption DEF Archive!ArchiverAssumption, ArchiveTypeOK, StageInv,
        LockInv, Before, Leading, Answered, Archive!Kinds
<1>1. CASE Archive!StartNodes \/ Archive!Finish
  BY <1>1 DEF Archive!StartNodes, Archive!Finish, Archive!fetching, Archive!saving
<1>2. ASSUME NEW n \in Nodes, Archive!Choose(n) PROVE LockInv'
  BY <1>2 DEF Archive!Choose, Archive!fetching, Archive!Answers, Archive!Goes
<1>3. ASSUME NEW n \in Nodes,
             Archive!Look(n) \/ Archive!Join(n) \/ Archive!Acquire(n)
      PROVE  LockInv'
  BY <1>3 DEF Archive!Look, Archive!Join, Archive!Acquire, Archive!doc,
     Archive!fetching, Archive!saving, Archive!Goes
<1>4. ASSUME NEW n \in Nodes, Archive!Answer(n) \/ Archive!GiveUp(n) PROVE LockInv'
  BY <1>4 DEF Archive!Answer, Archive!GiveUp, Archive!Told, Archive!Answers,
     Archive!doc, Archive!saving
<1>5. ASSUME NEW n \in Nodes, Archive!Forget(n) PROVE LockInv'
  BY <1>5 DEF Archive!Forget, Archive!doc, Archive!saving, Archive!Goes
<1>6. ASSUME NEW n \in Nodes,
             Archive!Lock(n) \/ Archive!SavedByOther(n)
             \/ Archive!DropIcon(n) \/ Archive!Close(n)
      PROVE  LockInv'
  BY <1>6 DEF Archive!Lock, Archive!SavedByOther, Archive!DropIcon, Archive!Close,
     Archive!doc, Archive!fetching, Archive!saving, Archive!Goes, Archive!Unlock,
     Archive!New, Archive!IsIcon
<1>7. ASSUME NEW n \in Nodes, Archive!ConvertImage(n) PROVE LockInv'
  BY <1>7 DEF Archive!ConvertImage, Archive!New, Archive!IsIcon, Archive!Unlock,
     Archive!Goes, Archive!doc, Archive!fetching, Archive!saving, Archive!Stored
<1>8. ASSUME NEW n \in Nodes, Archive!CopyImage(n) PROVE LockInv'
  BY <1>8 DEF Archive!CopyImage, Archive!New, Archive!IsIcon, Archive!Goes, Archive!doc,
     Archive!fetching, Archive!saving
<1>9. ASSUME NEW n \in Nodes, Archive!Copies(n) PROVE LockInv'
  BY <1>9 DEF Archive!Copies, Archive!IsIcon, Archive!Stored, Archive!Unlock,
     Archive!Goes, Archive!doc, Archive!fetching
<1>10. ASSUME NEW n \in Nodes, Archive!CopyBreaks(n) PROVE LockInv'
  BY <1>10 DEF Archive!CopyBreaks, Archive!IsIcon, Archive!Unlock, Archive!Goes,
     Archive!doc, Archive!fetching
<1>11. CASE UNCHANGED archive
  BY <1>11 DEF archive
<1> QED
  BY <1>1, <1>2, <1>3, <1>4, <1>5, <1>6, <1>7, <1>8, <1>9, <1>10, <1>11
  DEF Archive!Next, Archive!Node

LEMMA EntriesStep == ArchiveInv /\ [Archive!Next]_archive => EntriesInv'
<1> SUFFICES ASSUME ArchiveInv, [Archive!Next]_archive PROVE EntriesInv'
  OBVIOUS
<1> ArchiveTypeOK /\ StageInv /\ FlightInv /\ LockInv /\ EntriesInv
  BY DEF ArchiveInv
<1> USE ArchiveAssumption DEF Archive!ArchiverAssumption, ArchiveTypeOK, StageInv,
        FlightInv, LockInv, EntriesInv, Before, Leading, Answered, Archive!Kinds,
        Archive!IsIcon
<1>1. CASE Archive!StartNodes \/ Archive!Finish
  BY <1>1 DEF Archive!StartNodes, Archive!Finish, Archive!fetching, Archive!saving
<1>2. ASSUME NEW n \in Nodes, Archive!Choose(n) PROVE EntriesInv'
  <2>1. phase = "best" /\ ~failed /\ failed' = failed /\ entries' = entries
    BY <1>2 DEF Archive!Choose
  <2>2. \A m \in Nodes : step[m] # "copy" /\ step'[m] # "copy"
    BY <1>2 DEF Archive!Choose, Archive!Goes
  <2>3. \A u \in Urls : known'[u] # "saved"
    BY <1>2 DEF Archive!Choose
  <2> QED
    BY <2>1, <2>2, <2>3
<1>3. ASSUME NEW n \in Nodes,
             Archive!Look(n) \/ Archive!Join(n) \/ Archive!Acquire(n)
      PROVE  EntriesInv'
  BY <1>3 DEF Archive!Look, Archive!Join, Archive!Acquire, Archive!doc,
     Archive!fetching, Archive!saving, Archive!Goes
<1>4. ASSUME NEW n \in Nodes,
             Archive!Answer(n) \/ Archive!GiveUp(n)
      PROVE  EntriesInv'
  BY <1>4 DEF Archive!Answer, Archive!GiveUp, Archive!Told, Archive!Answers,
     Archive!doc, Archive!saving
<1>5. ASSUME NEW n \in Nodes, Archive!Forget(n) PROVE EntriesInv'
  BY <1>5 DEF Archive!Forget, Archive!doc, Archive!saving, Archive!Goes
<1>6. ASSUME NEW n \in Nodes,
             Archive!Lock(n) \/ Archive!SavedByOther(n)
             \/ Archive!DropIcon(n) \/ Archive!Close(n)
      PROVE  EntriesInv'
  BY <1>6 DEF Archive!Lock, Archive!SavedByOther, Archive!DropIcon, Archive!Close,
     Archive!doc, Archive!fetching, Archive!saving, Archive!Goes, Archive!Unlock,
     Archive!New
<1>7. ASSUME NEW n \in Nodes, Archive!ConvertImage(n) PROVE EntriesInv'
  BY <1>7 DEF Archive!ConvertImage, Archive!New, Archive!Unlock, Archive!Goes,
     Archive!doc, Archive!fetching, Archive!saving, Archive!Stored
<1>8. ASSUME NEW n \in Nodes, Archive!CopyImage(n) PROVE EntriesInv'
  BY <1>8 DEF Archive!CopyImage, Archive!New, Archive!Goes, Archive!doc,
     Archive!fetching, Archive!saving
<1>9. ASSUME NEW n \in Nodes, Archive!Copies(n) PROVE EntriesInv'
  BY <1>9 DEF Archive!Copies, Archive!Stored, Archive!Unlock, Archive!Goes, Archive!doc,
     Archive!fetching
<1>10. ASSUME NEW n \in Nodes, Archive!CopyBreaks(n) PROVE EntriesInv'
  BY <1>10 DEF Archive!CopyBreaks, Archive!Unlock, Archive!Goes, Archive!doc,
     Archive!fetching
<1>11. CASE UNCHANGED archive
  BY <1>11 DEF archive
<1> QED
  BY <1>1, <1>2, <1>3, <1>4, <1>5, <1>6, <1>7, <1>8, <1>9, <1>10, <1>11
  DEF Archive!Next, Archive!Node

LEMMA LocalStep == ArchiveInv /\ [Archive!Next]_archive => LocalInv'
<1> SUFFICES ASSUME ArchiveInv, [Archive!Next]_archive PROVE LocalInv'
  OBVIOUS
<1> ArchiveTypeOK /\ StageInv /\ FlightInv /\ EntriesInv /\ LocalInv
  BY DEF ArchiveInv
<1> USE ArchiveAssumption DEF Archive!ArchiverAssumption, ArchiveTypeOK, StageInv,
        FlightInv, EntriesInv, LocalInv, Before, Leading, Answered, Archive!Kinds
<1>1. CASE Archive!StartNodes \/ Archive!Finish
  BY <1>1 DEF Archive!StartNodes, Archive!Finish, Archive!fetching, Archive!saving
<1>2. ASSUME NEW n \in Nodes, Archive!Choose(n) PROVE LocalInv'
  BY <1>2 DEF Archive!Choose, Archive!fetching, Archive!Answers, Archive!Goes
<1>3. ASSUME NEW n \in Nodes,
             Archive!Look(n) \/ Archive!Join(n) \/ Archive!Acquire(n)
      PROVE  LocalInv'
  BY <1>3 DEF Archive!Look, Archive!Join, Archive!Acquire, Archive!doc,
     Archive!fetching, Archive!saving, Archive!Goes
<1>4. ASSUME NEW n \in Nodes, Archive!Answer(n) \/ Archive!GiveUp(n) PROVE LocalInv'
  BY <1>4 DEF Archive!Answer, Archive!GiveUp, Archive!Told, Archive!Answers,
     Archive!doc, Archive!saving
<1>5. ASSUME NEW n \in Nodes, Archive!Forget(n) PROVE LocalInv'
  BY <1>5 DEF Archive!Forget, Archive!doc, Archive!saving, Archive!Goes
<1>6. ASSUME NEW n \in Nodes,
             Archive!Lock(n) \/ Archive!SavedByOther(n)
             \/ Archive!DropIcon(n) \/ Archive!Close(n)
      PROVE  LocalInv'
  BY <1>6 DEF Archive!Lock, Archive!SavedByOther, Archive!DropIcon, Archive!Close,
     Archive!doc, Archive!fetching, Archive!saving, Archive!Goes, Archive!Unlock,
     Archive!New, Archive!IsIcon
<1>7. ASSUME NEW n \in Nodes, Archive!ConvertImage(n) PROVE LocalInv'
  BY <1>7 DEF Archive!ConvertImage, Archive!New, Archive!IsIcon, Archive!Unlock,
     Archive!Goes, Archive!doc, Archive!fetching, Archive!saving, Archive!Stored
<1>8. ASSUME NEW n \in Nodes, Archive!CopyImage(n) PROVE LocalInv'
  BY <1>8 DEF Archive!CopyImage, Archive!New, Archive!IsIcon, Archive!Goes, Archive!doc,
     Archive!fetching, Archive!saving
<1>9. ASSUME NEW n \in Nodes, Archive!Copies(n) PROVE LocalInv'
  BY <1>9 DEF Archive!Copies, Archive!IsIcon, Archive!Stored, Archive!Unlock,
     Archive!Goes, Archive!doc, Archive!fetching
<1>10. ASSUME NEW n \in Nodes, Archive!CopyBreaks(n) PROVE LocalInv'
  BY <1>10 DEF Archive!CopyBreaks, Archive!IsIcon, Archive!Unlock, Archive!Goes,
     Archive!doc, Archive!fetching
<1>11. CASE UNCHANGED archive
  BY <1>11 DEF archive
<1> QED
  BY <1>1, <1>2, <1>3, <1>4, <1>5, <1>6, <1>7, <1>8, <1>9, <1>10, <1>11
  DEF Archive!Next, Archive!Node

LEMMA BodyStep == ArchiveInv /\ [Archive!Next]_archive => BodyInv'
<1> SUFFICES ASSUME ArchiveInv, [Archive!Next]_archive PROVE BodyInv'
  OBVIOUS
<1> ArchiveTypeOK /\ StageInv /\ FlightInv /\ LockInv /\ EntriesInv /\ BodyInv
  BY DEF ArchiveInv
<1> USE ArchiveAssumption DEF Archive!ArchiverAssumption, ArchiveTypeOK, StageInv,
        FlightInv, LockInv, EntriesInv, BodyInv, Before, Leading, Answered, Archive!Kinds,
        Archive!IsIcon
<1>1. CASE Archive!StartNodes \/ Archive!Finish
  BY <1>1 DEF Archive!StartNodes, Archive!Finish, Archive!fetching, Archive!saving
<1>2. ASSUME NEW n \in Nodes, Archive!Choose(n) PROVE BodyInv'
  BY <1>2 DEF Archive!Choose, Archive!fetching, Archive!Answers, Archive!Goes
<1>3. ASSUME NEW n \in Nodes, Archive!Look(n) \/ Archive!Acquire(n) PROVE BodyInv'
  BY <1>3 DEF Archive!Look, Archive!Acquire, Archive!doc, Archive!fetching, Archive!saving,
     Archive!Goes
<1>4. ASSUME NEW n \in Nodes, Archive!Join(n) PROVE BodyInv'
  <2>1. \A m \in Nodes \ {n} : from'[m] = from[m] /\ step'[m] = step[m]
    BY <1>4 DEF Archive!Join, Archive!Goes
  <2>2. from[n] = None /\ answer[n] = None /\ step'[n] \in {"acquire", "wait"}
    BY <1>4 DEF Archive!Join, Archive!Goes
  <2>3. url' = url /\ answer' = answer /\ unread' = unread /\ known' = known /\ failed' = failed
    BY <1>4 DEF Archive!Join, Archive!doc
  <2>4. \A f, m \in Nodes : from[m] = f => from'[m] = f
    BY <2>1, <2>2
  <2> QED
    BY <2>1, <2>2, <2>3, <2>4
<1>5. ASSUME NEW n \in Nodes, Archive!Answer(n) \/ Archive!GiveUp(n) PROVE BodyInv'
  <2>1. PICK kind \in Archive!Kinds : Archive!Told(n, kind)
    BY <1>5 DEF Archive!Answer, Archive!GiveUp, Archive!Answers
  <2>2. from[n] = n /\ url' = url /\ from' = from /\ known' = known /\ failed' = failed
    BY <1>5, <2>1 DEF Archive!Answer, Archive!GiveUp, Archive!Told, Archive!doc, Archive!saving
  <2>3. \A m \in Nodes \ {n} : answer'[m] = answer[m] /\ unread'[m] = unread[m]
    BY <2>1 DEF Archive!Told
  <2>4. unread'[n] = (kind # "error") /\ answer'[n] = kind
    BY <2>1 DEF Archive!Told
  <2>5. \A m \in Nodes : step'[m] = "close" => step[m] = "close" /\ from[m] \in Nodes \ {n}
    BY <1>5, <2>1 DEF Archive!Told, Archive!Answer, Archive!GiveUp
  <2>6. ASSUME ~failed, NEW m \in Nodes, from[m] = m, answer'[m] = "image", url[m] \in Copied,
               ~unread'[m]
        PROVE  \/ known[url[m]] = "saved"
               \/ url[m] \notin Cached /\ \E k \in Nodes : from[k] = m /\ Archive!IsIcon(k)
    <3>1. m # n
      BY <2>4, <2>6
    <3> QED
      BY <2>3, <2>6, <3>1
  <2>7. ASSUME ~failed, NEW m \in Nodes, step'[m] = "close", answer'[from[m]] = "image",
               url[m] \in Copied
        PROVE  known[url[m]] = "saved" \/ Archive!IsIcon(m)
    BY <2>3, <2>5, <2>7
  <2> QED
    BY <2>2, <2>6, <2>7
<1>6. ASSUME NEW n \in Nodes, Archive!Forget(n) PROVE BodyInv'
  BY <1>6 DEF Archive!Forget, Archive!doc, Archive!saving, Archive!Goes
<1>7. ASSUME NEW n \in Nodes,
             Archive!Lock(n) \/ Archive!SavedByOther(n)
             \/ Archive!DropIcon(n) \/ Archive!Close(n)
      PROVE  BodyInv'
  BY <1>7 DEF Archive!Lock, Archive!SavedByOther, Archive!DropIcon, Archive!Close,
     Archive!doc, Archive!fetching, Archive!saving, Archive!Goes, Archive!Unlock,
     Archive!New
<1>8. ASSUME NEW n \in Nodes, Archive!ConvertImage(n) PROVE BodyInv'
  BY <1>8 DEF Archive!ConvertImage, Archive!New, Archive!Unlock, Archive!Goes,
     Archive!doc, Archive!fetching, Archive!saving, Archive!Stored
<1>9. ASSUME NEW n \in Nodes, Archive!CopyImage(n) PROVE BodyInv'
  BY <1>9 DEF Archive!CopyImage, Archive!New, Archive!Goes, Archive!doc,
     Archive!fetching, Archive!saving
<1>10. ASSUME NEW n \in Nodes, Archive!Copies(n) PROVE BodyInv'
  BY <1>10 DEF Archive!Copies, Archive!Stored, Archive!Unlock, Archive!Goes,
     Archive!doc, Archive!fetching
<1>11. ASSUME NEW n \in Nodes, Archive!CopyBreaks(n) PROVE BodyInv'
  BY <1>11 DEF Archive!CopyBreaks, Archive!Unlock, Archive!Goes, Archive!doc,
     Archive!fetching
<1>12. CASE UNCHANGED archive
  BY <1>12 DEF archive
<1> QED
  BY <1>1, <1>2, <1>3, <1>4, <1>5, <1>6, <1>7, <1>8, <1>9, <1>10, <1>11, <1>12
  DEF Archive!Next, Archive!Node

LEMMA BlameStep == ArchiveInv /\ [Archive!Next]_archive => BlameInv'
<1> SUFFICES ASSUME ArchiveInv, [Archive!Next]_archive PROVE BlameInv'
  OBVIOUS
<1> ArchiveTypeOK /\ FlightInv /\ EntriesInv /\ BodyInv /\ BlameInv
  BY DEF ArchiveInv
<1> USE ArchiveAssumption DEF Archive!ArchiverAssumption, ArchiveTypeOK, FlightInv,
        EntriesInv, BodyInv, BlameInv, Before, Leading, Answered, Archive!Kinds,
        Archive!IsIcon, Archive!Shared
<1>1. CASE Archive!StartNodes \/ Archive!Finish
  BY <1>1 DEF Archive!StartNodes, Archive!Finish, Archive!fetching, Archive!saving
<1>2. ASSUME NEW n \in Nodes, Archive!Choose(n) PROVE BlameInv'
  BY <1>2 DEF Archive!Choose, Archive!fetching, Archive!Answers, Archive!Goes
<1>3. ASSUME NEW n \in Nodes, Archive!Look(n) \/ Archive!Acquire(n) PROVE BlameInv'
  BY <1>3 DEF Archive!Look, Archive!Acquire, Archive!doc, Archive!fetching,
     Archive!saving, Archive!Goes
<1>4. ASSUME NEW n \in Nodes, Archive!Join(n) PROVE BlameInv'
  BY <1>4 DEF Archive!Join, Archive!doc, Archive!Goes
<1>5. ASSUME NEW n \in Nodes, Archive!Answer(n) \/ Archive!GiveUp(n) PROVE BlameInv'
  BY <1>5 DEF Archive!Answer, Archive!GiveUp, Archive!Told, Archive!Answers,
     Archive!doc, Archive!saving
<1>6. ASSUME NEW n \in Nodes, Archive!Forget(n) PROVE BlameInv'
  BY <1>6 DEF Archive!Forget, Archive!doc, Archive!saving, Archive!Goes
<1>7. ASSUME NEW n \in Nodes,
             Archive!Lock(n) \/ Archive!SavedByOther(n)
             \/ Archive!DropIcon(n) \/ Archive!Close(n)
      PROVE  BlameInv'
  BY <1>7 DEF Archive!Lock, Archive!SavedByOther, Archive!DropIcon, Archive!Close,
     Archive!doc, Archive!fetching, Archive!saving, Archive!Goes, Archive!Unlock,
     Archive!New
<1>8. ASSUME NEW n \in Nodes, Archive!ConvertImage(n) PROVE BlameInv'
  <2>1. from' = from /\ url' = url /\ failed' = failed /\ broken' = broken
    BY <1>8 DEF Archive!ConvertImage, Archive!Stored, Archive!Unlock, Archive!doc,
       Archive!fetching, Archive!saving
  <2> QED
    BY <2>1
<1>9. ASSUME NEW n \in Nodes, Archive!CopyImage(n) PROVE BlameInv'
  BY <1>9 DEF Archive!CopyImage, Archive!New, Archive!Goes, Archive!doc,
     Archive!fetching, Archive!saving
<1>10. ASSUME NEW n \in Nodes, Archive!Copies(n) PROVE BlameInv'
  BY <1>10 DEF Archive!Copies, Archive!Stored, Archive!Unlock, Archive!Goes,
     Archive!doc, Archive!fetching
<1>11. ASSUME NEW n \in Nodes, Archive!CopyBreaks(n) PROVE BlameInv'
  BY <1>11 DEF Archive!CopyBreaks, Archive!Unlock, Archive!Goes, Archive!doc,
     Archive!fetching
<1>12. CASE UNCHANGED archive
  BY <1>12 DEF archive
<1> QED
  BY <1>1, <1>2, <1>3, <1>4, <1>5, <1>6, <1>7, <1>8, <1>9, <1>10, <1>11, <1>12
  DEF Archive!Next, Archive!Node

LEMMA ArchiveInit == Archive!Init => ArchiveInv
<1> SUFFICES ASSUME Archive!Init PROVE ArchiveInv
  OBVIOUS
<1> USE ArchiveAssumption DEF Archive!ArchiverAssumption, Archive!Init
<1>1. ASSUME NEW n \in Nodes \ Images PROVE (CHOOSE u \in Sources[n] : TRUE) \in Sources[n]
  BY <1>1
<1>2. \A n \in Nodes : step[n] = IF n \in Images THEN "choose" ELSE "look"
  OBVIOUS
<1>3. ArchiveTypeOK
  BY <1>1 DEF ArchiveTypeOK, Before, Leading, Answered, Archive!Kinds
<1>4. StageInv
  BY <1>1, <1>2 DEF StageInv
<1>5. FlightInv
  BY <1>2 DEF FlightInv, Before, Leading, Answered, Archive!Kinds
<1>6. LockInv
  BY <1>2 DEF LockInv
<1>7. EntriesInv
  BY <1>2 DEF EntriesInv
<1>8. LocalInv /\ BodyInv /\ BlameInv
  BY <1>2 DEF LocalInv, BodyInv, BlameInv
<1> QED
  BY <1>3, <1>4, <1>5, <1>6, <1>7, <1>8 DEF ArchiveInv

LEMMA ArchiveStep == ArchiveInv /\ [Archive!Next]_archive => ArchiveInv'
  BY ArchiveTypeStep, StageStep, FlightStep, LockStep, EntriesStep, LocalStep, BodyStep, BlameStep
  DEF ArchiveInv

\* What the run does leaves the archive alone.
LEMMA ArchiveInvariant == ExtractionSpec => []ArchiveInv
<1>1. ExtractionInit => ArchiveInv
  BY ArchiveInit DEF ExtractionInit
<1>2. ArchiveInv /\ [ExtractionNext]_<<vars, archive>> => ArchiveInv'
  <2>1. [ExtractionNext]_<<vars, archive>> => [Archive!Next]_archive
    BY DEF ExtractionNext, Extract, HandOver, MakeArchive, archive
  <2> QED
    BY <2>1, ArchiveStep
<1> QED
  BY <1>1, <1>2, PTL DEF ExtractionSpec

\* An archive that is done has one entry, and a whole one, of every image that
\* the document refers to (archiver.go:301-343), however the goroutines of the
\* elements interleave; and it has the document, unless an image names the
\* document as its source (process_html.go:189).
THEOREM WholeArchive == ExtractionSpec => []ArchiveIsWhole
<1>1. ArchiveInv => ArchiveIsWhole
  BY DEF ArchiveInv, StageInv, EntriesInv, LocalInv, ArchiveIsWhole, Archive!ArchiveIsWhole
<1> QED
  BY <1>1, ArchiveInvariant, PTL

\* An archive that is given up while the network held is given up because an
\* icon closed the body that it shared with an image (archiver.go:188,
\* process_url.go:62): there is no other reason.
THEOREM FailureHasReason == ExtractionSpec => []FailsForAReason
<1>1. ArchiveInv => FailsForAReason
  BY DEF ArchiveInv, StageInv, BlameInv, FailsForAReason, Archive!FailsForAReason
<1> QED
  BY <1>1, ArchiveInvariant, PTL

\* The run keeps its pages also while its archive is made: it forgets them only
\* when the final HTML is there.
THEOREM PagesKept == ExtractionSpec => []NoPageIsLost
<1> DEFINE Inv == IInv \/ (pc \in {"done", "end"} /\ drops = <<>>)
<1>1. ExtractionInit => Inv
  BY InvInit DEF ExtractionInit
<1>2. Inv /\ [ExtractionNext]_<<vars, archive>> => Inv'
  <2> SUFFICES ASSUME Inv, ExtractionNext \/ UNCHANGED vars PROVE Inv'
    OBVIOUS
  <2>1. CASE Extract /\ IInv
    BY <2>1, Inductive DEF Extract
  <2>2. CASE Extract /\ pc \in {"done", "end"} /\ drops = <<>>
    BY <2>2 DEF Extract, Next, Skip, Start, Started, Load, Body, SwapOriginal, OriginalURL,
       FindContentPage, FindNextPage, Content, Finish, PostProcess, Done
  <2>3. CASE HandOver
    BY <2>3 DEF HandOver
  <2>4. CASE UNCHANGED vars
    <3>1. IInv => IInv'
      BY <2>4, Inductive
    <3> QED
      BY <2>4, <3>1 DEF vars
  <2> QED
    BY <2>1, <2>2, <2>3, <2>4 DEF ExtractionNext, MakeArchive
<1>3. Inv => NoPageIsLost
  BY DEF IInv, PagesInv, NoPageIsLost
<1> HIDE DEF Inv
<1> QED
  BY <1>1, <1>2, <1>3, PTL DEF ExtractionSpec

=============================================================================
