---------------------------- MODULE Annotations ----------------------------
(***************************************************************************)
(* The highlights of one bookmark: the list its row keeps, the requests    *)
(* that add to it, change it or remove from it, and how the list is put    *)
(* back on the article each time it is read (pkg/annotate,                 *)
(* internal/bookmarks/annotations.go, dataset/dataset.go,                  *)
(* routes/forms_annotations.go).                                           *)
(*                                                                         *)
(* The row keeps no text: an annotation is two selectors with an offset    *)
(* into the text of the selected element, found again in the article that  *)
(* the annotations before it have already been wrapped into.  The document *)
(* is the sequence of its text nodes in document order; a node says which  *)
(* elements it is in, which characters it holds and which annotation wraps *)
(* it.  Characters are numbered through the article; a note reference that *)
(* a converter adds is the character Reference.                            *)
(***************************************************************************)
EXTENDS Naturals, Sequences, FiniteSets, SequencesExt

CONSTANTS
    Article,   \* the text nodes of the archived article: <<[path, text]>>
    Ids,       \* the identifiers of the annotations that get created
    Handlers,  \* the requests that may be served at the same time
    Nil        \* no annotation, no request

Elements == UNION {Range(Article[i].path) : i \in DOMAIN Article}
Characters == UNION {Range(Article[i].text) : i \in DOMAIN Article}

\* There is something to read, no text node is empty, and the text of an element is
\* consecutive in document order.
ASSUME ArticleAssumption ==
    /\ Article \in Seq([path : Seq(Elements), text : Seq(Characters)])
    /\ Article # <<>>
    /\ \A i \in DOMAIN Article : Article[i].text # <<>> /\ Article[i].path # <<>>
    /\ \A i, j, k \in DOMAIN Article :
          i < j /\ j < k => Range(Article[i].path) \cap Range(Article[k].path)
                              \subseteq Range(Article[j].path)

VARIABLES
    annotations,  \* the column of the row: a sequence of annotations
    request,      \* request -> Nil or what it does and the list it has read
    told,         \* id -> the annotation that was answered with 201, or Nil
    deleted,      \* the annotations whose removal was answered with 204
    overtaken     \* those a write dropped whose request had read before them

annotationVars == <<annotations, request, told, deleted, overtaken>>

Reference == 0

\* An error instead of a document: a document always has a node.
Failed == <<>>

\* The text of some nodes of a document, and all of it.
TextOf(doc, nodes) ==
    FlattenSeq([i \in DOMAIN doc |-> IF i \in nodes THEN doc[i].text ELSE <<>>])
Contents(doc) == TextOf(doc, DOMAIN doc)

\* The nodes in an element.
Under(doc, el) == {i \in DOMAIN doc : el \in Range(doc[i].path)}

\* html.Parse of the archived article.
Fresh == [i \in DOMAIN Article |->
            [path |-> Article[i].path, text |-> Article[i].text, by |-> Nil,
             first |-> FALSE, isText |-> TRUE]]

-----------------------------------------------------------------------------
(***************************************************************************)
(* What a browser sends (annotations_controller.js).                       *)
(***************************************************************************)

\* getSelector: the element that holds the text node, and the length of the
\* text before the point in that element.
Point(i, k) ==
    LET el == Last(Article[i].path)
    IN  [el |-> el,
         offset |-> k + Len(TextOf(Article, {j \in Under(Article, el) : j < i})),
         at |-> k + Len(TextOf(Article, 1 .. (i - 1)))]

Points == UNION {{Point(i, k) : k \in 0 .. Len(Article[i].text)} : i \in DOMAIN Article}

\* init: a selection that is not collapsed and has text.
Selections == {s \in [start : Points, end : Points] : s.start.at < s.end.at}

\* What the row keeps of one, and what a request brings.
Annotation == [id : Ids, start : Points, end : Points]
AnnotationRequest == [op : {"create", "update", "delete"}, read : Seq(Annotation), item : Annotation]

ASSUME NilAssumption == Nil \notin Ids /\ Nil \notin Annotation /\ Nil \notin AnnotationRequest

-----------------------------------------------------------------------------
(***************************************************************************)
(* pkg/annotate.                                                           *)
(***************************************************************************)

\* getAllTextNodes: the places in the document of the text under an element.
TextNodes(doc, el) == {i \in Under(doc, el) : doc[i].isText}

Consumed(doc, el, i) == Len(TextOf(doc, {j \in TextNodes(doc, el) : j < i}))

\* A mistake to catch: a start at the end of a node stays there.
Boundary_Stays(doc, isStart, point) ==
    LET nodes == TextNodes(doc, point.el)
        Reach(i) == Consumed(doc, point.el, i) + Len(doc[i].text)
        Holds(i) == point.offset <= Reach(i)
    IN  {[node |-> i, offset |-> point.offset - Consumed(doc, point.el, i)]
         : i \in {i \in nodes : Holds(i) /\ \A j \in nodes : j < i => ~Holds(j)}}

\* getTextNodeBoundary: the first node that reaches the offset; a start at the
\* end of a node moves to the next one, when the element has one.
Boundary(doc, isStart, point) ==
    LET nodes == TextNodes(doc, point.el)
        Reach(i) == Consumed(doc, point.el, i) + Len(doc[i].text)
        Holds(i) == \/ point.offset < Reach(i)
                    \/ point.offset = Reach(i) /\ ~(isStart /\ \E j \in nodes : j > i)
    IN  {[node |-> i, offset |-> point.offset - Consumed(doc, point.el, i)]
         : i \in {i \in nodes : Holds(i) /\ \A j \in nodes : j < i => ~Holds(j)}}

\* wrapTextNode: what comes before, the wrapped text, what a callback puts after
\* it, and the rest, which is a node even when it is empty.
Wrapped(n, from, to, id, isFirst, after) ==
    LET piece(lo, hi) == [n EXCEPT !.text = SubSeq(n.text, lo + 1, hi)]
    IN  (IF from > 0 THEN <<piece(0, from)>> ELSE <<>>)
        \o <<[piece(from, to) EXCEPT !.by = id, !.first = isFirst]>>
        \o after
        \o <<piece(to, Len(n.text))>>

\* Wrap: what a node becomes.  The first one is left alone when the range starts
\* at its end.
Rewritten(doc, i, s, e, id, after) ==
    IF i \notin s.node .. e.node \/ ~doc[i].isText \/ (i = s.node /\ s.offset = Len(doc[i].text))
    THEN <<doc[i]>>
    ELSE Wrapped(doc[i], IF i = s.node THEN s.offset ELSE 0,
                 IF i = e.node THEN e.offset ELSE Len(doc[i].text), id, i = s.node,
                 IF i = e.node THEN after ELSE <<>>)

\* The callback of the EPUB converter: the reference of a note.
NoteReference(n) == [n EXCEPT !.text = <<Reference>>, !.path = Append(@, Reference)]

\* ToRange with the validator of AddAnnotation, then Wrap.
AddAnnotation(doc, a, noted) ==
    LET starts == Boundary(doc, TRUE, a.start)
        ends == Boundary(doc, FALSE, a.end)
        s == CHOOSE b \in starts : TRUE
        e == CHOOSE b \in ends : TRUE
        after == IF a.id \in noted THEN <<NoteReference(doc[e.node])>> ELSE <<>>
    IN  IF \/ starts = {} \/ ends = {}
           \/ e.node < s.node
           \/ e.node = s.node /\ e.offset < s.offset
           \/ \E i \in s.node .. e.node : doc[i].isText /\ doc[i].by # Nil
        THEN Failed
        ELSE FlattenSeq([i \in DOMAIN doc |-> Rewritten(doc, i, s, e, a.id, after)])

\* BookmarkAnnotations.AddToNode: one after the other, up to the first error.
AddToNode(list, noted) ==
    LET doc[n \in 0 .. Len(list)] ==
            IF n = 0 THEN Fresh
            ELSE LET before == doc[n - 1]
                 IN  IF before = Failed THEN Failed ELSE AddAnnotation(before, list[n], noted)
    IN  doc[Len(list)]

\* html.Render and html.Parse again: an empty text node does not come back, and
\* a wrapper without text is an element only.
Parsed(doc) == [i \in DOMAIN doc |-> [doc[i] EXCEPT !.isText = @ /\ doc[i].text # <<>>]]

\* The characters that an annotation marks in a document.
Marked(doc, id) == TextOf(doc, {i \in DOMAIN doc : doc[i].by = id})

IdsOf(list) == {list[i].id : i \in DOMAIN list}

\* BookmarkAnnotations.Get.
Get(list, id) == list[CHOOSE i \in DOMAIN list : list[i].id = id]

\* A mistake to catch: every wrapper has the id attribute.
Sorted_All(list, doc) ==
    FlattenSeq([h \in DOMAIN doc |->
        IF doc[h].by \in IdsOf(list) THEN <<Get(list, doc[h].by)>> ELSE <<>>])

\* BookmarkAnnotations.Sort: the annotations in the order of the wrappers that
\* have an id attribute, which is the first of each annotation.
Sorted(list, doc) ==
    FlattenSeq([h \in DOMAIN doc |->
        IF doc[h].first /\ doc[h].by \in IdsOf(list) THEN <<Get(list, doc[h].by)>> ELSE <<>>])

\* BookmarkAnnotations.Delete.
Without(list, id) ==
    FlattenSeq([i \in DOMAIN list |-> IF list[i].id = id THEN <<>> ELSE <<list[i]>>])

-----------------------------------------------------------------------------
\* The list holds annotations of the article, each once: the id of an annotation
\* is how it is changed, removed and linked to (annotations.go:95).
AnnotationsTypeOK ==
    /\ annotations \in Seq(Annotation)
    /\ Cardinality(IdsOf(annotations)) = Len(annotations)
    /\ request \in [Handlers -> AnnotationRequest \cup {Nil}]
    /\ told \in [Ids -> Annotation \cup {Nil}]
    /\ deleted \subseteq Ids /\ overtaken \subseteq Ids

AnnotationsInit ==
    /\ annotations = <<>>
    /\ request = [r \in Handlers |-> Nil]
    /\ told = [a \in Ids |-> Nil]
    /\ deleted = {}
    /\ overtaken = {}

\* withBookmark loads the row; the form of annotationCreate is bound.
BeginCreate(r) ==
    /\ request[r] = Nil
    /\ \E id \in Ids, s \in Selections :
          /\ told[id] = Nil
          /\ \A q \in Handlers : request[q] # Nil => request[q].item.id # id
          /\ request' = [request EXCEPT ![r] =
                [op |-> "create", read |-> annotations,
                 item |-> [id |-> id, start |-> s.start, end |-> s.end]]]
    /\ UNCHANGED <<annotations, told, deleted, overtaken>>

\* The same for annotationUpdate and annotationDelete, which answer 404 when the
\* list they have read does not hold the annotation.
BeginChange(r) ==
    /\ request[r] = Nil
    /\ \E i \in DOMAIN annotations, op \in {"update", "delete"} :
          request' = [request EXCEPT ![r] =
                [op |-> op, read |-> annotations, item |-> annotations[i]]]
    /\ UNCHANGED <<annotations, told, deleted, overtaken>>

\* Bookmark.Update with the whole list: what came in since the list was read is
\* overwritten.
Store(r, list) ==
    /\ annotations' = list
    /\ overtaken' = overtaken \cup (IdsOf(annotations) \ IdsOf(request[r].read))

\* A mistake to catch: the article is read without its annotations.
Extended_Plain(list, item) == AddAnnotation(Fresh, item, {})

\* addToBookmark: the annotations that were read are put on the article, and
\* the new one on the result once it has been parsed again.  An error leaves the
\* row alone.
Extended(list, item) ==
    LET article == AddToNode(list, {})
    IN  IF article = Failed THEN Failed ELSE AddAnnotation(Parsed(article), item, {})

AnnotationCreate(r) ==
    /\ request[r] # Nil
    /\ request[r].op = "create"
    /\ LET item == request[r].item
           list == Append(request[r].read, item)
           doc == Extended(request[r].read, item)
       IN  IF doc = Failed
           THEN UNCHANGED <<annotations, overtaken, told>>
           ELSE /\ Store(r, Sorted(list, doc))
                /\ told' = [told EXCEPT ![item.id] = item]
    /\ request' = [request EXCEPT ![r] = Nil]
    /\ UNCHANGED deleted

\* annotationUpdate: the colour or the note; the list is stored as it was read.
AnnotationUpdate(r) ==
    /\ request[r] # Nil
    /\ request[r].op = "update"
    /\ Store(r, request[r].read)
    /\ request' = [request EXCEPT ![r] = Nil]
    /\ UNCHANGED <<told, deleted>>

\* annotationDelete.
AnnotationDelete(r) ==
    /\ request[r] # Nil
    /\ request[r].op = "delete"
    /\ Store(r, Without(request[r].read, request[r].item.id))
    /\ deleted' = deleted \cup {request[r].item.id}
    /\ request' = [request EXCEPT ![r] = Nil]
    /\ UNCHANGED told

AnnotationsNext == \E r \in Handlers :
    BeginCreate(r) \/ BeginChange(r) \/ AnnotationCreate(r) \/ AnnotationUpdate(r) \/ AnnotationDelete(r)

AnnotationsSpec == AnnotationsInit /\ [][AnnotationsNext]_annotationVars

-----------------------------------------------------------------------------
(***************************************************************************)
(* Properties.                                                             *)
(***************************************************************************)

\* The text between the two points, whatever elements and annotations it
\* crosses.
Selected(a) == SubSeq(Contents(Article), a.start.at + 1, a.end.at)

\* Whatever was added, changed and removed, by requests that overlap, the list
\* in the row can be put on the article, and every annotation in it marks the
\* very text that was selected: no other annotation moves it, covers it, or
\* makes AddToNode fail, which would hide them all (annotations.go:78).  The
\* EPUB marks the same text if no annotation has a note but the last one: the
\* reference of a note would move those that follow it (epub.go:226).
ShownAsSelected ==
    \A noted \in {{}} \cup {{annotations[i].id} : i \in DOMAIN annotations \cap {Len(annotations)}} :
        LET doc == AddToNode(annotations, noted)
        IN  /\ doc # Failed
            /\ \A i \in DOMAIN annotations : Marked(doc, annotations[i].id) = Selected(annotations[i])

\* The start is the very end of the element that its selector names: Wrap leaves
\* the first node alone, no wrapper gets the id attribute, and Sort, which looks
\* for that attribute, drops the annotation (annotate.go:190, annotations.go:115).
StartsAtTheEnd(a) ==
    a.start.offset = Len(TextOf(Article, Under(Article, a.start.el)))

\* An annotation whose creation was answered with 201 is in the row until it is
\* removed.  Two kinds get lost: those that start at the end of an element, and
\* those whose row was written by a request that had read it before.
KeptUnlessOvertaken ==
    \A id \in Ids \ (deleted \cup overtaken) :
        told[id] # Nil => id \in IdsOf(annotations) \/ StartsAtTheEnd(told[id])
=============================================================================
