------------------------------ MODULE Filters ------------------------------
(***************************************************************************)
(* The filters of a list of bookmarks, from what a user asks for to what   *)
(* the database is asked for, and back into the fields of the page.        *)
(*                                                                         *)
(* A request brings a form (bookmarks/routes/forms_filters.go) whose       *)
(* validation parses the search fields, moves the terms that name a field  *)
(* to that field and writes all fields anew; toFilters does it again       *)
(* (bookmarks/filters.go), and ToSelectDataSet once more.  A collection    *)
(* keeps the fields, and its next page starts from them.  What a search    *)
(* means must survive every one of these rounds.                           *)
(*                                                                         *)
(* Of the fields there are the free text, one field of the full text index *)
(* (site) and the labels.  The filters that are no text (type, dates and   *)
(* flags) are copied and left out.                                         *)
(***************************************************************************)
EXTENDS SearchString

CONSTANTS
    Runes,       \* what texts are made of
    Site, Label, \* the names of two fields, as texts
    Forms,       \* what a request may have in its fields
    Pages,       \* labels that a page may be asked for
    Letters,     \* the runes that the index keeps
    Nothing      \* no list, no collection

ASSUME FiltersAssumption ==
    /\ Special \subseteq Runes /\ Letters \subseteq Runes
    /\ Letters \cap Special \subseteq {"n"}
    /\ Site \in Seq(Letters) /\ Label \in Seq(Letters)
    /\ Site # <<>> /\ Label # <<>> /\ Site # Label
    /\ \A f \in Forms : /\ f \in [search : Seq(Runes), site : Seq(Runes), labels : Seq(Runes)]
                        /\ \A name \in DOMAIN f : NUL \notin ToSet(f[name])
    /\ Pages \subseteq Seq(Runes)

VARIABLES
    form,   \* the fields of the page
    saved,  \* the filters of the collection, or Nothing
    listed, \* what the last list was selected by, or Nothing
    asked   \* history: the terms of the request that this all began with

filterVars == <<form, saved, listed, asked>>

Names == {Site, Label}

-----------------------------------------------------------------------------
(* Filters.Normalize, which FilterForm.Validate repeats for the form.      *)

\* The free text, then every field, without repetitions.
Terms(f) ==
    Unfield(Dedup(ParseQuery(f.search) \o ParseField(f.site, Site) \o ParseField(f.labels, Label)),
            Names)

Normalize(f) ==
    LET q == Terms(f)
        Restored(name) == QueryString(RemoveFieldInfo(ExtractField(q, name)))
    IN  [search |-> Restored(<<>>), site |-> Restored(Site), labels |-> Restored(Label)]

-----------------------------------------------------------------------------
(* Filters.ToSelectDataSet and searchstring.BuildSQL.                      *)

\* valueCleanup and strings.Fields: the words of a value.  A rune that the
\* index does not keep ends a word.
ReadRune(words, c) ==
    LET inside == words # <<>> /\ Last(words) # <<>>
    IN  CASE c \in Letters /\ inside    -> Append(Front(words), Append(Last(words), c))
          [] c \in Letters /\ ~inside   -> Append(IF words = <<>> THEN words ELSE Front(words), <<c>>)
          [] c \notin Letters /\ inside -> Append(words, <<>>)
          [] OTHER                      -> words

Words(value) ==
    LET words[n \in 0 .. Len(value)] ==
            IF n = 0 THEN <<>> ELSE ReadRune(words[n - 1], value[n])
    IN  NotEmpty(words[Len(value)])

\* regroupFields: the conditions on the index; a term without words is none.
Regroup(q) ==
    {[t EXCEPT !.value = Words(t.value)] : t \in {u \in ToSet(q) : Words(u.value) # <<>>}}

\* Labels are compared as they are.
LabelConditions(q) ==
    {[value |-> t.value, exclude |-> t.exclude, wildcard |-> t.wildcard] : t \in ToSet(q)}

Selection(q) ==
    LET split == PopField(q, Label)
    IN  [labels |-> LabelConditions(split.popped), search |-> Regroup(split.rest)]

ToSelectDataSet(f) == Selection(Terms(f))

-----------------------------------------------------------------------------

EmptyForm == [search |-> <<>>, site |-> <<>>, labels |-> <<>>]

FiltersInit == form = EmptyForm /\ saved = Nothing /\ listed = Nothing /\ asked = <<>>

\* withBookmarkListSelectDataset: the form is bound and validated, becomes
\* filters, and these become a query.
ListBookmarks(f) ==
    /\ form' = Normalize(f)
    /\ listed' = ToSelectDataSet(Normalize(form'))
    /\ asked' = Terms(f)
    /\ UNCHANGED saved

\* withLabel puts the label in quotation marks into the form.
LabelPage(label) ==
    /\ form' = Normalize([EmptyForm EXCEPT !.labels = Quote(label)])
    /\ listed' = ToSelectDataSet(Normalize(form'))
    /\ asked' = <<[NoTerm EXCEPT !.field = Label, !.value = label, !.exact = TRUE]>>
    /\ UNCHANGED saved

\* createCollection: the fields of the page are sent, validated and saved.
CreateCollection ==
    /\ listed # Nothing /\ saved = Nothing
    /\ saved' = Normalize(Normalize(form))
    /\ UNCHANGED <<form, listed, asked>>

\* withCollectionFilters: the page of a collection takes the filters as they
\* are and does not validate them.
OpenCollection ==
    /\ saved # Nothing
    /\ form' = saved
    /\ listed' = ToSelectDataSet(Normalize(saved))
    /\ UNCHANGED <<saved, asked>>

\* updateCollection with another name and the filters that the page has: they
\* are written when they are not what the row has.
UpdateCollection ==
    /\ saved # Nothing
    /\ saved' = Normalize(Normalize(saved))
    /\ form' = saved'
    /\ UNCHANGED <<listed, asked>>

\* A request is answered from nothing but what it brings: one is enough.
FiltersNext ==
    \/ listed = Nothing /\ saved = Nothing /\ \E f \in Forms : ListBookmarks(f)
    \/ listed = Nothing /\ saved = Nothing /\ \E label \in Pages : LabelPage(label)
    \/ CreateCollection
    \/ OpenCollection
    \/ UpdateCollection

FiltersSpec == FiltersInit /\ [][FiltersNext]_filterVars

-----------------------------------------------------------------------------
(* Properties.                                                             *)

\* Types: fields are texts, and no term of a list names a field that the
\* index does not have.
FiltersTypeOK ==
    /\ {form, IF saved = Nothing THEN EmptyForm ELSE saved}
          \subseteq [search : Seq(Runes), site : Seq(Runes), labels : Seq(Runes)]
    /\ listed # Nothing => \A t \in listed.search : t.field \in {<<>>, Site}
    /\ \A i \in DOMAIN asked : asked[i].field \in Names \cup {<<>>}

StartsWith(value, runes) == value # <<>> /\ Head(value) \in runes

\* Terms that do not come back from the text they are written as:
\* a value that begins with a minus was behind the name of its field,
MinusMoves(t) == t.field # <<>> /\ ~t.exact /\ ~t.exclude /\ StartsWith(t.value, {"-"})

\* a backslash between quotation marks, or a rune that it stands for, is read
\* twice and written once,
BackslashMoves(t) == t.exact /\ ToSet(t.value) \cap {"\\", "\n", NUL} # {}

\* a label of no runes is no text,
EmptyMoves(t) == t.field = Label /\ t.value = <<>> /\ ~t.exact /\ ~t.exclude /\ ~t.wildcard

\* and the name of an unknown field loses its quotation marks: what was
\* between them is a space, a minus, the name of a field or a quotation.
NameMoves(t) ==
    /\ t.field = <<>> /\ ~t.exact
    /\ \/ ToSet(t.value) \cap Spaces # {}
       \/ \E token \in ToSet(Scan(t.value)) : token.kind = "STRQ"
       \/ StartsWith(t.value, {"-"}) /\ ~t.exclude
       \/ \E name \in Names : IsPrefix(Append(name, ":"), t.value)

Moves(t) == MinusMoves(t) \/ BackslashMoves(t) \/ EmptyMoves(t) \/ NameMoves(t)

\* A list is selected by what was asked for, however often the fields were
\* taken apart and put together again, in a page, in a collection or in its
\* query, except for the four kinds of terms above.
ListIsWhatWasAsked ==
    listed # Nothing /\ (\A t \in ToSet(asked) : ~Moves(t)) => listed = Selection(asked)

=============================================================================
