------------------------------ MODULE Retrieval ------------------------------
(* What a client reads out of the vector store, for one query over a store  *)
(* that does not change: the pages of search_documents(), which cuts pages  *)
(* out of the ranked chunks and then groups them by document, and the       *)
(* citations of get_document_detail(), which joins the chunks of a section  *)
(* into one text.  Similarity scores are those of the query, and of chunks  *)
(* as similar the one with the lower id comes first, on every page; a text  *)
(* is a sequence of letters.  What a name of a region resolves to does not  *)
(* change either.                                                           *)
EXTENDS Integers, SequencesExt

CONSTANTS
    Corpora,            \* the stores for each kind of question
    Questions,          \* what is asked
    None,
    Letters,            \* that texts are made of
    MinOverlap,         \* min_overlap and the bound of max_check, in letters
    MaxOverlap,
    MinRemainder,       \* the shortest cut of a citation, less one
    Today,
    Resolved            \* RegionResolver.resolve(): from names of regions to an id or None

RetrievalAssumption ==
    /\ {"newline", "ellipsis"} \subseteq Letters
    /\ MinOverlap \in Nat \ {0} /\ MaxOverlap \in Int /\ MinRemainder \in Int
    /\ Today \in Int
    /\ \A q \in Questions :
        /\ q.max_results \in Nat \ {0} /\ q.score_threshold \in Int \cup {None}
        /\ q.max_length \in Nat
        /\ \A stored \in Corpora[q.kind] :
              /\ DOMAIN stored \subseteq Nat /\ IsFiniteSet(DOMAIN stored)
              /\ \A p \in DOMAIN stored :
                    /\ stored[p].score \in Int /\ stored[p].not_actual_since \in Int \cup {None}
                    /\ stored[p].section \in Int /\ stored[p].index \in Int
                    /\ stored[p].text \in Seq(Letters)

VARIABLES
    corpus,         \* [point -> doc, section, index, text, score, and the fields of the payload
                    \*  that may be missing (None): region_id, not_actual_since]
    asked,          \* kind, doc, max_results, max_length, query, and what may be None: region,
                    \* region_id, score_threshold
    offset,         \* of the next page
    pages,          \* the pages received
    citations       \* the citations received

vars == <<corpus, asked, offset, pages, citations>>

Points == DOMAIN corpus
Docs == {corpus[p].doc : p \in Points}

Init ==
    /\ asked \in Questions
    /\ corpus \in Corpora[asked.kind]
    /\ offset = 0
    /\ pages = <<>>
    /\ citations = <<>>

-----------------------------------------------------------------------------
(* QdrantStore.search() and the scroll of a document.                       *)

(* The region of a search is resolved unless its id is given; a name that   *)
(* nothing is known of is passed over.                                      *)
region_id ==
    IF asked.kind = "search" /\ asked.region # None /\ asked.region_id = None
    THEN Resolved[asked.region] ELSE asked.region_id

(* A condition is the set of the points that meet it, a filter the          *)
(* conditions that all must be met and those of which one should.           *)
FieldCondition(key, value) == {p \in Points : corpus[p][key] = value}
IsEmptyCondition(key) == {p \in Points : corpus[p][key] = None}
Conditions ==
    (IF asked.kind = "detail" THEN {FieldCondition("doc", asked.doc)} ELSE {})
    \cup (IF region_id # None THEN {FieldCondition("region_id", region_id)} ELSE {})

DefaultFilter ==
    [must |-> {},
     should |-> {IsEmptyCondition("not_actual_since"),
                 {p \in Points : /\ corpus[p].not_actual_since # None
                                 /\ corpus[p].not_actual_since > Today}}]

(* Mutant: the conditions that one of should be met are lost in the merge. *)
MergedMust ==
    IF Conditions = {} THEN DefaultFilter
    ELSE [must |-> Conditions \cup DefaultFilter.must, should |-> {}]
(* The two are merged by hand where there are conditions.                   *)
MergedFilter ==
    IF Conditions = {} THEN DefaultFilter
    ELSE [must |-> Conditions \cup DefaultFilter.must, should |-> DefaultFilter.should]

(* What Qdrant finds.                                                       *)
Selected(filter) ==
    {p \in Points : /\ \A c \in filter.must : p \in c
                    /\ filter.should # {} => \E c \in filter.should : p \in c}

First(s, n) == [i \in DOMAIN s \cap 1..n |-> s[i]]

(* The elements of S in an order, a set of pairs.                           *)
Arranged(S, Order) ==
    CHOOSE s \in [1..Cardinality(S) -> S] :
        \A i, j \in DOMAIN s : i < j => <<s[i], s[j]>> \in Order

Ascending(N) == Arranged(N, {e \in N \X N : e[1] < e[2]})

Ahead(p, q) ==
    \/ corpus[p].score > corpus[q].score
    \/ corpus[p].score = corpus[q].score /\ p < q
Ranked(S) == Arranged(S, {e \in S \X S : Ahead(e[1], e[2])})
Search(limit) == First(Ranked(Selected(MergedFilter)), limit)

(* By section and index; the sort is stable, and the scroll went by id.     *)
BySection(p, q) ==
    \/ corpus[p].section < corpus[q].section
    \/ corpus[p].section = corpus[q].section /\ corpus[p].index < corpus[q].index
    \/ corpus[p].section = corpus[q].section /\ corpus[p].index = corpus[q].index /\ p < q
ChunksOf(d) ==
    Arranged({p \in Points : corpus[p].doc = d}, {e \in Points \X Points : BySection(e[1], e[2])})

Passes(score, threshold) == threshold # None => score >= threshold

-----------------------------------------------------------------------------
(* search_documents(), page after page.                                     *)
(* Mutant: a page is all that is asked of the store. *)
LimitOnePage == asked.max_results
Limit == asked.max_results + offset

(* The chunks of the page.                                                  *)
PageChunks ==
    LET hits == Search(Limit) IN
    IF offset < Len(hits) THEN SubSeq(hits, offset + 1, Len(hits)) ELSE <<>>

Best(S) == Ranked(S)[1]
Results(chunks) ==
    {r \in {Best({p \in ToSet(chunks) : corpus[p].doc = d}) :
              d \in {corpus[p].doc : p \in ToSet(chunks)}} :
        Passes(corpus[r].score, asked.score_threshold)}

(* The page, and total_count, which counts the results of the page.         *)
NextPage ==
    /\ asked.kind = "search"
    /\ pages # <<>> => pages[Len(pages)].results # {}
    /\ pages' = Append(pages, [results |-> Results(PageChunks),
                               total_count |-> Cardinality(Results(PageChunks))])
    /\ offset' = offset + asked.max_results
    /\ UNCHANGED <<corpus, asked, citations>>

-----------------------------------------------------------------------------
(* The citations of a document.                                             *)
(* _merge_overlapping_chunks(): the longest overlap is written once, and    *)
(* chunks that do not overlap are set apart.                                *)
Shorter(m, n) == IF m < n THEN m ELSE n
(* Mutant: the overlap is judged by its last letter. *)
OverlapsAtTheEnd(s, t) ==
    {n \in MinOverlap..Shorter(Shorter(Len(s), Len(t)), MaxOverlap) : s[Len(s)] = t[n]}
Overlaps(s, t) ==
    {n \in MinOverlap..Shorter(Shorter(Len(s), Len(t)), MaxOverlap) :
        IsSuffix(SubSeq(t, 1, n), s)}

Apart(s, t) == IF s = <<>> \/ t = <<>> THEN <<>> ELSE <<"newline", "newline">>
Joined(s, t) ==
    IF Overlaps(s, t) = {} THEN s \o Apart(s, t) \o t
    ELSE s \o SubSeq(t, Max(Overlaps(s, t)) + 1, Len(t))
JoinedAll(texts) ==
    LET upTo[n \in DOMAIN texts] ==
            IF n = 1 THEN texts[1] ELSE Joined(upTo[n - 1], texts[n])
    IN  upTo[Len(texts)]

(* _merge_chunks_to_citations(): one citation for each section, in the      *)
(* order in which the sections turn up.                                     *)
Merged(chunks) ==
    LET Of(s) == {i \in DOMAIN chunks : corpus[chunks[i]].section = s}
        new == Ascending({i \in DOMAIN chunks : \A j \in Of(corpus[chunks[i]].section) : i <= j})
        Text(s) == LET at == Ascending(Of(s))
                   IN  JoinedAll([n \in DOMAIN at |-> corpus[chunks[at[n]]].text])
        Cited(s) == [section |-> s, text |-> Text(s), sources |-> {chunks[i] : i \in Of(s)}]
    IN  [n \in DOMAIN new |-> Cited(corpus[chunks[new[n]]].section)]

Length(cited) ==
    LET sum[n \in 0..Len(cited)] == IF n = 0 THEN 0 ELSE sum[n - 1] + Len(cited[n].text)
    IN  sum[Len(cited)]

(* _truncate_citations(): whole citations while they fit, then a part of    *)
(* the next one if enough of it does.                                       *)
Truncated(cited, max_length) ==
    LET fit == Max({0} \cup {n \in 1..Len(cited) : Length(First(cited, n)) <= max_length})
        left == max_length - Length(First(cited, fit))
    IN  IF fit < Len(cited) /\ left > MinRemainder
        THEN Append(First(cited, fit),
                    [cited[fit + 1] EXCEPT !.text = Append(First(@, left), "ellipsis")])
        ELSE First(cited, fit)

(* _build_citations_from_qdrant(): with a query, the relevant chunks of the *)
(* document, cut to length; without one, all of them.  If there is nothing  *)
(* to cite, the title is.                                                   *)
Title == <<[section |-> 0, sources |-> {}, text |-> <<>>]>>

GetCitations ==
    /\ asked.kind = "detail"
    /\ citations = <<>>
    /\ LET relevant == Ranked({p \in ToSet(Search(asked.max_results)) :
                                  Passes(corpus[p].score, asked.score_threshold)})
           chunks == IF asked.query THEN relevant ELSE ChunksOf(asked.doc)
       IN  citations' = IF chunks = <<>> THEN Title
                        ELSE IF asked.query THEN Truncated(Merged(chunks), asked.max_length)
                        ELSE Merged(chunks)
    /\ UNCHANGED <<corpus, asked, offset, pages>>

Next == NextPage \/ GetCitations
Spec == Init /\ [][Next]_vars /\ WF_vars(Next)

-----------------------------------------------------------------------------
Shown == UNION {pages[i].results : i \in DOMAIN pages}

(* What the question is about: what is in force today, of the document, and *)
(* of the region whose id was given or, for a search, found for its name.   *)
Eligible(p) ==
    /\ corpus[p].not_actual_since = None \/ corpus[p].not_actual_since > Today
    /\ asked.kind = "detail" => corpus[p].doc = asked.doc
    /\ asked.region_id # None => corpus[p].region_id = asked.region_id
    /\ asked.kind = "search" /\ asked.region_id = None /\ asked.region # None =>
          Resolved[asked.region] \in {None, corpus[p].region_id}
Sought(d) == {p \in Points : /\ corpus[p].doc = d /\ Eligible(p)
                             /\ Passes(corpus[p].score, asked.score_threshold)}

(* However the filters of the context, of the document and of the dates are *)
(* merged, nothing is found or cited for a query that is out of force or of *)
(* another document or region -- unless the name of the region is unknown,  *)
(* when documents of every region are.                                      *)
OnlySelected ==
    \A p \in Shown \cup (IF asked.query THEN UNION {citations[i].sources : i \in DOMAIN citations}
                         ELSE {}) : Eligible(p)

(* Whoever pages until a page is empty has every document with a chunk that *)
(* passes, and the first time it is shown with its best chunk, although     *)
(* pages are cut before chunks are grouped and weak results are dropped     *)
(* afterwards.                                                              *)
NothingSkipped ==
    (pages # <<>> /\ pages[Len(pages)].results = {}) =>
        \A d \in Docs : Sought(d) # {} => Best(Sought(d)) \in Shown

(* Without a query the citations hold every chunk of the document in full:  *)
(* an overlap is written once, and nothing else is lost.  For a query they  *)
(* are together no longer than asked, but for an ellipsis and for a title   *)
(* that stands in for them.                                                 *)
Within(s, t) == \E i \in 0..(Len(t) - Len(s)) : SubSeq(t, i + 1, i + Len(s)) = s
CitedAsAsked ==
    /\ asked.kind = "detail" /\ ~asked.query /\ citations # <<>> =>
         \A p \in Points : corpus[p].doc = asked.doc =>
             \E i \in DOMAIN citations :
                 /\ citations[i].section = corpus[p].section
                 /\ Within(corpus[p].text, citations[i].text)
    /\ asked.query /\ citations # Title => Length(citations) <= asked.max_length + 1

(* What models.py tells clients: start with offset 0 and add max_results    *)
(* "while offset < total_count".                                            *)
PagedByTotalCount ==
    (pages # <<>> /\ offset >= pages[Len(pages)].total_count) =>
        \A d \in Docs : Sought(d) # {} => Best(Sought(d)) \in Shown
=============================================================================
