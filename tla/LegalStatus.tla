---------------------------- MODULE LegalStatus ----------------------------
(* ChangeTrackingRepository, the marks of SectionRepository, and the two    *)
(* questions asked of them: get_legal_status() of a document (three         *)
(* queries) and is_section_actual() of a section (four).  Each query is a   *)
(* transaction of its own, so an ingest that records facts, a mark, or      *)
(* midnight may come between two queries of one answer.                     *)
EXTENDS Naturals, Sequences, FiniteSets

CONSTANTS
    Documents,
    Sections,
    Ingests,        \* coroutines in save_analysis_facts()
    Readers,        \* calls of get_legal_status() or is_section_actual()
    Absent,         \* no such row, or the flag is not set
    SectionDoc,     \* [Sections -> Documents]
    FactsOf,        \* [Documents -> Seq(Fact)]: what the analysis of a document finds
    ValidFrom,      \* [Documents -> Dates]: the day a document comes into force
    MarkDate,       \* [Sections -> Dates]: effective date of the marks on a section
    MaxDay,         \* bound: days
    MaxFailures     \* bound: statements that fail

(* A NULL date is 0: `IS NULL OR <= now()' holds of both alike.             *)
Dates == 0..MaxDay
Fact == [kind : {"revoke", "modify"}, target : Documents, date : Dates]

ASSUME InputAssumption ==
    /\ Documents # {} /\ Sections # {}
    /\ SectionDoc \in [Sections -> Documents]
    /\ FactsOf \in [Documents -> Seq(Fact)]
    /\ ValidFrom \in [Documents -> Dates]
    /\ MarkDate \in [Sections -> Dates]
    /\ MaxDay \in Nat /\ MaxFailures \in Nat

VARIABLES
    today,
    stored,         \* documents ingested, with their sections
    revocation,     \* [Documents \X Documents -> date]: <<revoking, revoked>>
    modification,   \* [Sections \X Documents -> date]: <<section, modifying document>>
    deleted,        \* [Sections -> date]: is_deleted, delete_effective_date
    marked,         \* [Sections -> date]: is_modified, modified_effective_date
    ingest,
    reader,         \* the question, the query it is at, the answer so far
    failures

tables == <<stored, revocation, modification, deleted, marked>>
vars == <<today, tables, ingest, reader, failures>>

SectionsOf(d) == {s \in Sections : SectionDoc[s] = d}

-----------------------------------------------------------------------------
(* The queries.                                                             *)
Effective(date) == date # Absent /\ date <= today

Revoked(d) == \E by \in Documents : Effective(revocation[<<by, d>>])
Modified(s) == \E by \in Documents : Effective(modification[<<s, by>>])
InForce(d) == d \in stored /\ ValidFrom[d] <= today
IsDeleted(s) == Effective(deleted[s])
IsMarked(s) == Effective(marked[s])

(* What the two answers would be, were all their queries made at once.      *)
UNKNOWN == 0
ACTIVE == 1
MODIFIED == 2
REVOKED == 3

Status(d) == IF Revoked(d) THEN REVOKED
             ELSE IF \E s \in SectionsOf(d) : Modified(s) THEN MODIFIED
             ELSE IF InForce(d) THEN ACTIVE ELSE UNKNOWN

NO == 0
YES == 1

Actual(s) == IF Revoked(SectionDoc[s]) \/ IsDeleted(s) \/ IsMarked(s) \/ Modified(s)
             THEN NO ELSE YES

-----------------------------------------------------------------------------
Idle == [at |-> "idle", doc |-> CHOOSE d \in Documents : TRUE, fact |-> 1, left |-> {}]

Init ==
    /\ today = 0
    /\ stored = {}
    /\ revocation = [pair \in Documents \X Documents |-> Absent]
    /\ modification = [pair \in Sections \X Documents |-> Absent]
    /\ deleted = [s \in Sections |-> Absent]
    /\ marked = [s \in Sections |-> Absent]
    /\ ingest = [i \in Ingests |-> Idle]
    /\ reader = [r \in Readers |->
                   [at |-> "idle", doc |-> CHOOSE d \in Documents : TRUE,
                    section |-> CHOOSE s \in Sections : TRUE, before |-> 0, answer |-> 0]]
    /\ failures = 0

(* INSERT .. ON CONFLICT DO UPDATE SET effective_date = COALESCE($3, ..)    *)
Recorded(date, old) == IF date = 0 /\ old # Absent THEN old ELSE date

(* On to the next fact, or done.                                            *)
NextFact(me) == IF me.fact = Len(FactsOf[me.doc]) THEN Idle
                ELSE [me EXCEPT !.at = "resolve", !.fact = @ + 1, !.left = {}]

(* Mutant: a document that is already there is not analysed again. *)
IngestNewOnly(i, d) ==
    /\ ingest[i].at = "idle"
    /\ stored' = stored \cup {d}
    /\ ingest' = [ingest EXCEPT ![i] = IF d \in stored \/ FactsOf[d] = <<>> THEN Idle
                                       ELSE [Idle EXCEPT !.at = "resolve", !.doc = d]]
    /\ UNCHANGED <<today, revocation, modification, deleted, marked, reader, failures>>

(* Document and sections are stored, the facts of its text come next.       *)
Ingest(i, d) ==
    /\ ingest[i].at = "idle"
    /\ stored' = stored \cup {d}
    /\ ingest' = [ingest EXCEPT ![i] = IF FactsOf[d] = <<>> THEN Idle
                                       ELSE [Idle EXCEPT !.at = "resolve", !.doc = d]]
    /\ UNCHANGED <<today, revocation, modification, deleted, marked, reader, failures>>

TheFact(me) == FactsOf[me.doc][me.fact]

(* resolve_target_document_id(): a fact about a document that is not stored *)
(* is skipped.                                                              *)
Resolve(i) ==
    LET me == ingest[i] IN
    /\ me.at = "resolve"
    /\ ingest' = [ingest EXCEPT ![i] =
         IF TheFact(me).target \notin stored THEN NextFact(me)
         ELSE IF TheFact(me).kind = "revoke" THEN [me EXCEPT !.at = "revoke"]
         ELSE IF SectionsOf(me.doc) = {} THEN NextFact(me)
         ELSE [me EXCEPT !.at = "modify", !.left = SectionsOf(me.doc)]]
    /\ UNCHANGED <<today, tables, reader, failures>>

AddRevocation(i) ==
    LET me == ingest[i]  pair == <<me.doc, TheFact(me).target>> IN
    /\ me.at = "revoke"
    /\ revocation' = [revocation EXCEPT ![pair] = Recorded(TheFact(me).date, @)]
    /\ ingest' = [ingest EXCEPT ![i] = NextFact(me)]
    /\ UNCHANGED <<today, stored, modification, deleted, marked, reader, failures>>

(* A modification is recorded of every section of the document that was     *)
(* ingested, with the document it names as the modifying one.               *)
AddModification(i) ==
    LET me == ingest[i] IN
    /\ me.at = "modify"
    /\ \E s \in me.left :
         /\ modification' = [modification EXCEPT ![<<s, TheFact(me).target>>] =
                               Recorded(TheFact(me).date, @)]
         /\ ingest' = [ingest EXCEPT ![i] = IF me.left = {s} THEN NextFact(me)
                                            ELSE [me EXCEPT !.left = @ \ {s}]]
    /\ UNCHANGED <<today, stored, revocation, deleted, marked, reader, failures>>

(* A statement fails; the pipeline logs it and goes on without the rest.    *)
IngestFails(i) ==
    /\ ingest[i].at # "idle"
    /\ failures < MaxFailures
    /\ failures' = failures + 1
    /\ ingest' = [ingest EXCEPT ![i] = Idle]
    /\ UNCHANGED <<today, tables, reader>>

(* Nothing in the repository calls the two marks yet; a second mark would   *)
(* replace the first one's date, and callers are taken to repeat the same.  *)
MarkSectionDeleted(s) ==
    /\ SectionDoc[s] \in stored
    /\ deleted' = [deleted EXCEPT ![s] = MarkDate[s]]
    /\ UNCHANGED <<today, stored, revocation, modification, marked, ingest,
                   reader, failures>>

MarkSectionModified(s) ==
    /\ SectionDoc[s] \in stored
    /\ marked' = [marked EXCEPT ![s] = MarkDate[s]]
    /\ UNCHANGED <<today, stored, revocation, modification, deleted, ingest,
                   reader, failures>>

Midnight ==
    /\ today < MaxDay
    /\ today' = today + 1
    /\ UNCHANGED <<tables, ingest, reader, failures>>

-----------------------------------------------------------------------------
(* One query of reader r: a row found settles the answer, none goes on to   *)
(* the next query.                                                          *)
Query(r, at, found, answer, then, otherwise, end) ==
    /\ reader[r].at = at
    /\ reader' = [reader EXCEPT ![r].at = IF found THEN end ELSE then,
                                ![r].answer = IF found THEN answer ELSE otherwise]
    /\ UNCHANGED <<today, tables, ingest, failures>>

AskStatus(r, d) ==
    /\ reader[r].at = "idle"
    /\ reader' = [reader EXCEPT ![r].at = "revoked", ![r].doc = d, ![r].before = Status(d)]
    /\ UNCHANGED <<today, tables, ingest, failures>>

(* Mutant: modifications are looked up before revocations. *)
ModifiedFirst(r) ==
    LET d == reader[r].doc IN
    \/ Query(r, "revoked", \E s \in SectionsOf(d) : Modified(s), MODIFIED, "modified", UNKNOWN, "done")
    \/ Query(r, "modified", Revoked(d), REVOKED, "in force", UNKNOWN, "done")
    \/ Query(r, "in force", InForce(d), ACTIVE, "done", UNKNOWN, "done")

(* get_legal_status(): the strongest reason first.                          *)
GetLegalStatus(r) ==
    LET d == reader[r].doc IN
    \/ Query(r, "revoked", Revoked(d), REVOKED, "modified", UNKNOWN, "done")
    \/ Query(r, "modified", \E s \in SectionsOf(d) : Modified(s), MODIFIED, "in force", UNKNOWN, "done")
    \/ Query(r, "in force", InForce(d), ACTIVE, "done", UNKNOWN, "done")

AskSection(r, s) ==
    /\ reader[r].at = "idle"
    /\ reader' = [reader EXCEPT ![r].at = "parent revoked", ![r].section = s,
                                ![r].before = Actual(s)]
    /\ UNCHANGED <<today, tables, ingest, failures>>

(* Mutant: the table of modifications is not asked. *)
FlagsOnly(r) ==
    LET s == reader[r].section IN
    \/ Query(r, "parent revoked", Revoked(SectionDoc[s]), NO, "deleted", YES, "answered")
    \/ Query(r, "deleted", IsDeleted(s), NO, "marked", YES, "answered")
    \/ Query(r, "marked", IsMarked(s), NO, "answered", YES, "answered")

(* is_section_actual(): any reason will do.                                 *)
IsSectionActual(r) ==
    LET s == reader[r].section IN
    \/ Query(r, "parent revoked", Revoked(SectionDoc[s]), NO, "deleted", YES, "answered")
    \/ Query(r, "deleted", IsDeleted(s), NO, "marked", YES, "answered")
    \/ Query(r, "marked", IsMarked(s), NO, "section modified", YES, "answered")
    \/ Query(r, "section modified", Modified(s), NO, "answered", YES, "answered")

IngestStep(i) == Resolve(i) \/ AddRevocation(i) \/ AddModification(i)

Next ==
    \/ \E i \in Ingests : IngestStep(i) \/ IngestFails(i) \/ \E d \in Documents : Ingest(i, d)
    \/ \E s \in Sections : MarkSectionDeleted(s) \/ MarkSectionModified(s)
    \/ \E r \in Readers : \/ GetLegalStatus(r) \/ IsSectionActual(r)
                          \/ \E d \in Documents : AskStatus(r, d)
                          \/ \E s \in Sections : AskSection(r, s)
    \/ Midnight

(* Statements end, and every document is ingested again and again.          *)
Fairness ==
    \A i \in Ingests : WF_vars(IngestStep(i)) /\ \A d \in Documents : SF_vars(Ingest(i, d))

Spec == Init /\ [][Next]_vars /\ Fairness

-----------------------------------------------------------------------------
(* Type invariant. *)
TypeOK ==
    /\ today \in Dates
    /\ stored \subseteq Documents
    /\ revocation \in [Documents \X Documents -> Dates \cup {Absent}]
    /\ modification \in [Sections \X Documents -> Dates \cup {Absent}]
    /\ deleted \in [Sections -> Dates \cup {Absent}]
    /\ marked \in [Sections -> Dates \cup {Absent}]
    /\ ingest \in [Ingests -> [at : {"idle", "resolve", "revoke", "modify"},
                               doc : Documents, fact : Nat \ {0}, left : SUBSET Sections]]
    /\ reader \in [Readers ->
                     [at : {"idle", "revoked", "modified", "in force", "done", "parent revoked",
                            "deleted", "marked", "section modified", "answered"},
                      doc : Documents, section : Sections,
                      before : UNKNOWN..REVOKED, answer : UNKNOWN..REVOKED]]
    /\ failures \in 0..MaxFailures

(* The status answered is no weaker than the document's status when the     *)
(* question was asked and no stronger than its status when the answer came, *)
(* whatever was recorded, and whichever day began, between the queries of   *)
(* get_legal_status().                                                      *)
StatusBracketed ==
    \A r \in Readers : reader[r].at = "done" =>
        reader[r].before <= reader[r].answer /\ reader[r].answer <= Status(reader[r].doc)

(* is_section_actual() answers yes only of a section that was actual when   *)
(* it was asked, and no only of one that is not when it answers.            *)
SectionBracketed ==
    \A r \in Readers : reader[r].at = "answered" =>
        Actual(reader[r].section) <= reader[r].answer /\ reader[r].answer <= reader[r].before

(* Every fact about a document that is in the database comes to be          *)
(* recorded, though analyses fail half-way and a fact read before its       *)
(* target was ingested is dropped.                                          *)
IsRecorded(d, fact) ==
    IF fact.kind = "revoke" THEN revocation[<<d, fact.target>>] # Absent
    ELSE \A s \in SectionsOf(d) : modification[<<s, fact.target>>] # Absent
FactsRecorded ==
    <>[](\A d \in Documents : \A n \in DOMAIN FactsOf[d] : IsRecorded(d, FactsOf[d][n]))
=============================================================================
