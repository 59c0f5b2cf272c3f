-------------------------- MODULE LegalStatusProofs --------------------------
(* Proofs about LegalStatus, for every number of ingests, readers,          *)
(* documents, sections and days: both answers lie between what was true     *)
(* when the question was asked and what is true when the answer comes.      *)
EXTENDS LegalStatus, TLAPS

(* A document gives every pair of its own and a target one effective date.  *)
(* Without it a second fact moves the date recorded by the first, a         *)
(* revocation already in effect stops being so, and the answers are not     *)
(* bracketed.                                                               *)
OneDate ==
    \A d \in Documents : \A m, n \in DOMAIN FactsOf[d] :
        FactsOf[d][m].kind = FactsOf[d][n].kind /\ FactsOf[d][m].target = FactsOf[d][n].target
            => FactsOf[d][m].date = FactsOf[d][n].date

-----------------------------------------------------------------------------
(* The inductive invariant.                                                 *)
Named(kind, d, target, date) ==
    \E n \in DOMAIN FactsOf[d] :
        FactsOf[d][n].kind = kind /\ FactsOf[d][n].target = target /\ FactsOf[d][n].date = date

(* What is recorded is what a document named, or the date of the mark.      *)
Dated ==
    /\ \A by \in Documents, d \in Documents :
         revocation[<<by, d>>] # Absent => Named("revoke", by, d, revocation[<<by, d>>])
    /\ \A s \in Sections, by \in Documents :
         modification[<<s, by>>] # Absent => Named("modify", SectionDoc[s], by, modification[<<s, by>>])
    /\ \A s \in Sections : deleted[s] \in {Absent, MarkDate[s]} /\ marked[s] \in {Absent, MarkDate[s]}

(* An ingest is at a fact of its document, of the kind it is recording.     *)
AtFact(me) ==
    me.at # "idle" =>
        /\ me.fact \in DOMAIN FactsOf[me.doc]
        /\ me.at = "revoke" => TheFact(me).kind = "revoke"
        /\ me.at = "modify" => TheFact(me).kind = "modify" /\ me.left \subseteq SectionsOf(me.doc)

(* The status that the queries still to be made would find.                 *)
SomeModified(d) == \E s \in SectionsOf(d) : Modified(s)
FromInForce(d) == IF InForce(d) THEN ACTIVE ELSE UNKNOWN
FromModified(d) == IF SomeModified(d) THEN MODIFIED ELSE FromInForce(d)

StatusSoFar(me) ==
    /\ me.at = "revoked" => me.before <= Status(me.doc)
    /\ me.at = "modified" => me.before <= FromModified(me.doc)
    /\ me.at = "in force" => me.before <= FromInForce(me.doc)
    /\ me.at = "done" => me.before <= me.answer /\ me.answer <= Status(me.doc)

(* A section that was not actual has a reason among those still asked for.  *)
SectionSoFar(me) ==
    LET s == me.section IN
    /\ me.at = "parent revoked" /\ me.before = NO =>
         Revoked(SectionDoc[s]) \/ IsDeleted(s) \/ IsMarked(s) \/ Modified(s)
    /\ me.at = "deleted" /\ me.before = NO => IsDeleted(s) \/ IsMarked(s) \/ Modified(s)
    /\ me.at = "marked" /\ me.before = NO => IsMarked(s) \/ Modified(s)
    /\ me.at = "section modified" /\ me.before = NO => Modified(s)
    /\ me.at = "answered" => Actual(s) <= me.answer /\ me.answer <= me.before

IndInv ==
    /\ TypeOK
    /\ Dated
    /\ \A i \in Ingests : AtFact(ingest[i])
    /\ \A r \in Readers : StatusSoFar(reader[r]) /\ SectionSoFar(reader[r])

-----------------------------------------------------------------------------
(* Types.                                                                   *)
Ingesting == [at : {"idle", "resolve", "revoke", "modify"},
              doc : Documents, fact : Nat \ {0}, left : SUBSET Sections]
Reading == [at : {"idle", "revoked", "modified", "in force", "done", "parent revoked",
                  "deleted", "marked", "section modified", "answered"},
            doc : Documents, section : Sections,
            before : UNKNOWN..REVOKED, answer : UNKNOWN..REVOKED]

TablesOK ==
    /\ today \in Dates
    /\ stored \subseteq Documents
    /\ revocation \in [Documents \X Documents -> Dates \cup {Absent}]
    /\ modification \in [Sections \X Documents -> Dates \cup {Absent}]
    /\ deleted \in [Sections -> Dates \cup {Absent}]
    /\ marked \in [Sections -> Dates \cup {Absent}]

LEMMA TypeIs ==
  TypeOK <=> /\ TablesOK
             /\ ingest \in [Ingests -> Ingesting]
             /\ reader \in [Readers -> Reading]
             /\ failures \in 0..MaxFailures
  BY DEF TypeOK, TablesOK, Ingesting, Reading

LEMMA TypeIsNext ==
  TypeOK' <=> /\ TablesOK'
              /\ ingest' \in [Ingests -> Ingesting]
              /\ reader' \in [Readers -> Reading]
              /\ failures' \in 0..MaxFailures
  BY DEF TypeOK, TablesOK, Ingesting, Reading

LEMMA ReadingFields ==
  ASSUME NEW me \in Reading
  PROVE  /\ me.doc \in Documents /\ me.section \in Sections
         /\ me.before \in 0..3 /\ me.answer \in 0..3
  BY DEF Reading, UNKNOWN, REVOKED

(* What a document's analysis finds.                                        *)
LEMMA TheFactIsFact ==
  ASSUME NEW me \in Ingesting, me.fact \in DOMAIN FactsOf[me.doc]
  PROVE  /\ TheFact(me) = FactsOf[me.doc][me.fact]
         /\ TheFact(me).target \in Documents /\ TheFact(me).date \in Dates
         /\ Named(TheFact(me).kind, me.doc, TheFact(me).target, TheFact(me).date)
<1>1. me.doc \in Documents
  BY DEF Ingesting
<1>2. FactsOf[me.doc] \in Seq(Fact)
  BY <1>1, InputAssumption
<1>3. TheFact(me) = FactsOf[me.doc][me.fact]
  BY DEF TheFact
<1>4. TheFact(me) \in Fact
  BY <1>2, <1>3
<1>5. TheFact(me).target \in Documents /\ TheFact(me).date \in Dates
  BY <1>4 DEF Fact
<1>6. Named(TheFact(me).kind, me.doc, TheFact(me).target, TheFact(me).date)
  BY <1>3 DEF Named
<1>. QED
  BY <1>3, <1>5, <1>6

LEMMA OneDatePerPair ==
  ASSUME OneDate, NEW d \in Documents, NEW kind, NEW target, NEW x, NEW y,
         Named(kind, d, target, x), Named(kind, d, target, y)
  PROVE  x = y
  BY DEF OneDate, Named

LEMMA IdleAtFact ==
  Idle \in Ingesting /\ Idle.at = "idle" /\ AtFact(Idle)
<1>1. (CHOOSE d \in Documents : TRUE) \in Documents
  BY InputAssumption
<1>. QED
  BY <1>1 DEF Idle, Ingesting, AtFact

(* The next fact is a fact of the document.                                 *)
LEMMA NextFactIsFact ==
  ASSUME NEW me \in Ingesting, me.fact \in DOMAIN FactsOf[me.doc]
  PROVE  NextFact(me) \in Ingesting /\ AtFact(NextFact(me))
<1>1. me.doc \in Documents
  BY DEF Ingesting
<1>2. FactsOf[me.doc] \in Seq(Fact)
  BY <1>1, InputAssumption
<1>3. CASE me.fact = Len(FactsOf[me.doc])
  BY <1>3, IdleAtFact DEF NextFact
<1>4. CASE me.fact # Len(FactsOf[me.doc])
  <2>. DEFINE on == [me EXCEPT !.at = "resolve", !.fact = @ + 1, !.left = {}]
  <2>1. Len(FactsOf[me.doc]) \in Nat /\ DOMAIN FactsOf[me.doc] = 1..Len(FactsOf[me.doc])
    BY <1>2
  <2>2. me.fact + 1 \in Nat \ {0} /\ me.fact + 1 \in DOMAIN FactsOf[me.doc]
    BY <1>4, <2>1
  <2>3. /\ on \in Ingesting /\ on.at = "resolve"
        /\ on.doc = me.doc /\ on.fact = me.fact + 1
    BY <2>2 DEF Ingesting
  <2>4. AtFact(on)
    BY <2>2, <2>3 DEF AtFact
  <2>. QED
    BY <1>4, <2>3, <2>4 DEF NextFact
<1>. QED
  BY <1>3, <1>4

-----------------------------------------------------------------------------
(* No step takes back what a query found: facts keep their dates, documents *)
(* stay and days only pass.                                                 *)
Grow ==
    /\ today <= today'
    /\ stored \subseteq stored'
    /\ \A by \in Documents, d \in Documents :
         revocation[<<by, d>>] # Absent => revocation'[<<by, d>>] = revocation[<<by, d>>]
    /\ \A s \in Sections, by \in Documents :
         modification[<<s, by>>] # Absent => modification'[<<s, by>>] = modification[<<s, by>>]
    /\ \A s \in Sections : deleted[s] # Absent => deleted'[s] = deleted[s]
    /\ \A s \in Sections : marked[s] # Absent => marked'[s] = marked[s]

LEMMA DaysAreNumbers ==
  ASSUME TablesOK
  PROVE  today \in Nat /\ Dates \subseteq Nat
  BY InputAssumption DEF TablesOK, Dates

LEMMA EffectiveGrows ==
  ASSUME TablesOK, TablesOK', today <= today',
         NEW date \in Dates \cup {Absent}, Effective(date)
  PROVE  Effective(date)'
<1>1. today \in Nat /\ today' \in Nat /\ Dates \subseteq Nat
  BY InputAssumption DEF TablesOK, Dates
<1>2. date # Absent /\ date <= today
  BY DEF Effective
<1>3. date \in Nat
  BY <1>1, <1>2
<1>4. date <= today'
  BY <1>1, <1>2, <1>3
<1>. QED
  BY <1>2, <1>4 DEF Effective

LEMMA ConditionsGrow ==
  ASSUME TablesOK, TablesOK', Grow
  PROVE  /\ \A d \in Documents : Revoked(d) => Revoked(d)'
         /\ \A s \in Sections : Modified(s) => Modified(s)'
         /\ \A s \in Sections : IsDeleted(s) => IsDeleted(s)'
         /\ \A s \in Sections : IsMarked(s) => IsMarked(s)'
         /\ \A d \in Documents : InForce(d) => InForce(d)'
<1>0. today <= today'
  BY DEF Grow
<1>1. ASSUME NEW d \in Documents, Revoked(d) PROVE Revoked(d)'
  <2>1. PICK by \in Documents : Effective(revocation[<<by, d>>])
    BY <1>1 DEF Revoked
  <2>2. revocation[<<by, d>>] \in Dates \cup {Absent} /\ revocation[<<by, d>>] # Absent
    BY <2>1 DEF TablesOK, Effective
  <2>3. revocation'[<<by, d>>] = revocation[<<by, d>>]
    BY <2>2 DEF Grow
  <2>4. Effective(revocation[<<by, d>>])'
    BY <1>0, <2>1, <2>2, <2>3, EffectiveGrows DEF Effective
  <2>. QED
    BY <2>4 DEF Revoked
<1>2. ASSUME NEW s \in Sections, Modified(s) PROVE Modified(s)'
  <2>1. PICK by \in Documents : Effective(modification[<<s, by>>])
    BY <1>2 DEF Modified
  <2>2. modification[<<s, by>>] \in Dates \cup {Absent} /\ modification[<<s, by>>] # Absent
    BY <2>1 DEF TablesOK, Effective
  <2>3. modification'[<<s, by>>] = modification[<<s, by>>]
    BY <2>2 DEF Grow
  <2>4. Effective(modification[<<s, by>>])'
    BY <1>0, <2>1, <2>2, <2>3, EffectiveGrows DEF Effective
  <2>. QED
    BY <2>4 DEF Modified
<1>3. ASSUME NEW s \in Sections, IsDeleted(s) PROVE IsDeleted(s)'
  <2>1. deleted[s] \in Dates \cup {Absent} /\ deleted[s] # Absent
    BY <1>3 DEF TablesOK, IsDeleted, Effective
  <2>2. deleted'[s] = deleted[s]
    BY <2>1 DEF Grow
  <2>. QED
    BY <1>0, <1>3, <2>1, <2>2, EffectiveGrows DEF IsDeleted, Effective
<1>4. ASSUME NEW s \in Sections, IsMarked(s) PROVE IsMarked(s)'
  <2>1. marked[s] \in Dates \cup {Absent} /\ marked[s] # Absent
    BY <1>4 DEF TablesOK, IsMarked, Effective
  <2>2. marked'[s] = marked[s]
    BY <2>1 DEF Grow
  <2>. QED
    BY <1>0, <1>4, <2>1, <2>2, EffectiveGrows DEF IsMarked, Effective
<1>5. ASSUME NEW d \in Documents, InForce(d) PROVE InForce(d)'
  <2>1. today \in Nat /\ today' \in Nat /\ ValidFrom[d] \in Nat
    BY InputAssumption DEF TablesOK, Dates
  <2>2. d \in stored' /\ ValidFrom[d] <= today'
    BY <1>0, <1>5, <2>1 DEF InForce, Grow
  <2>. QED
    BY <2>2 DEF InForce
<1>. QED
  BY <1>1, <1>2, <1>3, <1>4, <1>5

LEMMA StatusGrows ==
  ASSUME TablesOK, TablesOK', Grow, NEW d \in Documents
  PROVE  /\ Status(d) \in 0..3 /\ FromModified(d) \in 0..3 /\ FromInForce(d) \in 0..3
         /\ Status(d)' \in 0..3 /\ FromModified(d)' \in 0..3 /\ FromInForce(d)' \in 0..3
         /\ Status(d) <= Status(d)'
         /\ FromModified(d) <= FromModified(d)'
         /\ FromInForce(d) <= FromInForce(d)'
<1>1. Revoked(d) => Revoked(d)'
  BY ConditionsGrow
<1>2. SomeModified(d) => SomeModified(d)'
  BY ConditionsGrow DEF SomeModified, SectionsOf
<1>3. InForce(d) => InForce(d)'
  BY ConditionsGrow
<1>4. Status(d) = IF Revoked(d) THEN REVOKED ELSE FromModified(d)
  BY DEF Status, FromModified, FromInForce, SomeModified
<1>5. Status(d)' = IF Revoked(d)' THEN REVOKED ELSE FromModified(d)'
  BY DEF Status, FromModified, FromInForce, SomeModified
<1>6. /\ FromInForce(d) = IF InForce(d) THEN 1 ELSE 0
      /\ FromInForce(d)' = IF InForce(d)' THEN 1 ELSE 0
  BY DEF FromInForce, ACTIVE, UNKNOWN
<1>7. /\ FromModified(d) = IF SomeModified(d) THEN 2 ELSE FromInForce(d)
      /\ FromModified(d)' = IF SomeModified(d)' THEN 2 ELSE FromInForce(d)'
  BY DEF FromModified, MODIFIED
<1>8. REVOKED = 3
  BY DEF REVOKED
<1>9. /\ FromInForce(d) \in 0..1 /\ FromInForce(d)' \in 0..1
      /\ FromInForce(d) <= FromInForce(d)'
  BY <1>3, <1>6
<1>10. /\ FromModified(d) \in 0..2 /\ FromModified(d)' \in 0..2
       /\ FromModified(d) <= FromModified(d)'
  BY <1>2, <1>7, <1>9
<1>11. /\ Status(d) \in 0..3 /\ Status(d)' \in 0..3 /\ Status(d) <= Status(d)'
  BY <1>1, <1>4, <1>5, <1>8, <1>10
<1>. QED
  BY <1>9, <1>10, <1>11

(* So what a reader knows stays true.                                       *)
SoFar(me) == StatusSoFar(me) /\ SectionSoFar(me)

LEMMA Transitive ==
  ASSUME NEW k \in 0..3, NEW l \in 0..3, NEW m \in 0..3, k <= l, l <= m
  PROVE  k <= m
  OBVIOUS

LEMMA StatusSoFarGrows ==
  ASSUME TablesOK, TablesOK', Grow, NEW me \in Reading, StatusSoFar(me)
  PROVE  StatusSoFar(me)'
<1>1. me.doc \in Documents /\ me.before \in 0..3 /\ me.answer \in 0..3
  BY ReadingFields
<1>. DEFINE d == me.doc
<1>2. /\ Status(d) \in 0..3 /\ FromModified(d) \in 0..3 /\ FromInForce(d) \in 0..3
      /\ Status(d)' \in 0..3 /\ FromModified(d)' \in 0..3 /\ FromInForce(d)' \in 0..3
      /\ Status(d) <= Status(d)'
      /\ FromModified(d) <= FromModified(d)'
      /\ FromInForce(d) <= FromInForce(d)'
  BY <1>1, StatusGrows
<1>3. /\ me.at = "revoked" => me.before <= Status(d)
      /\ me.at = "modified" => me.before <= FromModified(d)
      /\ me.at = "in force" => me.before <= FromInForce(d)
      /\ me.at = "done" => me.before <= me.answer /\ me.answer <= Status(d)
  BY DEF StatusSoFar
<1>4. me.at = "revoked" => me.before <= Status(d)'
  BY <1>1, <1>2, <1>3, Transitive
<1>5. me.at = "modified" => me.before <= FromModified(d)'
  BY <1>1, <1>2, <1>3, Transitive
<1>6. me.at = "in force" => me.before <= FromInForce(d)'
  BY <1>1, <1>2, <1>3, Transitive
<1>7. me.at = "done" => me.before <= me.answer /\ me.answer <= Status(d)'
  BY <1>1, <1>2, <1>3, Transitive
<1>. QED
  BY <1>4, <1>5, <1>6, <1>7 DEF StatusSoFar

LEMMA SectionSoFarGrows ==
  ASSUME TablesOK, TablesOK', Grow, NEW me \in Reading, SectionSoFar(me)
  PROVE  SectionSoFar(me)'
<1>1. me.section \in Sections /\ SectionDoc[me.section] \in Documents
      /\ me.answer \in 0..3
  BY InputAssumption, ReadingFields
<1>. DEFINE s == me.section
<1>2. /\ Revoked(SectionDoc[s]) => Revoked(SectionDoc[s])'
      /\ Modified(s) => Modified(s)'
      /\ IsDeleted(s) => IsDeleted(s)'
      /\ IsMarked(s) => IsMarked(s)'
  BY <1>1, ConditionsGrow
<1>3. me.at = "answered" => Actual(s)' <= me.answer /\ me.answer <= me.before
  <2>1. /\ Actual(s) = IF Revoked(SectionDoc[s]) \/ IsDeleted(s) \/ IsMarked(s) \/ Modified(s)
                       THEN 0 ELSE 1
        /\ Actual(s)' = IF Revoked(SectionDoc[s])' \/ IsDeleted(s)' \/ IsMarked(s)' \/ Modified(s)'
                        THEN 0 ELSE 1
    BY DEF Actual, NO, YES
  <2>2. Actual(s)' \in 0..1 /\ Actual(s) \in 0..1 /\ Actual(s)' <= Actual(s)
    BY <1>2, <2>1
  <2>3. me.at = "answered" => Actual(s) <= me.answer /\ me.answer <= me.before
    BY DEF SectionSoFar
  <2>. QED
    BY <1>1, <2>2, <2>3
<1>. QED
  BY <1>2, <1>3 DEF SectionSoFar

LEMMA SoFarGrows ==
  ASSUME TablesOK, TablesOK', Grow, NEW me \in Reading, SoFar(me)
  PROVE  SoFar(me)'
  BY StatusSoFarGrows, SectionSoFarGrows DEF SoFar

-----------------------------------------------------------------------------
(* One step of a process keeps the invariant if it is itself on track.      *)
Tables == TablesOK /\ Dated

LEMMA InvIs ==
  IndInv <=> /\ Tables
             /\ ingest \in [Ingests -> Ingesting]
             /\ reader \in [Readers -> Reading]
             /\ failures \in 0..MaxFailures
             /\ \A i \in Ingests : AtFact(ingest[i])
             /\ \A r \in Readers : SoFar(reader[r])
  BY TypeIs DEF IndInv, Tables, SoFar

LEMMA InvIsNext ==
  IndInv' <=> /\ Tables'
              /\ ingest' \in [Ingests -> Ingesting]
              /\ reader' \in [Readers -> Reading]
              /\ failures' \in 0..MaxFailures
              /\ \A i \in Ingests : AtFact(ingest'[i])
              /\ \A r \in Readers : SoFar(reader[r])'
  BY TypeIsNext DEF IndInv, Tables, SoFar, AtFact, TheFact

LEMMA TablesStand ==
  ASSUME Tables, UNCHANGED <<today, tables>>
  PROVE  Tables' /\ Grow
<1>1. TablesOK'
  BY DEF Tables, TablesOK, tables
<1>2. Dated'
  BY DEF Tables, Dated, Named, tables
<1>3. Grow
  <2>1. today <= today'
    BY DaysAreNumbers DEF Tables
  <2>. QED
    BY <2>1 DEF Grow, tables
<1>. QED
  BY <1>1, <1>2, <1>3 DEF Tables

LEMMA ReadersWait ==
  ASSUME IndInv, Tables', Grow, UNCHANGED reader
  PROVE  reader' \in [Readers -> Reading] /\ \A r \in Readers : SoFar(reader[r])'
<1>1. TablesOK /\ TablesOK' /\ reader \in [Readers -> Reading]
  BY InvIs DEF Tables
<1>2. ASSUME NEW r \in Readers PROVE SoFar(reader[r])'
  <2>1. PICK me \in Reading : me = reader[r] /\ me = reader'[r]
    BY <1>1
  <2>2. SoFar(me)
    BY <2>1, InvIs
  <2>3. SoFar(me)'
    BY <1>1, <2>2, SoFarGrows
  <2>. QED
    BY <2>1, <2>3 DEF SoFar, StatusSoFar, SectionSoFar
<1>. QED
  BY <1>1, <1>2

(* An ingest moves.                                                         *)
LEMMA IngestMoves ==
  ASSUME IndInv, Tables', Grow, NEW i \in Ingests, NEW me \in Ingesting, AtFact(me),
         ingest' = [ingest EXCEPT ![i] = me], UNCHANGED reader, failures' \in 0..MaxFailures
  PROVE  IndInv'
<1>1. reader' \in [Readers -> Reading] /\ \A r \in Readers : SoFar(reader[r])'
  BY ReadersWait
<1>2. ingest \in [Ingests -> Ingesting] /\ \A j \in Ingests : AtFact(ingest[j])
  BY InvIs
<1>3. ingest' \in [Ingests -> Ingesting] /\ \A j \in Ingests : AtFact(ingest'[j])
  BY <1>2
<1>. QED
  BY <1>1, <1>3, InvIsNext

(* The tables, or the day, move alone.                                      *)
LEMMA TablesMove ==
  ASSUME IndInv, Tables', Grow, UNCHANGED <<ingest, reader, failures>>
  PROVE  IndInv'
<1>1. reader' \in [Readers -> Reading] /\ \A r \in Readers : SoFar(reader[r])'
  BY ReadersWait
<1>. QED
  BY <1>1, InvIs, InvIsNext

(* A reader moves.                                                          *)
LEMMA ReaderMoves ==
  ASSUME IndInv, UNCHANGED <<today, tables, ingest, failures>>,
         NEW r \in Readers, NEW me \in Reading, SoFar(me),
         reader' = [reader EXCEPT ![r] = me]
  PROVE  IndInv'
<1>1. Tables /\ Tables' /\ TablesOK /\ TablesOK' /\ Grow
  BY InvIs, TablesStand DEF Tables
<1>2. reader \in [Readers -> Reading] /\ \A q \in Readers : SoFar(reader[q])
  BY InvIs
<1>3. \A q \in Readers : reader'[q] = IF q = r THEN me ELSE reader[q]
  BY <1>2
<1>4. ASSUME NEW q \in Readers PROVE SoFar(reader[q])'
  <2>1. PICK you \in Reading : you = reader'[q] /\ SoFar(you)
    BY <1>2, <1>3
  <2>2. SoFar(you)'
    BY <1>1, <2>1, SoFarGrows
  <2>. QED
    BY <2>1, <2>2 DEF SoFar, StatusSoFar, SectionSoFar
<1>5. reader' \in [Readers -> Reading]
  BY <1>2
<1>. QED
  BY <1>1, <1>4, <1>5, InvIs, InvIsNext

-----------------------------------------------------------------------------
(* The steps of an ingest.                                                  *)
LEMMA IngestAt ==
  ASSUME IndInv, NEW i \in Ingests, ingest[i].at # "idle"
  PROVE  /\ ingest[i] \in Ingesting /\ AtFact(ingest[i])
         /\ ingest[i].doc \in Documents
         /\ ingest[i].fact \in DOMAIN FactsOf[ingest[i].doc]
<1>1. ingest[i] \in Ingesting /\ AtFact(ingest[i])
  BY InvIs
<1>. QED
  BY <1>1 DEF AtFact, Ingesting

LEMMA IngestKeeps ==
  ASSUME IndInv, NEW i \in Ingests, NEW d \in Documents, Ingest(i, d)
  PROVE  IndInv'
<1>. DEFINE me == IF FactsOf[d] = <<>> THEN Idle
                  ELSE [Idle EXCEPT !.at = "resolve", !.doc = d]
<1>1. me \in Ingesting /\ AtFact(me)
  <2>1. CASE FactsOf[d] = <<>>
    BY <2>1, IdleAtFact
  <2>2. CASE FactsOf[d] # <<>>
    <3>1. FactsOf[d] \in Seq(Fact)
      BY InputAssumption
    <3>2. 1 \in DOMAIN FactsOf[d]
      BY <2>2, <3>1
    <3>3. me = [at |-> "resolve", doc |-> d, fact |-> 1, left |-> {}]
      BY <2>2 DEF Idle
    <3>. HIDE DEF me
    <3>4. me \in Ingesting /\ me.at = "resolve" /\ me.doc = d /\ me.fact = 1
      BY <3>3 DEF Ingesting
    <3>. QED
      BY <3>2, <3>4 DEF AtFact
  <2>. QED
    BY <2>1, <2>2
<1>2. ingest' = [ingest EXCEPT ![i] = me] /\ stored' = stored \cup {d}
      /\ UNCHANGED <<today, revocation, modification, deleted, marked, reader, failures>>
  BY DEF Ingest
<1>. HIDE DEF me
<1>3. Tables
  BY InvIs
<1>4. TablesOK'
  BY <1>2, <1>3 DEF Tables, TablesOK
<1>5. Dated'
  BY <1>2, <1>3 DEF Tables, Dated, Named
<1>6. Grow
  <2>1. today <= today'
    BY <1>2, <1>3, DaysAreNumbers DEF Tables
  <2>. QED
    BY <1>2, <2>1 DEF Grow
<1>7. failures' \in 0..MaxFailures
  BY <1>2, InvIs
<1>. QED
  BY <1>1, <1>2, <1>4, <1>5, <1>6, <1>7, IngestMoves DEF Tables

LEMMA ResolveKeeps ==
  ASSUME IndInv, NEW i \in Ingests, Resolve(i)
  PROVE  IndInv'
<1>. DEFINE old == ingest[i]
            me == IF TheFact(old).target \notin stored THEN NextFact(old)
                  ELSE IF TheFact(old).kind = "revoke" THEN [old EXCEPT !.at = "revoke"]
                  ELSE IF SectionsOf(old.doc) = {} THEN NextFact(old)
                  ELSE [old EXCEPT !.at = "modify", !.left = SectionsOf(old.doc)]
<1>1. /\ old.at = "resolve"
      /\ ingest' = [ingest EXCEPT ![i] = me]
      /\ UNCHANGED <<today, tables, reader, failures>>
  BY DEF Resolve
<1>2. /\ old \in Ingesting /\ old.doc \in Documents
      /\ old.fact \in DOMAIN FactsOf[old.doc]
  BY <1>1, IngestAt
<1>3. NextFact(old) \in Ingesting /\ AtFact(NextFact(old))
  BY <1>2, NextFactIsFact
<1>4. me \in Ingesting /\ AtFact(me)
  <2>1. ASSUME TheFact(old).kind = "revoke"
        PROVE  /\ [old EXCEPT !.at = "revoke"] \in Ingesting
               /\ AtFact([old EXCEPT !.at = "revoke"])
    <3>. DEFINE on == [old EXCEPT !.at = "revoke"]
    <3>1. on \in Ingesting /\ on.at = "revoke" /\ on.doc = old.doc /\ on.fact = old.fact
      BY <1>2 DEF Ingesting
    <3>. QED
      BY <1>2, <2>1, <3>1 DEF AtFact, TheFact
  <2>2. ASSUME TheFact(old).kind # "revoke"
        PROVE  /\ [old EXCEPT !.at = "modify", !.left = SectionsOf(old.doc)] \in Ingesting
               /\ AtFact([old EXCEPT !.at = "modify", !.left = SectionsOf(old.doc)])
    <3>. DEFINE on == [old EXCEPT !.at = "modify", !.left = SectionsOf(old.doc)]
    <3>1. FactsOf[old.doc] \in Seq(Fact)
      BY <1>2, InputAssumption
    <3>2. TheFact(old).kind = "modify"
      <4>1. TheFact(old) \in Fact
        BY <1>2, <3>1 DEF TheFact
      <4>. QED
        BY <2>2, <4>1 DEF Fact
    <3>3. SectionsOf(old.doc) \subseteq Sections
      BY DEF SectionsOf
    <3>4. /\ on \in Ingesting /\ on.at = "modify" /\ on.doc = old.doc
          /\ on.fact = old.fact /\ on.left = SectionsOf(old.doc)
      BY <1>2, <3>3 DEF Ingesting
    <3>. QED
      BY <1>2, <3>2, <3>4 DEF AtFact, TheFact
  <2>. QED
    BY <1>3, <2>1, <2>2
<1>. HIDE DEF me
<1>5. Tables' /\ Grow /\ failures' \in 0..MaxFailures
  BY <1>1, InvIs, TablesStand
<1>. QED
  BY <1>1, <1>4, <1>5, IngestMoves

(* What is recorded of a pair is its one date; a date that is there stays.  *)
LEMMA RecordedIsDate ==
  ASSUME NEW date, NEW old, old # Absent => old = date
  PROVE  Recorded(date, old) = date
  BY DEF Recorded

LEMMA AddRevocationKeeps ==
  ASSUME OneDate, IndInv, NEW i \in Ingests, AddRevocation(i)
  PROVE  IndInv'
<1>. DEFINE me == ingest[i]
            target == TheFact(me).target
            date == TheFact(me).date
            pair == <<me.doc, target>>
<1>1. /\ me.at = "revoke"
      /\ revocation' = [revocation EXCEPT ![pair] = Recorded(date, revocation[pair])]
      /\ ingest' = [ingest EXCEPT ![i] = NextFact(me)]
      /\ UNCHANGED <<today, stored, modification, deleted, marked, reader, failures>>
  BY DEF AddRevocation
<1>2. /\ me \in Ingesting /\ me.doc \in Documents
      /\ me.fact \in DOMAIN FactsOf[me.doc] /\ TheFact(me).kind = "revoke"
  BY <1>1, IngestAt DEF AtFact
<1>3. /\ target \in Documents /\ date \in Dates
      /\ Named("revoke", me.doc, target, date)
  BY <1>2, TheFactIsFact
<1>4. Tables
  BY InvIs
<1>5. NextFact(me) \in Ingesting /\ AtFact(NextFact(me)) /\ failures' \in 0..MaxFailures
  BY <1>1, <1>2, NextFactIsFact, InvIs
<1>. HIDE DEF me, target, date
<1>6. revocation[pair] # Absent => revocation[pair] = date
  BY <1>2, <1>3, <1>4, OneDatePerPair DEF Tables, Dated
<1>7. revocation' = [revocation EXCEPT ![pair] = date]
  BY <1>1, <1>6, RecordedIsDate
<1>8. /\ revocation \in [Documents \X Documents -> Dates \cup {Absent}]
      /\ \A p \in Documents \X Documents :
           revocation'[p] = IF p = pair THEN date ELSE revocation[p]
  BY <1>4, <1>7 DEF Tables, TablesOK
<1>9. Grow
  <2>1. today <= today'
    BY <1>1, <1>4, DaysAreNumbers DEF Tables
  <2>2. ASSUME NEW by \in Documents, NEW d \in Documents, revocation[<<by, d>>] # Absent
        PROVE  revocation'[<<by, d>>] = revocation[<<by, d>>]
    BY <1>6, <1>8, <2>2
  <2>. QED
    BY <1>1, <2>1, <2>2 DEF Grow
<1>10. TablesOK'
  <2>1. revocation' \in [Documents \X Documents -> Dates \cup {Absent}]
    BY <1>3, <1>7, <1>8
  <2>. QED
    BY <1>1, <1>4, <2>1 DEF Tables, TablesOK
<1>11. Dated'
  <2>1. ASSUME NEW by \in Documents, NEW d \in Documents, revocation'[<<by, d>>] # Absent
        PROVE  Named("revoke", by, d, revocation'[<<by, d>>])
    <3>1. CASE <<by, d>> = pair
      BY <1>2, <1>3, <1>8, <3>1
    <3>2. CASE <<by, d>> # pair
      BY <1>4, <1>8, <2>1, <3>2 DEF Tables, Dated
    <3>. QED
      BY <3>1, <3>2
  <2>. QED
    BY <1>1, <1>4, <2>1 DEF Tables, Dated, Named
<1>. QED
  BY <1>1, <1>5, <1>9, <1>10, <1>11, IngestMoves DEF Tables

LEMMA AddModificationKeeps ==
  ASSUME OneDate, IndInv, NEW i \in Ingests, AddModification(i)
  PROVE  IndInv'
<1>. DEFINE me == ingest[i]
            target == TheFact(me).target
            date == TheFact(me).date
<1>1. me.at = "modify"
  BY DEF AddModification
<1>2. PICK s \in me.left :
        /\ modification' = [modification EXCEPT
             ![<<s, target>>] = Recorded(date, modification[<<s, target>>])]
        /\ ingest' = [ingest EXCEPT ![i] = IF me.left = {s} THEN NextFact(me)
                                           ELSE [me EXCEPT !.left = @ \ {s}]]
  BY DEF AddModification
<1>3. UNCHANGED <<today, stored, revocation, deleted, marked, reader, failures>>
  BY DEF AddModification
<1>4. /\ me \in Ingesting /\ me.doc \in Documents
      /\ me.fact \in DOMAIN FactsOf[me.doc] /\ TheFact(me).kind = "modify"
      /\ me.left \subseteq SectionsOf(me.doc)
  BY <1>1, IngestAt DEF AtFact
<1>5. /\ target \in Documents /\ date \in Dates
      /\ Named("modify", me.doc, target, date)
  BY <1>4, TheFactIsFact
<1>6. s \in Sections /\ SectionDoc[s] = me.doc
  BY <1>2, <1>4 DEF SectionsOf
<1>7. Tables
  BY InvIs
<1>. DEFINE pair == <<s, target>>
            on == IF me.left = {s} THEN NextFact(me) ELSE [me EXCEPT !.left = @ \ {s}]
<1>8. on \in Ingesting /\ AtFact(on)
  <2>1. NextFact(me) \in Ingesting /\ AtFact(NextFact(me))
    BY <1>4, NextFactIsFact
  <2>2. [me EXCEPT !.left = @ \ {s}] \in Ingesting /\ AtFact([me EXCEPT !.left = @ \ {s}])
    <3>. DEFINE rest == [me EXCEPT !.left = @ \ {s}]
    <3>1. /\ rest \in Ingesting /\ rest.at = me.at /\ rest.doc = me.doc
          /\ rest.fact = me.fact /\ rest.left = me.left \ {s}
      BY <1>4 DEF Ingesting
    <3>. QED
      BY <1>1, <1>4, <3>1 DEF AtFact, TheFact
  <2>. QED
    BY <2>1, <2>2
<1>9. ingest' = [ingest EXCEPT ![i] = on] /\ failures' \in 0..MaxFailures
  BY <1>2, <1>3, InvIs
<1>. HIDE DEF me, target, date, on
<1>10. modification[pair] # Absent => modification[pair] = date
  BY <1>4, <1>5, <1>6, <1>7, OneDatePerPair DEF Tables, Dated
<1>11. modification' = [modification EXCEPT ![pair] = date]
  BY <1>2, <1>10, RecordedIsDate
<1>12. /\ modification \in [Sections \X Documents -> Dates \cup {Absent}]
       /\ \A p \in Sections \X Documents :
            modification'[p] = IF p = pair THEN date ELSE modification[p]
  BY <1>7, <1>11 DEF Tables, TablesOK
<1>13. Grow
  <2>1. today <= today'
    BY <1>3, <1>7, DaysAreNumbers DEF Tables
  <2>2. ASSUME NEW t \in Sections, NEW by \in Documents, modification[<<t, by>>] # Absent
        PROVE  modification'[<<t, by>>] = modification[<<t, by>>]
    BY <1>10, <1>12, <2>2
  <2>. QED
    BY <1>3, <2>1, <2>2 DEF Grow
<1>14. TablesOK'
  <2>1. modification' \in [Sections \X Documents -> Dates \cup {Absent}]
    BY <1>5, <1>11, <1>12
  <2>. QED
    BY <1>3, <1>7, <2>1 DEF Tables, TablesOK
<1>15. Dated'
  <2>1. ASSUME NEW t \in Sections, NEW by \in Documents, modification'[<<t, by>>] # Absent
        PROVE  Named("modify", SectionDoc[t], by, modification'[<<t, by>>])
    <3>1. CASE <<t, by>> = pair
      BY <1>5, <1>6, <1>12, <3>1
    <3>2. CASE <<t, by>> # pair
      BY <1>7, <1>12, <2>1, <3>2 DEF Tables, Dated
    <3>. QED
      BY <3>1, <3>2
  <2>. QED
    BY <1>3, <1>7, <2>1 DEF Tables, Dated, Named
<1>. QED
  BY <1>3, <1>8, <1>9, <1>13, <1>14, <1>15, IngestMoves DEF Tables

LEMMA IngestFailsKeeps ==
  ASSUME IndInv, NEW i \in Ingests, IngestFails(i)
  PROVE  IndInv'
<1>1. /\ failures < MaxFailures /\ failures' = failures + 1
      /\ ingest' = [ingest EXCEPT ![i] = Idle]
      /\ UNCHANGED <<today, tables, reader>>
  BY DEF IngestFails
<1>2. failures \in 0..MaxFailures /\ Tables
  BY InvIs
<1>3. failures' \in 0..MaxFailures
  BY <1>1, <1>2, InputAssumption
<1>4. Tables' /\ Grow
  BY <1>1, <1>2, TablesStand
<1>. QED
  BY <1>1, <1>3, <1>4, IdleAtFact, IngestMoves

-----------------------------------------------------------------------------
(* Marks and midnight.                                                      *)
LEMMA MarkKeeps ==
  ASSUME IndInv, NEW s \in Sections, MarkSectionDeleted(s) \/ MarkSectionModified(s)
  PROVE  IndInv'
<1>1. UNCHANGED <<today, stored, revocation, modification, ingest, reader, failures>>
  BY DEF MarkSectionDeleted, MarkSectionModified
<1>2. \/ deleted' = [deleted EXCEPT ![s] = MarkDate[s]] /\ marked' = marked
      \/ marked' = [marked EXCEPT ![s] = MarkDate[s]] /\ deleted' = deleted
  BY DEF MarkSectionDeleted, MarkSectionModified
<1>3. TablesOK /\ Dated /\ MarkDate[s] \in Dates
  BY InvIs, InputAssumption DEF Tables
<1>4. TablesOK'
  BY <1>1, <1>2, <1>3 DEF TablesOK
<1>5. \A t \in Sections : /\ deleted'[t] = deleted[t] \/ deleted'[t] = MarkDate[t]
                          /\ marked'[t] = marked[t] \/ marked'[t] = MarkDate[t]
  BY <1>2, <1>3 DEF TablesOK
<1>6. Dated'
  BY <1>1, <1>3, <1>5 DEF Dated, Named
<1>7. Grow
  <2>1. today <= today'
    BY <1>1, <1>3, DaysAreNumbers
  <2>. QED
    BY <1>1, <1>3, <1>5, <2>1 DEF Grow, Dated
<1>. QED
  BY <1>1, <1>4, <1>6, <1>7, TablesMove DEF Tables

LEMMA MidnightKeeps ==
  ASSUME IndInv, Midnight
  PROVE  IndInv'
<1>1. /\ today < MaxDay /\ today' = today + 1
      /\ UNCHANGED <<tables, ingest, reader, failures>>
  BY DEF Midnight
<1>2. TablesOK /\ Dated
  BY InvIs DEF Tables
<1>3. today \in 0..MaxDay
  BY <1>2 DEF TablesOK, Dates
<1>4. today' \in Dates /\ today <= today'
  BY <1>1, <1>3, InputAssumption DEF Dates
<1>5. TablesOK'
  BY <1>1, <1>2, <1>4 DEF TablesOK, tables
<1>6. Dated' /\ Grow
  BY <1>1, <1>2, <1>4 DEF Dated, Named, Grow, tables
<1>. QED
  BY <1>1, <1>5, <1>6, TablesMove DEF Tables

-----------------------------------------------------------------------------
(* The queries of a reader.                                                 *)
LEMMA AskStatusKeeps ==
  ASSUME IndInv, NEW r \in Readers, NEW d \in Documents, AskStatus(r, d)
  PROVE  IndInv'
<1>. DEFINE me == [reader[r] EXCEPT !.at = "revoked", !.doc = d, !.before = Status(d)]
<1>1. /\ reader' = [reader EXCEPT ![r] = me]
      /\ UNCHANGED <<today, tables, ingest, failures>>
  BY DEF AskStatus
<1>2. reader[r] \in Reading
  BY InvIs
<1>3. Status(d) \in UNKNOWN..REVOKED
  BY DEF Status, UNKNOWN, ACTIVE, MODIFIED, REVOKED
<1>4. me \in Reading /\ me.at = "revoked" /\ me.doc = d /\ me.before = Status(d)
  BY <1>2, <1>3 DEF Reading
<1>. HIDE DEF me
<1>5. me.before <= Status(me.doc)
  BY <1>3, <1>4 DEF UNKNOWN, REVOKED
<1>6. SoFar(me)
  BY <1>4, <1>5 DEF SoFar, StatusSoFar, SectionSoFar
<1>. QED
  BY <1>1, <1>4, <1>6, ReaderMoves

LEMMA AskSectionKeeps ==
  ASSUME IndInv, NEW r \in Readers, NEW s \in Sections, AskSection(r, s)
  PROVE  IndInv'
<1>. DEFINE me == [reader[r] EXCEPT !.at = "parent revoked", !.section = s, !.before = Actual(s)]
<1>1. /\ reader' = [reader EXCEPT ![r] = me]
      /\ UNCHANGED <<today, tables, ingest, failures>>
  BY DEF AskSection
<1>2. reader[r] \in Reading
  BY InvIs
<1>3. Actual(s) \in UNKNOWN..REVOKED
  BY DEF Actual, NO, YES, UNKNOWN, REVOKED
<1>4. me \in Reading /\ me.at = "parent revoked" /\ me.section = s /\ me.before = Actual(s)
  BY <1>2, <1>3 DEF Reading
<1>. HIDE DEF me
<1>5. ASSUME me.before = NO
      PROVE  Revoked(SectionDoc[s]) \/ IsDeleted(s) \/ IsMarked(s) \/ Modified(s)
  <2>1. Actual(s) = NO
    BY <1>4, <1>5
  <2>. QED
    BY <2>1 DEF Actual, NO, YES
<1>6. SoFar(me)
  BY <1>4, <1>5 DEF SoFar, StatusSoFar, SectionSoFar
<1>. QED
  BY <1>1, <1>4, <1>6, ReaderMoves

(* A query moves its reader, who keeps the question and what it was asked   *)
(* against.                                                                 *)
Asked(r, at, answer) == [reader[r] EXCEPT !.at = at, !.answer = answer]

LEMMA QueryMoves ==
  ASSUME IndInv, NEW r \in Readers, NEW at, NEW found \in BOOLEAN, NEW answer,
         NEW then, NEW otherwise, NEW end,
         Query(r, at, found, answer, then, otherwise, end)
  PROVE  /\ reader[r].at = at
         /\ found => reader' = [reader EXCEPT ![r] = Asked(r, end, answer)]
         /\ ~found => reader' = [reader EXCEPT ![r] = Asked(r, then, otherwise)]
         /\ UNCHANGED <<today, tables, ingest, failures>>
<1>1. reader \in [Readers -> Reading]
  BY InvIs
<1>. QED
  BY <1>1 DEF Query, Asked

LEMMA StatusValues ==
  ASSUME NEW d
  PROVE  /\ FromInForce(d) = IF InForce(d) THEN 1 ELSE 0
         /\ FromModified(d) = IF SomeModified(d) THEN 2 ELSE FromInForce(d)
         /\ Status(d) = IF Revoked(d) THEN 3 ELSE FromModified(d)
  BY DEF Status, FromModified, FromInForce, SomeModified, UNKNOWN, ACTIVE, MODIFIED, REVOKED

LEMMA GetLegalStatusKeeps ==
  ASSUME IndInv, NEW r \in Readers, GetLegalStatus(r)
  PROVE  IndInv'
<1>. DEFINE me == reader[r]
            d == me.doc
<1>1. me \in Reading /\ StatusSoFar(me)
  BY InvIs DEF SoFar
<1>2. d \in Documents /\ me.before \in 0..3
  BY <1>1, ReadingFields
<1>3. /\ FromInForce(d) = IF InForce(d) THEN 1 ELSE 0
      /\ FromModified(d) = IF SomeModified(d) THEN 2 ELSE FromInForce(d)
      /\ Status(d) = IF Revoked(d) THEN 3 ELSE FromModified(d)
  BY StatusValues
<1>0. {UNKNOWN, MODIFIED, REVOKED} \subseteq UNKNOWN..REVOKED
  BY DEF UNKNOWN, MODIFIED, REVOKED
<1>4. CASE Query(r, "revoked", Revoked(d), REVOKED, "modified", UNKNOWN, "done")
  <2>1. /\ me.at = "revoked"
        /\ Revoked(d) => reader' = [reader EXCEPT ![r] = Asked(r, "done", REVOKED)]
        /\ ~Revoked(d) => reader' = [reader EXCEPT ![r] = Asked(r, "modified", UNKNOWN)]
        /\ UNCHANGED <<today, tables, ingest, failures>>
    <3>1. Revoked(d) \in BOOLEAN
      BY DEF Revoked
    <3>. QED
      BY <1>4, <3>1, QueryMoves
  <2>2. me.before <= Status(d)
    BY <1>1, <2>1 DEF StatusSoFar
  <2>3. CASE Revoked(d)
    <3>. DEFINE on == Asked(r, "done", REVOKED)
    <3>1. on \in Reading /\ on.at = "done" /\ on.answer = REVOKED /\ on.doc = d /\ on.before = me.before
      BY <1>0, <1>1 DEF Asked, Reading
    <3>2. on.before <= on.answer /\ on.answer <= Status(on.doc)
      BY <1>2, <1>3, <2>3, <3>1 DEF REVOKED
    <3>. HIDE DEF on
    <3>3. SoFar(on)
      BY <3>1, <3>2 DEF SoFar, StatusSoFar, SectionSoFar
    <3>. QED
      BY <2>1, <2>3, <3>1, <3>3, ReaderMoves DEF on
  <2>4. CASE ~Revoked(d)
    <3>. DEFINE on == Asked(r, "modified", UNKNOWN)
    <3>1. on \in Reading /\ on.at = "modified" /\ on.doc = d /\ on.before = me.before
      BY <1>0, <1>1 DEF Asked, Reading
    <3>2. on.before <= FromModified(on.doc)
      BY <1>3, <2>2, <2>4, <3>1
    <3>. HIDE DEF on
    <3>3. SoFar(on)
      BY <3>1, <3>2 DEF SoFar, StatusSoFar, SectionSoFar
    <3>. QED
      BY <2>1, <2>4, <3>1, <3>3, ReaderMoves DEF on
  <2>. QED
    BY <2>3, <2>4
<1>5. CASE Query(r, "modified", SomeModified(d), MODIFIED, "in force", UNKNOWN, "done")
  <2>1. /\ me.at = "modified"
        /\ SomeModified(d) => reader' = [reader EXCEPT ![r] = Asked(r, "done", MODIFIED)]
        /\ ~SomeModified(d) => reader' = [reader EXCEPT ![r] = Asked(r, "in force", UNKNOWN)]
        /\ UNCHANGED <<today, tables, ingest, failures>>
    <3>1. SomeModified(d) \in BOOLEAN
      BY DEF SomeModified
    <3>. QED
      BY <1>5, <3>1, QueryMoves
  <2>2. me.before <= FromModified(d)
    BY <1>1, <2>1 DEF StatusSoFar
  <2>3. CASE SomeModified(d)
    <3>. DEFINE on == Asked(r, "done", MODIFIED)
    <3>1. on \in Reading /\ on.at = "done" /\ on.answer = MODIFIED /\ on.doc = d /\ on.before = me.before
      BY <1>0, <1>1 DEF Asked, Reading
    <3>2. on.before <= on.answer /\ on.answer <= Status(on.doc)
      BY <1>3, <2>2, <2>3, <3>1 DEF MODIFIED
    <3>. HIDE DEF on
    <3>3. SoFar(on)
      BY <3>1, <3>2 DEF SoFar, StatusSoFar, SectionSoFar
    <3>. QED
      BY <2>1, <2>3, <3>1, <3>3, ReaderMoves DEF on
  <2>4. CASE ~SomeModified(d)
    <3>. DEFINE on == Asked(r, "in force", UNKNOWN)
    <3>1. on \in Reading /\ on.at = "in force" /\ on.doc = d /\ on.before = me.before
      BY <1>0, <1>1 DEF Asked, Reading
    <3>2. on.before <= FromInForce(on.doc)
      BY <1>3, <2>2, <2>4, <3>1
    <3>. HIDE DEF on
    <3>3. SoFar(on)
      BY <3>1, <3>2 DEF SoFar, StatusSoFar, SectionSoFar
    <3>. QED
      BY <2>1, <2>4, <3>1, <3>3, ReaderMoves DEF on
  <2>. QED
    BY <2>3, <2>4
<1>6. CASE Query(r, "in force", InForce(d), ACTIVE, "done", UNKNOWN, "done")
  <2>1. /\ me.at = "in force"
        /\ InForce(d) => reader' = [reader EXCEPT ![r] = Asked(r, "done", ACTIVE)]
        /\ ~InForce(d) => reader' = [reader EXCEPT ![r] = Asked(r, "done", UNKNOWN)]
        /\ UNCHANGED <<today, tables, ingest, failures>>
    <3>1. InForce(d) \in BOOLEAN
      BY DEF InForce
    <3>. QED
      BY <1>6, <3>1, QueryMoves
  <2>2. me.before <= FromInForce(d)
    BY <1>1, <2>1 DEF StatusSoFar
  <2>. DEFINE on == Asked(r, "done", FromInForce(d))
  <2>3. FromInForce(d) \in 0..3 /\ FromInForce(d) <= Status(d)
    BY <1>3
  <2>4. /\ on \in Reading /\ on.at = "done" /\ on.answer = FromInForce(d)
        /\ on.doc = d /\ on.before = me.before
    BY <1>1, <2>3 DEF Asked, Reading, UNKNOWN, REVOKED
  <2>5. reader' = [reader EXCEPT ![r] = on]
    BY <2>1 DEF FromInForce
  <2>6. on.before <= on.answer /\ on.answer <= Status(on.doc)
    BY <2>2, <2>3, <2>4
  <2>. HIDE DEF on
  <2>7. SoFar(on)
    BY <2>4, <2>6 DEF SoFar, StatusSoFar, SectionSoFar
  <2>. QED
    BY <2>1, <2>4, <2>5, <2>7, ReaderMoves
<1>. QED
  BY <1>4, <1>5, <1>6 DEF GetLegalStatus, SomeModified

(* A reason found settles the question; none left is a yes.                 *)
LEMMA ReasonFound ==
  ASSUME IndInv, NEW r \in Readers, Actual(reader[r].section) = NO,
         reader' = [reader EXCEPT ![r] = Asked(r, "answered", NO)],
         UNCHANGED <<today, tables, ingest, failures>>
  PROVE  IndInv'
<1>. DEFINE on == Asked(r, "answered", NO)
<1>1. reader[r] \in Reading /\ reader[r].before \in 0..3
  BY InvIs, ReadingFields
<1>2. NO \in UNKNOWN..REVOKED
  BY DEF NO, UNKNOWN, REVOKED
<1>3. /\ on \in Reading /\ on.at = "answered" /\ on.answer = NO
      /\ on.section = reader[r].section /\ on.before = reader[r].before
  BY <1>1, <1>2 DEF Asked, Reading
<1>. HIDE DEF on
<1>4. Actual(on.section) <= on.answer /\ on.answer <= on.before
  BY <1>1, <1>3 DEF NO
<1>5. SoFar(on)
  BY <1>3, <1>4 DEF SoFar, StatusSoFar, SectionSoFar
<1>. QED
  BY <1>3, <1>5, ReaderMoves DEF on

LEMMA NoReason ==
  ASSUME IndInv, NEW r \in Readers, reader[r].before # NO,
         reader' = [reader EXCEPT ![r] = Asked(r, "answered", YES)],
         UNCHANGED <<today, tables, ingest, failures>>
  PROVE  IndInv'
<1>. DEFINE on == Asked(r, "answered", YES)
<1>1. reader[r] \in Reading /\ reader[r].before \in 0..3
  BY InvIs, ReadingFields
<1>2. YES \in UNKNOWN..REVOKED
  BY DEF YES, UNKNOWN, REVOKED
<1>3. /\ on \in Reading /\ on.at = "answered" /\ on.answer = YES
      /\ on.section = reader[r].section /\ on.before = reader[r].before
  BY <1>1, <1>2 DEF Asked, Reading
<1>. HIDE DEF on
<1>4. Actual(on.section) \in 0..1
  BY DEF Actual, NO, YES
<1>5. Actual(on.section) <= on.answer /\ on.answer <= on.before
  BY <1>1, <1>3, <1>4 DEF NO, YES
<1>6. SoFar(on)
  BY <1>3, <1>5 DEF SoFar, StatusSoFar, SectionSoFar
<1>. QED
  BY <1>3, <1>6, ReaderMoves DEF on

LEMMA IsSectionActualKeeps ==
  ASSUME IndInv, NEW r \in Readers, IsSectionActual(r)
  PROVE  IndInv'
<1>. DEFINE me == reader[r]
            s == me.section
<1>0. YES \in UNKNOWN..REVOKED
  BY DEF YES, UNKNOWN, REVOKED
<1>1. me \in Reading /\ SectionSoFar(me)
  BY InvIs DEF SoFar
<1>2. CASE Query(r, "parent revoked", Revoked(SectionDoc[s]), NO, "deleted", YES, "answered")
  <2>1. Revoked(SectionDoc[s]) \in BOOLEAN
    BY DEF Revoked, IsDeleted, IsMarked, Modified, Effective
  <2>2. /\ me.at = "parent revoked"
        /\ Revoked(SectionDoc[s]) => reader' = [reader EXCEPT ![r] = Asked(r, "answered", NO)]
        /\ ~Revoked(SectionDoc[s]) => reader' = [reader EXCEPT ![r] = Asked(r, "deleted", YES)]
        /\ UNCHANGED <<today, tables, ingest, failures>>
    BY <1>2, <2>1, QueryMoves
  <2>3. CASE Revoked(SectionDoc[s])
    BY <2>2, <2>3, ReasonFound DEF Actual
  <2>4. CASE ~Revoked(SectionDoc[s])
    <3>. DEFINE on == Asked(r, "deleted", YES)
    <3>1. on \in Reading /\ on.at = "deleted" /\ on.section = s /\ on.before = me.before
      BY <1>0, <1>1 DEF Asked, Reading
    <3>2. me.before = NO => IsDeleted(s) \/ IsMarked(s) \/ Modified(s)
      BY <1>1, <2>2, <2>4 DEF SectionSoFar
    <3>. HIDE DEF on
    <3>3. SoFar(on)
      BY <3>1, <3>2 DEF SoFar, StatusSoFar, SectionSoFar
    <3>. QED
      BY <2>2, <2>4, <3>1, <3>3, ReaderMoves DEF on
  <2>. QED
    BY <2>3, <2>4
<1>3. CASE Query(r, "deleted", IsDeleted(s), NO, "marked", YES, "answered")
  <2>1. IsDeleted(s) \in BOOLEAN
    BY DEF Revoked, IsDeleted, IsMarked, Modified, Effective
  <2>2. /\ me.at = "deleted"
        /\ IsDeleted(s) => reader' = [reader EXCEPT ![r] = Asked(r, "answered", NO)]
        /\ ~IsDeleted(s) => reader' = [reader EXCEPT ![r] = Asked(r, "marked", YES)]
        /\ UNCHANGED <<today, tables, ingest, failures>>
    BY <1>3, <2>1, QueryMoves
  <2>3. CASE IsDeleted(s)
    BY <2>2, <2>3, ReasonFound DEF Actual
  <2>4. CASE ~IsDeleted(s)
    <3>. DEFINE on == Asked(r, "marked", YES)
    <3>1. on \in Reading /\ on.at = "marked" /\ on.section = s /\ on.before = me.before
      BY <1>0, <1>1 DEF Asked, Reading
    <3>2. me.before = NO => IsMarked(s) \/ Modified(s)
      BY <1>1, <2>2, <2>4 DEF SectionSoFar
    <3>. HIDE DEF on
    <3>3. SoFar(on)
      BY <3>1, <3>2 DEF SoFar, StatusSoFar, SectionSoFar
    <3>. QED
      BY <2>2, <2>4, <3>1, <3>3, ReaderMoves DEF on
  <2>. QED
    BY <2>3, <2>4
<1>4. CASE Query(r, "marked", IsMarked(s), NO, "section modified", YES, "answered")
  <2>1. IsMarked(s) \in BOOLEAN
    BY DEF Revoked, IsDeleted, IsMarked, Modified, Effective
  <2>2. /\ me.at = "marked"
        /\ IsMarked(s) => reader' = [reader EXCEPT ![r] = Asked(r, "answered", NO)]
        /\ ~IsMarked(s) => reader' = [reader EXCEPT ![r] = Asked(r, "section modified", YES)]
        /\ UNCHANGED <<today, tables, ingest, failures>>
    BY <1>4, <2>1, QueryMoves
  <2>3. CASE IsMarked(s)
    BY <2>2, <2>3, ReasonFound DEF Actual
  <2>4. CASE ~IsMarked(s)
    <3>. DEFINE on == Asked(r, "section modified", YES)
    <3>1. on \in Reading /\ on.at = "section modified" /\ on.section = s /\ on.before = me.before
      BY <1>0, <1>1 DEF Asked, Reading
    <3>2. me.before = NO => Modified(s)
      BY <1>1, <2>2, <2>4 DEF SectionSoFar
    <3>. HIDE DEF on
    <3>3. SoFar(on)
      BY <3>1, <3>2 DEF SoFar, StatusSoFar, SectionSoFar
    <3>. QED
      BY <2>2, <2>4, <3>1, <3>3, ReaderMoves DEF on
  <2>. QED
    BY <2>3, <2>4
<1>5. CASE Query(r, "section modified", Modified(s), NO, "answered", YES, "answered")
  <2>1. Modified(s) \in BOOLEAN
    BY DEF Revoked, IsDeleted, IsMarked, Modified, Effective
  <2>2. /\ me.at = "section modified"
        /\ Modified(s) => reader' = [reader EXCEPT ![r] = Asked(r, "answered", NO)]
        /\ ~Modified(s) => reader' = [reader EXCEPT ![r] = Asked(r, "answered", YES)]
        /\ UNCHANGED <<today, tables, ingest, failures>>
    BY <1>5, <2>1, QueryMoves
  <2>3. CASE Modified(s)
    BY <2>2, <2>3, ReasonFound DEF Actual
  <2>4. CASE ~Modified(s)
    <3>1. me.before # NO
      BY <1>1, <2>2, <2>4 DEF SectionSoFar
    <3>. QED
      BY <2>2, <2>4, <3>1, NoReason
  <2>. QED
    BY <2>3, <2>4
<1>. QED
  BY <1>2, <1>3, <1>4, <1>5 DEF IsSectionActual

-----------------------------------------------------------------------------
LEMMA InitInvariant == Init => IndInv
<1>. SUFFICES ASSUME Init PROVE IndInv
  OBVIOUS
<1>1. TablesOK /\ Dated
  BY InputAssumption DEF Init, TablesOK, Dated, Dates
<1>2. ingest \in [Ingests -> Ingesting] /\ \A i \in Ingests : AtFact(ingest[i])
  BY IdleAtFact DEF Init
<1>3. reader \in [Readers -> Reading] /\ \A r \in Readers : reader[r].at = "idle"
  <2>. DEFINE first == [at |-> "idle", doc |-> CHOOSE d \in Documents : TRUE,
                        section |-> CHOOSE s \in Sections : TRUE, before |-> 0, answer |-> 0]
  <2>1. /\ (CHOOSE d \in Documents : TRUE) \in Documents
        /\ (CHOOSE s \in Sections : TRUE) \in Sections
    BY InputAssumption
  <2>2. 0 \in UNKNOWN..REVOKED
    BY DEF UNKNOWN, REVOKED
  <2>3. first \in Reading /\ first.at = "idle"
    BY <2>1, <2>2 DEF Reading
  <2>4. reader = [r \in Readers |-> first]
    BY DEF Init
  <2>. HIDE DEF first
  <2>. QED
    BY <2>3, <2>4
<1>4. \A r \in Readers : SoFar(reader[r])
  BY <1>3 DEF SoFar, StatusSoFar, SectionSoFar
<1>5. failures \in 0..MaxFailures
  BY InputAssumption DEF Init
<1>. QED
  BY <1>1, <1>2, <1>3, <1>4, <1>5, InvIs DEF Tables

LEMMA StepInvariant ==
  ASSUME OneDate, IndInv, [Next]_vars
  PROVE  IndInv'
<1>1. ASSUME NEW i \in Ingests, IngestStep(i)
      PROVE  IndInv'
  BY <1>1, ResolveKeeps, AddRevocationKeeps, AddModificationKeeps DEF IngestStep
<1>2. ASSUME NEW i \in Ingests, IngestFails(i)
      PROVE  IndInv'
  BY <1>2, IngestFailsKeeps
<1>3. ASSUME NEW i \in Ingests, NEW d \in Documents, Ingest(i, d)
      PROVE  IndInv'
  BY <1>3, IngestKeeps
<1>4. ASSUME NEW s \in Sections, MarkSectionDeleted(s) \/ MarkSectionModified(s)
      PROVE  IndInv'
  BY <1>4, MarkKeeps
<1>5. ASSUME NEW r \in Readers, GetLegalStatus(r) \/ IsSectionActual(r)
      PROVE  IndInv'
  BY <1>5, GetLegalStatusKeeps, IsSectionActualKeeps
<1>6. ASSUME NEW r \in Readers, NEW d \in Documents, AskStatus(r, d)
      PROVE  IndInv'
  BY <1>6, AskStatusKeeps
<1>7. ASSUME NEW r \in Readers, NEW s \in Sections, AskSection(r, s)
      PROVE  IndInv'
  BY <1>7, AskSectionKeeps
<1>8. CASE Midnight
  BY <1>8, MidnightKeeps
<1>9. CASE UNCHANGED vars
  <2>1. Tables' /\ Grow
    BY <1>9, InvIs, TablesStand DEF vars
  <2>. QED
    BY <1>9, <2>1, TablesMove DEF vars
<1>. QED
  BY <1>1, <1>2, <1>3, <1>4, <1>5, <1>6, <1>7, <1>8, <1>9 DEF Next

-----------------------------------------------------------------------------
(* The invariant holds of every behaviour, if every document gives a pair   *)
(* one date.                                                                *)
THEOREM Invariance ==
  ASSUME OneDate
  PROVE  Spec => []IndInv
BY InitInvariant, StepInvariant, PTL DEF Spec

(* The tables, the ingests and the readers keep their types.                *)
THEOREM TypeCorrect ==
  ASSUME OneDate
  PROVE  Spec => []TypeOK
<1>1. IndInv => TypeOK
  BY DEF IndInv
<1>. QED
  BY <1>1, Invariance, PTL

(* get_legal_status() answers nothing weaker than the status at the         *)
(* question and nothing stronger than the status at the answer, however     *)
(* many ingests record facts, and days begin, between its three queries.    *)
THEOREM StatusBracketedHolds ==
  ASSUME OneDate
  PROVE  Spec => []StatusBracketed
<1>1. IndInv => StatusBracketed
  BY DEF IndInv, StatusBracketed, StatusSoFar
<1>. QED
  BY <1>1, Invariance, PTL

(* is_section_actual() says yes only of a section that was actual at the    *)
(* question, and no only of one that is not actual at the answer.           *)
THEOREM SectionBracketedHolds ==
  ASSUME OneDate
  PROVE  Spec => []SectionBracketed
<1>1. IndInv => SectionBracketed
  BY DEF IndInv, SectionBracketed, SectionSoFar
<1>. QED
  BY <1>1, Invariance, PTL
=============================================================================
