--------------------------- MODULE OdlServiceProofs ---------------------------
(* Proofs about OdlService, for every number of clients, documents and       *)
(* questions and every TTL: an answer was built for the search it is given   *)
(* to, a search without a region survives what fails below it, a document    *)
(* that is known is found, and no answer is older than its time to live and  *)
(* the time it took to build.                                                *)
EXTENDS OdlStaleness, TLAPS

Entry == [answer : Answer, ttl : 0 .. SearchTtl + DetailTtl]
Request == [pc : {"idle", "lookup", "resolve", "vectors", "enrich",
                  "meta", "toc", "citations", "exists", "browse", "fill"},
            question : Questions, todo : SUBSET Ids, answer : Answer, known : BOOLEAN]
Reply == [outcome : {"none", "ok", "not_found", "error"},
          question : Questions, answer : Answer, known : BOOLEAN]
Store == [Docs -> [document : Version, sections : Version, points : [{"eo", "guid"} -> Version]]]

-----------------------------------------------------------------------------
(* The inductive invariant.                                                  *)

(* What is said of a detail includes its metadata.                           *)
Told(q, answer) == q.kind = "detail" => answer.meta[q.id] > 0

(* An entry of the cache answers every question that has its key.            *)
TrueEntry(k, entry) ==
    entry.ttl > 0 =>
        /\ Key(entry.answer.to) = k
        /\ Told(k, entry.answer)

(* A request is at a step of its own method, with an answer of its own; the  *)
(* document that was known is still there; a detail past its metadata has    *)
(* them.                                                                     *)
OnTrack(me, S) ==
    /\ me.pc # "idle" => me.answer.to = me.question
    /\ me.pc \in {"resolve", "vectors", "enrich"} => me.question.kind = "search"
    /\ me.pc = "resolve" => me.question.region
    /\ me.pc \in {"meta", "toc", "citations"} => me.question.kind = "detail"
    /\ me.pc \in {"exists", "browse"} => me.question.kind \in {"toc", "topics"}
    /\ me.pc = "fill" => me.question.kind \in {"search", "detail"}
    /\ me.pc \in {"toc", "citations", "fill"} => Told(me.question, me.answer)
    /\ me.known => S[me.question.id.doc].document > 0

(* What a client was told.                                                   *)
Honest(r) ==
    /\ r.outcome = "ok" => Key(r.answer.to) = Key(r.question) /\ Told(r.question, r.answer)
    /\ r.outcome = "error" => r.question.kind # "search" \/ r.question.region
    /\ r.outcome = "not_found" => ~(r.known /\ r.question.id.by = "eo")

IndInv ==
    /\ TypeOK
    /\ \A k \in Keys : TrueEntry(k, cache[k])
    /\ \A c \in Clients : OnTrack(request[c], store) /\ Honest(reply[c])

-----------------------------------------------------------------------------
(* Keys and blanks.                                                          *)

LEMMA QuestionTyped ==
  ASSUME NEW q \in Questions
  PROVE  /\ q.kind \in {"search", "detail", "topics", "toc"} /\ q.id \in Ids
         /\ q.query \in Nat /\ q.region \in BOOLEAN
         /\ q.id.by \in {"eo", "guid"} /\ q.id.doc \in Docs
  BY ServiceAssumption DEF ServiceAssumption, QuestionShape, Ids

(* A key keeps the kind and the id of its question, and all of the question  *)
(* but for a detail.                                                         *)
LEMMA KeyKeeps ==
  ASSUME NEW q \in Questions
  PROVE  /\ Key(q) \in Keys
         /\ Key(q).kind = q.kind /\ Key(q).id = q.id
         /\ q.kind # "detail" => Key(q) = q
<1>1. q \in [kind : {"search", "detail", "topics", "toc"}, id : Ids, query : Nat,
             region : BOOLEAN]
  BY ServiceAssumption DEF ServiceAssumption, QuestionShape
<1>. QED
  BY <1>1 DEF Key, Keys

LEMMA SomeQuestionTyped == SomeQuestion \in Questions
  BY ServiceAssumption DEF ServiceAssumption, SomeQuestion

LEMMA BlankTyped ==
  ASSUME NEW q \in Questions
  PROVE  Blank(q) \in Answer /\ Blank(q).to = q
<1>1. 0 \in Version
  BY ServiceAssumption DEF ServiceAssumption, Version
<1>. QED
  BY <1>1 DEF Blank, Answer

LEMMA NoneTyped ==
  /\ NoEntry \in Entry /\ NoEntry.ttl = 0
  /\ NoRequest \in Request /\ \A S : OnTrack(NoRequest, S)
  /\ NoReply \in Reply /\ Honest(NoReply)
<1>1. SomeQuestion \in Questions /\ Blank(SomeQuestion) \in Answer
  BY SomeQuestionTyped, BlankTyped
<1>2. NoEntry \in Entry /\ NoEntry.ttl = 0
  BY <1>1, ServiceAssumption DEF ServiceAssumption, NoEntry, Entry
<1>3. NoRequest \in Request /\ NoReply \in Reply
  BY <1>1 DEF NoRequest, Request, NoReply, Reply
<1>4. \A S : OnTrack(NoRequest, S)
  BY DEF NoRequest, OnTrack
<1>5. Honest(NoReply)
  BY DEF NoReply, Honest
<1>. QED
  BY <1>2, <1>3, <1>4, <1>5

LEMMA TypeIs ==
  TypeOK <=> /\ store \in Store /\ cache \in [Keys -> Entry] /\ faulty \in BOOLEAN
             /\ request \in [Clients -> Request] /\ reply \in [Clients -> Reply]
  BY DEF TypeOK, Store, Entry, Request, Reply

LEMMA TypeIsNext ==
  TypeOK' <=> /\ store' \in Store /\ cache' \in [Keys -> Entry] /\ faulty' \in BOOLEAN
              /\ request' \in [Clients -> Request] /\ reply' \in [Clients -> Reply]
  BY DEF TypeOK, Store, Entry, Request, Reply

(* A step of one client: what it is left with decides.                       *)
LEMMA ClientMoves ==
  ASSUME IndInv, NEW c \in Clients, NEW me \in Request, NEW r \in Reply,
         request' = [request EXCEPT ![c] = me], reply' = [reply EXCEPT ![c] = r],
         OnTrack(me, store), Honest(r),
         UNCHANGED <<store, faulty>>,
         cache' \in [Keys -> Entry], \A k \in Keys : TrueEntry(k, cache'[k])
  PROVE  IndInv'
<1>1. /\ store \in Store /\ faulty \in BOOLEAN
      /\ request \in [Clients -> Request] /\ reply \in [Clients -> Reply]
  BY TypeIs DEF IndInv
<1>2. TypeOK'
  BY <1>1, TypeIsNext
<1>3. ASSUME NEW b \in Clients PROVE OnTrack(request'[b], store') /\ Honest(reply'[b])
  <2>1. CASE b = c
    BY <1>1, <2>1
  <2>2. CASE b # c
    BY <1>1, <2>2 DEF IndInv
  <2>. QED
    BY <2>1, <2>2
<1>. QED
  BY <1>2, <1>3 DEF IndInv

(* The two forms such a step takes: on to the next step, or the reply.       *)
LEMMA RequestMoves ==
  ASSUME IndInv, NEW c \in Clients, NEW me \in Request,
         request' = [request EXCEPT ![c] = me], OnTrack(me, store),
         UNCHANGED <<store, cache, faulty, reply>>
  PROVE  IndInv'
<1>1. reply \in [Clients -> Reply] /\ cache \in [Keys -> Entry]
  BY TypeIs DEF IndInv
<1>2. reply[c] \in Reply /\ reply' = [reply EXCEPT ![c] = reply[c]] /\ Honest(reply[c])
  BY <1>1 DEF IndInv
<1>3. \A k \in Keys : TrueEntry(k, cache'[k])
  BY DEF IndInv
<1>. QED
  BY <1>1, <1>2, <1>3, ClientMoves

LEMMA Responds ==
  ASSUME IndInv, NEW c \in Clients, NEW outcome \in {"ok", "not_found", "error"},
         NEW answer \in Answer, Respond(c, outcome, answer),
         Honest([outcome |-> outcome, question |-> Q(c), answer |-> answer,
                 known |-> request[c].known]),
         UNCHANGED <<store, faulty>>,
         cache' \in [Keys -> Entry], \A k \in Keys : TrueEntry(k, cache'[k])
  PROVE  IndInv'
<1>1. request[c] \in Request
  BY TypeIs DEF IndInv
<1> DEFINE r == [outcome |-> outcome, question |-> Q(c), answer |-> answer,
                 known |-> request[c].known]
<1>2. r \in Reply
  BY <1>1 DEF Request, Reply, Q
<1>3. NoRequest \in Request /\ OnTrack(NoRequest, store)
  BY NoneTyped
<1>4. /\ request' = [request EXCEPT ![c] = NoRequest]
      /\ reply' = [reply EXCEPT ![c] = r]
      /\ Honest(r)
  BY DEF Respond
<1> HIDE DEF r
<1>. QED
  BY <1>2, <1>3, <1>4, ClientMoves

-----------------------------------------------------------------------------
(* The facts every step starts from.                                         *)
LEMMA Facts ==
  ASSUME IndInv, NEW c \in Clients
  PROVE  /\ request[c] \in Request /\ Q(c) \in Questions /\ Q(c) = request[c].question
         /\ request[c].answer \in Answer
         /\ OnTrack(request[c], store)
         /\ cache \in [Keys -> Entry] /\ \A k \in Keys : TrueEntry(k, cache[k])
         /\ store \in Store
  BY TypeIs DEF IndInv, Request, Q

LEMMA RowTyped ==
  ASSUME IndInv, NEW id \in Ids
  PROVE  /\ Row(id) \in Version /\ Points(id) \in Version
         /\ Row(id) > 0 => id.by = "eo" /\ Row(id) = store[id.doc].document
<1>1. store \in Store /\ id.by \in {"eo", "guid"} /\ id.doc \in Docs
  BY TypeIs DEF IndInv, Ids
<1>2. store[id.doc].document \in Version /\ store[id.doc].points \in [{"eo", "guid"} -> Version]
  BY <1>1 DEF Store
<1>3. 0 \in Version /\ ~(0 > 0)
  BY ServiceAssumption DEF ServiceAssumption, Version
<1>. QED
  BY <1>1, <1>2, <1>3 DEF Row, Points

LEMMA AskKeeps ==
  ASSUME IndInv, NEW c \in Clients, NEW q \in Questions, Ask(c, q)
  PROVE  IndInv'
<1> DEFINE me == [NoRequest EXCEPT !.pc = "lookup", !.question = q, !.answer = Blank(q),
                         !.known = q.kind \in {"detail", "toc"} /\ store[q.id.doc].document > 0]
<1>1. NoRequest \in Request /\ NoReply \in Reply /\ Honest(NoReply)
  BY NoneTyped
<1>2. Blank(q) \in Answer /\ Blank(q).to = q
  BY BlankTyped
<1>3. me \in Request /\ me.pc = "lookup" /\ me.question = q /\ me.answer = Blank(q)
      /\ me.known = (q.kind \in {"detail", "toc"} /\ store[q.id.doc].document > 0)
  BY <1>1, <1>2 DEF Request
<1>4. OnTrack(me, store)
  BY <1>2, <1>3 DEF OnTrack
<1>5. request' = [request EXCEPT ![c] = me] /\ reply' = [reply EXCEPT ![c] = NoReply]
      /\ UNCHANGED <<store, cache, faulty>>
  BY DEF Ask
<1>6. cache' \in [Keys -> Entry] /\ \A k \in Keys : TrueEntry(k, cache'[k])
  BY <1>5, Facts
<1> HIDE DEF me
<1>. QED
  BY <1>1, <1>3, <1>4, <1>5, <1>6, ClientMoves

(* A hit is answered with an entry that was built for the same key.          *)
LEMMA HitKeeps ==
  ASSUME IndInv, NEW c \in Clients, Hit(c)
  PROVE  IndInv'
<1> DEFINE k == Key(Q(c))
           answer == cache[k].answer
<1>1. Q(c) \in Questions /\ cache \in [Keys -> Entry] /\ \A j \in Keys : TrueEntry(j, cache[j])
  BY Facts
<1>2. k \in Keys /\ k.kind = Q(c).kind /\ k.id = Q(c).id
  BY <1>1, KeyKeeps
<1>3. answer \in Answer /\ Key(answer.to) = k /\ Told(k, answer)
  BY <1>1, <1>2 DEF Hit, Entry, TrueEntry
<1>4. Told(Q(c), answer)
  BY <1>2, <1>3 DEF Told
<1>5. Honest([outcome |-> "ok", question |-> Q(c), answer |-> answer,
              known |-> request[c].known])
  BY <1>3, <1>4 DEF Honest
<1>6. Respond(c, "ok", answer) /\ UNCHANGED <<store, cache, faulty>>
  BY DEF Hit
<1> HIDE DEF k, answer
<1>. QED
  BY <1>1, <1>3, <1>5, <1>6, Responds

(* The steps that only move on, with an answer to the same question.         *)
LEMMA ContinueKeeps ==
  ASSUME IndInv, NEW c \in Clients, NEW pc, NEW answer \in Answer, Continue(c, pc, answer),
         UNCHANGED <<store, cache, faulty>>,
         [request[c] EXCEPT !.pc = pc, !.answer = answer] \in Request,
         OnTrack([request[c] EXCEPT !.pc = pc, !.answer = answer], store)
  PROVE  IndInv'
<1>1. request \in [Clients -> Request]
  BY TypeIs DEF IndInv
<1>2. request' = [request EXCEPT ![c] = [request[c] EXCEPT !.pc = pc, !.answer = answer]]
      /\ UNCHANGED reply
  BY <1>1 DEF Continue, Request
<1>. QED
  BY <1>2, RequestMoves

LEMMA MissKeeps ==
  ASSUME IndInv, NEW c \in Clients, Miss(c)
  PROVE  IndInv'
<1>1. request[c] \in Request /\ request[c].answer \in Answer /\ Q(c) = request[c].question
      /\ OnTrack(request[c], store) /\ request[c].pc = "lookup"
      /\ Q(c).kind \in {"search", "detail", "topics", "toc"} /\ Q(c).region \in BOOLEAN
  BY Facts, QuestionTyped DEF Miss
<1> DEFINE pc == CASE Q(c).kind = "detail" -> "meta"
                   [] Q(c).kind = "search" /\ Q(c).region -> "resolve"
                   [] Q(c).kind = "search" /\ ~Q(c).region -> "vectors"
                   [] Q(c).kind = "toc" -> "exists"
                   [] Q(c).kind = "topics" -> "browse"
           me == [request[c] EXCEPT !.pc = pc, !.answer = request[c].answer]
<1>2. \/ Q(c).kind = "detail" /\ pc = "meta"
      \/ Q(c).kind = "search" /\ Q(c).region /\ pc = "resolve"
      \/ Q(c).kind = "search" /\ pc = "vectors"
      \/ Q(c).kind = "toc" /\ pc = "exists"
      \/ Q(c).kind = "topics" /\ pc = "browse"
  BY <1>1
<1>3. Continue(c, pc, request[c].answer) /\ UNCHANGED <<store, cache, faulty>>
  BY DEF Miss
<1> HIDE DEF pc
<1>4. me \in Request /\ me.pc = pc /\ me.question = Q(c) /\ me.answer = request[c].answer
      /\ me.known = request[c].known
  BY <1>1, <1>2 DEF Request
<1>5. OnTrack(me, store)
  BY <1>1, <1>2, <1>4 DEF OnTrack
<1>. QED
  BY <1>1, <1>3, <1>4, <1>5, ContinueKeeps

LEMMA ResolveKeeps ==
  ASSUME IndInv, NEW c \in Clients, Resolve(c)
  PROVE  IndInv'
<1> DEFINE me == [request[c] EXCEPT !.pc = "vectors", !.answer = request[c].answer]
<1>1. request[c] \in Request /\ request[c].answer \in Answer /\ OnTrack(request[c], store)
      /\ request[c].pc = "resolve"
  BY Facts DEF Resolve
<1>2. me \in Request /\ me.pc = "vectors" /\ me.question = request[c].question
      /\ me.answer = request[c].answer /\ me.known = request[c].known
  BY <1>1 DEF Request
<1>3. OnTrack(me, store)
  BY <1>1, <1>2 DEF OnTrack
<1>. QED
  BY <1>1, <1>2, <1>3, ContinueKeeps DEF Resolve

(* An error goes to a search with a region, a detail or a table of contents. *)
LEMMA ErrorKeeps ==
  ASSUME IndInv, NEW c \in Clients,
         request[c].pc \in {"resolve", "meta", "exists"},
         Raise(c, "error"), UNCHANGED <<store, cache, faulty>>
  PROVE  IndInv'
<1>1. Q(c) \in Questions /\ Q(c) = request[c].question /\ OnTrack(request[c], store)
      /\ cache' \in [Keys -> Entry] /\ \A k \in Keys : TrueEntry(k, cache'[k])
  BY Facts
<1>2. Blank(Q(c)) \in Answer
  BY <1>1, BlankTyped
<1>3. Q(c).kind # "search" \/ Q(c).region
  BY <1>1 DEF OnTrack
<1>4. Honest([outcome |-> "error", question |-> Q(c), answer |-> Blank(Q(c)),
              known |-> request[c].known])
  BY <1>3 DEF Honest
<1>. QED
  BY <1>1, <1>2, <1>4, Responds DEF Raise

(* No document with this id: it is not one that was known.                   *)
LEMMA MissingKeeps ==
  ASSUME IndInv, NEW c \in Clients, Missing(c)
  PROVE  IndInv'
<1>1. Q(c) \in Questions /\ Q(c) = request[c].question /\ OnTrack(request[c], store)
      /\ cache' \in [Keys -> Entry] /\ \A k \in Keys : TrueEntry(k, cache'[k])
  BY Facts DEF Missing
<1>2. Blank(Q(c)) \in Answer
  BY <1>1, BlankTyped
<1>3. ~(request[c].known /\ Q(c).id.by = "eo")
  BY <1>1 DEF OnTrack, Missing, Row
<1>4. Honest([outcome |-> "not_found", question |-> Q(c), answer |-> Blank(Q(c)),
              known |-> request[c].known])
  BY <1>3 DEF Honest
<1>. QED
  BY <1>1, <1>2, <1>4, Responds DEF Raise, Missing

LEMMA VectorsKeeps ==
  ASSUME IndInv, NEW c \in Clients, Vectors(c)
  PROVE  IndInv'
<1> DEFINE found == {i \in Ids : Points(i) > 0}
           text == [i \in Ids |-> Points(i)]
           me == [request[c] EXCEPT !.pc = IF found = {} THEN "fill" ELSE "enrich",
                                    !.todo = found, !.answer.text = text]
<1>1. request[c] \in Request /\ request[c].answer \in Answer /\ OnTrack(request[c], store)
      /\ request[c].pc = "vectors" /\ request \in [Clients -> Request]
  BY Facts, TypeIs DEF Vectors, IndInv
<1>2. text \in [Ids -> Version] /\ found \subseteq Ids
  BY RowTyped
<1>3. request' = [request EXCEPT ![c].pc = IF found = {} THEN "fill" ELSE "enrich",
                                 ![c].todo = found, ![c].answer.text = text]
      /\ UNCHANGED <<store, cache, faulty, reply>>
  BY DEF Vectors
<1> HIDE DEF found, text
<1>4. request' = [request EXCEPT ![c] = me]
  BY <1>1, <1>3 DEF Request
<1>5. /\ me \in Request /\ me.pc \in {"fill", "enrich"} /\ me.question = request[c].question
      /\ me.answer.to = request[c].answer.to /\ me.known = request[c].known
  BY <1>1, <1>2 DEF Request, Answer
<1>6. OnTrack(me, store)
  BY <1>1, <1>5 DEF OnTrack, Told
<1> HIDE DEF me
<1>. QED
  BY <1>3, <1>4, <1>5, <1>6, RequestMoves

LEMMA VectorsFailKeeps ==
  ASSUME IndInv, NEW c \in Clients, VectorsFail(c)
  PROVE  IndInv'
<1> DEFINE answer == [request[c].answer EXCEPT !.degraded = TRUE]
           me == [request[c] EXCEPT !.pc = "fill", !.answer = answer]
<1>1. request[c] \in Request /\ request[c].answer \in Answer /\ OnTrack(request[c], store)
      /\ request[c].pc = "vectors"
  BY Facts DEF VectorsFail
<1>2. answer \in Answer /\ answer.to = request[c].answer.to
  BY <1>1 DEF Answer
<1>3. Continue(c, "fill", answer) /\ UNCHANGED <<store, cache, faulty>>
  BY DEF VectorsFail
<1> HIDE DEF answer
<1>4. me \in Request /\ me.pc = "fill" /\ me.question = request[c].question
      /\ me.answer = answer /\ me.known = request[c].known
  BY <1>1, <1>2 DEF Request
<1>5. OnTrack(me, store)
  BY <1>1, <1>2, <1>4 DEF OnTrack, Told
<1>. QED
  BY <1>2, <1>3, <1>4, <1>5, ContinueKeeps

LEMMA EnrichedKeeps ==
  ASSUME IndInv, NEW c \in Clients, NEW id \in Ids, NEW answer \in Answer,
         answer.to = request[c].answer.to, Enriched(c, id, answer)
  PROVE  IndInv'
<1> DEFINE me == [request[c] EXCEPT !.todo = @ \ {id},
                         !.pc = IF request[c].todo = {id} THEN "fill" ELSE @, !.answer = answer]
<1>1. request[c] \in Request /\ OnTrack(request[c], store) /\ request[c].pc = "enrich"
      /\ request \in [Clients -> Request]
  BY Facts, TypeIs DEF Enriched, IndInv
<1>2. request' = [request EXCEPT ![c] = me]
  BY <1>1 DEF Enriched, Request
<1>3. me \in Request /\ me.pc \in {"enrich", "fill"} /\ me.question = request[c].question
      /\ me.answer = answer /\ me.known = request[c].known
  BY <1>1 DEF Request
<1>4. OnTrack(me, store)
  BY <1>1, <1>3 DEF OnTrack, Told
<1>5. UNCHANGED <<store, cache, faulty, reply>>
  BY DEF Enriched
<1> HIDE DEF me
<1>. QED
  BY <1>2, <1>3, <1>4, <1>5, RequestMoves

LEMMA EnrichKeeps ==
  ASSUME IndInv, NEW c \in Clients, NEW id \in Ids, Enrich(c, id)
  PROVE  IndInv'
<1> DEFINE found == [request[c].answer EXCEPT !.meta[id] = Row(id)]
           failed == [request[c].answer EXCEPT !.degraded = TRUE]
<1>1. request[c].answer \in Answer /\ Row(id) \in Version
  BY Facts, RowTyped
<1>2. found \in Answer /\ found.to = request[c].answer.to
  BY <1>1 DEF Answer
<1>3. failed \in Answer /\ failed.to = request[c].answer.to
  BY <1>1 DEF Answer
<1>4. Enriched(c, id, found) \/ Enriched(c, id, failed)
  BY DEF Enrich
<1> HIDE DEF found, failed
<1>. QED
  BY <1>2, <1>3, <1>4, EnrichedKeeps

(* The metadata of a detail that was found.                                  *)
LEMMA MetaKeeps ==
  ASSUME IndInv, NEW c \in Clients, Meta(c)
  PROVE  IndInv'
<1> DEFINE id == Q(c).id
           answer == [request[c].answer EXCEPT !.meta[id] = Row(id)]
           me == [request[c] EXCEPT !.pc = "toc", !.answer = answer]
<1>1. request[c] \in Request /\ request[c].answer \in Answer /\ OnTrack(request[c], store)
      /\ request[c].pc = "meta" /\ Q(c) = request[c].question /\ id \in Ids /\ Row(id) > 0
  BY Facts, QuestionTyped DEF Meta
<1>2. Row(id) \in Version
  BY <1>1, RowTyped
<1>3. answer \in Answer /\ answer.to = request[c].answer.to /\ answer.meta[id] > 0
  BY <1>1, <1>2 DEF Answer
<1>4. Continue(c, "toc", answer) /\ UNCHANGED <<store, cache, faulty>>
  BY DEF Meta
<1> HIDE DEF answer
<1>5. me \in Request /\ me.pc = "toc" /\ me.question = request[c].question
      /\ me.answer = answer /\ me.known = request[c].known
  BY <1>1, <1>3 DEF Request
<1>6. OnTrack(me, store)
  BY <1>1, <1>3, <1>5 DEF OnTrack, Told
<1>. QED
  BY <1>3, <1>4, <1>5, <1>6, ContinueKeeps

(* The parts of a detail after its metadata: these stay.                     *)
LEMMA DetailGoesOn ==
  ASSUME IndInv, NEW c \in Clients, request[c].pc \in {"toc", "citations"},
         NEW pc \in {"citations", "fill"}, NEW answer \in Answer, Continue(c, pc, answer),
         answer.to = request[c].answer.to, answer.meta = request[c].answer.meta,
         UNCHANGED <<store, cache, faulty>>
  PROVE  IndInv'
<1> DEFINE me == [request[c] EXCEPT !.pc = pc, !.answer = answer]
<1>1. request[c] \in Request /\ OnTrack(request[c], store)
  BY Facts
<1>2. me \in Request /\ me.pc = pc /\ me.question = request[c].question
      /\ me.answer = answer /\ me.known = request[c].known
  BY <1>1 DEF Request
<1>3. OnTrack(me, store)
  BY <1>1, <1>2 DEF OnTrack, Told
<1>. QED
  BY <1>2, <1>3, ContinueKeeps

LEMMA GetTocKeeps ==
  ASSUME IndInv, NEW c \in Clients, GetToc(c)
  PROVE  IndInv'
<1> DEFINE read == [request[c].answer EXCEPT !.toc = store[Q(c).id.doc].sections]
           failed == [request[c].answer EXCEPT !.degraded = TRUE]
<1>1. request[c].answer \in Answer /\ store \in Store /\ Q(c).id.doc \in Docs
      /\ request[c].pc = "toc"
  BY Facts, QuestionTyped DEF GetToc
<1>2. store[Q(c).id.doc].sections \in Version
  BY <1>1 DEF Store
<1>3. read \in Answer /\ read.to = request[c].answer.to /\ read.meta = request[c].answer.meta
  BY <1>1, <1>2 DEF Answer
<1>4. failed \in Answer /\ failed.to = request[c].answer.to
      /\ failed.meta = request[c].answer.meta
  BY <1>1 DEF Answer
<1>5. (Continue(c, "citations", read) \/ Continue(c, "citations", failed))
      /\ UNCHANGED <<store, cache, faulty>>
  BY DEF GetToc
<1> HIDE DEF read, failed
<1>. QED
  BY <1>1, <1>3, <1>4, <1>5, DetailGoesOn

LEMMA CitationsKeeps ==
  ASSUME IndInv, NEW c \in Clients, Citations(c)
  PROVE  IndInv'
<1> DEFINE read == [request[c].answer EXCEPT !.text[Q(c).id] = Points(Q(c).id)]
           failed == [request[c].answer EXCEPT !.degraded = TRUE]
<1>1. request[c].answer \in Answer /\ Points(Q(c).id) \in Version /\ request[c].pc = "citations"
  BY Facts, QuestionTyped, RowTyped DEF Citations
<1>2. read \in Answer /\ read.to = request[c].answer.to /\ read.meta = request[c].answer.meta
  BY <1>1 DEF Answer
<1>3. failed \in Answer /\ failed.to = request[c].answer.to
      /\ failed.meta = request[c].answer.meta
  BY <1>1 DEF Answer
<1>4. (Continue(c, "fill", read) \/ Continue(c, "fill", failed))
      /\ UNCHANGED <<store, cache, faulty>>
  BY DEF Citations
<1> HIDE DEF read, failed
<1>. QED
  BY <1>1, <1>2, <1>3, <1>4, DetailGoesOn

LEMMA ExistsKeeps ==
  ASSUME IndInv, NEW c \in Clients, Exists(c)
  PROVE  IndInv'
<1> DEFINE me == [request[c] EXCEPT !.pc = "browse", !.answer = request[c].answer]
<1>1. request[c] \in Request /\ request[c].answer \in Answer /\ OnTrack(request[c], store)
      /\ request[c].pc = "exists"
  BY Facts DEF Exists
<1>2. me \in Request /\ me.pc = "browse" /\ me.question = request[c].question
      /\ me.answer = request[c].answer /\ me.known = request[c].known
  BY <1>1 DEF Request
<1>3. OnTrack(me, store)
  BY <1>1, <1>2 DEF OnTrack
<1>. QED
  BY <1>1, <1>2, <1>3, ContinueKeeps DEF Exists

(* An answer that is given as it was built, by Browse or by Fill.            *)
LEMMA AnswerHonest ==
  ASSUME IndInv, NEW c \in Clients, request[c].pc \in {"browse", "fill"}
  PROVE  Honest([outcome |-> "ok", question |-> Q(c), answer |-> request[c].answer,
                 known |-> request[c].known])
<1>1. OnTrack(request[c], store) /\ Q(c) = request[c].question
  BY Facts
<1>2. request[c].answer.to = Q(c) /\ Told(Q(c), request[c].answer)
  BY <1>1 DEF OnTrack, Told
<1>. QED
  BY <1>2 DEF Honest

LEMMA BrowseKeeps ==
  ASSUME IndInv, NEW c \in Clients, Browse(c)
  PROVE  IndInv'
<1>1. request[c].answer \in Answer /\ cache' \in [Keys -> Entry]
      /\ \A k \in Keys : TrueEntry(k, cache'[k])
  BY Facts DEF Browse
<1>. QED
  BY <1>1, AnswerHonest, Responds DEF Browse

LEMMA FillKeeps ==
  ASSUME IndInv, NEW c \in Clients, Fill(c)
  PROVE  IndInv'
<1> DEFINE k == Key(Q(c))
           entry == [answer |-> request[c].answer, ttl |-> Ttl(Q(c))]
<1>1. Q(c) \in Questions /\ Q(c) = request[c].question /\ request[c].answer \in Answer
      /\ OnTrack(request[c], store) /\ request[c].pc = "fill"
      /\ cache \in [Keys -> Entry] /\ \A j \in Keys : TrueEntry(j, cache[j])
  BY Facts DEF Fill
<1>2. k \in Keys /\ k.kind = Q(c).kind /\ k.id = Q(c).id
  BY <1>1, KeyKeeps
<1>3. Ttl(Q(c)) \in 0 .. SearchTtl + DetailTtl
  BY ServiceAssumption DEF ServiceAssumption, Ttl
<1>4. entry \in Entry
  BY <1>1, <1>3 DEF Entry
<1>5. TrueEntry(k, entry)
  BY <1>1, <1>2 DEF OnTrack, TrueEntry, Told
<1>6. cache' = [cache EXCEPT ![k] = entry] \/ UNCHANGED cache
  BY DEF Fill
<1> HIDE DEF k, entry
<1>7. cache' \in [Keys -> Entry] /\ \A j \in Keys : TrueEntry(j, cache'[j])
  BY <1>1, <1>2, <1>4, <1>5, <1>6
<1>. QED
  BY <1>1, <1>7, AnswerHonest, Responds DEF Fill

-----------------------------------------------------------------------------
(* The environment.                                                          *)

(* The ingest takes no document away.                                        *)
LEMMA IngestKeeps ==
  ASSUME IndInv, NEW d \in Docs, Ingest(d)
  PROVE  IndInv'
<1>1. /\ store \in Store /\ cache \in [Keys -> Entry] /\ faulty \in BOOLEAN
      /\ request \in [Clients -> Request] /\ reply \in [Clients -> Reply]
  BY TypeIs DEF IndInv
<1>2. /\ store[d] \in [document : Version, sections : Version,
                       points : [{"eo", "guid"} -> Version]]
      /\ \A e \in Docs : store[e].document \in Version
  BY <1>1 DEF Store
<1>3. UNCHANGED <<cache, faulty, request, reply>>
  BY DEF Ingest
<1> DEFINE Kept == /\ store' \in Store
                   /\ \A e \in Docs : store[e].document > 0 => store'[e].document > 0
<1>4. Kept
  <2>1. ASSUME store[d].document < MaxVersion,
               store' = [store EXCEPT ![d].document = @ + 1]
        PROVE  Kept
    <3>1. store[d].document + 1 \in Version /\ store[d].document + 1 > 0
      BY <1>2, <2>1, ServiceAssumption DEF ServiceAssumption, Version
    <3>. QED
      BY <1>1, <1>2, <2>1, <3>1 DEF Store
  <2>2. ASSUME store' = [store EXCEPT ![d].sections = store[d].document]
        PROVE  Kept
    BY <1>1, <1>2, <2>2 DEF Store
  <2>3. ASSUME NEW by \in IndexedAs,
               store' = [store EXCEPT ![d].points[by] = store[d].document]
        PROVE  Kept
    <3>1. by \in {"eo", "guid"}
      BY ServiceAssumption DEF ServiceAssumption
    <3>2. store' = [store EXCEPT ![d] =
                      [store[d] EXCEPT !.points = [store[d].points EXCEPT ![by] =
                                                     store[d].document]]]
      BY <1>1, <2>3 DEF Store
    <3> DEFINE points == [store[d].points EXCEPT ![by] = store[d].document]
    <3>3. points \in [{"eo", "guid"} -> Version]
      BY <1>2, <3>1
    <3> HIDE DEF points
    <3>. QED
      BY <1>1, <1>2, <3>2, <3>3 DEF Store, points
  <2>. QED
    BY <2>1, <2>2, <2>3 DEF Ingest
<1>5. TypeOK'
  BY <1>1, <1>3, <1>4, TypeIsNext
<1>6. ASSUME NEW c \in Clients PROVE OnTrack(request'[c], store')
  <2>1. request[c].question.id.doc \in Docs /\ OnTrack(request[c], store)
    BY Facts, QuestionTyped
  <2>2. request[c].known => store'[request[c].question.id.doc].document > 0
    BY <1>4, <2>1 DEF OnTrack
  <2>. QED
    BY <1>3, <2>1, <2>2 DEF OnTrack
<1>. QED
  BY <1>3, <1>5, <1>6 DEF IndInv

LEMMA TickKeeps ==
  ASSUME IndInv, Tick
  PROVE  IndInv'
<1>1. /\ store \in Store /\ cache \in [Keys -> Entry] /\ faulty \in BOOLEAN
      /\ request \in [Clients -> Request] /\ reply \in [Clients -> Reply]
  BY TypeIs DEF IndInv
<1>2. UNCHANGED <<store, faulty, request, reply>>
  BY DEF Tick
<1>3. ASSUME NEW k \in Keys
      PROVE  cache'[k] \in Entry /\ TrueEntry(k, cache'[k])
  <2>1. TrueEntry(k, cache[k]) /\ cache[k] \in Entry /\ NoEntry \in Entry /\ NoEntry.ttl = 0
    BY <1>1, NoneTyped DEF IndInv
  <2>2. CASE cache[k].ttl <= 1
    <3>1. cache'[k] = NoEntry
      BY <2>2 DEF Tick
    <3>. QED
      BY <2>1, <3>1 DEF TrueEntry
  <2>3. CASE ~(cache[k].ttl <= 1)
    <3> DEFINE entry == [cache[k] EXCEPT !.ttl = @ - 1]
    <3>1. cache'[k] = entry
      BY <2>3 DEF Tick
    <3>2. entry.answer = cache[k].answer /\ entry.ttl = cache[k].ttl - 1
          /\ cache[k].answer \in Answer /\ cache[k].ttl \in 0 .. SearchTtl + DetailTtl
          /\ entry = [answer |-> entry.answer, ttl |-> entry.ttl]
      BY <2>1 DEF Entry
    <3>3. cache[k].ttl - 1 \in 0 .. SearchTtl + DetailTtl /\ cache[k].ttl > 0
      BY <2>3, <3>2, ServiceAssumption DEF ServiceAssumption
    <3> HIDE DEF entry
    <3>4. entry \in Entry
      BY <3>2, <3>3 DEF Entry
    <3>. QED
      BY <2>1, <3>1, <3>2, <3>3, <3>4 DEF TrueEntry
  <2>. QED
    BY <2>2, <2>3
<1>4. cache' \in [Keys -> Entry]
  BY <1>3 DEF Tick
<1>5. TypeOK'
  BY <1>1, <1>2, <1>4, TypeIsNext
<1>. QED
  BY <1>2, <1>3, <1>5 DEF IndInv

LEMMA InitInvariant == Init => IndInv
<1>. SUFFICES ASSUME Init PROVE IndInv
  OBVIOUS
<1>1. /\ NoEntry \in Entry /\ NoEntry.ttl = 0
      /\ NoRequest \in Request /\ OnTrack(NoRequest, store)
      /\ NoReply \in Reply /\ Honest(NoReply)
  BY NoneTyped
<1>2. 0 \in Version
  BY ServiceAssumption DEF ServiceAssumption, Version
<1>3. store \in Store
  BY <1>2 DEF Init, Store
<1>4. TypeOK
  BY <1>1, <1>3, TypeIs DEF Init
<1>. QED
  BY <1>1, <1>4 DEF Init, IndInv, TrueEntry

LEMMA StepInvariant == IndInv /\ [Next]_vars => IndInv'
<1>. SUFFICES ASSUME IndInv, [Next]_vars PROVE IndInv'
  OBVIOUS
<1>1. ASSUME NEW c \in Clients, NEW q \in Questions, Ask(c, q) PROVE IndInv'
  BY <1>1, AskKeeps
<1>2. ASSUME NEW c \in Clients, Serve(c) PROVE IndInv'
  <2>1. CASE ResolveFails(c)
    BY <2>1, ErrorKeeps DEF ResolveFails
  <2>2. CASE MetaFails(c)
    BY <2>2, ErrorKeeps DEF MetaFails
  <2>. QED
    BY <1>2, <2>1, <2>2, HitKeeps, MissKeeps, ResolveKeeps, VectorsKeeps, VectorsFailKeeps,
       EnrichKeeps, MetaKeeps, MissingKeeps, GetTocKeeps, CitationsKeeps, ExistsKeeps,
       BrowseKeeps, FillKeeps DEF Serve
<1>3. ASSUME NEW d \in Docs, Ingest(d) PROVE IndInv'
  BY <1>3, IngestKeeps
<1>4. CASE Heal
  <2>1. faulty' \in BOOLEAN /\ UNCHANGED <<store, cache, request, reply>>
    BY <1>4 DEF Heal
  <2>2. TypeOK'
    BY <2>1, TypeIs, TypeIsNext DEF IndInv
  <2>. QED
    BY <2>1, <2>2 DEF IndInv
<1>5. CASE UNCHANGED vars
  <2>1. UNCHANGED <<store, cache, faulty, request, reply>>
    BY <1>5 DEF vars
  <2>2. TypeOK'
    BY <2>1, TypeIs, TypeIsNext DEF IndInv
  <2>. QED
    BY <2>1, <2>2 DEF IndInv
<1>. QED
  BY <1>1, <1>2, <1>3, <1>4, <1>5, TickKeeps DEF Next

(* The inductive invariant holds in every reachable state.                   *)
THEOREM Invariance == Spec => []IndInv
<1>. QED
  BY InitInvariant, StepInvariant, PTL DEF Spec

(* Every variable of the service keeps its type.                             *)
THEOREM TypeCorrect == Spec => []TypeOK
<1>1. IndInv => TypeOK
  BY DEF IndInv
<1>. QED
  BY <1>1, Invariance, PTL

(* The answer to a search was built for that search, though it may come from *)
(* an entry that another client's search left under the same key.            *)
THEOREM SearchAnswersQuestionHolds == Spec => []SearchAnswersQuestion
<1>1. ASSUME IndInv, NEW c \in Clients, Answered(c, "search")
      PROVE  reply[c].answer.to = reply[c].question
  <2>1. reply[c] \in Reply /\ Honest(reply[c])
    BY <1>1, TypeIs DEF IndInv
  <2>2. reply[c].question \in Questions /\ reply[c].answer.to \in Questions
    BY <2>1 DEF Reply, Answer
  <2>3. Key(reply[c].answer.to) = Key(reply[c].question) /\ reply[c].question.kind = "search"
    BY <1>1, <2>1 DEF Answered, Honest
  <2>. QED
    BY <2>2, <2>3, KeyKeeps
<1>2. IndInv => SearchAnswersQuestion
  BY <1>1 DEF SearchAnswersQuestion
<1>. QED
  BY <1>2, Invariance, PTL

(* Only a search that names a region can end in an error: whatever Redis,    *)
(* Qdrant and the lookups of metadata do, the others are answered.           *)
THEOREM SearchSurvivesHolds == Spec => []SearchSurvives
<1>1. IndInv => SearchSurvives
  BY DEF IndInv, Honest, SearchSurvives
<1>. QED
  BY <1>1, Invariance, PTL

(* A document that was in PostgreSQL when it was asked for by publication    *)
(* number is found, with metadata if its detail was asked for.               *)
THEOREM KnownDocumentIsFoundHolds == Spec => []KnownDocumentIsFound
<1>1. IndInv => KnownDocumentIsFound
  BY DEF IndInv, Honest, Told, Answered, KnownDocumentIsFound
<1>. QED
  BY <1>1, Invariance, PTL

-----------------------------------------------------------------------------
(* How old an answer may be: the inductive invariant.                        *)

(* The ingest writes the row of a version first, ...                         *)
RowFirst(S) ==
    \A d \in Docs : /\ S[d].sections <= S[d].document
                    /\ \A by \in {"eo", "guid"} : S[d].points[by] <= S[d].document

(* ... and nothing it wrote is ever taken back.                              *)
NoLater(S, T) ==
    \A d \in Docs : /\ S[d].document <= T[d].document /\ S[d].sections <= T[d].sections
                    /\ \A by \in {"eo", "guid"} : S[d].points[by] <= T[d].points[by]

(* The parts of an answer that a request has read already lie between the    *)
(* stores it began with, B, and those there are, S.                          *)
FoundBetween(me, B, S) ==
    \A i \in Ids :
        /\ Between(me.answer.text[i], B[i.doc].points[i.by], S[i.doc].points[i.by])
        /\ i.by = "eo" /\ me.answer.text[i] > 0 /\ i \notin me.todo =>
              /\ Between(me.answer.meta[i], B[i.doc].document, S[i.doc].document)
              /\ me.answer.text[i] <= me.answer.meta[i]

ReadBetween(me, B, S) ==
    LET id == me.question.id
    IN  /\ me.pc \in {"toc", "citations", "fill"} =>
              Between(me.answer.meta[id], B[id.doc].document, S[id.doc].document)
        /\ me.pc \in {"citations", "fill"} =>
              Between(me.answer.toc, B[id.doc].sections, S[id.doc].sections)
        /\ me.pc = "fill" =>
              Between(me.answer.text[id], B[id.doc].points[id.by], S[id.doc].points[id.by])

Making(me, B, S) ==
    me.pc \notin {"idle", "lookup"} /\ ~me.answer.degraded =>
        /\ NoLater(B, S)
        /\ me.question.kind = "search" =>
              /\ me.pc \in {"enrich", "fill"} => FoundBetween(me, B, S)
              /\ me.pc = "fill" => me.todo = {}
        /\ me.question.kind = "detail" => ReadBetween(me, B, S)

(* An entry has used up of its life as much as it is old.                    *)
Lasting(k, entry, from, S) ==
    entry.ttl > 0 =>
        /\ from.age + entry.ttl <= LifeTime(k)
        /\ ~entry.answer.degraded => BuiltBetween(entry.answer, from.begun, S)

Origin == [begun : Store, age : Nat]

StaleInv ==
    /\ IndInv /\ RowFirst(store)
    /\ begun \in [Clients -> Store] /\ origin \in [Keys -> Origin]
    /\ \A c \in Clients : Making(request[c], begun[c], store)
    /\ \A k \in Keys : Lasting(k, cache[k], origin[k], store)

-----------------------------------------------------------------------------
(* Stores that move on.                                                      *)

LEMMA StoreTyped ==
  ASSUME NEW S \in Store, NEW d \in Docs, NEW by \in {"eo", "guid"}
  PROVE  S[d].document \in Nat /\ S[d].sections \in Nat /\ S[d].points[by] \in Nat
<1>1. Version \subseteq Nat
  BY ServiceAssumption DEF ServiceAssumption, Version
<1>2. S[d] \in [document : Version, sections : Version, points : [{"eo", "guid"} -> Version]]
  BY DEF Store
<1>. QED
  BY <1>1, <1>2

LEMMA AnswerTyped ==
  ASSUME NEW a \in Answer
  PROVE  /\ a.to \in Questions /\ a.to.id \in Ids /\ a.toc \in Nat /\ a.degraded \in BOOLEAN
         /\ \A i \in Ids : a.text[i] \in Nat /\ a.meta[i] \in Nat
<1>1. Version \subseteq Nat
  BY ServiceAssumption DEF ServiceAssumption, Version
<1>. QED
  BY <1>1, QuestionTyped DEF Answer

LEMMA NoLaterThanItself == ASSUME NEW S \in Store PROVE NoLater(S, S)
  BY StoreTyped DEF NoLater

LEMMA NoLaterThanLater ==
  ASSUME NEW R \in Store, NEW S \in Store, NEW T \in Store, NoLater(R, S), NoLater(S, T)
  PROVE  NoLater(R, T)
<1>1. ASSUME NEW d \in Docs, NEW by \in {"eo", "guid"}
      PROVE  /\ R[d].document <= T[d].document /\ R[d].sections <= T[d].sections
             /\ R[d].points[by] <= T[d].points[by]
  <2>1. /\ R[d].document \in Nat /\ R[d].sections \in Nat /\ R[d].points[by] \in Nat
        /\ S[d].document \in Nat /\ S[d].sections \in Nat /\ S[d].points[by] \in Nat
        /\ T[d].document \in Nat /\ T[d].sections \in Nat /\ T[d].points[by] \in Nat
    BY StoreTyped
  <2>2. /\ R[d].document <= S[d].document /\ R[d].sections <= S[d].sections
        /\ R[d].points[by] <= S[d].points[by]
        /\ S[d].document <= T[d].document /\ S[d].sections <= T[d].sections
        /\ S[d].points[by] <= T[d].points[by]
    BY DEF NoLater
  <2>. QED
    BY <2>1, <2>2
<1>. QED
  BY <1>1 DEF NoLater

(* What lay between B and S still does when S has moved on.                  *)
LEMMA StillBetween ==
  ASSUME NEW B \in Store, NEW S \in Store, NEW T \in Store, NoLater(S, T),
         NEW v \in Nat, NEW i \in Ids
  PROVE  /\ Between(v, B[i.doc].document, S[i.doc].document) =>
               Between(v, B[i.doc].document, T[i.doc].document)
         /\ Between(v, B[i.doc].sections, S[i.doc].sections) =>
               Between(v, B[i.doc].sections, T[i.doc].sections)
         /\ Between(v, B[i.doc].points[i.by], S[i.doc].points[i.by]) =>
               Between(v, B[i.doc].points[i.by], T[i.doc].points[i.by])
<1>1. i.doc \in Docs /\ i.by \in {"eo", "guid"}
  BY DEF Ids
<1>2. /\ S[i.doc].document \in Nat /\ S[i.doc].sections \in Nat /\ S[i.doc].points[i.by] \in Nat
      /\ T[i.doc].document \in Nat /\ T[i.doc].sections \in Nat /\ T[i.doc].points[i.by] \in Nat
  BY <1>1, StoreTyped
<1>3. /\ S[i.doc].document <= T[i.doc].document /\ S[i.doc].sections <= T[i.doc].sections
      /\ S[i.doc].points[i.by] <= T[i.doc].points[i.by]
  BY <1>1 DEF NoLater
<1>. QED
  BY <1>2, <1>3 DEF Between

LEMMA BuiltStill ==
  ASSUME NEW a \in Answer, NEW B \in Store, NEW S \in Store, NEW T \in Store, NoLater(S, T),
         BuiltBetween(a, B, S)
  PROVE  BuiltBetween(a, B, T)
<1>1. a.to.id \in Ids /\ a.toc \in Nat /\ \A i \in Ids : a.text[i] \in Nat /\ a.meta[i] \in Nat
  BY AnswerTyped
<1>2. CASE a.to.kind = "search"
  <2>1. ASSUME NEW i \in Ids
        PROVE  /\ Between(a.text[i], B[i.doc].points[i.by], T[i.doc].points[i.by])
               /\ i.by = "eo" /\ a.text[i] > 0 =>
                    /\ Between(a.meta[i], B[i.doc].document, T[i.doc].document)
                    /\ a.text[i] <= a.meta[i]
    BY <1>1, <1>2, StillBetween DEF BuiltBetween
  <2>. QED
    BY <1>2, <2>1 DEF BuiltBetween
<1>3. CASE a.to.kind = "detail"
  <2> DEFINE id == a.to.id
  <2>1. /\ Between(a.text[id], B[id.doc].points[id.by], S[id.doc].points[id.by])
        /\ Between(a.meta[id], B[id.doc].document, S[id.doc].document)
        /\ Between(a.toc, B[id.doc].sections, S[id.doc].sections)
    BY <1>3 DEF BuiltBetween
  <2>2. id \in Ids /\ a.toc \in Nat /\ a.text[id] \in Nat /\ a.meta[id] \in Nat
    BY <1>1
  <2> HIDE DEF id
  <2>3. Between(a.text[id], B[id.doc].points[id.by], T[id.doc].points[id.by])
    BY <2>1, <2>2, StillBetween
  <2>4. Between(a.meta[id], B[id.doc].document, T[id.doc].document)
    BY <2>1, <2>2, StillBetween
  <2>5. Between(a.toc, B[id.doc].sections, T[id.doc].sections)
    BY <2>1, <2>2, StillBetween
  <2>. QED
    BY <1>3, <2>3, <2>4, <2>5 DEF BuiltBetween, id
<1>. QED
  BY <1>2, <1>3 DEF BuiltBetween

LEMMA MakingStill ==
  ASSUME NEW me \in Request, NEW B \in Store, NEW S \in Store, NEW T \in Store, NoLater(S, T),
         Making(me, B, S)
  PROVE  Making(me, B, T)
<1> SUFFICES ASSUME me.pc \notin {"idle", "lookup"}, ~me.answer.degraded
             PROVE  /\ NoLater(B, T)
                    /\ me.question.kind = "search" =>
                          /\ me.pc \in {"enrich", "fill"} => FoundBetween(me, B, T)
                          /\ me.pc = "fill" => me.todo = {}
                    /\ me.question.kind = "detail" => ReadBetween(me, B, T)
  BY DEF Making
<1>1. /\ me.answer \in Answer /\ me.question \in Questions /\ me.question.id \in Ids
      /\ me.answer.toc \in Nat
      /\ \A i \in Ids : me.answer.text[i] \in Nat /\ me.answer.meta[i] \in Nat
  <2>1. me.answer \in Answer /\ me.question \in Questions
    BY DEF Request
  <2>. QED
    BY <2>1, AnswerTyped, QuestionTyped
<1>2. NoLater(B, S)
  BY DEF Making
<1>3. NoLater(B, T)
  BY <1>2, NoLaterThanLater
<1>4. FoundBetween(me, B, S) => FoundBetween(me, B, T)
  BY <1>1, StillBetween DEF FoundBetween
<1>5. ASSUME ReadBetween(me, B, S) PROVE ReadBetween(me, B, T)
  <2> DEFINE id == me.question.id
  <2>1. /\ id \in Ids /\ me.answer.toc \in Nat
        /\ me.answer.text[id] \in Nat /\ me.answer.meta[id] \in Nat
    BY <1>1
  <2>2. me.pc \in {"toc", "citations", "fill"} =>
          Between(me.answer.meta[id], B[id.doc].document, T[id.doc].document)
    BY <1>5, <2>1, StillBetween DEF ReadBetween
  <2>3. me.pc \in {"citations", "fill"} =>
          Between(me.answer.toc, B[id.doc].sections, T[id.doc].sections)
    BY <1>5, <2>1, StillBetween DEF ReadBetween
  <2>4. me.pc = "fill" =>
          Between(me.answer.text[id], B[id.doc].points[id.by], T[id.doc].points[id.by])
    BY <1>5, <2>1, StillBetween DEF ReadBetween
  <2>. QED
    BY <2>2, <2>3, <2>4 DEF ReadBetween
<1>. QED
  BY <1>3, <1>4, <1>5 DEF Making

-----------------------------------------------------------------------------
(* The steps.                                                                *)

LEMMA StaleFacts ==
  ASSUME StaleInv, NEW c \in Clients
  PROVE  /\ request[c] \in Request /\ request \in [Clients -> Request]
         /\ request[c].answer \in Answer /\ request[c].question \in Questions
         /\ request[c].question.id \in Ids /\ Q(c) = request[c].question
         /\ OnTrack(request[c], store) /\ store \in Store /\ cache \in [Keys -> Entry]
         /\ begun[c] \in Store /\ begun \in [Clients -> Store]
         /\ Making(request[c], begun[c], store)
<1>1. IndInv
  BY DEF StaleInv
<1>. QED
  BY <1>1, Facts, QuestionTyped, TypeIs DEF StaleInv, IndInv

LEMMA EmptyTyped == Empty \in Store
<1>1. 0 \in Version
  BY ServiceAssumption DEF ServiceAssumption, Version
<1>. QED
  BY <1>1 DEF Empty, Store

(* A step of a client that leaves the cache alone.                           *)
LEMMA ClientGoesOn ==
  ASSUME StaleInv, IndInv', NEW c \in Clients, Remember(c), ~Caches(c),
         \A b \in Clients \ {c} : request'[b] = request[b],
         request'[c].pc # "idle" => Making(request'[c], begun'[c], store),
         UNCHANGED <<store, cache>>
  PROVE  StaleInv'
<1>1. store \in Store /\ begun \in [Clients -> Store]
  BY StaleFacts
<1>2. /\ begun' \in [Clients -> Store] /\ origin' = origin
      /\ \A b \in Clients \ {c} : begun'[b] = begun[b]
  BY <1>1, EmptyTyped DEF Remember
<1>3. ASSUME NEW b \in Clients PROVE Making(request'[b], begun'[b], store)
  <2>1. CASE b = c
    BY <2>1 DEF Making
  <2>2. CASE b # c
    BY <1>2, <2>2 DEF StaleInv
  <2>. QED
    BY <2>1, <2>2
<1>4. RowFirst(store)' /\ origin' \in [Keys -> Origin]' /\ begun' \in [Clients -> Store]'
  BY <1>2 DEF StaleInv, RowFirst, Origin, Store
<1>5. \A k \in Keys : Lasting(k, cache'[k], origin'[k], store')
  BY <1>2 DEF StaleInv
<1>. QED
  BY <1>3, <1>4, <1>5 DEF StaleInv

(* The stores it began with are remembered while it reads.                   *)
LEMMA StillBegun ==
  ASSUME StaleInv, NEW c \in Clients, Remember(c), request[c].pc \notin {"idle", "lookup"},
         request'[c].pc # "idle", ~request'[c].answer.degraded
  PROVE  begun'[c] = begun[c]
<1>1. begun \in [Clients -> Store]
  BY StaleFacts
<1>. QED
  BY <1>1 DEF Remember, Ends, Begins

(* It begins with the stores of the moment.                                  *)
LEMMA MissRemembered ==
  ASSUME StaleInv, IndInv', NEW c \in Clients, Miss(c), Remember(c)
  PROVE  StaleInv'
<1>1. /\ request[c] \in Request /\ request \in [Clients -> Request] /\ store \in Store
      /\ begun \in [Clients -> Store] /\ request[c].pc = "lookup"
      /\ Q(c).kind \in {"search", "detail", "topics", "toc"} /\ Q(c).region \in BOOLEAN
  BY StaleFacts, QuestionTyped DEF Miss
<1>2. /\ request'[c].pc \in {"meta", "resolve", "vectors", "exists", "browse"}
      /\ \A b \in Clients \ {c} : request'[b] = request[b]
      /\ UNCHANGED <<store, cache>>
  BY <1>1 DEF Miss, Continue, Request
<1>3. ~request'[c].answer.degraded => begun'[c] = store
  BY <1>1, <1>2 DEF Remember, Ends, Begins
<1>4. Making(request'[c], begun'[c], store)
  BY <1>1, <1>2, <1>3, NoLaterThanItself DEF Making, ReadBetween
<1>5. ~Caches(c)
  BY <1>1 DEF Caches
<1>. QED
  BY <1>2, <1>4, <1>5, ClientGoesOn

LEMMA EndRemembered ==
  ASSUME StaleInv, IndInv', NEW c \in Clients, Remember(c),
         Hit(c) \/ ResolveFails(c) \/ Missing(c) \/ MetaFails(c) \/ Browse(c)
  PROVE  StaleInv'
<1>1. request \in [Clients -> Request]
  BY StaleFacts
<1>2. /\ request' = [request EXCEPT ![c] = NoRequest] /\ UNCHANGED <<store, cache>>
      /\ request[c].pc # "fill"
  BY DEF Hit, ResolveFails, Missing, MetaFails, Browse, Raise, Respond
<1>3. request'[c].pc = "idle" /\ \A b \in Clients \ {c} : request'[b] = request[b]
  BY <1>1, <1>2 DEF NoRequest
<1>4. ~Caches(c)
  BY <1>2 DEF Caches
<1>. QED
  BY <1>2, <1>3, <1>4, ClientGoesOn

LEMMA SearchRemembered ==
  ASSUME StaleInv, IndInv', NEW c \in Clients, Remember(c),
         Resolve(c) \/ Vectors(c) \/ VectorsFail(c)
  PROVE  StaleInv'
<1> DEFINE found == {i \in Ids : Points(i) > 0}
           text == [i \in Ids |-> Points(i)]
           old == request[c]
           me == request'[c]
<1>1. /\ old \in Request /\ request \in [Clients -> Request] /\ store \in Store
      /\ old.answer \in Answer /\ OnTrack(old, store) /\ Making(old, begun[c], store)
      /\ old.pc \in {"resolve", "vectors"} /\ old.question.kind = "search"
  BY StaleFacts DEF Resolve, Vectors, VectorsFail, OnTrack
<1>2. \A b \in Clients \ {c} : request'[b] = request[b]
  BY <1>1 DEF Resolve, Vectors, VectorsFail, Continue
<1>3. UNCHANGED <<store, cache>> /\ ~Caches(c)
  BY <1>1 DEF Resolve, Vectors, VectorsFail, Caches
<1>4. me.question = old.question
  <2>1. CASE Resolve(c) \/ VectorsFail(c)
    BY <1>1, <2>1 DEF Resolve, VectorsFail, Continue, Request
  <2>2. CASE Vectors(c)
    BY <1>1, <2>2 DEF Vectors, Request
  <2>. QED
    BY <2>1, <2>2
<1>5. CASE Resolve(c)
  <2>1. me.pc = "vectors" /\ me.answer = old.answer
    BY <1>1, <1>5 DEF Resolve, Continue, Request
  <2>2. Making(me, begun'[c], store)
    BY <1>1, <1>4, <2>1, StillBegun DEF Making
  <2>. QED
    BY <1>2, <1>3, <2>2, ClientGoesOn
<1>6. CASE Vectors(c)
  <2>1. request' = [request EXCEPT ![c].pc = IF found = {} THEN "fill" ELSE "enrich",
                                   ![c].todo = found, ![c].answer.text = text]
    BY <1>6 DEF Vectors
  <2> HIDE DEF found, text
  <2>2. /\ me.pc = (IF found = {} THEN "fill" ELSE "enrich") /\ me.todo = found
        /\ me.answer.text = text /\ me.answer.degraded = old.answer.degraded
    BY <1>1, <2>1 DEF Request, Answer
  <2>3. ASSUME ~me.answer.degraded
        PROVE  NoLater(begun[c], store) /\ begun'[c] = begun[c]
    BY <1>1, <2>2, <2>3, StillBegun DEF Making
  <2>4. ASSUME NEW i \in Ids, NoLater(begun[c], store)
        PROVE  Between(text[i], begun[c][i.doc].points[i.by], store[i.doc].points[i.by])
    <3>1. i.doc \in Docs /\ i.by \in {"eo", "guid"} /\ text[i] = store[i.doc].points[i.by]
      BY DEF Ids, text, Points
    <3>2. begun[c][i.doc].points[i.by] <= text[i] /\ text[i] \in Nat
      BY <1>1, <2>4, <3>1, StoreTyped DEF NoLater
    <3>. QED
      BY <3>1, <3>2 DEF Between
  <2>5. \A i \in Ids : text[i] > 0 => i \in found
    BY DEF text, found
  <2>6. ASSUME ~me.answer.degraded PROVE FoundBetween(me, begun'[c], store)
    BY <2>2, <2>3, <2>4, <2>5, <2>6 DEF FoundBetween
  <2>7. Making(me, begun'[c], store)
    BY <1>1, <1>4, <2>2, <2>3, <2>6 DEF Making
  <2>. QED
    BY <1>2, <1>3, <2>7, ClientGoesOn
<1>7. CASE VectorsFail(c)
  <2>1. me.answer.degraded
    BY <1>1, <1>7 DEF VectorsFail, Continue, Request, Answer
  <2>2. Making(me, begun'[c], store)
    BY <2>1 DEF Making
  <2>. QED
    BY <1>2, <1>3, <2>2, ClientGoesOn
<1>. QED
  BY <1>5, <1>6, <1>7

(* Metadata are read after the snippet: they are as new as it is.            *)
LEMMA EnrichRemembered ==
  ASSUME StaleInv, IndInv', NEW c \in Clients, NEW id \in Ids, Remember(c), Enrich(c, id)
  PROVE  StaleInv'
<1> DEFINE old == request[c]
           me == request'[c]
           B == begun[c]
<1>1. /\ old \in Request /\ request \in [Clients -> Request] /\ store \in Store /\ B \in Store
      /\ old.answer \in Answer /\ OnTrack(old, store) /\ Making(old, B, store)
      /\ old.pc = "enrich" /\ old.question.kind = "search" /\ id \in old.todo
  BY StaleFacts DEF Enrich, Enriched, OnTrack
<1>2. UNCHANGED <<store, cache>> /\ ~Caches(c)
  BY <1>1 DEF Enrich, Enriched, Caches
<1>3. PICK answer \in {[old.answer EXCEPT !.meta[id] = Row(id)],
                       [old.answer EXCEPT !.degraded = TRUE]} : Enriched(c, id, answer)
  BY DEF Enrich
<1>4. /\ me.pc = (IF old.todo = {id} THEN "fill" ELSE "enrich") /\ me.todo = old.todo \ {id}
      /\ me.answer = answer /\ me.question = old.question
      /\ \A b \in Clients \ {c} : request'[b] = request[b]
  BY <1>1, <1>3 DEF Enriched, Request
<1> HIDE DEF me
<1>5. CASE answer = [old.answer EXCEPT !.meta[id] = Row(id)]
  <2>1. /\ me.answer.text = old.answer.text /\ me.answer.degraded = old.answer.degraded
        /\ me.answer.meta[id] = Row(id)
        /\ \A i \in Ids \ {id} : me.answer.meta[i] = old.answer.meta[i]
    BY <1>1, <1>4, <1>5 DEF Answer
  <2>2. ASSUME ~me.answer.degraded
        PROVE  NoLater(B, store) /\ FoundBetween(old, B, store) /\ begun'[c] = B
    BY <1>1, <1>4, <2>1, <2>2, StillBegun DEF Making, me
  <2>3. ASSUME NEW i \in Ids, ~me.answer.degraded
        PROVE  /\ Between(me.answer.text[i], B[i.doc].points[i.by], store[i.doc].points[i.by])
               /\ i.by = "eo" /\ me.answer.text[i] > 0 /\ i \notin me.todo =>
                     /\ Between(me.answer.meta[i], B[i.doc].document, store[i.doc].document)
                     /\ me.answer.text[i] <= me.answer.meta[i]
    <3>1. Between(me.answer.text[i], B[i.doc].points[i.by], store[i.doc].points[i.by])
      BY <2>1, <2>2, <2>3 DEF FoundBetween
    <3>2. CASE i # id
      BY <1>4, <2>1, <2>2, <2>3, <3>1, <3>2 DEF FoundBetween
    <3>3. CASE i = id /\ id.by = "eo"
      <4>1. id.doc \in Docs /\ id.by \in {"eo", "guid"} /\ RowFirst(store)
        BY DEF Ids, StaleInv
      <4>2. /\ store[id.doc].document \in Nat /\ store[id.doc].points[id.by] \in Nat
            /\ B[id.doc].document \in Nat /\ old.answer.text[id] \in Nat
        BY <1>1, <4>1, StoreTyped, AnswerTyped
      <4>3. /\ store[id.doc].points[id.by] <= store[id.doc].document
            /\ B[id.doc].document <= store[id.doc].document
        BY <2>2, <2>3, <4>1 DEF RowFirst, NoLater
      <4>4. me.answer.meta[id] = store[id.doc].document
        BY <2>1, <3>3 DEF Row
      <4>. QED
        BY <2>1, <3>1, <3>3, <4>2, <4>3, <4>4 DEF Between
    <3>. QED
      BY <3>1, <3>2, <3>3
  <2>4. ~me.answer.degraded => FoundBetween(me, B, store)
    BY <2>3 DEF FoundBetween
  <2>5. me.pc = "fill" => me.todo = {}
    BY <1>4
  <2>6. Making(me, begun'[c], store)
    BY <1>1, <1>4, <2>2, <2>4, <2>5 DEF Making
  <2>. QED
    BY <1>2, <1>4, <2>6, ClientGoesOn DEF me
<1>6. CASE answer = [old.answer EXCEPT !.degraded = TRUE]
  <2>1. me.answer.degraded
    BY <1>1, <1>4, <1>6 DEF Answer
  <2>2. Making(me, begun'[c], store)
    BY <2>1 DEF Making
  <2>. QED
    BY <1>2, <1>4, <2>2, ClientGoesOn DEF me
<1>. QED
  BY <1>3, <1>5, <1>6

(* A detail, or the look at the document before its contents.                *)
LEMMA DetailRemembered ==
  ASSUME StaleInv, IndInv', NEW c \in Clients, Remember(c),
         Meta(c) \/ GetToc(c) \/ Citations(c) \/ Exists(c)
  PROVE  StaleInv'
<1> DEFINE old == request[c]
           me == request'[c]
           B == begun[c]
           id == old.question.id
<1>1. /\ old \in Request /\ request \in [Clients -> Request] /\ store \in Store /\ B \in Store
      /\ old.answer \in Answer /\ OnTrack(old, store) /\ Making(old, B, store)
      /\ old.pc \in {"meta", "toc", "citations", "exists"} /\ Q(c) = old.question
      /\ id \in Ids
  BY StaleFacts DEF Meta, GetToc, Citations, Exists
<1>2. UNCHANGED <<store, cache>> /\ ~Caches(c)
  BY <1>1 DEF Meta, GetToc, Citations, Exists, Caches
<1>3. PICK pc \in {"toc", "citations", "fill", "browse"}, answer \in Answer :
         /\ Continue(c, pc, answer)
         /\ \/ answer.degraded
            \/ /\ pc = "browse" /\ old.pc = "exists" /\ answer = old.answer
            \/ /\ pc = "toc" /\ old.pc = "meta" /\ id.by = "eo"
               /\ answer = [old.answer EXCEPT !.meta[id] = store[id.doc].document]
            \/ /\ pc = "citations" /\ old.pc = "toc"
               /\ answer = [old.answer EXCEPT !.toc = store[id.doc].sections]
            \/ /\ pc = "fill" /\ old.pc = "citations"
               /\ answer = [old.answer EXCEPT !.text[id] = store[id.doc].points[id.by]]
  <2>1. [old.answer EXCEPT !.degraded = TRUE] \in Answer
        /\ [old.answer EXCEPT !.degraded = TRUE].degraded
    BY <1>1 DEF Answer
  <2>2. /\ store[id.doc].document \in Version /\ store[id.doc].sections \in Version
        /\ store[id.doc].points[id.by] \in Version
    BY <1>1 DEF Ids, Store
  <2>3. /\ [old.answer EXCEPT !.meta[id] = store[id.doc].document] \in Answer
        /\ [old.answer EXCEPT !.toc = store[id.doc].sections] \in Answer
        /\ [old.answer EXCEPT !.text[id] = store[id.doc].points[id.by]] \in Answer
    BY <1>1, <2>2 DEF Answer
  <2>4. CASE Meta(c)
    <3>1. Row(id) > 0 /\ old.pc = "meta" /\ Continue(c, "toc", [old.answer EXCEPT !.meta[id] = Row(id)])
      BY <1>1, <2>4 DEF Meta
    <3>2. id.by = "eo" /\ Row(id) = store[id.doc].document
      BY <3>1 DEF Row
    <3>. QED
      BY <2>3, <3>1, <3>2
  <2>5. CASE GetToc(c)
    BY <1>1, <2>1, <2>3, <2>5 DEF GetToc
  <2>6. CASE Citations(c)
    <3>1. /\ old.pc = "citations"
          /\ \/ Continue(c, "fill", [old.answer EXCEPT !.text[id] = Points(id)])
             \/ Continue(c, "fill", [old.answer EXCEPT !.degraded = TRUE])
      BY <1>1, <2>6 DEF Citations
    <3>2. Points(id) = store[id.doc].points[id.by]
      BY DEF Points
    <3>. QED
      BY <2>1, <2>3, <3>1, <3>2
  <2>7. CASE Exists(c)
    BY <1>1, <2>7 DEF Exists
  <2>. QED
    BY <2>4, <2>5, <2>6, <2>7
<1>4. /\ me.pc = pc /\ me.answer = answer /\ me.question = old.question
      /\ \A b \in Clients \ {c} : request'[b] = request[b]
  BY <1>1, <1>3 DEF Continue, Request
<1>5. /\ old.pc = "exists" => old.question.kind # "detail"
      /\ old.pc # "exists" => old.question.kind = "detail"
  BY <1>1 DEF OnTrack
<1>6. ASSUME ~me.answer.degraded PROVE Making(me, begun'[c], store)
  <2>1. begun'[c] = B /\ ~answer.degraded
    BY <1>1, <1>4, <1>6, StillBegun
  <2> HIDE DEF me
  <2>2. ~old.answer.degraded
    BY <1>1, <1>3, <2>1 DEF Answer
  <2>3. NoLater(B, store) /\ (old.question.kind = "detail" => ReadBetween(old, B, store))
    BY <1>1, <2>2 DEF Making
  <2>4. id.doc \in Docs /\ id.by \in {"eo", "guid"}
    BY <1>1 DEF Ids
  <2>5. /\ Between(store[id.doc].document, B[id.doc].document, store[id.doc].document)
        /\ Between(store[id.doc].sections, B[id.doc].sections, store[id.doc].sections)
        /\ Between(store[id.doc].points[id.by], B[id.doc].points[id.by],
                   store[id.doc].points[id.by])
    <3>1. /\ store[id.doc].document \in Nat /\ store[id.doc].sections \in Nat
          /\ store[id.doc].points[id.by] \in Nat
      BY <1>1, <2>4, StoreTyped
    <3>2. /\ B[id.doc].document <= store[id.doc].document
          /\ B[id.doc].sections <= store[id.doc].sections
          /\ B[id.doc].points[id.by] <= store[id.doc].points[id.by]
      BY <2>3, <2>4 DEF NoLater
    <3>3. ASSUME NEW v \in Nat, NEW low, low <= v PROVE Between(v, low, v)
      BY <3>3 DEF Between
    <3>. QED
      BY <3>1, <3>2, <3>3
  <2>6. CASE pc = "browse" /\ old.pc = "exists"
    BY <1>4, <1>5, <2>1, <2>3, <2>6, <1>1 DEF Making, OnTrack
  <2>7. CASE pc = "toc" /\ answer = [old.answer EXCEPT !.meta[id] = store[id.doc].document]
    <3>1. answer.meta[id] = store[id.doc].document
      BY <1>1, <2>7 DEF Answer
    <3>2. ReadBetween(me, B, store)
      BY <1>4, <2>5, <2>7, <3>1 DEF ReadBetween
    <3>. QED
      BY <1>4, <2>1, <2>3, <2>7, <3>2 DEF Making
  <2>8. CASE /\ pc = "citations" /\ old.pc = "toc"
             /\ answer = [old.answer EXCEPT !.toc = store[id.doc].sections]
    <3>1. answer.toc = store[id.doc].sections /\ answer.meta = old.answer.meta
      BY <1>1, <2>8 DEF Answer
    <3>2. ReadBetween(me, B, store)
      BY <1>4, <1>5, <2>3, <2>5, <2>8, <3>1 DEF ReadBetween
    <3>. QED
      BY <1>4, <2>1, <2>3, <2>8, <3>2 DEF Making
  <2>9. CASE /\ pc = "fill" /\ old.pc = "citations"
             /\ answer = [old.answer EXCEPT !.text[id] = store[id.doc].points[id.by]]
    <3>1. /\ answer.text[id] = store[id.doc].points[id.by] /\ answer.toc = old.answer.toc
          /\ answer.meta = old.answer.meta
      BY <1>1, <2>9 DEF Answer
    <3>2. ReadBetween(me, B, store)
      BY <1>4, <1>5, <2>3, <2>5, <2>9, <3>1 DEF ReadBetween
    <3>3. old.question.kind = "detail"
      BY <1>5, <2>9
    <3>. QED
      BY <1>4, <2>1, <2>3, <2>9, <3>2, <3>3 DEF Making
  <2>. QED
    BY <1>3, <2>1, <2>6, <2>7, <2>8, <2>9
<1>7. Making(me, begun'[c], store)
  BY <1>6 DEF Making
<1>. QED
  BY <1>2, <1>4, <1>7, ClientGoesOn

(* What a request that is about to fill the cache has built.                 *)
LEMMA BuiltByFill ==
  ASSUME StaleInv, NEW c \in Clients, request[c].pc = "fill", ~request[c].answer.degraded
  PROVE  BuiltBetween(request[c].answer, begun[c], store)
<1> DEFINE me == request[c]
<1>1. me.answer.to = me.question /\ Making(me, begun[c], store)
  BY StaleFacts DEF OnTrack
<1>2. me.question.kind = "search" => FoundBetween(me, begun[c], store) /\ me.todo = {}
  BY <1>1 DEF Making
<1>3. me.question.kind = "detail" => ReadBetween(me, begun[c], store)
  BY <1>1 DEF Making
<1> HIDE DEF me
<1>4. BuiltBetween(me.answer, begun[c], store)
  <2>1. me.pc = "fill"
    BY DEF me
  <2>. QED
    BY <1>1, <1>2, <1>3, <2>1 DEF BuiltBetween, FoundBetween, ReadBetween
<1>. QED
  BY <1>4 DEF me

LEMMA LifeTimeOfKey ==
  ASSUME NEW q \in Questions, q.kind \in {"search", "detail"}
  PROVE  Ttl(q) = LifeTime(Key(q)) /\ LifeTime(Key(q)) = LifeTime(q) /\ Ttl(q) \in Nat
BY KeyKeeps, ServiceAssumption DEF ServiceAssumption, Ttl, LifeTime

LEMMA FillRemembered ==
  ASSUME StaleInv, IndInv', NEW c \in Clients, Remember(c), Fill(c)
  PROVE  StaleInv'
<1> DEFINE k == Key(Q(c))
           answer == request[c].answer
           entry == Filling(c)
           new == [begun |-> begun[c], age |-> 0]
<1>1. /\ request[c] \in Request /\ request \in [Clients -> Request] /\ store \in Store
      /\ begun \in [Clients -> Store] /\ cache \in [Keys -> Entry] /\ begun[c] \in Store
      /\ origin \in [Keys -> Origin] /\ request[c].pc = "fill"
      /\ Q(c) \in Questions /\ Q(c).kind \in {"search", "detail"}
  BY StaleFacts DEF Fill, StaleInv, OnTrack
<1>2. /\ request' = [request EXCEPT ![c] = NoRequest] /\ store' = store
      /\ cache' = [cache EXCEPT ![k] = entry] \/ cache' = cache
  BY DEF Fill, Respond, Filling
<1>3. k \in Keys /\ entry.answer = answer /\ entry.ttl = LifeTime(k) /\ LifeTime(k) \in Nat
  BY <1>1, KeyKeeps, LifeTimeOfKey DEF Filling
<1>4. Ends(c) /\ request'[c].pc = "idle" /\ \A b \in Clients \ {c} : request'[b] = request[b]
  BY <1>1, <1>2 DEF Ends, NoRequest
<1>5. /\ begun' \in [Clients -> Store] /\ \A b \in Clients \ {c} : begun'[b] = begun[b]
  BY <1>1, EmptyTyped DEF Remember
<1>6. ASSUME NEW b \in Clients PROVE Making(request'[b], begun'[b], store')
  BY <1>2, <1>4, <1>5 DEF Making, StaleInv
<1>7. new \in Origin
  BY <1>1 DEF Origin
<1>8. /\ origin' \in [Keys -> Origin]
      /\ \A j \in Keys \ {k} : origin'[j] = origin[j]
      /\ cache'[k] = entry => origin'[k] = new
      /\ cache'[k] # entry => origin'[k] = origin[k]
  <2> HIDE DEF new, k, entry
  <2>1. origin' = IF cache'[k] = entry THEN [origin EXCEPT ![k] = new] ELSE origin
    BY <1>1 DEF Remember, Caches, new, k, entry
  <2>. QED
    BY <1>1, <1>3, <1>7, <2>1
<1>9. \A j \in Keys \ {k} : cache'[j] = cache[j]
  BY <1>1, <1>2
<1>10. ASSUME NEW j \in Keys PROVE Lasting(j, cache'[j], origin'[j], store)
  <2>1. Lasting(j, cache[j], origin[j], store)
    BY DEF StaleInv
  <2>2. CASE j # k
    BY <1>8, <1>9, <2>1, <2>2
  <2>3. CASE j = k /\ cache'[k] # entry
    <3>1. cache'[k] = cache[k]
      BY <1>1, <1>2, <1>3, <2>3
    <3>. QED
      BY <1>8, <2>1, <2>3, <3>1
  <2>4. CASE j = k /\ cache'[k] = entry
    <3>1. origin'[k].age = 0 /\ origin'[k].begun = begun[c]
      BY <1>8, <2>4
    <3>2. cache'[k].ttl = LifeTime(k) /\ cache'[k].answer = answer
      BY <1>3, <2>4
    <3>3. ~answer.degraded => BuiltBetween(answer, begun[c], store)
      BY <1>1, BuiltByFill
    <3>. QED
      BY <1>3, <2>4, <3>1, <3>2, <3>3 DEF Lasting
  <2>. QED
    BY <2>2, <2>3, <2>4
<1>11. RowFirst(store)'
  BY <1>2 DEF StaleInv, RowFirst
<1>. QED
  BY <1>2, <1>5, <1>6, <1>8, <1>10, <1>11 DEF StaleInv, Store, Origin

LEMMA AskRemembered ==
  ASSUME StaleInv, IndInv', NEW c \in Clients, NEW q \in Questions, Ask(c, q), UNCHANGED history
  PROVE  StaleInv'
<1>1. request \in [Clients -> Request]
  BY StaleFacts
<1>2. request'[c].pc = "lookup" /\ \A b \in Clients \ {c} : request'[b] = request[b]
  BY <1>1 DEF Ask, NoRequest
<1>3. UNCHANGED <<store, cache, begun, origin>>
  BY DEF Ask, history
<1>4. ASSUME NEW b \in Clients PROVE Making(request'[b], begun[b], store)
  BY <1>2 DEF Making, StaleInv
<1>. QED
  BY <1>3, <1>4 DEF StaleInv, RowFirst, Store, Origin

LEMMA IngestMovesOn ==
  ASSUME StaleInv, IndInv', NEW d \in Docs, Ingest(d)
  PROVE  NoLater(store, store') /\ RowFirst(store')
<1> DEFINE S == store[d]
           T == store'[d]
<1>1. store \in Store /\ store' \in Store /\ RowFirst(store)
  BY TypeIs, TypeIsNext DEF StaleInv, IndInv
<1>2. ASSUME NEW by \in {"eo", "guid"}
      PROVE  /\ S.document \in Nat /\ S.sections \in Nat /\ S.points[by] \in Nat
             /\ S.sections <= S.document /\ S.points[by] <= S.document
  BY <1>1, StoreTyped DEF RowFirst
<1>3. /\ S \in [document : Version, sections : Version, points : [{"eo", "guid"} -> Version]]
      /\ \A e \in Docs \ {d} : store'[e] = store[e]
  BY <1>1 DEF Ingest, Store
<1>4. /\ S.document <= T.document /\ S.sections <= T.sections /\ T.sections <= T.document
      /\ \A by \in {"eo", "guid"} : S.points[by] <= T.points[by] /\ T.points[by] <= T.document
  <2>1. CASE store' = [store EXCEPT ![d].document = @ + 1]
    <3>0. T = [S EXCEPT !.document = S.document + 1]
      BY <1>1, <2>1 DEF Store
    <3>1. T.document = S.document + 1 /\ T.sections = S.sections /\ T.points = S.points
      BY <1>3, <3>0
    <3> HIDE DEF S, T
    <3>. QED
      BY <1>2, <3>1
  <2>2. CASE store' = [store EXCEPT ![d].sections = store[d].document]
    <3>0. T = [S EXCEPT !.sections = S.document]
      BY <1>1, <2>2 DEF Store
    <3>1. T.document = S.document /\ T.sections = S.document /\ T.points = S.points
      BY <1>3, <3>0
    <3> HIDE DEF S, T
    <3>. QED
      BY <1>2, <3>1
  <2>3. ASSUME NEW by \in IndexedAs, store' = [store EXCEPT ![d].points[by] = store[d].document]
        PROVE  /\ S.document <= T.document /\ S.sections <= T.sections /\ T.sections <= T.document
               /\ \A b \in {"eo", "guid"} : S.points[b] <= T.points[b] /\ T.points[b] <= T.document
    <3>0. T = [S EXCEPT !.points = [S.points EXCEPT ![by] = S.document]]
      BY <1>1, <2>3 DEF Store
    <3>1. /\ T.document = S.document /\ T.sections = S.sections
          /\ T.points = [S.points EXCEPT ![by] = S.document]
      BY <1>3, <3>0
    <3>2. \A b \in {"eo", "guid"} : T.points[b] = S.points[b] \/ T.points[b] = S.document
      BY <1>3, <3>1
    <3> HIDE DEF S, T
    <3>. QED
      BY <1>2, <3>1, <3>2
  <2>. QED
    BY <2>1, <2>2, <2>3 DEF Ingest
<1>5. ASSUME NEW e \in Docs, e # d, NEW by \in {"eo", "guid"}
      PROVE  /\ store[e].document \in Nat /\ store[e].sections \in Nat /\ store[e].points[by] \in Nat
             /\ store'[e] = store[e]
             /\ store[e].sections <= store[e].document /\ store[e].points[by] <= store[e].document
  BY <1>1, <1>3, <1>5, StoreTyped DEF RowFirst
<1>6. NoLater(store, store')
  BY <1>4, <1>5 DEF NoLater
<1>7. RowFirst(store')
  BY <1>4, <1>5 DEF RowFirst
<1>. QED
  BY <1>6, <1>7

LEMMA IngestRemembered ==
  ASSUME StaleInv, IndInv', NEW d \in Docs, Ingest(d), UNCHANGED history
  PROVE  StaleInv'
<1>1. /\ store \in Store /\ store' \in Store /\ request \in [Clients -> Request]
      /\ cache \in [Keys -> Entry] /\ begun \in [Clients -> Store] /\ origin \in [Keys -> Origin]
  BY TypeIs, TypeIsNext DEF StaleInv, IndInv
<1>2. NoLater(store, store') /\ RowFirst(store')
  BY IngestMovesOn
<1>3. UNCHANGED <<request, cache, begun, origin>>
  BY DEF Ingest, history
<1>4. ASSUME NEW c \in Clients PROVE Making(request[c], begun[c], store')
  BY <1>1, <1>2, MakingStill DEF StaleInv
<1>5. ASSUME NEW k \in Keys PROVE Lasting(k, cache[k], origin[k], store')
  <2>1. Lasting(k, cache[k], origin[k], store) /\ cache[k].answer \in Answer
        /\ origin[k].begun \in Store
    BY <1>1 DEF StaleInv, Entry, Origin
  <2>. QED
    BY <1>1, <1>2, <2>1, BuiltStill DEF Lasting
<1>. QED
  BY <1>1, <1>2, <1>3, <1>4, <1>5 DEF StaleInv

LEMMA TickRemembered ==
  ASSUME StaleInv, IndInv', Tick, Grow
  PROVE  StaleInv'
<1>1. /\ store \in Store /\ cache \in [Keys -> Entry] /\ origin \in [Keys -> Origin]
  BY TypeIs DEF StaleInv, IndInv
<1>2. UNCHANGED <<store, request, begun>>
  BY DEF Tick, Grow
<1>3. ASSUME NEW n \in Nat PROVE Older(n) \in Nat /\ Older(n) <= n + 1
  BY <1>3, ServiceAssumption DEF Older, ServiceAssumption
<1>4. Unfilled \in Origin
  BY EmptyTyped DEF Unfilled, Origin
<1>5. ASSUME NEW k \in Keys
      PROVE  origin'[k] \in Origin /\ Lasting(k, cache'[k], origin'[k], store)
  <2>1. /\ origin[k] \in Origin /\ origin[k].age \in Nat /\ cache[k].ttl \in Nat
        /\ Lasting(k, cache[k], origin[k], store)
    BY <1>1, ServiceAssumption DEF StaleInv, Origin, Entry, ServiceAssumption
  <2>2. cache'[k] = IF cache[k].ttl <= 1 THEN NoEntry ELSE [cache[k] EXCEPT !.ttl = @ - 1]
    BY DEF Tick
  <2>3. origin'[k] = IF cache'[k].ttl = 0 THEN Unfilled ELSE [origin[k] EXCEPT !.age = Older(@)]
    BY DEF Grow
  <2>4. CASE cache[k].ttl <= 1
    <3>1. cache'[k].ttl = 0
      BY <2>2, <2>4 DEF NoEntry
    <3>. QED
      BY <1>4, <2>3, <3>1 DEF Lasting
  <2>5. CASE cache[k].ttl > 1
    <3>1. cache'[k].ttl = cache[k].ttl - 1 /\ cache'[k].answer = cache[k].answer
      BY <1>1, <2>1, <2>2, <2>5 DEF Entry
    <3>2. cache'[k].ttl # 0
      BY <2>1, <2>5, <3>1
    <3>3. /\ origin'[k].age = Older(origin[k].age) /\ origin'[k].begun = origin[k].begun
          /\ origin'[k] \in Origin
      BY <1>3, <2>1, <2>3, <3>2 DEF Origin
    <3>4. LifeTime(k) \in Nat
      BY ServiceAssumption DEF LifeTime, ServiceAssumption
    <3>5. origin[k].age + cache[k].ttl <= LifeTime(k)
      BY <2>1, <2>5 DEF Lasting
    <3>6. origin'[k].age + cache'[k].ttl <= LifeTime(k)
      <4>1. origin'[k].age \in Nat /\ origin'[k].age <= origin[k].age + 1
        BY <1>3, <2>1, <3>3
      <4>. QED
        BY <2>1, <2>5, <3>1, <3>4, <3>5, <4>1
    <3>7. ~cache[k].answer.degraded => BuiltBetween(cache[k].answer, origin[k].begun, store)
      BY <2>1, <2>5 DEF Lasting
    <3>. QED
      BY <3>1, <3>3, <3>6, <3>7 DEF Lasting
  <2>. QED
    BY <2>1, <2>4, <2>5
<1>6. origin' \in [Keys -> Origin]
  BY <1>5 DEF Grow
<1>. QED
  BY <1>2, <1>5, <1>6 DEF StaleInv, RowFirst, Store, Origin

(* HistoryNext adds nothing to what the program does.                        *)
LEMMA HistoryOnly == HistoryNext => Next
BY DEF HistoryNext, Next

LEMMA StaleInit == HistoryInit => StaleInv
<1> SUFFICES ASSUME HistoryInit PROVE StaleInv
  OBVIOUS
<1>1. IndInv
  BY InitInvariant DEF HistoryInit
<1>2. RowFirst(store)
  BY DEF HistoryInit, Init, RowFirst
<1>3. begun \in [Clients -> Store] /\ origin \in [Keys -> Origin]
  BY EmptyTyped DEF HistoryInit, Unfilled, Origin
<1>4. \A c \in Clients : Making(request[c], begun[c], store)
  BY DEF HistoryInit, Init, NoRequest, Making
<1>5. \A k \in Keys : Lasting(k, cache[k], origin[k], store)
  BY DEF HistoryInit, Init, NoEntry, Lasting
<1>. QED
  BY <1>1, <1>2, <1>3, <1>4, <1>5 DEF StaleInv

LEMMA StaleStep == StaleInv /\ [HistoryNext]_<<vars, history>> => StaleInv'
<1> SUFFICES ASSUME StaleInv, [HistoryNext]_<<vars, history>> PROVE StaleInv'
  OBVIOUS
<1>1. IndInv'
  BY HistoryOnly, StepInvariant DEF StaleInv
<1>2. ASSUME NEW c \in Clients, NEW q \in Questions, Ask(c, q), UNCHANGED history PROVE StaleInv'
  BY <1>1, <1>2, AskRemembered
<1>3. ASSUME NEW c \in Clients, Serve(c), Remember(c) PROVE StaleInv'
  <2>1. CASE Miss(c)
    BY <1>1, <1>3, <2>1, MissRemembered
  <2>2. CASE Hit(c) \/ ResolveFails(c) \/ Missing(c) \/ MetaFails(c) \/ Browse(c)
    BY <1>1, <1>3, <2>2, EndRemembered
  <2>3. CASE Resolve(c) \/ Vectors(c) \/ VectorsFail(c)
    BY <1>1, <1>3, <2>3, SearchRemembered
  <2>4. CASE \E id \in Ids : Enrich(c, id)
    BY <1>1, <1>3, <2>4, EnrichRemembered
  <2>5. CASE Meta(c) \/ GetToc(c) \/ Citations(c) \/ Exists(c)
    BY <1>1, <1>3, <2>5, DetailRemembered
  <2>6. CASE Fill(c)
    BY <1>1, <1>3, <2>6, FillRemembered
  <2>. QED
    BY <1>3, <2>1, <2>2, <2>3, <2>4, <2>5, <2>6 DEF Serve
<1>4. ASSUME NEW d \in Docs, Ingest(d), UNCHANGED history PROVE StaleInv'
  BY <1>1, <1>4, IngestRemembered
<1>5. CASE Tick /\ Grow
  BY <1>1, <1>5, TickRemembered
<1>6. CASE \/ Heal /\ UNCHANGED history
           \/ UNCHANGED <<vars, history>>
  BY <1>1, <1>6 DEF Heal, vars, history, StaleInv, RowFirst, Store, Origin
<1>. QED
  BY <1>2, <1>3, <1>4, <1>5, <1>6 DEF HistoryNext

(* Only the cache and the end of a method give such an answer.               *)
LEMMA AnswersEnd ==
  ASSUME StaleInv, [HistoryNext]_<<vars, history>>, NEW c \in Clients,
         request[c].pc \in {"lookup", "fill"}, Ends(c), reply'[c].outcome = "ok"
  PROVE  Hit(c) \/ Fill(c)
<1>1. request \in [Clients -> Request] /\ request'[c].pc = "idle" /\ request[c].pc # "idle"
  BY StaleFacts DEF Ends
<1>2. request' # request
  BY <1>1
<1>3. ASSUME NEW b \in Clients, NEW q \in Questions, Ask(b, q) PROVE FALSE
  <2>1. CASE b = c
    BY <1>1, <1>3, <2>1 DEF Ask
  <2>2. CASE b # c
    BY <1>1, <1>3, <2>2 DEF Ask
  <2>. QED
    BY <2>1, <2>2
<1>4. ASSUME NEW b \in Clients, b # c, Serve(b) PROVE FALSE
  <2>1. request'[c] = request[c]
    BY <1>1, <1>4 DEF Serve, Hit, Miss, Resolve, ResolveFails, Vectors, VectorsFail, Enrich,
      Enriched, Meta, Missing, MetaFails, GetToc, Citations, Exists, Browse, Fill,
      Continue, Respond, Raise
  <2>. QED
    BY <1>1, <2>1
<1>5. PICK b \in Clients : Serve(b)
  BY <1>2, <1>3 DEF HistoryNext, Ingest, Tick, Heal, vars, history
<1>6. Serve(c)
  BY <1>4, <1>5
<1>7. ~Miss(c)
  <2>1. request[c].question.kind \in {"search", "detail", "topics", "toc"}
        /\ request[c].question.region \in BOOLEAN
    BY StaleFacts, QuestionTyped
  <2>. QED
    BY <1>1, <2>1 DEF Miss, Continue, Q, Request
<1>. QED
  BY <1>1, <1>6, <1>7 DEF Serve, Resolve, ResolveFails, Vectors, VectorsFail, Enrich,
    Enriched, Meta, Missing, MetaFails, GetToc, Citations, Exists, Browse

(* StalenessBounded, for any number of clients, documents and versions and   *)
(* for any time to live: what the cache answers has been there for less      *)
(* than the time to live of its method, and an answer that no failure has    *)
(* degraded shows nothing that was overtaken before its building was begun.  *)
THEOREM StalenessBoundedHolds == HistorySpec => StalenessBounded
<1> DEFINE Bounded(c) ==
      LET q == Q(c)
          a == reply'[c].answer
          hit == request[c].pc = "lookup"
      IN  request[c].pc \in {"lookup", "fill"} /\ Ends(c) /\ reply'[c].outcome = "ok" =>
            /\ hit => origin[Key(q)].age < LifeTime(q)
            /\ ~a.degraded => BuiltBetween(a, IF hit THEN origin[Key(q)].begun ELSE begun[c], store)
<1>1. HistoryInit => StaleInv
  BY StaleInit
<1>2. StaleInv /\ [HistoryNext]_<<vars, history>> => StaleInv'
  BY StaleStep
<1>3. ASSUME StaleInv, [HistoryNext]_<<vars, history>>, NEW c \in Clients,
             request[c].pc \in {"lookup", "fill"}, Ends(c), reply'[c].outcome = "ok"
      PROVE  /\ request[c].pc = "lookup" => origin[Key(Q(c))].age < LifeTime(Q(c))
             /\ ~reply'[c].answer.degraded =>
                  BuiltBetween(reply'[c].answer,
                               IF request[c].pc = "lookup" THEN origin[Key(Q(c))].begun
                               ELSE begun[c], store)
  <2> DEFINE k == Key(Q(c))
  <2>1. /\ request[c] \in Request /\ Q(c) \in Questions /\ reply \in [Clients -> Reply]
        /\ cache \in [Keys -> Entry] /\ origin \in [Keys -> Origin]
    <3>1. TypeOK /\ origin \in [Keys -> Origin]
      BY <1>3 DEF StaleInv, IndInv
    <3>. QED
      BY <1>3, <3>1, StaleFacts, TypeIs
  <2>2. k \in Keys /\ LifeTime(k) = LifeTime(Q(c)) /\ LifeTime(k) \in Nat
    BY <2>1, KeyKeeps, ServiceAssumption DEF LifeTime, ServiceAssumption
  <2>3. CASE Hit(c)
    <3>1. request[c].pc = "lookup" /\ cache[k].ttl > 0 /\ reply'[c].answer = cache[k].answer
      BY <2>1, <2>3 DEF Hit, Respond
    <3>2. cache[k].ttl \in Nat /\ origin[k].age \in Nat
      BY <2>1, <2>2, ServiceAssumption DEF Entry, Origin, ServiceAssumption
    <3> HIDE DEF k
    <3>3. Lasting(k, cache[k], origin[k], store)
      BY <1>3, <2>2 DEF StaleInv
    <3>4. origin[k].age < LifeTime(k)
      BY <2>2, <3>1, <3>2, <3>3 DEF Lasting
    <3>5. ~cache[k].answer.degraded => BuiltBetween(cache[k].answer, origin[k].begun, store)
      BY <3>1, <3>3 DEF Lasting
    <3>. QED
      BY <2>2, <3>1, <3>4, <3>5 DEF k
  <2>4. CASE Fill(c)
    <3>1. request[c].pc = "fill" /\ reply'[c].answer = request[c].answer
      BY <2>1, <2>4 DEF Fill, Respond
    <3>. QED
      BY <1>3, <3>1, BuiltByFill
  <2>. QED
    BY <1>3, <2>3, <2>4, AnswersEnd
<1>4. StaleInv /\ [HistoryNext]_<<vars, history>> => \A c \in Clients : Bounded(c)
  BY <1>3
<1>5. StaleInv /\ [HistoryNext]_<<vars, history>> => [\A c \in Clients : Bounded(c)]_<<vars, history>>
  BY <1>4
<1>. QED
  BY <1>1, <1>2, <1>5, PTL DEF HistorySpec, StalenessBounded

=============================================================================
