---------------------------- MODULE OdlStaleness ----------------------------
(***************************************************************************)
(* How old an answer of the read path may be.  Nothing invalidates an      *)
(* entry of the cache and an answer is put together over many awaits;      *)
(* what the service promises is that an answer is no older than its time   *)
(* to live and the time it took to build.  The history variables, read by  *)
(* the property only:                                                      *)
(*   begun    per client, the stores when the answer in the making was     *)
(*            begun, unless it is degraded                                 *)
(*   origin   per key, the same of the answer in the cache, and how many   *)
(*            ticks ago it was put there                                   *)
(***************************************************************************)
EXTENDS OdlService

VARIABLES begun, origin

history == <<begun, origin>>

Empty == [d \in Docs |-> [document |-> 0, sections |-> 0,
                         points |-> [by \in {"eo", "guid"} |-> 0]]]
Unfilled == [begun |-> Empty, age |-> 0]

HistoryInit ==
  /\ Init
  /\ begun = [c \in Clients |-> Empty]
  /\ origin = [k \in Keys |-> Unfilled]

Begins(c) == request[c].pc = "lookup" /\ request'[c].pc # "idle"
Ends(c) == request'[c].pc = "idle"
Filling(c) == [answer |-> request[c].answer, ttl |-> Ttl(Q(c))]
Caches(c) == request[c].pc = "fill" /\ cache'[Key(Q(c))] = Filling(c)

Remember(c) ==
  /\ begun' = [begun EXCEPT ![c] = IF Ends(c) \/ request'[c].answer.degraded THEN Empty
                                   ELSE IF Begins(c) THEN store ELSE @]
  /\ origin' = IF Caches(c) THEN [origin EXCEPT ![Key(Q(c))] = [begun |-> begun[c], age |-> 0]]
               ELSE origin

(* Counted up to the longest time to live of all. *)
Older(n) == IF n < SearchTtl + DetailTtl THEN n + 1 ELSE n

Grow ==
  /\ origin' = [k \in Keys |-> IF cache'[k].ttl = 0 THEN Unfilled
                               ELSE [origin[k] EXCEPT !.age = Older(@)]]
  /\ UNCHANGED begun

HistoryNext ==
  \/ \E c \in Clients, q \in Questions : Ask(c, q) /\ UNCHANGED history
  \/ \E c \in Clients : Serve(c) /\ Remember(c)
  \/ \E d \in Docs : Ingest(d) /\ UNCHANGED history
  \/ Tick /\ Grow
  \/ Heal /\ UNCHANGED history

HistorySpec == HistoryInit /\ [][HistoryNext]_<<vars, history>>

-----------------------------------------------------------------------------
(* No part of the answer is older than the stores were in low, and none is *)
(* newer than in high.  In a search metadata are never older than the      *)
(* snippet they belong to: they are read later, and written earlier.       *)
Between(v, low, high) == low <= v /\ v <= high

BuiltBetween(a, low, high) ==
  LET id == a.to.id
  IN /\ a.to.kind = "search" => \A i \in Ids :
          /\ Between(a.text[i], low[i.doc].points[i.by], high[i.doc].points[i.by])
          /\ i.by = "eo" /\ a.text[i] > 0 =>
               /\ Between(a.meta[i], low[i.doc].document, high[i.doc].document)
               /\ a.text[i] <= a.meta[i]
     /\ a.to.kind = "detail" =>
          /\ Between(a.text[id], low[id.doc].points[id.by], high[id.doc].points[id.by])
          /\ Between(a.meta[id], low[id.doc].document, high[id.doc].document)
          /\ Between(a.toc, low[id.doc].sections, high[id.doc].sections)

(* An answer from the cache has been there for less than the time to live  *)
(* of its method (5 minutes or 1 hour), and an answer, cached or not, that *)
(* no failure has degraded shows nothing that was overtaken before its     *)
(* building was begun.                                                     *)
LifeTime(q) == IF q.kind = "detail" THEN DetailTtl ELSE SearchTtl
StalenessBounded ==
  [][\A c \in Clients :
       LET q == Q(c)
           a == reply'[c].answer
           hit == request[c].pc = "lookup"
       IN  request[c].pc \in {"lookup", "fill"} /\ Ends(c) /\ reply'[c].outcome = "ok" =>
             /\ hit => origin[Key(q)].age < LifeTime(q)
             /\ ~a.degraded => BuiltBetween(a, IF hit THEN origin[Key(q)].begun ELSE begun[c], store)
    ]_<<vars, history>>
=============================================================================
