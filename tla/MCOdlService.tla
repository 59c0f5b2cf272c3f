---------------------------- MODULE MCOdlService ----------------------------
(* Model checking of OdlService with the history of OdlStaleness.  Requests *)
(* with different keys share nothing but the stores, so in one behaviour    *)
(* clients ask the same question over stores that move; in others they ask  *)
(* what the cache must tell apart, over stores that the ingest has left at  *)
(* rest.                                                                    *)
EXTENDS OdlStaleness, TLC

CONSTANTS
    d1,
    Sessions    \* what is asked in one behaviour, see ReadSessions
VARIABLE session

Question(kind, by, region) ==
  [kind |-> kind, id |-> [by |-> by, doc |-> d1], query |-> 1, region |-> region]
TheQuestions ==
  {Question(kind, "eo", FALSE) : kind \in {"search", "detail", "topics", "toc"}}
    \cup {Question("search", "eo", TRUE), Question("detail", "guid", FALSE)}

Moving(questions) == [questions |-> questions, moving |-> TRUE]
AtRest(questions) == [questions |-> questions, moving |-> FALSE]
Of(kinds) == {q \in TheQuestions : q.kind \in kinds}

ReadSessions ==
  {Moving({Question("search", "eo", TRUE)}), Moving({Question("detail", "eo", FALSE)}),
   AtRest(Of({"search"})), AtRest(Of({"detail"})), Moving(Of({"topics", "toc"}))}
BrowseSessions == {Moving(Of({"topics", "toc"}))}
OpenSessions == {Moving(Of({"search", "detail"}))}

(* No client has asked anything yet. *)
Untouched == \A c \in Clients : request[c] = NoRequest /\ reply[c] = NoReply

SessionInit == HistoryInit /\ session \in Sessions
SessionNext ==
  /\ HistoryNext
  /\ \A c \in Clients : request'[c].pc # "idle" => request'[c].question \in session.questions
  /\ session.moving \/ Untouched \/ UNCHANGED store
  /\ UNCHANGED session
SessionSpec == SessionInit /\ [][SessionNext]_<<vars, history, session>> /\ Fairness

=============================================================================
