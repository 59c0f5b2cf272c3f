---------------------------- MODULE YandexVision ----------------------------
(* The OCR provider of adapters/ocr/yandex_vision.py.  A document is read   *)
(* page by page, each page in at most MaxRetries requests; the IAM token is *)
(* kept in the provider, but every document carries the Authorization       *)
(* header it began with.  Coroutines interleave at the requests, and        *)
(* tokens expire at any time.  A token is a number, used again once nobody  *)
(* holds it.                                                                *)
EXTENDS Naturals, FiniteSets

CONSTANTS
    Scans,          \* documents being recognized, each by its coroutine
    Pages,          \* pages of a document
    MaxRetries,     \* _MAX_RETRIES
    MaxExpiries     \* bound: tokens that expire

OcrAssumption == MaxRetries \in Nat \ {0}

VARIABLES
    iam_token,      \* _iam_token; 0: None
    valid,          \* the tokens that are held and accepted
    expiries,
    is_api_key,     \* the secret is an API key: no tokens at all
    scan            \* the coroutines

vars == <<iam_token, valid, expiries, is_api_key, scan>>

(* pc        "header": extract_text() asks for a token; "page": a request   *)
(*           for the page is under way; "refresh": _recognize_page() asks   *)
(*           for a token after a refusal                                    *)
(* first     the header the document began with                             *)
(* header    the header of the next request                                 *)
(* trouble   history: requests of the page that failed although its token   *)
(*           was good, and expiries of the token it was using               *)
(* fatal     history: ended by an error that is not retried                 *)
Idle == [pc |-> "idle", page |-> 1, attempt |-> 1, first |-> 0, header |-> 0,
         trouble |-> 0, fatal |-> FALSE]

Init ==
    /\ iam_token = 0 /\ valid = {} /\ expiries = 0
    /\ is_api_key \in BOOLEAN
    /\ scan = [s \in Scans |-> Idle]

Tokens == 1..2 * Cardinality(Scans) + 1
Held == {iam_token} \cup {scan[s].first : s \in Scans} \cup {scan[s].header : s \in Scans}
Fresh == CHOOSE t \in Tokens \ Held : \A u \in Tokens \ Held : t <= u

Goes(s, me) == scan' = [scan EXCEPT ![s] = me]
Fatal == [Idle EXCEPT !.pc = "failed", !.fatal = TRUE]
Troubled(me) == [me EXCEPT !.trouble = IF @ < MaxRetries - 1 THEN @ + 1 ELSE @]

(* _get_authorization_header() at the start of a document.                  *)
Start(s) ==
    /\ scan[s].pc = "idle"
    /\ Goes(s, IF is_api_key \/ iam_token # 0
               THEN [Idle EXCEPT !.pc = "page", !.first = iam_token, !.header = iam_token]
               ELSE [Idle EXCEPT !.pc = "header"])
    /\ UNCHANGED <<iam_token, expiries, is_api_key>>
    /\ valid' = valid \cap Held'

(* After a refusal of the last attempt the token was asked for in vain.     *)
Retried(me) ==
    IF me.attempt = MaxRetries THEN [Idle EXCEPT !.pc = "failed", !.trouble = me.trouble]
    ELSE [me EXCEPT !.pc = "page", !.attempt = @ + 1]

TokenGranted(s) ==
    LET me == scan[s] token == Fresh IN
    /\ me.pc \in {"header", "refresh"}
    /\ iam_token' = token
    /\ Goes(s, IF me.pc = "header"
               THEN [me EXCEPT !.pc = "page", !.first = token, !.header = token]
               ELSE Retried([me EXCEPT !.header = token]))
    /\ UNCHANGED <<expiries, is_api_key>>
    /\ valid' = Held' \cap (valid \cup {token})

TokenFails(s) ==
    /\ scan[s].pc \in {"header", "refresh"}
    /\ Goes(s, Fatal)
    /\ UNCHANGED <<iam_token, expiries, is_api_key>>
    /\ valid' = valid \cap Held'

-----------------------------------------------------------------------------
(* _recognize_page(): the answer to a request.                              *)
Accepted(s) == is_api_key \/ scan[s].header \in valid

(* The next page begins with the header of the document, whatever was       *)
(* refreshed meanwhile.                                                     *)
Recognized(s) ==
    LET me == scan[s] IN
    /\ me.pc = "page" /\ Accepted(s)
    /\ Goes(s, IF me.page = Pages THEN Idle
               ELSE [me EXCEPT !.page = @ + 1, !.attempt = 1, !.header = me.first,
                               !.trouble = 0])
    /\ UNCHANGED <<iam_token, expiries, is_api_key>>
    /\ valid' = valid \cap Held'

(* Mutant: a token in place is trusted. *)
RefusedKeepsToken(s) ==
    LET me == scan[s] IN
    /\ ~is_api_key /\ me.pc = "page"
    /\ Goes(s, IF iam_token # 0 THEN Retried([me EXCEPT !.header = iam_token])
               ELSE [me EXCEPT !.pc = "refresh"])
    /\ UNCHANGED <<iam_token, expiries, is_api_key>>
    /\ valid' = valid \cap Held'

(* HTTP 401 or 403, which a good token may get for want of rights: the      *)
(* token in place is dropped, also when another document has just obtained  *)
(* it, and a new one is asked for.                                          *)
Refused(s) ==
    LET me == scan[s] IN
    /\ ~is_api_key /\ me.pc = "page"
    /\ iam_token' = 0
    /\ Goes(s, [(IF Accepted(s) THEN Troubled(me) ELSE me) EXCEPT !.pc = "refresh"])
    /\ UNCHANGED <<expiries, is_api_key>>
    /\ valid' = valid \cap Held'

(* A rate limit, a server error or a network error.                         *)
PageFails(s) ==
    /\ scan[s].pc = "page"
    /\ Goes(s, Retried(Troubled(scan[s])))
    /\ UNCHANGED <<iam_token, expiries, is_api_key>>
    /\ valid' = valid \cap Held'

(* Any other status, or the refusal of an API key.                          *)
PageFailsHard(s) ==
    /\ scan[s].pc = "page"
    /\ Goes(s, Fatal)
    /\ UNCHANGED <<iam_token, expiries, is_api_key>>
    /\ valid' = valid \cap Held'

Expire(t) ==
    /\ t \in valid /\ expiries < MaxExpiries
    /\ expiries' = expiries + 1
    /\ valid' = valid \ {t}
    /\ scan' = [s \in Scans |->
                  IF scan[s].pc = "page" /\ scan[s].header = t
                  THEN Troubled(scan[s]) ELSE scan[s]]
    /\ UNCHANGED <<iam_token, is_api_key>>

(* extract_text() has raised; the document may be asked for again.          *)
Raised(s) ==
    /\ scan[s].pc = "failed"
    /\ Goes(s, Idle)
    /\ UNCHANGED <<iam_token, expiries, is_api_key>>
    /\ valid' = valid \cap Held'

Next ==
    \/ \E s \in Scans :
          \/ Start(s) \/ TokenGranted(s) \/ TokenFails(s)
          \/ Recognized(s) \/ Refused(s) \/ PageFails(s) \/ PageFailsHard(s)
          \/ Raised(s)
    \/ \E t \in valid : Expire(t)

Spec == Init /\ [][Next]_vars

-----------------------------------------------------------------------------
(* An expired token alone never costs a document: of the attempts at a page *)
(* that is given up, at most one was lost to a header that had expired      *)
(* before the page was begun, however old the document's first header is,   *)
(* and whichever tokens other documents drop meanwhile.                     *)
ExpiryHarmless ==
    \A s \in Scans :
        scan[s].pc = "failed" =>
            scan[s].fatal \/ scan[s].trouble >= MaxRetries - 1
=============================================================================
