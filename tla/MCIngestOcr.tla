----------------------------- MODULE MCIngestOcr -----------------------------
(* Model checking of one ingest at a time and of the OCR provider it gets   *)
(* its texts from, here with two documents at once.  The two share no state *)
(* but a failure to the ingest (FetchText), so a behaviour is a session of  *)
(* one or of the other; the fairness of the ingest, which never steps in    *)
(* the sessions of the provider, leaves those to the invariants.            *)
EXTENDS MCIngestPipeline

CONSTANTS Scans, Pages, MaxRetries, MaxExpiries
VARIABLES iam_token, valid, expiries, is_api_key, scan, session

Ocr == INSTANCE YandexVision
ASSUME OcrAssumed == Ocr!OcrAssumption
ocr == <<iam_token, valid, expiries, is_api_key, scan>>

SessionInit ==
    /\ Init /\ Ocr!Init
    /\ session \in {"ingest", "ocr"}
    /\ session = "ingest" => ~is_api_key
SessionNext ==
    /\ \/ session = "ingest" /\ Next /\ UNCHANGED ocr
       \/ session = "ocr" /\ Ocr!Next /\ UNCHANGED vars
    /\ UNCHANGED session
SessionSpec == SessionInit /\ [][SessionNext]_<<vars, ocr, session>> /\ Fairness

(* The property of YandexVision: an expired token alone costs no document.  *)
ExpiryHarmless == Ocr!ExpiryHarmless
=============================================================================
