----------------------------- MODULE ErrorContract -----------------------------
(***************************************************************************)
(* How a failure of a scrape reaches the caller: the checks of the URL     *)
(* (security.py), the exceptions of _execute_one_scrape, the handler that  *)
(* answers a call with one (api/errors.py), and the bulk endpoint that     *)
(* answers an item with one (api/routes/scrape.py).  Messages are left     *)
(* out, except for the texts a code is looked up by.                       *)
(***************************************************************************)
EXTENDS Integers

None == "none"

(* HTTPException: its detail is a dictionary with a code, or a text. *)
Structured(status, code) == [http |-> TRUE, status |-> status, code |-> code, text |-> None]
Plain(status, text) == [http |-> TRUE, status |-> status, code |-> None, text |-> text]

(* Any other exception. *)
Crash == [http |-> FALSE, status |-> 500, code |-> None, text |-> "crash"]

(* Every exception of _execute_one_scrape, and of the calls it makes.      *)
MissingAuth == Structured(403, "MISSING_AUTH")
InvalidKey == Structured(403, "INVALID_API_KEY")
BadBatch == Structured(400, "BAD_REQUEST")
NoUrl == Structured(400, "BAD_REQUEST")
BadScheme == Structured(400, "INVALID_URL_SCHEME")
PrivateNetwork == Structured(400, "PRIVATE_NETWORK_BLOCKED")
NotInitialized == Structured(503, "SERVICE_NOT_INITIALIZED")
RateLimited == Structured(429, "RATE_LIMIT_EXCEEDED")
OverageLimited == Structured(402, "OVERAGE_LIMIT_EXCEEDED")
SessionMissing == Structured(404, "SESSION_NOT_FOUND")
SessionOfAnother == Plain(404, "session not found")

-------------------------------------------------------------------------------
(* A URL: it is given, has a scheme and a host, its scheme is http(s), its *)
(* host is private.                                                        *)
Urls == [given : BOOLEAN, complete : BOOLEAN, web : BOOLEAN, private : BOOLEAN]

(* validate_scrape_url(), with block_private_networks as configured: the   *)
(* exceptions it may raise, none for a URL that may be scraped.            *)
UrlFaults(url, block) ==
    IF ~url.given THEN {NoUrl}
    ELSE IF ~url.complete \/ ~url.web THEN {BadScheme}
    ELSE IF block /\ url.private THEN {PrivateNetwork}
    ELSE {}

AllUrlFaults == UNION {UrlFaults(url, block) : url \in Urls, block \in BOOLEAN}

(* _STRING_TO_CODE *)
StringToCode(text) ==
    CASE text = "missing authorization" -> "MISSING_AUTH"
      [] text = "invalid api key" -> "INVALID_API_KEY"
      [] text = "service not initialized" -> "SERVICE_NOT_INITIALIZED"
      [] text = "session store not initialized" -> "SERVICE_NOT_INITIALIZED"
      [] text = "usage tracker not initialized" -> "SERVICE_NOT_INITIALIZED"
      [] text = "session not found" -> "SESSION_NOT_FOUND"
      [] text = "rate limit" -> "RATE_LIMIT_EXCEEDED"
      [] text = "overage" -> "OVERAGE_LIMIT_EXCEEDED"
      [] OTHER -> "INTERNAL_ERROR"

(* structured_http_exception_handler(); an exception of another kind has   *)
(* no handler and is answered without a code.                              *)
CallCode(e) ==
    IF ~e.http THEN None
    ELSE IF e.code # None THEN e.code
    ELSE IF e.status = 404 /\ StringToCode(e.text) = "INTERNAL_ERROR" THEN "BAD_REQUEST"
    ELSE StringToCode(e.text)

(* Mutant of ItemCode: the detail of a dictionary is not looked into. *)
ItemCodeByStatus(e) ==
    IF ~e.http THEN "INTERNAL_ERROR"
    ELSE IF e.status >= 500 THEN "WORKER_ERROR" ELSE "BAD_REQUEST"

(* _run_one() and _bulk_error_from_http_exception() *)
ItemCode(e) ==
    IF ~e.http THEN "INTERNAL_ERROR"
    ELSE IF e.code # None THEN e.code
    ELSE IF e.status >= 500 THEN "WORKER_ERROR" ELSE "BAD_REQUEST"
================================================================================
