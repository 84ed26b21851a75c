------------------------------ MODULE RetryPolicy ------------------------------
(***************************************************************************)
(* The pure decisions of the HTTP transport (src/http.ts, src/config.ts,    *)
(* src/errors.ts): which failures are retried, after which delay, and which *)
(* error class a reply becomes.                                             *)
(***************************************************************************)
EXTENDS Integers

(* A client that treats every method as safe to repeat. *)
EveryMethodIdempotent == {"GET", "HEAD", "PUT", "DELETE", "POST", "PATCH"}

(* Methods safe to retry on network errors and ambiguous 5xx statuses. *)
IDEMPOTENT == {"GET", "HEAD", "PUT", "DELETE"}

(* A 429 or a 503 says the server did not act on the request. *)
Unprocessed == {429, 503}

(* These leave open whether the server acted. *)
Ambiguous == {408, 500, 502, 504}

IsOk(status) == status \in 200 .. 299

(* Retries an ambiguous status whatever the method. *)
AnyMethodRetryable(method, status) == status \in Unprocessed \cup Ambiguous

isRetryableStatus(method, status) ==
  \/ status \in Unprocessed
  \/ method \in IDEMPOTENT /\ status \in Ambiguous

(* The subclass of CreateosSandboxApiError thrown for a non-2xx status. *)
errorFromResponse(status) ==
  CASE status = 401               -> "Auth"
    [] status = 403               -> "Permission"
    [] status = 404               -> "NotFound"
    [] status \in {400, 409, 422} -> "Validation"
    [] status = 402               -> "PaymentRequired"
    [] status = 429               -> "RateLimit"
    [] status >= 500              -> "Server"
    [] OTHER                      -> "Api"
=============================================================================
