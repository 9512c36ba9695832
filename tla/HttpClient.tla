----------------------------- MODULE HttpClient -----------------------------
(***************************************************************************)
(* fetchWithRetry() and fetchJsonWithRetry(): the requests to the services *)
(* the program depends on, each repeated while what went wrong may pass.   *)
(***************************************************************************)
EXTENDS Naturals

(* How one attempt can end: an answer, whose body is JSON or is not; an    *)
(* answer larger than allowed; a status; no answer in time; no connection. *)
Attempt == {"ok", "not-json", "too-large", "429", "5xx", "4xx", "timeout", "network"}

Retryable(a) == a \in {"429", "5xx", "timeout"}

(* What the caller is left with after `attempt', the first being 0: either *)
(* it is made again, or it is the outcome.                                 *)
TriedAgain(a, attempt, retries) == Retryable(a) /\ attempt < retries

(* The outcomes of fetchJsonWithRetry(): an answer, or an error that has a *)
(* status, is an HttpFetchError without one, or is neither.                *)
HasStatus(a) == a \in {"too-large", "429", "5xx", "4xx"}
IsHttpFetchError(a) == a \notin {"ok", "network"}
=============================================================================
