------------------------------ MODULE ProviderCall ------------------------------
(***************************************************************************)
(* One call of a source provider over HTTP: GitHubSourceProvider and         *)
(* AzureDevOpsSourceProvider, whose methods are sequences of requests made   *)
(* through HttpProviderMixin (tools/source_providers/base.py).  A request is *)
(* sent again after a 429 answer, a bounded number of times, and after       *)
(* nothing else.  The provider behind it is external: what it did with a     *)
(* request that it answered with an error, or whose answer was lost, is not  *)
(* known.  The paginated methods are in Listing.                            *)
(*                                                                         *)
(* As in Supervisor, an unused definition directly before another with the  *)
(* same parameters is a mutation of it.                                     *)
(***************************************************************************)
EXTENDS Integers, Sequences

CONSTANTS
  MaxRetries,         \* _max_retries
  DefaultRetryAfter,  \* _default_retry_after
  MaxRetryAfter,      \* _max_retry_after
  Hints,              \* the numbers a Retry-After header may hold
  Missing,            \* there is no such header
  Unparsable,         \* there is one, but it is not a number
  MaxFound            \* bound: work items a search finds

ASSUME ProviderCallAssumption ==
  /\ MaxRetries \in Nat /\ DefaultRetryAfter \in Nat /\ MaxRetryAfter \in Nat
  /\ Hints \subseteq Int /\ Missing \notin Hints /\ Unparsable \notin Hints
  /\ MaxFound \in Nat

VARIABLES
  call,     \* the requests of the method called
  at,       \* the one being made
  attempt,  \* how often it has been sent again
  waited,   \* seconds spent waiting between the attempts of this request
  applied,  \* mutations that the provider has made for this call
  outcome   \* how the call ended

vars == <<call, at, attempt, waited, applied, outcome>>

-----------------------------------------------------------------------------
(* The methods, by the requests they make; a read changes nothing. *)

Read == <<"read">>
Write == <<"write">>

\* One request: get_repository, get_file, list_commits; Azure's get_issue.
GetRepository == Read
GetFile == Read
ListCommits == Read

\* GitHub reads the repository of an issue first.
GetIssue == {Read, <<"read", "read">>}

\* Azure reads every work item that its query returns, one by one.
SearchIssues == {[i \in 1 .. n + 1 |-> "read"] : n \in 0 .. MaxFound}

AddIssueComment == Write
CreateDraftPr == Write
AddPrComment == Write

Calls ==
  {GetRepository, GetFile, ListCommits, AddIssueComment, CreateDraftPr, AddPrComment}
    \cup GetIssue \cup SearchIssues

-----------------------------------------------------------------------------
Init ==
  /\ call \in Calls
  /\ at = 1 /\ attempt = 0 /\ waited = 0 /\ applied = 0
  /\ outcome = "pending"

\* What a request does when the provider carries it out.
Effect == IF call[at] = "write" THEN 1 ELSE 0

\* A 2xx answer with a body that parses: on to the next request, if any.
Answered ==
  /\ outcome = "pending"
  /\ applied' = applied + Effect
  /\ IF at < Len(call)
     THEN /\ at' = at + 1 /\ attempt' = 0 /\ waited' = 0
          /\ UNCHANGED outcome
     ELSE /\ outcome' = "returned"
          /\ UNCHANGED <<at, attempt, waited>>
  /\ UNCHANGED call

\* A 2xx answer that is not JSON or lacks a field that the method reads: the
\* provider has done it, the caller is told that it failed.
InvalidJson ==
  /\ outcome = "pending"
  /\ applied' = applied + Effect
  /\ outcome' = "invalid_json"
  /\ UNCHANGED <<call, at, attempt, waited>>

\* Exponential backoff, when the provider does not say how long to wait.
Backoff == [n \in 0 .. MaxRetries |-> DefaultRetryAfter * 2 ^ n]

ASSUME BackoffAssumption == Backoff \in [0 .. MaxRetries -> Nat]

Asked(header) ==
  IF header = Missing THEN Backoff[attempt]
  ELSE IF header = Unparsable THEN DefaultRetryAfter ELSE header

Floored(delay) == IF delay < 0 THEN 0 ELSE delay
Capped(delay) == IF delay > MaxRetryAfter THEN MaxRetryAfter ELSE delay

FlooredOnly(header) == Floored(Asked(header))
RetryAfterSeconds(header) == Capped(Floored(Asked(header)))

\* What is sent again, unless it was MaxRetries times already.
RetriedToo == {"rate_limited", "transport_error"}
Retried == {"rate_limited"}

Fails(kind, delay) ==
  /\ outcome = "pending"
  /\ IF kind \in Retried /\ attempt < MaxRetries
     THEN /\ attempt' = attempt + 1
          /\ waited' = waited + delay
          /\ UNCHANGED outcome
     ELSE /\ outcome' = kind
          /\ UNCHANGED <<attempt, waited>>
  /\ UNCHANGED <<call, at>>

\* A 429 answer: the provider has not looked at the request.
RateLimited(header) == Fails("rate_limited", RetryAfterSeconds(header)) /\ UNCHANGED applied

\* The provider carries it out, and what the caller sees is a failure.
PerhapsApplied == \E done \in {0, Effect} : applied' = applied + done

\* Any other status, which may come after the work was done.
HttpError == Fails("http_error", 0) /\ PerhapsApplied

\* No answer: the connection failed, before or after the request arrived, or
\* the 30 seconds of the client are over.
TransportError == Fails("transport_error", 0) /\ PerhapsApplied

Next ==
  \/ Answered
  \/ InvalidJson
  \/ \E header \in Hints \cup {Missing, Unparsable} : RateLimited(header)
  \/ HttpError
  \/ TransportError

Spec == Init /\ [][Next]_vars

-----------------------------------------------------------------------------
Outcome ==
  {"pending", "returned", "invalid_json", "rate_limited", "http_error", "transport_error"}

\* Every variable keeps its type.
TypeOK ==
  /\ call \in Calls
  /\ at \in 1 .. Len(call)
  /\ attempt \in 0 .. MaxRetries
  /\ waited \in Nat
  /\ applied \in {0, 1}
  /\ outcome \in Outcome

\* One call never mutates the provider twice, whatever is lost or refused; it
\* has done so if it returns, and has not if it reports the rate limit, after
\* which it is safe to call again (tools/source_providers/base.py:144-161).
MutatesAtMostOnce ==
  /\ applied =< (IF call = Write THEN 1 ELSE 0)
  /\ outcome = "returned" => applied = (IF call = Write THEN 1 ELSE 0)
  /\ outcome \in {"pending", "rate_limited"} => applied = 0

\* A provider cannot make the client wait longer than the longest delay for
\* every retry, nor for less than nothing, whatever its header says, and the
\* rate limit is reported only when every retry was used
\* (tools/source_providers/base.py:101-111 and 147-158).
WaitsAreBounded ==
  /\ waited =< attempt * MaxRetryAfter
  /\ outcome = "rate_limited" => attempt = MaxRetries
=============================================================================
