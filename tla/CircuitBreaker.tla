--------------------------- MODULE CircuitBreaker ---------------------------
(***************************************************************************)
(* The circuit breaker (packages/core/src/database/CircuitBreaker.ts) of a *)
(* database adapter, under the calls that adapter-postgres makes through   *)
(* it: withDatabase runs withRetry inside the breaker's execute, and the   *)
(* operation of createMemory runs another withDatabase, the search for     *)
(* similar memories, before its own INSERT.                                *)
(*                                                                         *)
(* Times are counted since an event and stop counting once they are longer *)
(* than ResetTimeout; failures stop at the threshold.  The code only       *)
(* compares them with those bounds.                                        *)
(***************************************************************************)
EXTENDS Naturals

CONSTANTS
    Calls,               \* places for calls in flight, each used again and again
    Nested,              \* those that call createMemory
    FailureThreshold, ResetTimeout, HalfOpenMaxAttempts, \* the configuration
    MaxRetries           \* of withRetry

ASSUME BreakerAssumption ==
    /\ Nested \subseteq Calls
    /\ {FailureThreshold, HalfOpenMaxAttempts, MaxRetries} \subseteq Nat \ {0}
    /\ ResetTimeout \in Nat

VARIABLES
    breaker,   \* the breaker's fields
    calls,     \* where each call is
    healthy,   \* whether the database answers every query
    sinceTrip  \* history: time since the breaker last became OPEN

vars == <<breaker, calls, healthy, sinceTrip>>

Since == 0 .. (ResetTimeout + 1)
LongAgo == ResetTimeout + 1

(* `since' is the time since lastFailureTime, which may be undefined.      *)
Breaker == [state : {"CLOSED", "OPEN", "HALF_OPEN"},
            failures : 0 .. FailureThreshold,
            successes : 0 .. HalfOpenMaxAttempts,
            since : Since]

(* "search" and "query": the inner search's query and the operation's own  *)
(* are in flight; "searchPause" and "pause": their withRetry sleeps.       *)
Call == [at : {"idle", "search", "searchPause", "query", "pause"},
         attempt : 0 .. MaxRetries, searchAttempt : 0 .. MaxRetries]

Idle == [at |-> "idle", attempt |-> 0, searchAttempt |-> 0]

TypeOK ==
    /\ breaker \in Breaker
    /\ calls \in [Calls -> Call]
    /\ healthy \in BOOLEAN
    /\ sinceTrip \in Since

Init ==
    /\ breaker = [state |-> "CLOSED", failures |-> 0, successes |-> 0,
                  since |-> LongAgo]
    /\ calls = [c \in Calls |-> Idle]
    /\ healthy = TRUE
    /\ sinceTrip = LongAgo

-----------------------------------------------------------------------------
(* The breaker: what execute does before and after its operation.          *)

Admits(b) == b.state = "OPEN" => b.since > ResetTimeout

(* Wrong form: every call that is let through starts the count anew.       *)
AdmittedAnew(b) ==
    IF b.state = "CLOSED" THEN b
    ELSE [b EXCEPT !.state = "HALF_OPEN", !.successes = 0]

Admitted(b) ==
    IF b.state = "OPEN" THEN [b EXCEPT !.state = "HALF_OPEN", !.successes = 0] ELSE b

(* Wrong form: the failures stay counted.                                  *)
ResetKeepsFailures(b) == [b EXCEPT !.state = "CLOSED", !.since = LongAgo]

Reset(b) == [b EXCEPT !.state = "CLOSED", !.failures = 0, !.since = LongAgo]

Succeeded(b) ==
    LET counted == [b EXCEPT !.successes = @ + 1]
    IN  IF b.state # "HALF_OPEN" THEN b
        ELSE IF counted.successes >= HalfOpenMaxAttempts THEN Reset(counted)
        ELSE counted

(* Wrong form: the time of the failure is not kept.                        *)
FailedUntimed(b) ==
    LET n == IF b.failures < FailureThreshold THEN b.failures + 1 ELSE b.failures
    IN  [b EXCEPT !.failures = n,
                  !.state = IF n >= FailureThreshold THEN "OPEN" ELSE @]

(* handleFailure.                                                          *)
Failed(b) ==
    LET n == IF b.failures < FailureThreshold THEN b.failures + 1 ELSE b.failures
    IN  [b EXCEPT !.failures = n, !.since = 0,
                  !.state = IF n >= FailureThreshold THEN "OPEN" ELSE @]

Becomes(b) ==
    /\ breaker' = b
    /\ sinceTrip' = IF breaker.state # "OPEN" /\ b.state = "OPEN" THEN 0 ELSE sinceTrip

-----------------------------------------------------------------------------
(* The calls.                                                              *)

Go(c, at, attempt, searchAttempt) ==
    calls' = [calls EXCEPT ![c] = [at |-> at, attempt |-> attempt,
                                   searchAttempt |-> searchAttempt]]

(* An attempt of the operation: its query, or first the search's execute,  *)
(* which may refuse at once.                                               *)
AttemptFails(c, n, b) ==
    IF n < MaxRetries
    THEN Go(c, "pause", n, 0) /\ Becomes(b)
    ELSE calls' = [calls EXCEPT ![c] = Idle] /\ Becomes(Failed(b))

Attempt(c, n, b) ==
    IF c \notin Nested THEN Go(c, "query", n, 0) /\ Becomes(b)
    ELSE IF Admits(b)  THEN Go(c, "search", n, 1) /\ Becomes(Admitted(b))
    ELSE AttemptFails(c, n, b)

(* A call that is refused throws and changes nothing.                      *)
Begin(c) ==
    /\ calls[c] = Idle /\ Admits(breaker)
    /\ Attempt(c, 1, Admitted(breaker))
    /\ UNCHANGED healthy

(* Wrong form: the attempts are not counted.                               *)
RetryUncounted(c) ==
    /\ calls[c].at = "pause"
    /\ Attempt(c, calls[c].attempt, breaker)
    /\ UNCHANGED healthy

Retry(c) ==
    /\ calls[c].at = "pause"
    /\ Attempt(c, calls[c].attempt + 1, breaker)
    /\ UNCHANGED healthy

SearchRetry(c) ==
    /\ calls[c].at = "searchPause"
    /\ Go(c, "search", calls[c].attempt, calls[c].searchAttempt + 1)
    /\ UNCHANGED <<breaker, healthy, sinceTrip>>

SearchSucceeds(c) ==
    /\ calls[c].at = "search"
    /\ Go(c, "query", calls[c].attempt, 0)
    /\ Becomes(Succeeded(breaker))
    /\ UNCHANGED healthy

SearchFails(c) ==
    /\ calls[c].at = "search" /\ ~healthy
    /\ IF calls[c].searchAttempt < MaxRetries
       THEN /\ Go(c, "searchPause", calls[c].attempt, calls[c].searchAttempt)
            /\ Becomes(breaker)
       ELSE AttemptFails(c, calls[c].attempt, Failed(breaker))
    /\ UNCHANGED healthy

QuerySucceeds(c) ==
    /\ calls[c].at = "query"
    /\ calls' = [calls EXCEPT ![c] = Idle]
    /\ Becomes(Succeeded(breaker))
    /\ UNCHANGED healthy

QueryFails(c) ==
    /\ calls[c].at = "query" /\ ~healthy
    /\ AttemptFails(c, calls[c].attempt, breaker)
    /\ UNCHANGED healthy

-----------------------------------------------------------------------------
(* The database and the clock.                                             *)
Outage  == healthy /\ healthy' = FALSE /\ UNCHANGED <<breaker, calls, sinceTrip>>
Repair  == ~healthy /\ healthy' = TRUE /\ UNCHANGED <<breaker, calls, sinceTrip>>

Later(t) == IF t < LongAgo THEN t + 1 ELSE t

Tick ==
    /\ breaker' = [breaker EXCEPT !.since = Later(@)]
    /\ sinceTrip' = Later(sinceTrip)
    /\ UNCHANGED <<calls, healthy>>

Answers(c) ==
    SearchSucceeds(c) \/ SearchFails(c) \/ QuerySucceeds(c) \/ QueryFails(c)

Wakes(c) == Retry(c) \/ SearchRetry(c)

Next ==
    \/ \E c \in Calls : Begin(c) \/ Answers(c) \/ Wakes(c)
    \/ Outage \/ Repair
    \/ Tick

(* The driver settles every query, the timers of the pauses fire and time  *)
(* passes.                                                                 *)
Spec ==
    /\ Init /\ [][Next]_vars
    /\ WF_vars(Tick)
    /\ \A c \in Calls : WF_vars(Answers(c)) /\ WF_vars(Wakes(c))

-----------------------------------------------------------------------------
(* What holds.                                                             *)

(* The three fields agree however the calls overlap: the breaker is away   *)
(* from CLOSED exactly when the failures are at the threshold, so that one *)
(* failure of any call reopens a HALF_OPEN one, and it is HALF_OPEN only   *)
(* until enough successes were counted.                                    *)
FieldsAgree ==
    /\ breaker.state = "CLOSED" <=> breaker.failures < FailureThreshold
    /\ breaker.state = "HALF_OPEN" => breaker.successes < HalfOpenMaxAttempts

(* "Time in ms before attempting to close circuit" (database.ts): whatever *)
(* late answers come in, the breaker leaves OPEN only for HALF_OPEN, and   *)
(* not before that time has passed since it became OPEN.                   *)
BlocksForTimeout ==
    [][breaker.state = "OPEN" /\ breaker'.state # "OPEN" =>
          breaker'.state = "HALF_OPEN" /\ sinceTrip > ResetTimeout]_vars

(* A call ends after its retries, whatever the database and the breaker do. *)
EveryCallEnds == \A c \in Calls : calls[c] # Idle ~> calls[c] = Idle

(* "Testing if service has recovered" (database.ts): once the database     *)
(* answers for good and calls that would be let through are made again and *)
(* again, the breaker closes.                                              *)
BeginAny == \E c \in Calls : Begin(c)
CallsComeIn == WF_vars(BeginAny)
Recovers == <>[]healthy /\ CallsComeIn => []<>(breaker.state = "CLOSED")

=============================================================================
