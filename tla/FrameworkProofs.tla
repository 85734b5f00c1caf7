--------------------------- MODULE FrameworkProofs ---------------------------
(***************************************************************************)
(* Theorems about two services of the framework under the plugin.          *)
(*                                                                         *)
(* CircuitBreaker, for any number of plain and nested calls and any        *)
(* configuration: the fields are followed through a step by the relation   *)
(* Leads, which holds between the breaker before the step and every value  *)
(* it passes through within it.                                            *)
(*                                                                         *)
(* Media, for any callers and urls and any number of restarts: the queues  *)
(* are handed from one worker to the next, never to none while one waits.  *)
(***************************************************************************)
EXTENDS CircuitBreaker, Media, SequenceTheorems, TLAPS

Agree(b) ==
    /\ b.state = "CLOSED" <=> b.failures < FailureThreshold
    /\ b.state = "HALF_OPEN" => b.successes < HalfOpenMaxAttempts

(* While the breaker is OPEN its last failure is no older than its opening. *)
TripIsOlder == breaker.state = "OPEN" => breaker.since <= sinceTrip

BreakerInv == TypeOK /\ FieldsAgree /\ TripIsOlder

Leads(b, d) ==
    /\ d \in Breaker /\ Agree(d)
    /\ b.state = "OPEN" /\ d.state # "OPEN" =>
          d.state = "HALF_OPEN" /\ b.since > ResetTimeout
    /\ d.state = "OPEN" => d = b \/ d.since = 0

LEMMA LeadsToItself ==
    ASSUME NEW b \in Breaker, Agree(b) PROVE Leads(b, b)
BY DEF Leads

(* handleFailure.                                                          *)
LEMMA LeadsToFailed ==
    ASSUME NEW b, NEW d, Leads(b, d) PROVE Leads(b, Failed(d))
<1> DEFINE n == IF d.failures < FailureThreshold THEN d.failures + 1 ELSE d.failures
<1>1. d \in Breaker /\ Agree(d)
  BY DEF Leads
<1>2. n \in 0 .. FailureThreshold
  BY <1>1, BreakerAssumption DEF Breaker
<1>3. /\ Failed(d) \in Breaker
      /\ Failed(d).failures = n
      /\ Failed(d).since = 0
      /\ Failed(d).successes = d.successes
      /\ Failed(d).state = IF n >= FailureThreshold THEN "OPEN" ELSE d.state
  <2> DEFINE s == IF n >= FailureThreshold THEN "OPEN" ELSE d.state
  <2>1. Failed(d) = [d EXCEPT !.failures = n, !.since = 0, !.state = s]
    BY DEF Failed
  <2>2. s \in {"CLOSED", "OPEN", "HALF_OPEN"}
    BY <1>1 DEF Breaker
  <2>3. 0 \in Since
    BY BreakerAssumption DEF Since
  <2> HIDE DEF n, s
  <2>. QED
    BY <1>1, <1>2, <2>1, <2>2, <2>3 DEF Breaker, s
<1>4. Agree(Failed(d))
  BY <1>1, <1>2, <1>3, BreakerAssumption DEF Agree, Breaker
<1>5. d.state # "CLOSED" => Failed(d).state = "OPEN"
  BY <1>1, <1>3, BreakerAssumption DEF Agree, Breaker
<1>. QED
  BY <1>3, <1>4, <1>5 DEF Leads

(* execute lets a call through.                                            *)
LEMMA LeadsToAdmitted ==
    ASSUME NEW b, NEW d, Leads(b, d), Admits(d) PROVE Leads(b, Admitted(d))
<1>1. d \in Breaker /\ Agree(d)
  BY DEF Leads
<1>2. CASE d.state # "OPEN"
  BY <1>2 DEF Admitted
<1>3. CASE d.state = "OPEN"
  <2>1. d.since > ResetTimeout
    BY <1>3 DEF Admits
  <2>2. d = b
    BY <1>1, <1>3, <2>1, BreakerAssumption DEF Leads, Breaker, Since
  <2>3. /\ Admitted(d) \in Breaker
        /\ Admitted(d).state = "HALF_OPEN"
        /\ Admitted(d).failures = d.failures
        /\ Admitted(d).successes = 0
    <3>1. Admitted(d) = [d EXCEPT !.state = "HALF_OPEN", !.successes = 0]
      BY <1>3 DEF Admitted
    <3>2. 0 \in 0 .. HalfOpenMaxAttempts
      BY BreakerAssumption
    <3>. QED
      BY <1>1, <3>1, <3>2 DEF Breaker
  <2>4. Agree(Admitted(d))
    BY <1>1, <1>3, <2>3, BreakerAssumption DEF Agree
  <2>. QED
    BY <2>1, <2>2, <2>3, <2>4 DEF Leads
<1>. QED
  BY <1>2, <1>3

(* execute notes a success.                                                *)
LEMMA LeadsToSucceeded ==
    ASSUME NEW b \in Breaker, Agree(b) PROVE Leads(b, Succeeded(b))
<1>1. CASE b.state # "HALF_OPEN"
  BY <1>1 DEF Succeeded, Leads
<1>2. CASE b.state = "HALF_OPEN"
  <2> DEFINE counted == [b EXCEPT !.successes = @ + 1]
  <2>1. /\ counted \in Breaker
        /\ counted.successes = b.successes + 1
        /\ counted.state = "HALF_OPEN"
        /\ counted.failures = b.failures
    BY <1>2, BreakerAssumption DEF Breaker, Agree
  <2>2. CASE counted.successes >= HalfOpenMaxAttempts
    <3>1. /\ Reset(counted) \in Breaker
          /\ Reset(counted).state = "CLOSED"
          /\ Reset(counted).failures = 0
      <4>1. Reset(counted) = [counted EXCEPT !.state = "CLOSED", !.failures = 0,
                                            !.since = LongAgo]
        BY DEF Reset
      <4>2. 0 \in 0 .. FailureThreshold /\ LongAgo \in Since
        BY BreakerAssumption DEF Since, LongAgo
      <4> HIDE DEF counted
      <4>. QED
        BY <2>1, <4>1, <4>2 DEF Breaker
    <3>. QED
      BY <1>2, <2>2, <3>1, BreakerAssumption DEF Succeeded, Leads, Agree
  <2>3. CASE ~(counted.successes >= HalfOpenMaxAttempts)
    <3>1. Succeeded(b) = counted
      BY <1>2, <2>3 DEF Succeeded
    <3>2. Agree(counted)
      BY <1>2, <2>1, <2>3, BreakerAssumption DEF Agree, Breaker
    <3>. QED
      BY <1>2, <2>1, <3>1, <3>2 DEF Leads
  <2>. QED
    BY <2>2, <2>3
<1>. QED
  BY <1>1, <1>2

-----------------------------------------------------------------------------
(* One step of the breaker: what Becomes does to the invariant, and the    *)
(* way out of OPEN.                                                        *)
LeavesOpen ==
    breaker.state = "OPEN" /\ breaker'.state # "OPEN" =>
        breaker'.state = "HALF_OPEN" /\ sinceTrip > ResetTimeout

Kept ==
    /\ breaker' \in Breaker /\ FieldsAgree' /\ TripIsOlder'
    /\ sinceTrip' \in Since
    /\ LeavesOpen

LEMMA BecomesKeeps ==
    ASSUME BreakerInv, NEW d, Leads(breaker, d), Becomes(d)
    PROVE  Kept
<1>1. breaker' = d /\ d \in Breaker /\ Agree(d)
  BY DEF Becomes, Leads
<1>2. sinceTrip' \in Since
  BY BreakerAssumption DEF Becomes, BreakerInv, TypeOK, Since
<1>3. FieldsAgree'
  BY <1>1 DEF FieldsAgree, Agree
<1>4. TripIsOlder'
  <2> SUFFICES ASSUME d.state = "OPEN" PROVE d.since <= sinceTrip'
    BY <1>1 DEF TripIsOlder
  <2>1. CASE d = breaker
    BY <2>1 DEF Becomes, BreakerInv, TripIsOlder
  <2>2. CASE d.since = 0
    BY <1>2, <2>2, BreakerAssumption DEF Since
  <2>. QED
    BY <2>1, <2>2 DEF Leads
<1>5. LeavesOpen
  BY <1>1, BreakerAssumption DEF Leads, LeavesOpen, BreakerInv, TypeOK, TripIsOlder, Breaker, Since
<1>. QED
  BY <1>1, <1>2, <1>3, <1>4, <1>5 DEF Kept

LEMMA AttemptFailsKeeps ==
    ASSUME BreakerInv, NEW c \in Calls, NEW n \in 1 .. MaxRetries, NEW d,
           Leads(breaker, d), AttemptFails(c, n, d)
    PROVE  Kept /\ calls' \in [Calls -> Call]
<1>1. Kept
  BY BecomesKeeps, LeadsToFailed DEF AttemptFails
<1>2. calls' \in [Calls -> Call]
  BY BreakerAssumption DEF AttemptFails, Go, Idle, Call, BreakerInv, TypeOK
<1>. QED
  BY <1>1, <1>2

LEMMA AttemptKeeps ==
    ASSUME BreakerInv, NEW c \in Calls, NEW n \in 1 .. MaxRetries, NEW d,
           Leads(breaker, d), Attempt(c, n, d)
    PROVE  Kept /\ calls' \in [Calls -> Call]
<1>1. CASE c \notin Nested
  <2>1. Go(c, "query", n, 0) /\ Becomes(d)
    BY <1>1 DEF Attempt
  <2>2. calls' \in [Calls -> Call]
    BY <2>1, BreakerAssumption DEF Go, Call, BreakerInv, TypeOK
  <2>. QED
    BY <2>1, <2>2, BecomesKeeps
<1>2. CASE c \in Nested /\ Admits(d)
  <2>1. Go(c, "search", n, 1) /\ Becomes(Admitted(d))
    BY <1>2 DEF Attempt
  <2>2. calls' \in [Calls -> Call]
    BY <2>1, BreakerAssumption DEF Go, Call, BreakerInv, TypeOK
  <2>. QED
    BY <1>2, <2>1, <2>2, BecomesKeeps, LeadsToAdmitted
<1>3. CASE c \in Nested /\ ~Admits(d)
  BY <1>3, AttemptFailsKeeps DEF Attempt
<1>. QED
  BY <1>1, <1>2, <1>3

(* A pause is taken only when another attempt is left; it is a conjunct of *)
(* the inductive invariant for that reason.                                *)
AttemptsLeft ==
    \A c \in Calls :
        /\ calls[c].at = "pause" => calls[c].attempt < MaxRetries
        /\ calls[c].at = "searchPause" => calls[c].searchAttempt < MaxRetries
        /\ calls[c].at # "idle" => calls[c].attempt > 0

LEMMA AttemptKeepsAttempts ==
    ASSUME BreakerInv, AttemptsLeft, NEW c \in Calls, NEW n \in 1 .. MaxRetries,
           NEW d, Attempt(c, n, d) \/ AttemptFails(c, n, d)
    PROVE  AttemptsLeft'
BY BreakerAssumption
   DEF Attempt, AttemptFails, Go, Idle, AttemptsLeft, BreakerInv, TypeOK, Call

-----------------------------------------------------------------------------
IInv == BreakerInv /\ AttemptsLeft

LEMMA InitIInv == Init => IInv
BY BreakerAssumption
   DEF Init, IInv, BreakerInv, TypeOK, FieldsAgree, TripIsOlder, AttemptsLeft,
       Breaker, Since, LongAgo, Idle, Call

LEMMA StepIInv ==
    ASSUME IInv, [Next]_vars PROVE IInv' /\ LeavesOpen
<1>0. /\ BreakerInv /\ AttemptsLeft /\ TypeOK
      /\ breaker \in Breaker /\ Agree(breaker)
      /\ Leads(breaker, breaker)
  BY LeadsToItself DEF IInv, BreakerInv, TypeOK, FieldsAgree, Agree
<1>1. ASSUME NEW c \in Calls, Begin(c) PROVE IInv' /\ LeavesOpen
  <2>1. Leads(breaker, Admitted(breaker)) /\ Attempt(c, 1, Admitted(breaker))
    BY <1>0, <1>1, LeadsToAdmitted DEF Begin
  <2>2. 1 \in 1 .. MaxRetries
    BY BreakerAssumption
  <2>3. Kept /\ calls' \in [Calls -> Call] /\ AttemptsLeft'
    BY <1>0, <2>1, <2>2, AttemptKeeps, AttemptKeepsAttempts
  <2>. QED
    BY <1>0, <1>1, <2>3 DEF Begin, Kept, IInv, BreakerInv, TypeOK
<1>2. ASSUME NEW c \in Calls, Retry(c) PROVE IInv' /\ LeavesOpen
  <2> DEFINE n == calls[c].attempt + 1
  <2>1. n \in 1 .. MaxRetries
    BY <1>0, <1>2, BreakerAssumption DEF Retry, AttemptsLeft, TypeOK, Call
  <2>2. Kept /\ calls' \in [Calls -> Call] /\ AttemptsLeft'
    BY <1>0, <1>2, <2>1, AttemptKeeps, AttemptKeepsAttempts DEF Retry
  <2>. QED
    BY <1>0, <1>2, <2>2 DEF Retry, Kept, IInv, BreakerInv, TypeOK
<1>3. ASSUME NEW c \in Calls, SearchRetry(c) PROVE IInv' /\ LeavesOpen
  <2>1. calls' \in [Calls -> Call] /\ AttemptsLeft'
    BY <1>0, <1>3, BreakerAssumption DEF SearchRetry, Go, AttemptsLeft, TypeOK, Call
  <2>. QED
    BY <1>0, <1>3, <2>1
    DEF SearchRetry, IInv, BreakerInv, TypeOK, FieldsAgree, TripIsOlder, LeavesOpen
<1>4. ASSUME NEW c \in Calls, SearchSucceeds(c) PROVE IInv' /\ LeavesOpen
  <2>1. Kept
    BY <1>0, <1>4, LeadsToSucceeded, BecomesKeeps DEF SearchSucceeds
  <2>2. calls' \in [Calls -> Call] /\ AttemptsLeft'
    BY <1>0, <1>4, BreakerAssumption DEF SearchSucceeds, Go, AttemptsLeft, TypeOK, Call
  <2>. QED
    BY <1>0, <1>4, <2>1, <2>2 DEF SearchSucceeds, Kept, IInv, BreakerInv, TypeOK
<1>5. ASSUME NEW c \in Calls, SearchFails(c) PROVE IInv' /\ LeavesOpen
  <2>1. calls[c].attempt \in 1 .. MaxRetries
    BY <1>0, <1>5, BreakerAssumption DEF SearchFails, AttemptsLeft, TypeOK, Call
  <2>2. CASE calls[c].searchAttempt < MaxRetries
    <3>1. Kept
      BY <1>0, <1>5, <2>2, BecomesKeeps DEF SearchFails
    <3>2. calls' \in [Calls -> Call] /\ AttemptsLeft'
      BY <1>0, <1>5, <2>2, BreakerAssumption DEF SearchFails, Go, AttemptsLeft, TypeOK, Call
    <3>. QED
      BY <1>0, <1>5, <3>1, <3>2, BreakerAssumption
      DEF SearchFails, Kept, IInv, BreakerInv, TypeOK, Since
  <2>3. CASE ~(calls[c].searchAttempt < MaxRetries)
    <3>1. AttemptFails(c, calls[c].attempt, Failed(breaker))
      BY <1>5, <2>3 DEF SearchFails
    <3>2. Kept /\ calls' \in [Calls -> Call] /\ AttemptsLeft'
      BY <1>0, <2>1, <3>1, LeadsToFailed, AttemptFailsKeeps, AttemptKeepsAttempts
    <3>. QED
      BY <1>0, <1>5, <3>2, BreakerAssumption
      DEF SearchFails, Kept, IInv, BreakerInv, TypeOK, Since
  <2>. QED
    BY <2>2, <2>3
<1>6. ASSUME NEW c \in Calls, QuerySucceeds(c) PROVE IInv' /\ LeavesOpen
  <2>1. Kept
    BY <1>0, <1>6, LeadsToSucceeded, BecomesKeeps DEF QuerySucceeds
  <2>2. calls' \in [Calls -> Call] /\ AttemptsLeft'
    BY <1>0, <1>6, BreakerAssumption DEF QuerySucceeds, Idle, AttemptsLeft, TypeOK, Call
  <2>. QED
    BY <1>0, <1>6, <2>1, <2>2 DEF QuerySucceeds, Kept, IInv, BreakerInv, TypeOK
<1>7. ASSUME NEW c \in Calls, QueryFails(c) PROVE IInv' /\ LeavesOpen
  <2>1. calls[c].attempt \in 1 .. MaxRetries
    BY <1>0, <1>7, BreakerAssumption DEF QueryFails, AttemptsLeft, TypeOK, Call
  <2>2. Kept /\ calls' \in [Calls -> Call] /\ AttemptsLeft'
    BY <1>0, <1>7, <2>1, AttemptFailsKeeps, AttemptKeepsAttempts DEF QueryFails
  <2>. QED
    BY <1>0, <1>7, <2>2, BreakerAssumption
    DEF QueryFails, Kept, IInv, BreakerInv, TypeOK, Since
<1>8. CASE Outage \/ Repair
  BY <1>0, <1>8
  DEF Outage, Repair, IInv, BreakerInv, TypeOK, FieldsAgree, TripIsOlder, AttemptsLeft, LeavesOpen
<1>9. CASE Tick
  <2>1. ASSUME NEW t \in Since PROVE Later(t) \in Since /\ t <= Later(t)
    BY BreakerAssumption DEF Later, Since, LongAgo
  <2>2. ASSUME NEW t \in Since, NEW u \in Since, t <= u PROVE Later(t) <= Later(u)
    BY <2>2, BreakerAssumption DEF Later, Since, LongAgo
  <2>3. /\ breaker' \in Breaker
        /\ breaker'.state = breaker.state
        /\ breaker'.failures = breaker.failures
        /\ breaker'.successes = breaker.successes
        /\ breaker'.since = Later(breaker.since)
    BY <1>0, <1>9, <2>1 DEF Tick, Breaker
  <2>4. TripIsOlder'
    BY <1>0, <1>9, <2>2, <2>3 DEF Tick, TripIsOlder, BreakerInv, TypeOK, Breaker
  <2>5. TypeOK' /\ AttemptsLeft'
    BY <1>0, <1>9, <2>1, <2>3 DEF Tick, TypeOK, AttemptsLeft
  <2>. QED
    BY <1>0, <2>3, <2>4, <2>5 DEF IInv, BreakerInv, FieldsAgree, LeavesOpen
<1>10. CASE UNCHANGED vars
  BY <1>0, <1>10
  DEF vars, IInv, BreakerInv, TypeOK, FieldsAgree, TripIsOlder, AttemptsLeft, LeavesOpen
<1>. QED
  BY <1>1, <1>2, <1>3, <1>4, <1>5, <1>6, <1>7, <1>8, <1>9, <1>10 DEF Next, Answers, Wakes

LEMMA InvariantIInv == Spec => []IInv
<1>1. IInv /\ [Next]_vars => IInv'
  BY StepIInv
<1>. QED
  BY InitIInv, <1>1, PTL DEF Spec

-----------------------------------------------------------------------------
(* The fields, the calls and the clocks are well typed: the number of      *)
(* attempts never exceeds withRetry's.                                     *)
THEOREM BreakerTypeCorrect == Spec => []TypeOK
<1>1. IInv => TypeOK
  BY DEF IInv, BreakerInv
<1>. QED
  BY InvariantIInv, <1>1, PTL

(* execute and handleFailure, interleaved in any way: the state of the     *)
(* breaker and its two counters agree.                                     *)
THEOREM FieldsTheorem == Spec => []FieldsAgree
<1>1. IInv => FieldsAgree
  BY DEF IInv, BreakerInv
<1>. QED
  BY InvariantIInv, <1>1, PTL

(* execute admits nobody, and no late answer closes the breaker, within    *)
(* resetTimeout of its opening.                                            *)
THEOREM BlocksTheorem == Spec => BlocksForTimeout
<1>1. IInv /\ [Next]_vars =>
        [breaker.state = "OPEN" /\ breaker'.state # "OPEN" =>
            breaker'.state = "HALF_OPEN" /\ sinceTrip > ResetTimeout]_vars
  BY StepIInv DEF LeavesOpen
<1>. QED
  BY InvariantIInv, <1>1, PTL DEF Spec, BlocksForTimeout

-----------------------------------------------------------------------------
(* The media services.                                                     *)

Once(q) == \A i, j \in DOMAIN q : q[i] = q[j] => i = j

(* A drain loop has a url from the moment it starts to the moment it ends. *)
LoopsHold == \A s \in Services : on[s] = Free <=> at[s] = "new"

(* No worker's audio is in the queue twice, or there and being heard.      *)
AudioOnce == Once(audio) /\ ~Queued(hearing, audio)

MediaInv == MediaTypeOK /\ NothingLeftBehind /\ LoopsHold /\ AudioOnce

-----------------------------------------------------------------------------
(* Queues: what joins the end, and what leaves the head.                   *)

LEMMA QueuedAtEnd ==
    ASSUME NEW S, NEW q \in Seq(S), NEW x \in S
    PROVE  /\ Append(q, x) \in Seq(S) /\ Append(q, x) # <<>>
           /\ \A u : Queued(u, Append(q, x)) <=> Queued(u, q) \/ u = x
           /\ Once(q) /\ ~Queued(x, q) => Once(Append(q, x))
  <1>1. /\ Append(q, x) \in Seq(S) /\ Append(q, x) # <<>>
        /\ DOMAIN Append(q, x) = 1 .. (Len(q) + 1)
        /\ \A i \in 1 .. Len(q) : Append(q, x)[i] = q[i]
        /\ Append(q, x)[Len(q) + 1] = x
        /\ DOMAIN q = 1 .. Len(q) /\ Len(q) \in Nat
    BY AppendProperties
  <1>2. ASSUME NEW u PROVE Queued(u, Append(q, x)) <=> Queued(u, q) \/ u = x
    BY <1>1 DEF Queued
  <1>3. ASSUME Once(q), ~Queued(x, q) PROVE Once(Append(q, x))
    BY <1>1, <1>3 DEF Queued, Once
  <1> QED BY <1>1, <1>2, <1>3

LEMMA QueuedAtHead ==
    ASSUME NEW S, NEW q \in Seq(S), q # <<>>
    PROVE  /\ Tail(q) \in Seq(S) /\ Head(q) \in S
           /\ \A u : Queued(u, q) <=> Queued(u, Tail(q)) \/ u = Head(q)
           /\ Once(q) => Once(Tail(q)) /\ ~Queued(Head(q), Tail(q))
  <1>1. /\ Tail(q) \in Seq(S) /\ Head(q) \in S
        /\ Head(q) = q[1] /\ 1 \in DOMAIN q
        /\ DOMAIN Tail(q) = 1 .. (Len(q) - 1)
        /\ DOMAIN q = 1 .. Len(q) /\ Len(q) \in Nat \ {0}
        /\ \A i \in 1 .. (Len(q) - 1) : Tail(q)[i] = q[i + 1]
    BY HeadTailProperties, EmptySeq
  <1>2. ASSUME NEW u PROVE Queued(u, q) <=> Queued(u, Tail(q)) \/ u = Head(q)
    <2>1. ASSUME NEW i \in DOMAIN q, q[i] = u
          PROVE  Queued(u, Tail(q)) \/ u = Head(q)
      <3>1. CASE i = 1
        BY <1>1, <2>1, <3>1
      <3>2. CASE i # 1
        <4>1. i - 1 \in 1 .. (Len(q) - 1) /\ (i - 1) + 1 = i
          BY <1>1, <2>1, <3>2
        <4>2. Tail(q)[i - 1] = u
          BY <1>1, <2>1, <4>1
        <4> QED BY <1>1, <4>1, <4>2 DEF Queued
      <3> QED BY <3>1, <3>2
    <2>2. ASSUME NEW i \in DOMAIN Tail(q), Tail(q)[i] = u PROVE Queued(u, q)
      <3>1. i + 1 \in DOMAIN q /\ q[i + 1] = u
        BY <1>1, <2>2
      <3> QED BY <3>1 DEF Queued
    <2> QED BY <1>1, <2>1, <2>2 DEF Queued
  <1>3. ASSUME Once(q) PROVE Once(Tail(q)) /\ ~Queued(Head(q), Tail(q))
    <2>1. \A i \in DOMAIN Tail(q) : i + 1 \in DOMAIN q /\ i + 1 # 1
      BY <1>1
    <2> QED BY <1>1, <1>3, <2>1 DEF Queued, Once
  <1> QED BY <1>1, <1>2, <1>3

LEMMA NothingQueued == \A u : ~Queued(u, <<>>)
BY DEF Queued

LEMMA NothingTwice == Once(<<>>)
BY DEF Once

-----------------------------------------------------------------------------
(* The kinds of steps.                                                     *)

LEMMA WorkersApart ==
    /\ "video" \in Services /\ "image" \in Services
    /\ Callers \cup Services = Workers /\ Callers \cap Services = {}
    /\ Free \notin Workers /\ Free \notin Urls
    /\ \A r \in Callers : Wants[r] \in Urls
    /\ \A u : ServiceOf(u) \in Services
    /\ Videos \subseteq Urls
BY MediaAssumption DEF Services, Workers, ServiceOf, Urls

LEMMA MediaInitInv == MediaInit => MediaInv
  <1> SUFFICES ASSUME MediaInit PROVE MediaInv
    OBVIOUS
  <1>1. MediaTypeOK
    <2>1. <<>> \in Seq(Urls) /\ <<>> \in Seq(Workers)
      BY EmptySeq
    <2>2. queue \in [Services -> Seq(Urls)] /\ audio \in Seq(Workers)
      BY <2>1 DEF MediaInit
    <2>3. up \in BOOLEAN /\ ready \in BOOLEAN
      BY DEF MediaInit
    <2>4. at \in [Workers -> Places] /\ cache \in [Keys -> Texts]
      BY DEF MediaInit, Places, Texts
    <2>5. on \in [Services -> Urls \cup {Free}] /\ hearing \in Workers \cup {Free}
      BY DEF MediaInit
    <2>6. starts \in 0 .. MaxStarts
      BY MediaAssumption DEF MediaInit
    <2> QED BY <2>2, <2>3, <2>4, <2>5, <2>6 DEF MediaTypeOK
  <1>2. NothingLeftBehind
    BY WorkersApart, NothingQueued DEF MediaInit, NothingLeftBehind
  <1>3. LoopsHold /\ AudioOnce
    BY WorkersApart, NothingQueued, NothingTwice DEF MediaInit, LoopsHold, AudioOnce
  <1> QED BY <1>1, <1>2, <1>3 DEF MediaInv

(* Nothing but audio and hearing is asked of the transcripts.              *)
LEMMA TranscriptsStay ==
    ASSUME NothingLeftBehind, AudioOnce, UNCHANGED <<audio, hearing>>,
           \A w \in Workers : at'[w] = "transcript" <=> at[w] = "transcript",
           \A s \in Services : queue'[s] # <<>> => on'[s] # Free
    PROVE  NothingLeftBehind' /\ AudioOnce'
BY DEF NothingLeftBehind, AudioOnce, Once, Queued

(* The process ends and everything with it.                                *)
LEMMA DiesStep ==
    ASSUME MediaInv, Dies, UNCHANGED <<cache, starts>>
    PROVE  MediaInv'
  <1>1. \A w \in Workers :
          /\ at'[w] \in {"new", "done", "rejected"}
          /\ w \in Services => at'[w] = "new"
    BY DEF Dies
  <1>2. MediaTypeOK'
    <2>1. <<>> \in Seq(Urls) /\ <<>> \in Seq(Workers)
      BY EmptySeq
    <2>2. queue' \in [Services -> Seq(Urls)] /\ audio' \in Seq(Workers)
      BY <2>1 DEF Dies
    <2>3. at' \in [Workers -> Places]
      BY DEF Dies, Places
    <2> QED BY <2>2, <2>3 DEF MediaInv, MediaTypeOK, Dies
  <1>3. NothingLeftBehind'
    BY <1>1, WorkersApart, NothingQueued DEF Dies, NothingLeftBehind
  <1>4. LoopsHold' /\ AudioOnce'
    BY <1>1, WorkersApart, NothingQueued, NothingTwice DEF Dies, LoopsHold, AudioOnce
  <1> QED BY <1>2, <1>3, <1>4 DEF MediaInv

(* A worker goes on with its url.                                          *)
LEMMA MoveStep ==
    ASSUME MediaInv, NEW w \in Workers, NEW to \in Places \ {"transcript"},
           Move(w, to), at[w] # "transcript",
           w \in Services => at[w] # "new" /\ to # "new",
           UNCHANGED <<up, ready, queue, on, audio, hearing, cache, starts>>
    PROVE  MediaInv'
  <1>1. at' = [at EXCEPT ![w] = to] /\ MediaTypeOK
    BY DEF Move, MediaInv
  <1>2. MediaTypeOK' /\ at'[w] = to /\ \A v \in Workers \ {w} : at'[v] = at[v]
    BY <1>1 DEF MediaTypeOK
  <1>3. NothingLeftBehind' /\ AudioOnce'
    BY <1>2, TranscriptsStay DEF MediaInv, NothingLeftBehind
  <1>4. LoopsHold'
    BY <1>2, WorkersApart DEF MediaInv, LoopsHold
  <1> QED BY <1>2, <1>3, <1>4 DEF MediaInv

LEMMA ThrownStep ==
    ASSUME MediaInv, NEW w \in Workers, Thrown(w),
           at[w] \in {"loading", "fetch"}, UNCHANGED <<cache, starts>>
    PROVE  MediaInv'
  <1>1. CASE w \in Callers
    <2>1. /\ Move(w, "rejected") /\ "rejected" \in Places \ {"transcript"}
          /\ UNCHANGED <<up, ready, queue, on, audio, hearing>>
      BY <1>1 DEF Thrown, Places
    <2> QED BY <1>1, <2>1, MoveStep, WorkersApart
  <1>2. CASE w \notin Callers
    BY <1>2, DiesStep DEF Thrown
  <1> QED BY <1>1, <1>2

(* A worker has its description; a drain loop takes the next url or ends.  *)
LEMMA ServedStep ==
    ASSUME MediaInv, NEW w \in Workers, Served(w),
           at[w] \in {"lookup", "text", "failed"},
           UNCHANGED <<up, ready, audio, hearing, starts>>,
           cache' \in [Keys -> Texts]
    PROVE  MediaInv'
  <1>1. MediaTypeOK /\ NothingLeftBehind /\ LoopsHold /\ AudioOnce
    BY DEF MediaInv
  <1>2. CASE w \in Callers
    <2>1. /\ at' = [at EXCEPT ![w] = "done"] /\ UNCHANGED <<queue, on>>
          /\ w \notin Services
      BY <1>2, WorkersApart DEF Served, Move
    <2>2. MediaTypeOK' /\ at'[w] = "done" /\ \A v \in Workers \ {w} : at'[v] = at[v]
      BY <1>1, <2>1 DEF MediaTypeOK, Places
    <2>3. NothingLeftBehind' /\ AudioOnce'
      BY <1>1, <2>1, <2>2, TranscriptsStay DEF NothingLeftBehind
    <2>4. LoopsHold'
      BY <1>1, <2>1, <2>2, WorkersApart DEF LoopsHold
    <2> QED BY <2>2, <2>3, <2>4 DEF MediaInv
  <1>3. CASE w \in Services
    <2> DEFINE q == queue[w]
               rest == IF q = <<>> THEN q ELSE Tail(q)
               next == IF q = <<>> THEN Free ELSE Head(q)
               place == IF q = <<>> THEN "new" ELSE "lookup"
    <2>1. /\ queue' = [queue EXCEPT ![w] = rest]
          /\ on' = [on EXCEPT ![w] = next]
          /\ at' = [at EXCEPT ![w] = place]
      BY <1>3, WorkersApart DEF Served, Move
    <2>2. q \in Seq(Urls) /\ rest \in Seq(Urls) /\ next \in Urls \cup {Free}
      BY <1>1, <1>3, QueuedAtHead DEF MediaTypeOK
    <2>3. /\ next = Free <=> place = "new"
          /\ rest # <<>> => next # Free
          /\ place \in {"new", "lookup"}
      BY <2>2, QueuedAtHead, WorkersApart
    <2> HIDE DEF q, rest, next, place
    <2>4. MediaTypeOK'
      BY <1>1, <2>1, <2>2, <2>3 DEF MediaTypeOK, Places
    <2>5. /\ queue'[w] = rest /\ on'[w] = next /\ at'[w] = place
          /\ \A v \in Services \ {w} : queue'[v] = queue[v] /\ on'[v] = on[v]
          /\ \A v \in Workers \ {w} : at'[v] = at[v]
      BY <1>1, <1>3, <2>1 DEF MediaTypeOK
    <2>6. NothingLeftBehind' /\ AudioOnce'
      BY <1>1, <2>3, <2>5, TranscriptsStay DEF NothingLeftBehind
    <2>7. LoopsHold'
      BY <1>1, <2>3, <2>5, WorkersApart DEF LoopsHold
    <2> QED BY <2>4, <2>6, <2>7 DEF MediaInv
  <1> QED BY <1>2, <1>3, WorkersApart

(* An ask joins the queue, and the drain loop that was idle starts on it.  *)
LEMMA EnqueueStep ==
    ASSUME MediaInv, NEW r \in Callers, at[r] \in {"new", "loading"},
           Enqueue(r), ready' \in BOOLEAN
    PROVE  MediaInv'
  <1> DEFINE u == Wants[r]
             s == ServiceOf(u)
             all == Append(queue[s], u)
             q == IF on[s] = Free THEN Tail(all) ELSE all
             place == IF Queued(u, q) THEN "polling" ELSE "lookup"
  <1>1. /\ MediaTypeOK /\ NothingLeftBehind /\ LoopsHold /\ AudioOnce
        /\ u \in Urls /\ s \in Services /\ r \notin Services /\ r \in Workers
        /\ r # s /\ s \in Workers
    BY WorkersApart DEF MediaInv
  <1>2. queue[s] \in Seq(Urls)
    BY <1>1 DEF MediaTypeOK
  <1>3. all \in Seq(Urls) /\ all # <<>>
    BY <1>1, <1>2, QueuedAtEnd
  <1>4. q \in Seq(Urls) /\ Head(all) \in Urls
    BY <1>3, QueuedAtHead
  <1>5. /\ queue' = [queue EXCEPT ![s] = q]
        /\ UNCHANGED <<up, audio, hearing, cache, starts>>
        /\ IF on[s] = Free
           THEN /\ on' = [on EXCEPT ![s] = Head(all)]
                /\ at' = [at EXCEPT ![r] = place, ![s] = "lookup"]
           ELSE at' = [at EXCEPT ![r] = place] /\ UNCHANGED on
    BY DEF Enqueue, Move
  <1>6. place \in {"polling", "lookup"}
    OBVIOUS
  <1> HIDE DEF u, s, all, q, place
  <1>7. /\ queue'[s] = q /\ at'[r] = place
        /\ \A v \in Services \ {s} :
              queue'[v] = queue[v] /\ on'[v] = on[v] /\ at'[v] = at[v]
        /\ \A v \in Workers \ {r, s} : at'[v] = at[v]
        /\ on'[s] # Free
        /\ at'[s] = IF on[s] = Free THEN "lookup" ELSE at[s]
    BY <1>1, <1>4, <1>5, WorkersApart DEF MediaTypeOK
  <1>8. MediaTypeOK'
    <2>1. queue' \in [Services -> Seq(Urls)]
      BY <1>1, <1>4, <1>5 DEF MediaTypeOK
    <2>2. on' \in [Services -> Urls \cup {Free}]
      BY <1>1, <1>4, <1>5 DEF MediaTypeOK
    <2>3. at' \in [Workers -> Places]
      BY <1>1, <1>5, <1>6 DEF MediaTypeOK, Places
    <2> QED BY <1>1, <1>5, <2>1, <2>2, <2>3 DEF MediaTypeOK
  <1>9. NothingLeftBehind' /\ AudioOnce'
    <2>1. ASSUME NEW w \in Workers
          PROVE  at'[w] = "transcript" <=> at[w] = "transcript"
      <3>1. CASE w = r
        BY <1>6, <1>7, <3>1
      <3>2. CASE w = s
        BY <1>1, <1>7, <3>2 DEF LoopsHold
      <3>3. CASE w \notin {r, s}
        BY <1>7, <3>3
      <3> QED BY <3>1, <3>2, <3>3
    <2>2. \A v \in Services : queue'[v] # <<>> => on'[v] # Free
      BY <1>1, <1>7 DEF NothingLeftBehind
    <2> QED BY <1>1, <1>5, <2>1, <2>2, TranscriptsStay
  <1>10. LoopsHold'
    <2>1. \A v \in Services \ {s} : on'[v] = Free <=> at'[v] = "new"
      BY <1>1, <1>7 DEF LoopsHold
    <2>2. at'[s] # "new"
      BY <1>1, <1>7 DEF LoopsHold
    <2> QED BY <1>7, <2>1, <2>2 DEF LoopsHold
  <1> QED BY <1>8, <1>9, <1>10 DEF MediaInv

LEMMA AskStep ==
    ASSUME MediaInv, NEW r \in Callers, Ask(r) PROVE MediaInv'
  <1>1. r \in Workers /\ r \notin Services /\ ready \in BOOLEAN
    BY WorkersApart DEF MediaInv, MediaTypeOK
  <1>2. CASE Wants[r] \in Pictures /\ ~ready
    <2>1. /\ Move(r, "loading") /\ "loading" \in Places \ {"transcript"}
          /\ at[r] = "new"
          /\ UNCHANGED <<up, ready, queue, on, audio, hearing, cache, starts>>
      BY <1>2 DEF Ask, Places
    <2> QED BY <1>1, <2>1, MoveStep
  <1>3. CASE ~(Wants[r] \in Pictures /\ ~ready)
    BY <1>1, <1>3, EnqueueStep DEF Ask
  <1> QED BY <1>2, <1>3

(* A video without captions goes to be heard, at once or behind others.    *)
LEMMA SendAudioStep ==
    ASSUME MediaInv, NEW w \in Workers, SendAudio(w) PROVE MediaInv'
  <1>1. /\ MediaTypeOK /\ NothingLeftBehind /\ LoopsHold /\ AudioOnce
        /\ at[w] = "fetch" /\ at' = [at EXCEPT ![w] = "transcript"]
        /\ IF hearing = Free
           THEN hearing' = w /\ UNCHANGED audio
           ELSE audio' = Append(audio, w) /\ UNCHANGED hearing
        /\ UNCHANGED <<up, ready, queue, on, cache, starts>>
    BY DEF SendAudio, Move, MediaInv
  <1>2. at'[w] = "transcript" /\ \A v \in Workers \ {w} : at'[v] = at[v]
    BY <1>1 DEF MediaTypeOK
  <1>3. w # hearing /\ ~Queued(w, audio)
    BY <1>1 DEF NothingLeftBehind
  <1>4. LoopsHold'
    BY <1>1, <1>2, WorkersApart DEF LoopsHold
  <1>5. at' \in [Workers -> Places]
    BY <1>1 DEF MediaTypeOK, Places
  <1>6. CASE hearing = Free
    <2>1. audio = <<>> /\ hearing' = w /\ audio' = <<>>
      BY <1>1, <1>6 DEF NothingLeftBehind
    <2>2. MediaTypeOK'
      BY <1>1, <1>5, <2>1 DEF MediaTypeOK
    <2>3. \A v \in Workers : at[v] # "transcript"
      BY <1>1, <1>6, <2>1, NothingQueued, WorkersApart DEF NothingLeftBehind
    <2>4. \A v \in Workers :
             at'[v] = "transcript" <=> v = hearing' \/ Queued(v, audio')
      BY <1>2, <2>1, <2>3, NothingQueued
    <2>5. NothingLeftBehind'
      BY <1>1, <2>1, <2>4 DEF NothingLeftBehind, Queued
    <2>6. AudioOnce'
      BY <2>1, NothingQueued, NothingTwice DEF AudioOnce, Queued, Once
    <2> QED BY <1>4, <2>2, <2>5, <2>6 DEF MediaInv
  <1>7. CASE hearing # Free
    <2>1. audio' = Append(audio, w) /\ hearing' = hearing /\ audio \in Seq(Workers)
      BY <1>1, <1>7 DEF MediaTypeOK
    <2>2. /\ audio' \in Seq(Workers)
          /\ \A v : Queued(v, Append(audio, w)) <=> Queued(v, audio) \/ v = w
          /\ Once(Append(audio, w))
      BY <1>1, <1>3, <2>1, QueuedAtEnd DEF AudioOnce
    <2>3. MediaTypeOK'
      BY <1>1, <1>5, <2>1, <2>2 DEF MediaTypeOK
    <2>4. \A v \in Workers :
             at'[v] = "transcript" <=> v = hearing' \/ Queued(v, Append(audio, w))
      BY <1>1, <1>2, <2>1, <2>2 DEF NothingLeftBehind
    <2>5. NothingLeftBehind'
      BY <1>1, <1>7, <2>1, <2>4 DEF NothingLeftBehind, Queued
    <2>6. AudioOnce'
      BY <1>1, <1>3, <2>1, <2>2 DEF AudioOnce, Queued, Once
    <2> QED BY <1>4, <2>3, <2>5, <2>6 DEF MediaInv
  <1> QED BY <1>6, <1>7

(* The heard worker goes on and the head of the queue is heard.            *)
LEMMA TranscribeStep ==
    ASSUME MediaInv, NEW text \in {"text", "failed"}, Transcribe(text)
    PROVE  MediaInv'
  <1>1. /\ MediaTypeOK /\ NothingLeftBehind /\ LoopsHold /\ AudioOnce
        /\ hearing # Free /\ at' = [at EXCEPT ![hearing] = text]
        /\ hearing' = IF audio = <<>> THEN Free ELSE Head(audio)
        /\ audio' = IF audio = <<>> THEN audio ELSE Tail(audio)
        /\ UNCHANGED <<up, ready, queue, on, cache, starts>>
    BY DEF Transcribe, Move, MediaInv
  <1>2. PICK w \in Workers : w = hearing
    BY <1>1 DEF MediaTypeOK
  <1>3. /\ at[w] = "transcript" /\ ~Queued(w, audio)
        /\ at'[w] = text /\ \A v \in Workers \ {w} : at'[v] = at[v]
    BY <1>1, <1>2 DEF MediaTypeOK, NothingLeftBehind, AudioOnce
  <1>4. LoopsHold'
    BY <1>1, <1>3, WorkersApart DEF LoopsHold
  <1>5. at' \in [Workers -> Places]
    BY <1>1 DEF MediaTypeOK, Places
  <1>6. CASE audio = <<>>
    <2>1. hearing' = Free /\ audio' = <<>>
      BY <1>1, <1>6
    <2>2. MediaTypeOK'
      BY <1>1, <1>5, <1>6, <2>1 DEF MediaTypeOK
    <2>3. \A v \in Workers : at'[v] # "transcript"
      BY <1>1, <1>2, <1>3, <1>6, NothingQueued DEF NothingLeftBehind
    <2>4. NothingLeftBehind'
      BY <1>1, <2>1, <2>3, WorkersApart, NothingQueued DEF NothingLeftBehind, Queued
    <2>5. AudioOnce'
      BY <2>1, NothingQueued, NothingTwice DEF AudioOnce, Queued, Once
    <2> QED BY <1>4, <2>2, <2>4, <2>5 DEF MediaInv
  <1>7. CASE audio # <<>>
    <2>1. hearing' = Head(audio) /\ audio' = Tail(audio) /\ audio \in Seq(Workers)
      BY <1>1, <1>7 DEF MediaTypeOK
    <2>2. /\ Tail(audio) \in Seq(Workers) /\ Head(audio) \in Workers
          /\ \A v : Queued(v, audio) <=> Queued(v, Tail(audio)) \/ v = Head(audio)
          /\ Once(Tail(audio)) /\ ~Queued(Head(audio), Tail(audio))
      BY <1>1, <1>7, <2>1, QueuedAtHead DEF AudioOnce
    <2>3. MediaTypeOK'
      BY <1>1, <1>5, <2>1, <2>2 DEF MediaTypeOK
    <2>4. \A v \in Workers :
             at'[v] = "transcript" <=> v = hearing' \/ Queued(v, Tail(audio))
      BY <1>1, <1>2, <1>3, <2>1, <2>2 DEF NothingLeftBehind
    <2>5. NothingLeftBehind'
      BY <1>1, <2>1, <2>2, <2>4, WorkersApart DEF NothingLeftBehind, Queued
    <2>6. AudioOnce'
      BY <2>1, <2>2 DEF AudioOnce, Queued, Once
    <2> QED BY <1>4, <2>3, <2>5, <2>6 DEF MediaInv
  <1> QED BY <1>6, <1>7

LEMMA WorkStep ==
    ASSUME MediaInv, NEW w \in Workers, Work(w) PROVE MediaInv'
  <1>1. MediaTypeOK /\ LoopsHold
    BY DEF MediaInv
  <1>2. ASSUME w \in Callers, Load(w) PROVE MediaInv'
    BY <1>2, EnqueueStep DEF Load
  <1>3. ASSUME w \in Callers, LoadThrows(w) PROVE MediaInv'
    BY <1>3, ThrownStep DEF LoadThrows
  <1>4. ASSUME w \in Callers, Poll(w) PROVE MediaInv'
    <2>1. w \notin Services
      BY <1>4, WorkersApart
    <2> QED BY <1>4, <2>1, MoveStep DEF Poll, Places
  <1>5. ASSUME Hit(w) PROVE MediaInv'
    BY <1>1, <1>5, ServedStep DEF Hit, MediaTypeOK
  <1>6. ASSUME Miss(w) PROVE MediaInv'
    BY <1>6, MoveStep DEF Miss, Places
  <1>7. ASSUME FindText(w) PROVE MediaInv'
    BY <1>7, MoveStep DEF FindText, Places
  <1>8. ASSUME FetchThrows(w) PROVE MediaInv'
    BY <1>8, ThrownStep DEF FetchThrows
  <1>9. ASSUME Keep(w) PROVE MediaInv'
    <2>1. cache' \in [Keys -> Texts]
      BY <1>1, <1>9 DEF Keep, MediaTypeOK, Texts
    <2> QED BY <1>9, <2>1, ServedStep DEF Keep
  <1> QED BY <1>2, <1>3, <1>4, <1>5, <1>6, <1>7, <1>8, <1>9, SendAudioStep DEF Work

LEMMA MediaStep ==
    ASSUME MediaInv, [MediaNext]_mediaVars PROVE MediaInv'
  <1>1. ASSUME Hear PROVE MediaInv'
    BY <1>1, TranscribeStep, DiesStep DEF Hear, TranscribeThrows
  <1>2. ASSUME Restart PROVE MediaInv'
    <2>1. UNCHANGED <<ready, queue, on, at, audio, hearing, cache>>
      BY <1>2 DEF Restart
    <2>2. MediaTypeOK'
      BY <1>2, MediaAssumption DEF Restart, MediaInv, MediaTypeOK
    <2> QED BY <2>1, <2>2
            DEF MediaInv, NothingLeftBehind, LoopsHold, AudioOnce, Queued, Once
  <1>3. ASSUME UNCHANGED mediaVars PROVE MediaInv'
    BY <1>3 DEF mediaVars, MediaInv, MediaTypeOK, NothingLeftBehind, LoopsHold,
                AudioOnce, Queued, Once
  <1> QED BY <1>1, <1>2, <1>3, AskStep, WorkStep DEF MediaNext

(* For any callers, urls and failures, and however often the process is    *)
(* started again: the queues and the workers keep their types.             *)
THEOREM MediaTypeCorrect == MediaSpec => []MediaTypeOK
  <1>1. MediaInv /\ [MediaNext]_mediaVars => MediaInv'
    BY MediaStep
  <1>2. MediaInv => MediaTypeOK
    BY DEF MediaInv
  <1> QED BY <1>1, <1>2, MediaInitInv, PTL DEF MediaSpec

(* ... no url and no audio waits in a queue that nobody works on, and who  *)
(* awaits a transcript is heard or stands in the queue.                    *)
THEOREM NothingLeftTheorem == MediaSpec => []NothingLeftBehind
  <1>1. MediaInv /\ [MediaNext]_mediaVars => MediaInv'
    BY MediaStep
  <1>2. MediaInv => NothingLeftBehind
    BY DEF MediaInv
  <1> QED BY <1>1, <1>2, MediaInitInv, PTL DEF MediaSpec

-----------------------------------------------------------------------------
(* Urls that cannot be fetched.                                            *)

(* What BrokenUrlEndsProcess rests on: a caller that tries such a url has  *)
(* the drain loop before the same url, where the exception is nobody's,    *)
(* unless there is an entry under the key of the url; and no caller is     *)
(* given anything for it but the Media of another video with that key.     *)
BrokenIsMet ==
    \A r \in Callers : Wants[r] \in Broken =>
        LET s == ServiceOf(Wants[r]) IN
        /\ at[r] = "done" =>
              /\ Cached(Wants[r])
              /\ \E v \in Videos \ Broken : KeyOf[v] = KeyOf[Wants[r]]
        /\ at[r] \in {"lookup", "fetch"} =>
              \/ on[s] = Wants[r] /\ at[s] \in {"lookup", "fetch"}
              \/ Cached(Wants[r])

Told == {"transcript", "text", "failed"}

LoopPlaces == \A s \in Services : at[s] \in {"new", "lookup", "fetch"} \cup Told

(* Every entry is that of a video that can be fetched.                     *)
EntriesOwned ==
    \A k \in Keys : cache[k] # "none" => \E v \in Videos \ Broken : KeyOf[v] = k

(* Nothing comes of such a url: no text, no transcript, no Media of it.    *)
BrokenUntold ==
    /\ EntriesOwned
    /\ \A w \in Workers : UrlOf(w) \in Broken => at[w] \notin Told
    /\ \A r \in Callers : Wants[r] \in Broken /\ at[r] = "done" => Cached(Wants[r])

(* Who waits for it waits for the drain loop, which never gets past it.    *)
LoopMeetsIt ==
    \A r \in Callers : Wants[r] \in Broken /\ ~Cached(Wants[r]) =>
        LET s == ServiceOf(Wants[r]) IN
        /\ at[r] \in {"lookup", "fetch"} => on[s] = Wants[r]
        /\ at[r] = "polling" => on[s] = Wants[r] \/ Queued(Wants[r], queue[s])

BrokenInv == LoopPlaces /\ BrokenUntold /\ LoopMeetsIt

LEMMA BrokenInit == MediaInit => BrokenInv
  BY WorkersApart DEF MediaInit, BrokenInv, LoopPlaces, BrokenUntold, LoopMeetsIt,
                       EntriesOwned, Told

LEMMA BrokenUrls == Broken \subseteq Urls /\ Free \notin Broken
  BY MediaAssumption

(* A worker goes on and the queues stay.                                   *)
LEMMA BrokenMove ==
    ASSUME MediaTypeOK, BrokenInv, NEW w \in Workers, NEW to, Move(w, to),
           UNCHANGED <<queue, on, cache>>,
           UrlOf(w) \in Broken => to \notin Told \cup {"done", "polling"},
           w \in Services => to \in {"lookup", "fetch"} \cup Told,
           w \in Callers /\ Wants[w] \in Broken /\ to \in {"lookup", "fetch"} =>
              on[ServiceOf(Wants[w])] = Wants[w] \/ Cached(Wants[w])
    PROVE  BrokenInv'
  <1>1. at'[w] = to /\ \A v \in Workers \ {w} : at'[v] = at[v]
    BY DEF Move, MediaTypeOK
  <1>2. \A v \in Workers : UrlOf(v)' = UrlOf(v)
    BY DEF UrlOf
  <1>3. \A r \in Callers : r \in Workers /\ r \notin Services /\ UrlOf(r) = Wants[r]
    BY WorkersApart DEF UrlOf
  <1>0. \A u : Cached(u)' <=> Cached(u)
    BY DEF Cached
  <1>4. LoopPlaces'
    BY <1>1, WorkersApart DEF BrokenInv, LoopPlaces
  <1>5. BrokenUntold'
    <2>1. \A v \in Workers : UrlOf(v)' \in Broken => at'[v] \notin Told
      BY <1>1, <1>2 DEF BrokenInv, BrokenUntold
    <2>2. \A r \in Callers : Wants[r] \in Broken /\ at'[r] = "done" => Cached(Wants[r])'
      BY <1>0, <1>1, <1>3 DEF BrokenInv, BrokenUntold
    <2> QED BY <2>1, <2>2 DEF BrokenInv, BrokenUntold, EntriesOwned
  <1>6. LoopMeetsIt'
    BY <1>0, <1>1, <1>3 DEF BrokenInv, LoopMeetsIt
  <1> QED BY <1>4, <1>5, <1>6 DEF BrokenInv

LEMMA BrokenDies ==
    ASSUME BrokenInv, Dies, UNCHANGED cache PROVE BrokenInv'
  <1>1. \A w \in Workers :
          /\ at'[w] \in {"new", "done", "rejected"}
          /\ at'[w] = "done" => w \notin Services /\ at[w] = "done"
    BY DEF Dies
  <1>2. \A s \in Services : at'[s] = "new"
    BY WorkersApart DEF Dies
  <1> QED BY <1>1, <1>2, WorkersApart
          DEF BrokenInv, LoopPlaces, BrokenUntold, LoopMeetsIt, EntriesOwned,
              Cached, Told

LEMMA BrokenThrown ==
    ASSUME MediaTypeOK, BrokenInv, NEW w \in Workers, Thrown(w), UNCHANGED cache
    PROVE  BrokenInv'
  <1>1. CASE w \in Callers
    BY <1>1, WorkersApart, BrokenMove DEF Thrown, Told
  <1>2. CASE w \notin Callers
    BY <1>2, BrokenDies DEF Thrown
  <1> QED BY <1>1, <1>2

(* A worker that is served had another url, or one with an entry.          *)
LEMMA BrokenServed ==
    ASSUME MediaInv, BrokenInv, NEW w \in Workers, Served(w),
           UrlOf(w) \in Broken => Cached(UrlOf(w)),
           \A u : Cached(u) => Cached(u)', EntriesOwned'
    PROVE  BrokenInv'
  <1>1. CASE w \in Callers
    <2>1. /\ at' = [at EXCEPT ![w] = "done"] /\ UNCHANGED <<queue, on>>
          /\ w \notin Services
      BY <1>1, WorkersApart DEF Served, Move
    <2>2. at'[w] = "done" /\ \A v \in Workers \ {w} : at'[v] = at[v]
      BY <2>1 DEF MediaInv, MediaTypeOK
    <2>3. Wants[w] \in Broken => Cached(Wants[w])'
      BY <1>1, <2>1 DEF UrlOf
    <2>4. \A v \in Workers : UrlOf(v)' = UrlOf(v)
      BY <2>1 DEF UrlOf
    <2>5. LoopPlaces'
      BY <2>1, <2>2, WorkersApart DEF BrokenInv, LoopPlaces
    <2>6. BrokenUntold'
      BY <2>2, <2>3, <2>4, WorkersApart DEF BrokenInv, BrokenUntold, Told
    <2>7. LoopMeetsIt'
      BY <2>1, <2>2, WorkersApart DEF BrokenInv, LoopMeetsIt
    <2> QED BY <2>5, <2>6, <2>7 DEF BrokenInv
  <1>2. CASE w \in Services
    <2> DEFINE q == queue[w]
               rest == IF q = <<>> THEN q ELSE Tail(q)
               next == IF q = <<>> THEN Free ELSE Head(q)
               place == IF q = <<>> THEN "new" ELSE "lookup"
    <2>1. /\ queue' = [queue EXCEPT ![w] = rest]
          /\ on' = [on EXCEPT ![w] = next]
          /\ at' = [at EXCEPT ![w] = place]
      BY <1>2, WorkersApart DEF Served, Move
    <2>2. q \in Seq(Urls)
      BY <1>2 DEF MediaInv, MediaTypeOK
    <2>3. \A u : Queued(u, q) => u = next \/ Queued(u, rest)
      BY <2>2, QueuedAtHead, NothingQueued
    <2>4. place \in {"new", "lookup"}
      OBVIOUS
    <2> HIDE DEF q, rest, next, place
    <2>5. /\ queue'[w] = rest /\ on'[w] = next /\ at'[w] = place
          /\ \A v \in Services \ {w} : queue'[v] = queue[v] /\ on'[v] = on[v]
          /\ \A v \in Workers \ {w} : at'[v] = at[v]
      BY <1>2, <2>1 DEF MediaInv, MediaTypeOK
    <2>6. LoopPlaces'
      BY <2>4, <2>5, WorkersApart DEF BrokenInv, LoopPlaces
    <2>7. BrokenUntold'
      <3>1. \A v \in Workers \ {w} : UrlOf(v)' = UrlOf(v)
        BY <2>5 DEF UrlOf
      <3>2. \A v \in Workers : UrlOf(v)' \in Broken => at'[v] \notin Told
        BY <2>4, <2>5, <3>1 DEF BrokenInv, BrokenUntold, Told
      <3>3. \A r \in Callers :
               Wants[r] \in Broken /\ at'[r] = "done" => Cached(Wants[r])'
        BY <1>2, <2>5, WorkersApart DEF BrokenInv, BrokenUntold
      <3> QED BY <3>2, <3>3 DEF BrokenUntold
    <2>8. LoopMeetsIt'
      <3> SUFFICES ASSUME NEW r \in Callers, Wants[r] \in Broken,
                          ~Cached(Wants[r])'
                   PROVE  LET s == ServiceOf(Wants[r]) IN
                          /\ at'[r] \in {"lookup", "fetch"} => on'[s] = Wants[r]
                          /\ at'[r] = "polling" =>
                                on'[s] = Wants[r] \/ Queued(Wants[r], queue'[s])
        BY DEF LoopMeetsIt
      <3>1. PICK s \in Services : s = ServiceOf(Wants[r])
        BY WorkersApart
      <3>2. at'[r] = at[r]
        BY <1>2, <2>5, WorkersApart
      <3>3. /\ at[r] \in {"lookup", "fetch"} => on[s] = Wants[r]
            /\ at[r] = "polling" => on[s] = Wants[r] \/ Queued(Wants[r], queue[s])
        BY <3>1 DEF BrokenInv, LoopMeetsIt
      <3>4. CASE s = w
        <4>1. on[w] # Wants[r]
          BY <1>2 DEF UrlOf
        <4> QED BY <2>3, <2>5, <3>1, <3>2, <3>3, <3>4, <4>1 DEF q
      <3>5. CASE s # w
        BY <2>5, <3>1, <3>2, <3>3, <3>5
      <3> QED BY <3>4, <3>5
    <2> QED BY <2>6, <2>7, <2>8 DEF BrokenInv
  <1> QED BY <1>1, <1>2, WorkersApart

(* An ask for such a url finds the drain loop idle, which takes the url at *)
(* once, or waits in its queue.                                            *)
LEMMA BrokenEnqueue ==
    ASSUME MediaInv, BrokenInv, NEW r \in Callers, Enqueue(r),
           at[r] \in {"new", "loading"}
    PROVE  BrokenInv'
  <1> DEFINE u == Wants[r]
             s == ServiceOf(u)
             all == Append(queue[s], u)
             q == IF on[s] = Free THEN Tail(all) ELSE all
             place == IF Queued(u, q) THEN "polling" ELSE "lookup"
  <1>1. /\ MediaTypeOK /\ NothingLeftBehind /\ LoopsHold
        /\ u \in Urls /\ s \in Services /\ r \notin Services /\ r \in Workers
        /\ r # s /\ s \in Workers
    BY WorkersApart DEF MediaInv
  <1>2. queue[s] \in Seq(Urls)
    BY <1>1 DEF MediaTypeOK
  <1>3. \A v : Queued(v, all) <=> Queued(v, queue[s]) \/ v = u
    BY <1>1, <1>2, QueuedAtEnd
  <1>4. /\ queue' = [queue EXCEPT ![s] = q]
        /\ cache' = cache
        /\ IF on[s] = Free
           THEN /\ on' = [on EXCEPT ![s] = Head(all)]
                /\ at' = [at EXCEPT ![r] = place, ![s] = "lookup"]
           ELSE at' = [at EXCEPT ![r] = place] /\ UNCHANGED on
    BY DEF Enqueue, Move
  <1>0. \A v : Cached(v)' <=> Cached(v)
    BY <1>4 DEF Cached
  <1>5. CASE on[s] = Free
    <2>1. queue[s] = <<>> /\ all = <<u>> /\ Head(all) = u /\ Tail(all) = <<>>
      <3>1. queue[s] = <<>>
        BY <1>1, <1>5 DEF NothingLeftBehind
      <3>2. all = Append(<<>>, u)
        BY <3>1
      <3> HIDE DEF u, s, all
      <3> QED BY <3>1, <3>2
    <2>2. q = <<>> /\ place = "lookup"
      BY <1>5, <2>1, NothingQueued
    <2> HIDE DEF u, s, all, q, place
    <2>3. /\ on'[s] = u /\ at'[r] = "lookup" /\ at'[s] = "lookup"
          /\ \A v \in Services \ {s} : queue'[v] = queue[v] /\ on'[v] = on[v]
          /\ \A v \in Workers \ {r, s} : at'[v] = at[v]
      BY <1>1, <1>4, <1>5, <2>1, <2>2 DEF MediaTypeOK
    <2>4. LoopPlaces'
      BY <1>1, <2>3, WorkersApart DEF BrokenInv, LoopPlaces
    <2>5. BrokenUntold'
      <3>1. \A v \in Workers \ {s} : UrlOf(v)' = UrlOf(v)
        BY <2>3 DEF UrlOf
      <3>2. \A v \in Workers : UrlOf(v)' \in Broken => at'[v] \notin Told
        BY <2>3, <3>1 DEF BrokenInv, BrokenUntold, Told
      <3>3. \A v \in Callers :
               Wants[v] \in Broken /\ at'[v] = "done" => Cached(Wants[v])'
        BY <1>0, <1>1, <2>3, WorkersApart DEF BrokenInv, BrokenUntold
      <3> QED BY <1>4, <3>2, <3>3 DEF BrokenInv, BrokenUntold, EntriesOwned
    <2>6. LoopMeetsIt'
      <3> SUFFICES ASSUME NEW v \in Callers, Wants[v] \in Broken,
                          ~Cached(Wants[v])'
                   PROVE  LET z == ServiceOf(Wants[v]) IN
                          /\ at'[v] \in {"lookup", "fetch"} => on'[z] = Wants[v]
                          /\ at'[v] = "polling" =>
                                on'[z] = Wants[v] \/ Queued(Wants[v], queue'[z])
        BY DEF LoopMeetsIt
      <3>1. PICK z \in Services : z = ServiceOf(Wants[v])
        BY WorkersApart
      <3>2. CASE v = r
        BY <2>3, <3>1, <3>2 DEF u, s
      <3>3. CASE v # r
        <4>1. at'[v] = at[v]
          BY <1>1, <2>3, <3>3, WorkersApart
        <4>2. /\ at[v] \in {"lookup", "fetch"} => on[z] = Wants[v]
              /\ at[v] = "polling" => on[z] = Wants[v] \/ Queued(Wants[v], queue[z])
          BY <1>0, <3>1 DEF BrokenInv, LoopMeetsIt
        <4>3. CASE z = s
          <5>1. Wants[v] # Free
            BY WorkersApart
          <5> QED BY <1>5, <2>1, <3>1, <4>1, <4>2, <4>3, <5>1, NothingQueued
        <4>4. CASE z # s
          BY <2>3, <3>1, <4>1, <4>2, <4>4
        <4> QED BY <4>3, <4>4
      <3> QED BY <3>2, <3>3
    <2> QED BY <2>4, <2>5, <2>6 DEF BrokenInv
  <1>6. CASE on[s] # Free
    <2>1. q = all /\ place = "polling" /\ on' = on
      BY <1>3, <1>4, <1>6
    <2> HIDE DEF u, s, all, q, place
    <2>2. /\ queue'[s] = all /\ at'[r] = "polling"
          /\ \A v \in Services \ {s} : queue'[v] = queue[v]
          /\ \A v \in Workers \ {r} : at'[v] = at[v]
      BY <1>1, <1>4, <1>6, <2>1 DEF MediaTypeOK
    <2>3. LoopPlaces'
      BY <1>1, <2>2, WorkersApart DEF BrokenInv, LoopPlaces
    <2>4. BrokenUntold'
      <3>1. \A v \in Workers : UrlOf(v)' = UrlOf(v)
        BY <2>1 DEF UrlOf
      <3>2. \A v \in Workers : UrlOf(v)' \in Broken => at'[v] \notin Told
        BY <2>2, <3>1 DEF BrokenInv, BrokenUntold, Told
      <3>3. \A v \in Callers :
               Wants[v] \in Broken /\ at'[v] = "done" => Cached(Wants[v])'
        BY <1>0, <2>2, WorkersApart DEF BrokenInv, BrokenUntold
      <3> QED BY <1>4, <3>2, <3>3 DEF BrokenInv, BrokenUntold, EntriesOwned
    <2>5. LoopMeetsIt'
      <3> SUFFICES ASSUME NEW v \in Callers, Wants[v] \in Broken,
                          ~Cached(Wants[v])'
                   PROVE  LET z == ServiceOf(Wants[v]) IN
                          /\ at'[v] \in {"lookup", "fetch"} => on'[z] = Wants[v]
                          /\ at'[v] = "polling" =>
                                on'[z] = Wants[v] \/ Queued(Wants[v], queue'[z])
        BY DEF LoopMeetsIt
      <3>1. PICK z \in Services : z = ServiceOf(Wants[v])
        BY WorkersApart
      <3>2. CASE v = r
        BY <1>3, <2>2, <3>1, <3>2 DEF u, s
      <3>3. CASE v # r
        <4>1. at'[v] = at[v]
          BY <2>2, <3>3, WorkersApart
        <4>2. /\ at[v] \in {"lookup", "fetch"} => on[z] = Wants[v]
              /\ at[v] = "polling" => on[z] = Wants[v] \/ Queued(Wants[v], queue[z])
          BY <1>0, <3>1 DEF BrokenInv, LoopMeetsIt
        <4>3. Queued(Wants[v], queue[z]) => Queued(Wants[v], queue'[z])
          BY <1>3, <2>2
        <4> QED BY <2>1, <3>1, <4>1, <4>2, <4>3
      <3> QED BY <3>2, <3>3
    <2> QED BY <2>3, <2>4, <2>5 DEF BrokenInv
  <1> QED BY <1>5, <1>6

LEMMA BrokenWork ==
    ASSUME MediaInv, BrokenInv, NEW w \in Workers, Work(w)
    PROVE  BrokenInv'
  <1>1. MediaTypeOK /\ LoopsHold
    BY DEF MediaInv
  <1>2. ASSUME w \in Callers, Load(w) PROVE BrokenInv'
    BY <1>2, BrokenEnqueue DEF Load
  <1>3. ASSUME w \in Callers, LoadThrows(w) PROVE BrokenInv'
    BY <1>1, <1>3, BrokenThrown DEF LoadThrows
  <1>4. ASSUME FetchThrows(w) PROVE BrokenInv'
    BY <1>1, <1>4, BrokenThrown DEF FetchThrows
  <1>5. ASSUME w \in Callers, Poll(w) PROVE BrokenInv'
    <2>1. w \notin Services /\ UNCHANGED <<queue, on, cache>> /\ Move(w, "lookup")
      BY <1>5, WorkersApart DEF Poll
    <2>2. Wants[w] \in Broken =>
             on[ServiceOf(Wants[w])] = Wants[w] \/ Cached(Wants[w])
      BY <1>5 DEF Poll, BrokenInv, LoopMeetsIt
    <2> QED BY <1>1, <2>1, <2>2, BrokenMove DEF Told
  <1>6. ASSUME Hit(w) PROVE BrokenInv'
    <2>1. Served(w) /\ Cached(UrlOf(w)) /\ cache' = cache
      BY <1>6 DEF Hit
    <2>2. (\A u : Cached(u) => Cached(u)') /\ EntriesOwned'
      BY <2>1 DEF BrokenInv, BrokenUntold, EntriesOwned, Cached
    <2> QED BY <2>1, <2>2, BrokenServed
  <1>7. ASSUME Keep(w) PROVE BrokenInv'
    <2>1. Served(w) /\ at[w] \in Told
      BY <1>7 DEF Keep, Told
    <2>2. UrlOf(w) \notin Broken
      BY <2>1 DEF BrokenInv, BrokenUntold
    <2>3. (\A u : Cached(u) => Cached(u)') /\ EntriesOwned'
      <3>1. CASE UrlOf(w) \in Videos
        <4>1. /\ KeyOf[UrlOf(w)] \in Keys /\ at[w] # "none"
              /\ cache' = [cache EXCEPT ![KeyOf[UrlOf(w)]] = at[w]]
              /\ \A v \in Videos : KeyOf[v] \in Keys
          BY <1>7, <3>1, MediaAssumption DEF Keep
        <4> QED BY <1>1, <2>2, <3>1, <4>1
                DEF BrokenInv, BrokenUntold, EntriesOwned, Cached, MediaTypeOK
      <3>2. CASE UrlOf(w) \notin Videos
        BY <1>7, <3>2 DEF Keep, BrokenInv, BrokenUntold, EntriesOwned, Cached
      <3> QED BY <3>1, <3>2
    <2> QED BY <2>1, <2>2, <2>3, BrokenServed
  <1>8. ASSUME Miss(w) PROVE BrokenInv'
    <2>1. /\ Move(w, "fetch") /\ at[w] = "lookup"
          /\ UNCHANGED <<queue, on, cache>>
      BY <1>8 DEF Miss
    <2>2. w \in Callers /\ Wants[w] \in Broken =>
             on[ServiceOf(Wants[w])] = Wants[w] \/ Cached(Wants[w])
      BY <2>1 DEF BrokenInv, LoopMeetsIt
    <2> QED BY <1>1, <2>1, <2>2, BrokenMove DEF Told
  <1>9. ASSUME FindText(w) \/ SendAudio(w) PROVE BrokenInv'
    <2>1. PICK to \in Told : Move(w, to)
      BY <1>9 DEF FindText, SendAudio, Told
    <2>2. UrlOf(w) \notin Broken /\ UNCHANGED <<queue, on, cache>>
      BY <1>9 DEF FindText, SendAudio
    <2>3. to \notin {"lookup", "fetch"}
      BY DEF Told
    <2> QED BY <1>1, <2>1, <2>2, <2>3, BrokenMove
  <1> QED BY <1>2, <1>3, <1>4, <1>5, <1>6, <1>7, <1>8, <1>9 DEF Work

LEMMA BrokenStep ==
    ASSUME MediaInv, BrokenInv, [MediaNext]_mediaVars PROVE BrokenInv'
  <1>1. MediaTypeOK
    BY DEF MediaInv
  <1>2. ASSUME NEW r \in Callers, Ask(r) PROVE BrokenInv'
    <2>1. r \in Workers /\ r \notin Services /\ at[r] = "new"
      BY <1>2, WorkersApart DEF Ask
    <2>2. CASE Wants[r] \in Pictures /\ ~ready
      <3>1. Move(r, "loading") /\ UNCHANGED <<queue, on, cache>>
        BY <1>2, <2>2 DEF Ask
      <3> QED BY <1>1, <2>1, <3>1, BrokenMove DEF Told
    <2>3. CASE ~(Wants[r] \in Pictures /\ ~ready)
      BY <1>2, <2>1, <2>3, BrokenEnqueue DEF Ask
    <2> QED BY <2>2, <2>3
  <1>3. ASSUME NEW text \in {"text", "failed"}, Transcribe(text) PROVE BrokenInv'
    <2>1. /\ hearing \in Workers /\ Move(hearing, text)
          /\ UNCHANGED <<queue, on, cache>>
      BY <1>1, <1>3 DEF Transcribe, MediaTypeOK
    <2>2. at[hearing] = "transcript"
      BY <2>1 DEF MediaInv, NothingLeftBehind
    <2>3. UrlOf(hearing) \notin Broken
      BY <2>1, <2>2 DEF BrokenInv, BrokenUntold, Told
    <2>4. text \in Told /\ text \notin {"lookup", "fetch"}
      BY DEF Told
    <2> QED BY <1>1, <2>1, <2>3, <2>4, BrokenMove
  <1>4. ASSUME TranscribeThrows PROVE BrokenInv'
    BY <1>4, BrokenDies DEF TranscribeThrows
  <1>5. ASSUME Restart \/ UNCHANGED mediaVars PROVE BrokenInv'
    <2>1. UNCHANGED <<queue, on, at, cache>>
      BY <1>5 DEF Restart, mediaVars
    <2> QED BY <2>1 DEF BrokenInv, LoopPlaces, BrokenUntold, LoopMeetsIt,
                        EntriesOwned, Cached, UrlOf
  <1> QED BY <1>2, <1>3, <1>4, <1>5, BrokenWork DEF MediaNext, Hear

(* The safety part of BrokenUrlEndsProcess, for any callers, urls and      *)
(* keys: who tries a url that cannot be fetched has the drain loop before  *)
(* it, which gets no further without an exception, or finds an entry under *)
(* its key; and what it is given is the Media of another video, with the   *)
(* same key (the loops of video.ts and image.ts, and processVideo beside). *)
THEOREM BrokenTheorem == MediaSpec => []BrokenIsMet
  <1>1. MediaInv /\ BrokenInv /\ [MediaNext]_mediaVars => (MediaInv /\ BrokenInv)'
    BY MediaStep, BrokenStep
  <1>2. MediaInv /\ BrokenInv => BrokenIsMet
    <2> SUFFICES ASSUME MediaInv, BrokenInv, NEW r \in Callers, Wants[r] \in Broken
                 PROVE  LET s == ServiceOf(Wants[r]) IN
                        /\ at[r] = "done" =>
                              /\ Cached(Wants[r])
                              /\ \E v \in Videos \ Broken : KeyOf[v] = KeyOf[Wants[r]]
                        /\ at[r] \in {"lookup", "fetch"} =>
                              \/ on[s] = Wants[r] /\ at[s] \in {"lookup", "fetch"}
                              \/ Cached(Wants[r])
      BY DEF BrokenIsMet
    <2>1. ASSUME at[r] = "done"
          PROVE  /\ Cached(Wants[r])
                 /\ \E v \in Videos \ Broken : KeyOf[v] = KeyOf[Wants[r]]
      <3>1. Cached(Wants[r])
        BY <2>1 DEF BrokenInv, BrokenUntold
      <3>2. KeyOf[Wants[r]] \in Keys /\ cache[KeyOf[Wants[r]]] # "none"
        BY <3>1, MediaAssumption DEF Cached
      <3> QED BY <3>1, <3>2 DEF BrokenInv, BrokenUntold, EntriesOwned
    <2>2. PICK s \in Services : s = ServiceOf(Wants[r])
      BY WorkersApart
    <2>3. ASSUME at[r] \in {"lookup", "fetch"}, ~Cached(Wants[r])
          PROVE  on[s] = Wants[r] /\ at[s] \in {"lookup", "fetch"}
      <3>1. on[s] = Wants[r] /\ on[s] # Free
        BY <2>2, <2>3, BrokenUrls DEF BrokenInv, LoopMeetsIt
      <3>2. at[s] \notin Told
        BY <2>2, <3>1, WorkersApart DEF BrokenInv, BrokenUntold, UrlOf
      <3>3. at[s] # "new"
        BY <3>1 DEF MediaInv, LoopsHold
      <3> QED BY <3>1, <3>2, <3>3 DEF BrokenInv, LoopPlaces
    <2> QED BY <2>1, <2>2, <2>3
  <1> QED BY <1>1, <1>2, MediaInitInv, BrokenInit, PTL DEF MediaSpec

=============================================================================
