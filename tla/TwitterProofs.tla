---------------------------- MODULE TwitterProofs ----------------------------
(***************************************************************************)
(* Theorems about Twitter, for every number of tweets and of polls, every  *)
(* shape of the threads and every number of crashes.                       *)
(***************************************************************************)
EXTENDS Twitter, WellFoundedInduction, TLAPS

-----------------------------------------------------------------------------
(* Answers and races.                                                      *)

WorkersTyped ==
    /\ at \in [Workers -> Places]
    /\ hand \in [Workers -> 0 .. N]
    /\ said \in [Workers -> BOOLEAN]
    /\ answers \in [Tweets -> Nat]

(* The places at which a worker's tweet has been given its row.            *)
Rowed(w, place) == place \in {"write", "send"} \/ (w # Loop /\ place = "after")

(* Inductive.  A worker that works has a tweet in hand, and one that       *)
(* writes has given it its row.  Of a tweet that never was in two hands at *)
(* once: it is in one hand at most, and once it is answered it has its row *)
(* and is in no hand but that of the turn that answered it, so that it     *)
(* will never be taken up again.                                           *)
RaceInv ==
    /\ WorkersTyped
    /\ \A w \in Workers :
          /\ at[w] \in Working => hand[w] \in Tweets
          /\ at[w] \notin Working => hand[w] = 0
          /\ Rowed(w, at[w]) => hand[w] \in stored
    /\ \A t \in Tweets \ rivals :
          /\ \A v, w \in Workers : hand[v] = t /\ hand[w] = t => v = w
          /\ answers[t] <= 1
          /\ answers[t] > 0 =>
                t \in stored /\ \A w \in Workers : hand[w] = t => said[w]

(* A step of worker w that keeps its tweet or lets it go, and answers      *)
(* nothing.                                                                *)
LEMMA RaceKept ==
    ASSUME RaceInv, NEW w \in Workers, NEW to \in Places, NEW h \in {hand[w], 0},
           NEW x \in BOOLEAN,
           at' = [at EXCEPT ![w] = to], hand' = [hand EXCEPT ![w] = h],
           said' = [said EXCEPT ![w] = x],
           answers' = answers, rivals' = rivals, stored \subseteq stored',
           to \in Working => h = hand[w] /\ x = said[w] /\ at[w] \in Working,
           to \notin Working => h = 0,
           Rowed(w, to) => h \in stored'
    PROVE  RaceInv'
<1>1. N \in Nat
  BY TwitterAssumption
<1>2. WorkersTyped'
  BY <1>1 DEF RaceInv, WorkersTyped
<1>3. /\ at'[w] = to /\ hand'[w] = h /\ said'[w] = x
      /\ \A v \in Workers \ {w} :
            at'[v] = at[v] /\ hand'[v] = hand[v] /\ said'[v] = said[v]
  BY DEF RaceInv, WorkersTyped
<1>4. ASSUME NEW v \in Workers
      PROVE  /\ at'[v] \in Working => hand'[v] \in Tweets
             /\ at'[v] \notin Working => hand'[v] = 0
             /\ Rowed(v, at'[v]) => hand'[v] \in stored'
  BY <1>3 DEF RaceInv
<1>5. \A v \in Workers, t \in Tweets :
         hand'[v] = t => hand[v] = t /\ said'[v] = said[v]
  BY <1>3 DEF Tweets
<1>6. QED
  BY <1>2, <1>4, <1>5 DEF RaceInv

(* The same, of a step that leaves all hands as they are.                  *)
LEMMA RaceMoved ==
    ASSUME RaceInv, NEW w \in Workers, NEW to \in Places,
           at' = [at EXCEPT ![w] = to], hand' = hand, said' = said,
           answers' = answers, rivals' = rivals, stored \subseteq stored',
           to \in Working <=> at[w] \in Working,
           Rowed(w, to) => hand[w] \in stored'
    PROVE  RaceInv'
<1>1. /\ hand' = [hand EXCEPT ![w] = hand[w]]
      /\ said' = [said EXCEPT ![w] = said[w]] /\ said[w] \in BOOLEAN
  BY DEF RaceInv, WorkersTyped
<1>2. to \notin Working => hand[w] = 0
  BY DEF RaceInv
<1>3. QED
  BY <1>1, <1>2, RaceKept

LEMMA RaceDone ==
    ASSUME RaceInv, NEW w \in Workers, NEW t, Done(w, t) \/ PassEnds(w),
           answers' = answers, rivals' = rivals, stored \subseteq stored'
    PROVE  RaceInv'
BY RaceKept DEF Done, PassEnds, Move, Places, Working, Rowed

(* A second pair of hands makes rivals.                                    *)
LEMMA RaceTakeUp ==
    ASSUME RaceInv, NEW w \in Workers, NEW t \in Tweets, TakeUp(w, t)
    PROVE  RaceInv'
<1>1. /\ t \notin stored /\ stored' = stored /\ answers' = answers /\ said' = said
      /\ hand' = [hand EXCEPT ![w] = t]
      /\ \E to \in {"plan", "store"} : at' = [at EXCEPT ![w] = to]
      /\ rivals \subseteq rivals'
      /\ t \in rivals' \/ \A v \in Workers : hand[v] # t
  BY DEF TakeUp, Move, storeVars
<1>2. /\ N \in Nat /\ t \in 1 .. N
  BY TwitterAssumption DEF Tweets
<1>3. WorkersTyped'
  BY <1>1, <1>2 DEF RaceInv, WorkersTyped, Places, Working
<1>4. /\ hand'[w] = t /\ at'[w] \in {"plan", "store"}
      /\ \A v \in Workers \ {w} : hand'[v] = hand[v] /\ at'[v] = at[v]
  BY <1>1 DEF RaceInv, WorkersTyped
<1>5. ASSUME NEW v \in Workers
      PROVE  /\ at'[v] \in Working => hand'[v] \in Tweets
             /\ at'[v] \notin Working => hand'[v] = 0
             /\ Rowed(v, at'[v]) => hand'[v] \in stored'
  BY <1>1, <1>4 DEF RaceInv, Working, Rowed
<1>6. ASSUME NEW u \in Tweets \ rivals'
      PROVE  /\ \A v, x \in Workers : hand'[v] = u /\ hand'[x] = u => v = x
             /\ answers'[u] <= 1
             /\ answers'[u] > 0 =>
                   u \in stored' /\ \A v \in Workers : hand'[v] = u => said'[v]
  BY <1>1, <1>4 DEF RaceInv
<1>7. QED
  BY <1>3, <1>5, <1>6 DEF RaceInv

(* What a post makes of the answers to a tweet that had no rivals.         *)
LEMMA AnswersCounted ==
    ASSUME RaceInv, NEW w \in Sending
    PROVE  /\ AnswersWith(w) \in [Tweets -> Nat]
           /\ hand[w] \in Tweets /\ hand[w] \in stored
           /\ hand[w] \notin rivals => AnswersWith(w)[hand[w]] <= 1
           /\ \A t \in Tweets \ {hand[w]} : AnswersWith(w)[t] = answers[t]
<1>1. w \in Workers /\ at[w] = "send"
  BY DEF Sending
<1>2. hand[w] \in Tweets /\ hand[w] \in stored
  BY <1>1 DEF RaceInv, Working, Rowed
<1>3. hand[w] \notin rivals => answers[hand[w]] <= 1 /\ (answers[hand[w]] > 0 => said[w])
  BY <1>1, <1>2 DEF RaceInv
<1>4. answers \in [Tweets -> Nat] /\ said[w] \in BOOLEAN
  BY <1>1 DEF RaceInv, WorkersTyped
<1>5. QED
  BY <1>2, <1>3, <1>4 DEF AnswersWith

(* A post to the tweet in hand, which reached Twitter or did not.          *)
LEMMA RaceReply ==
    ASSUME RaceInv, NEW w \in Workers, ReplyServed(w),
           Reaches(w) \/ UNCHANGED <<answers, said>>
    PROVE  RaceInv'
<1>1. /\ w \in Sending /\ at[w] = "send" /\ hand' = hand
      /\ \E to \in {"store", "after"} : at' = [at EXCEPT ![w] = to]
      /\ stored' = stored /\ rivals' = rivals
  BY DEF ReplyServed, Sending, Tried, Move, storeVars
<1>2. hand[w] \in Tweets /\ hand[w] \in stored
  BY <1>1, AnswersCounted
<1>3. CASE UNCHANGED <<answers, said>>
  BY <1>1, <1>2, <1>3, RaceMoved DEF Places, Working
<1>4. CASE Reaches(w)
  <2>1. answers' = AnswersWith(w) /\ said' = [said EXCEPT ![w] = TRUE]
    BY <1>4 DEF Reaches
  <2>2. WorkersTyped'
    BY <1>1, <2>1, AnswersCounted DEF RaceInv, WorkersTyped, Places, Working
  <2>3. /\ at'[w] \in {"store", "after"} /\ said'[w]
        /\ \A v \in Workers \ {w} : at'[v] = at[v] /\ said'[v] = said[v]
    BY <1>1, <2>1 DEF RaceInv, WorkersTyped
  <2>4. ASSUME NEW v \in Workers
        PROVE  /\ at'[v] \in Working => hand'[v] \in Tweets
               /\ at'[v] \notin Working => hand'[v] = 0
               /\ Rowed(v, at'[v]) => hand'[v] \in stored'
    <3>1. CASE v = w
      BY <1>1, <1>2, <2>3, <3>1 DEF Working
    <3>2. CASE v # w
      BY <1>1, <2>3, <3>2 DEF RaceInv
    <3>3. QED
      BY <3>1, <3>2
  <2>5. ASSUME NEW t \in Tweets \ rivals
        PROVE  /\ answers'[t] <= 1
               /\ answers'[t] > 0 =>
                     t \in stored /\ \A v \in Workers : hand[v] = t => said'[v]
    <3>1. CASE t = hand[w]
      <4>1. \A v \in Workers : hand[v] = t => v = w
        BY <3>1 DEF RaceInv
      <4>2. QED
        BY <1>1, <1>2, <2>1, <2>3, <3>1, <4>1, AnswersCounted
    <3>2. CASE t # hand[w]
      <4>1. answers'[t] = answers[t]
        BY <1>1, <2>1, <3>2, AnswersCounted
      <4>2. QED
        BY <2>3, <3>2, <4>1 DEF RaceInv
    <3>3. QED
      BY <3>1, <3>2
  <2>6. QED
    BY <1>1, <2>2, <2>4, <2>5 DEF RaceInv
<1>5. QED
  BY <1>3, <1>4

(* The end of the process, whether or not it takes a post with it.         *)
LEMMA RaceCrash ==
    ASSUME RaceInv, Crash
    PROVE  RaceInv'
<1>1. /\ at' = [w \in Workers |-> "off"] /\ hand' = [w \in Workers |-> 0]
      /\ said' = [w \in Workers |-> FALSE]
      /\ answers' = answers \/ \E w \in Sending : answers' = AnswersWith(w)
      /\ stored' = stored /\ rivals' = rivals
  BY DEF Crash, storeVars
<1>2. WorkersTyped'
  <2>1. answers' \in [Tweets -> Nat]
    BY <1>1, AnswersCounted DEF RaceInv, WorkersTyped
  <2>2. QED
    BY <1>1, <2>1, TwitterAssumption DEF WorkersTyped, Places
<1>3. ASSUME NEW t \in Tweets \ rivals
      PROVE  answers'[t] <= 1 /\ (answers'[t] > 0 => t \in stored')
  <2>1. CASE answers' = answers
    BY <1>1, <2>1 DEF RaceInv
  <2>2. ASSUME NEW w \in Sending, answers' = AnswersWith(w)
        PROVE  answers'[t] <= 1 /\ (answers'[t] > 0 => t \in stored')
    <3>1. CASE t = hand[w]
      BY <1>1, <2>2, <3>1, AnswersCounted
    <3>2. CASE t # hand[w]
      <4>1. answers'[t] = answers[t]
        BY <2>2, <3>2, AnswersCounted
      <4>2. QED
        BY <1>1, <4>1 DEF RaceInv
    <3>3. QED
      BY <3>1, <3>2
  <2>3. QED
    BY <1>1, <2>1, <2>2
<1>4. QED
  BY <1>1, <1>2, <1>3 DEF RaceInv, Working, Tweets, Rowed

LEMMA RaceStepOf ==
    ASSUME RaceInv, NEW w \in Workers, Step(w)
    PROVE  RaceInv'
<1> USE DEF storeVars, workVars, histVars
<1>1. ASSUME NEW tweets, SearchServed(w, tweets) PROVE RaceInv'
  BY <1>1, RaceMoved DEF SearchServed, Move, Places, Working, Rowed
<1>2. ASSUME NEW t \in Tweets, Skip(w, t) PROVE RaceInv'
  BY <1>2, RaceDone DEF Skip
<1>3. ASSUME NEW t \in Tweets, TakeUp(w, t) PROVE RaceInv'
  BY <1>3, RaceTakeUp
<1>4. ASSUME at[w] = "store", NEW parents, StoreThread(w, parents) PROVE RaceInv'
  BY <1>4, RaceMoved DEF StoreThread, Move, Places, Working
<1>5. ASSUME NEW why, LeaveAlone(w, why) PROVE RaceInv'
  BY <1>5, RaceDone DEF LeaveAlone, Finish
<1>6. ASSUME Respond(w) \/ PostMore(w) PROVE RaceInv'
  <2>1. hand[w] \in stored
    BY <1>6, TwitterAssumption DEF Respond, PostMore, RaceInv, Rowed
  <2>2. QED
    BY <1>6, <2>1, RaceMoved DEF Respond, PostMore, Move, Places, Working
<1>7. ASSUME CallThrows(w) PROVE RaceInv'
  <2>1. Done(w, hand[w]) \/ PassEnds(w)
    BY <1>7 DEF CallThrows
  <2>2. QED
    BY <1>7, <2>1, RaceDone DEF CallThrows
<1>8. ASSUME ReplyPosted(w) \/ ReplyFails(w) PROVE RaceInv'
  BY <1>8, RaceReply DEF ReplyPosted, ReplyFails
<1>9. ASSUME TurnEnds(w) PROVE RaceInv'
  BY <1>9, RaceDone DEF TurnEnds, Finish
<1>10. ASSUME NEW ok, SaveMark(w, ok) PROVE RaceInv'
  BY <1>10, RaceMoved DEF SaveMark, Move, Places, Working, Rowed
<1>11. QED
  BY <1>1, <1>2, <1>3, <1>4, <1>5, <1>6, <1>7, <1>8, <1>9, <1>10 DEF Step

LEMMA RaceLoop ==
    ASSUME RaceInv, LoopStep
    PROVE  RaceInv'
<1> USE DEF storeVars, workVars, histVars
<1>1. Loop \in Workers
  BY DEF Workers
<1>2. ASSUME NEW tweets, LoopStarts(tweets) PROVE RaceInv'
  BY <1>1, <1>2, RaceMoved DEF LoopStarts, MayStart, Move, Places, Working, Rowed
<1>3. CASE PlanNothing \/ PlanQuiet \/ LoopStoresRow
  BY <1>1, <1>3, RaceDone DEF PlanNothing, PlanQuiet, LoopStoresRow
<1>4. ASSUME NEW plan, Plan(plan) PROVE RaceInv'
  BY <1>1, <1>4, RaceMoved DEF Plan, Move, Places, Working, Rowed
<1>5. CASE AttemptFails
  <2>1. \E to \in {"store", "after"} : at' = [at EXCEPT ![Loop] = to]
    BY <1>5 DEF AttemptFails, Tried, Move
  <2>2. QED
    BY <1>1, <1>5, <2>1, RaceMoved DEF AttemptFails, Places, Working, Rowed
<1>6. CASE QuoteIsEmpty
  BY <1>1, <1>6, RaceDone DEF QuoteIsEmpty
<1>7. CASE LoopRests
  BY <1>1, <1>7, RaceMoved DEF LoopRests, Move, Places, Working, Rowed
<1>8. QED
  BY <1>2, <1>3, <1>4, <1>5, <1>6, <1>7 DEF LoopStep

LEMMA RaceStep ==
    ASSUME RaceInv, [Next]_vars
    PROVE  RaceInv'
<1> USE DEF storeVars, workVars, histVars
<1>1. ASSUME UNCHANGED <<workVars, answers, rivals>>, stored \subseteq stored'
      PROVE  RaceInv'
  BY <1>1 DEF RaceInv, WorkersTyped
<1>2. CASE Post \/ QueueGoesOn \/ UNCHANGED vars
  BY <1>1, <1>2 DEF Post, QueueGoesOn, vars
<1>3. ASSUME NEW recent, Start(recent) PROVE RaceInv'
  BY <1>1, <1>3 DEF Start
<1>4. ASSUME NEW w \in Polls, PollStarts(w) PROVE RaceInv'
  BY <1>4, RaceMoved DEF PollStarts, MayStart, Move, Places, Working, Workers, Rowed
<1>5. QED
  BY <1>2, <1>3, <1>4, RaceStepOf, RaceLoop, RaceCrash DEF Next

(* A mention answered by two turns was in two hands before either answered *)
(* it: one poll after another, a failure or a crash never answers it       *)
(* again.                                                                  *)
THEOREM TwiceTheorem == Spec => []AnsweredTwiceNeedsRace
<1>1. Init => RaceInv
  BY TwitterAssumption DEF Init, RaceInv, WorkersTyped, Places, Working, Tweets, Rowed
<1>2. RaceInv => AnsweredTwiceNeedsRace
  BY DEF RaceInv, WorkersTyped, AnsweredTwiceNeedsRace
<1>3. QED
  BY <1>1, <1>2, RaceStep, PTL DEF Spec

-----------------------------------------------------------------------------
(* The queue.                                                              *)

Waiting == {"search", "send"}

WaitersInv ==
    /\ at \in [Workers -> Places]
    /\ queue \in Seq(Workers)
    /\ serving \in Workers \cup {Idle, Pause}
    /\ WaitersAreQueued

(* A worker that waits for nothing asks for a request.                     *)
LEMMA WaiterJoins ==
    ASSUME WaitersInv, NEW w \in Workers, NEW to \in Waiting, at[w] \notin Waiting,
           at' = [at EXCEPT ![w] = to], Enqueue(w)
    PROVE  WaitersInv'
<1>1. at'[w] = to /\ \A v \in Workers \ {w} : at'[v] = at[v]
  BY DEF WaitersInv
<1>2. serving # w /\ \A i \in DOMAIN queue : queue[i] # w
  BY DEF WaitersInv, WaitersAreQueued, Waiting
<1>3. at' \in [Workers -> Places]
  BY DEF WaitersInv, Places, Working, Waiting
<1>4. w # Idle /\ w # Pause
  BY TwitterAssumption
<1>5. CASE serving = Idle
  <2>1. serving' = w /\ queue' = queue /\ queue = <<>>
    BY <1>5 DEF Enqueue, WaitersInv, WaitersAreQueued
  <2>2. \A v \in Workers : at[v] \in {"search", "send"} <=> FALSE
    BY <1>5, <2>1, TwitterAssumption DEF WaitersInv, WaitersAreQueued
  <2>3. WaitersAreQueued'
    BY <1>1, <1>4, <2>1, <2>2 DEF WaitersAreQueued, Waiting
  <2>4. QED
    BY <1>3, <2>1, <2>3 DEF WaitersInv
<1>6. CASE serving # Idle
  <2>1. serving' = serving /\ queue' = Append(queue, w)
    BY <1>6 DEF Enqueue
  <2>2. /\ Len(queue) \in Nat /\ DOMAIN queue = 1 .. Len(queue)
        /\ DOMAIN queue' = 1 .. Len(queue) + 1
        /\ queue'[Len(queue) + 1] = w
        /\ \A i \in DOMAIN queue : queue'[i] = queue[i]
        /\ queue' \in Seq(Workers)
    BY <2>1 DEF WaitersInv
  <2>3. ASSUME NEW v \in Workers
        PROVE  at'[v] \in {"search", "send"}
                  <=> serving' = v \/ \E i \in DOMAIN queue' : queue'[i] = v
    <3>1. CASE v = w
      <4>1. Len(queue) + 1 \in DOMAIN queue'
        BY <2>2
      <4>2. QED
        BY <1>1, <2>2, <3>1, <4>1 DEF Waiting
    <3>2. CASE v # w
      <4>1. (\E i \in DOMAIN queue' : queue'[i] = v) <=> \E i \in DOMAIN queue : queue[i] = v
        BY <2>2, <3>2
      <4>2. QED
        BY <1>1, <2>1, <3>2, <4>1 DEF WaitersInv, WaitersAreQueued
    <3>3. QED
      BY <3>1, <3>2
  <2>4. \A i \in DOMAIN queue' : queue'[i] # serving'
    BY <1>2, <2>1, <2>2 DEF WaitersInv, WaitersAreQueued
  <2>5. ASSUME NEW i \in DOMAIN queue', NEW j \in DOMAIN queue', queue'[i] = queue'[j]
        PROVE  i = j
    <3>1. CASE i \in DOMAIN queue /\ j \in DOMAIN queue
      BY <2>2, <2>5, <3>1 DEF WaitersInv, WaitersAreQueued
    <3>2. CASE ~(i \in DOMAIN queue /\ j \in DOMAIN queue)
      BY <1>2, <2>2, <2>5, <3>2
    <3>3. QED
      BY <3>1, <3>2
  <2>6. QED
    BY <1>3, <1>6, <2>1, <2>2, <2>3, <2>4, <2>5 DEF WaitersInv, WaitersAreQueued
<1>7. QED
  BY <1>5, <1>6

(* The one who is served waits no more.                                    *)
LEMMA WaiterServed ==
    ASSUME WaitersInv, NEW w \in Workers, NEW to \in Places \ Waiting,
           serving = w, serving' = Pause, queue' = queue,
           at' = [at EXCEPT ![w] = to]
    PROVE  WaitersInv'
<1>1. at'[w] = to /\ \A v \in Workers \ {w} : at'[v] = at[v]
  BY DEF WaitersInv
<1>2. \A i \in DOMAIN queue : queue[i] # w
  BY DEF WaitersInv, WaitersAreQueued
<1>3. Pause # Idle /\ \A v \in Workers : v # Pause
  BY TwitterAssumption
<1>4. \A i \in DOMAIN queue : queue[i] \in Workers
  BY DEF WaitersInv
<1>5. at' \in [Workers -> Places]
  BY DEF WaitersInv
<1>6. WaitersAreQueued'
  BY <1>1, <1>2, <1>3, <1>4 DEF WaitersInv, WaitersAreQueued, Waiting
<1>7. QED
  BY <1>5, <1>6 DEF WaitersInv

(* The next request is taken off the queue, or none is left.               *)
LEMMA WaiterNext ==
    ASSUME WaitersInv, QueueGoesOn
    PROVE  WaitersInv'
<1>1. at' = at /\ serving = Pause /\ \A v \in Workers : v # Pause
  BY TwitterAssumption DEF QueueGoesOn, workVars
<1>2. CASE queue = <<>>
  <2>1. serving' = Idle /\ queue' = queue
    BY <1>2 DEF QueueGoesOn
  <2>2. \A v \in Workers : v # Idle
    BY TwitterAssumption
  <2>3. QED
    BY <1>1, <1>2, <2>1, <2>2 DEF WaitersInv, WaitersAreQueued
<1>3. CASE queue # <<>>
  <2>1. /\ serving' = queue[1] /\ queue' = Tail(queue)
        /\ Len(queue) \in Nat \ {0} /\ DOMAIN queue = 1 .. Len(queue)
        /\ DOMAIN queue' = 1 .. Len(queue) - 1
        /\ \A i \in DOMAIN queue' : queue'[i] = queue[i + 1]
        /\ queue' \in Seq(Workers)
        /\ queue[1] \in Workers
    BY <1>3 DEF QueueGoesOn, WaitersInv
  <2>2. \A i, j \in DOMAIN queue : queue[i] = queue[j] => i = j
    BY DEF WaitersInv, WaitersAreQueued
  <2>3. ASSUME NEW v \in Workers
        PROVE  (\E i \in DOMAIN queue : queue[i] = v)
                  <=> serving' = v \/ \E i \in DOMAIN queue' : queue'[i] = v
    <3>1. ASSUME NEW i \in DOMAIN queue, queue[i] = v
          PROVE  serving' = v \/ (i - 1 \in DOMAIN queue' /\ queue'[i - 1] = v)
      BY <2>1, <3>1
    <3>2. ASSUME NEW i \in DOMAIN queue', queue'[i] = v
          PROVE  i + 1 \in DOMAIN queue /\ queue[i + 1] = v
      BY <2>1, <3>2
    <3>3. 1 \in DOMAIN queue
      BY <2>1
    <3>4. QED
      BY <2>1, <3>1, <3>2, <3>3
  <2>4. \A i \in DOMAIN queue' : queue'[i] # serving'
    BY <2>1, <2>2
  <2>5. \A i, j \in DOMAIN queue' : queue'[i] = queue'[j] => i = j
    BY <2>1, <2>2
  <2>6. serving' # Idle
    BY <2>1, TwitterAssumption
  <2>7. QED
    BY <1>1, <2>1, <2>3, <2>4, <2>5, <2>6 DEF WaitersInv, WaitersAreQueued
<1>4. QED
  BY <1>2, <1>3

(* Any other move, of a worker that waits for nothing.                     *)
LEMMA WaiterOther ==
    ASSUME WaitersInv, NEW w \in Workers, NEW to \in Places \ Waiting,
           at[w] \notin Waiting, at' = [at EXCEPT ![w] = to], UNCHANGED queueVars
    PROVE  WaitersInv'
<1>1. at' \in [Workers -> Places]
  BY DEF WaitersInv
<1>2. \A v \in Workers : at'[v] \in Waiting <=> at[v] \in Waiting
  BY DEF WaitersInv
<1>3. QED
  BY <1>1, <1>2 DEF WaitersInv, WaitersAreQueued, Waiting, queueVars

LEMMA WaitersStepOf ==
    ASSUME WaitersInv, NEW w \in Workers, Step(w)
    PROVE  WaitersInv'
<1> USE DEF Waiting, Places, Working, Move
<1>1. ASSUME NEW tweets, SearchServed(w, tweets) PROVE WaitersInv'
  BY <1>1, WaiterServed DEF SearchServed
<1>2. ASSUME NEW t \in Tweets, Skip(w, t) PROVE WaitersInv'
  BY <1>2, WaiterOther DEF Skip, Turn, Done
<1>3. ASSUME NEW t \in Tweets, TakeUp(w, t) PROVE WaitersInv'
  BY <1>3, WaiterOther DEF TakeUp, Turn
<1>4. ASSUME at[w] = "store", NEW parents, StoreThread(w, parents) PROVE WaitersInv'
  BY <1>4, WaiterOther DEF StoreThread
<1>5. ASSUME NEW why, LeaveAlone(w, why) PROVE WaitersInv'
  BY <1>5, WaiterOther DEF LeaveAlone, Finish, Done
<1>6. ASSUME Respond(w) \/ PostMore(w) PROVE WaitersInv'
  BY <1>6, WaiterJoins DEF Respond, PostMore
<1>7. ASSUME CallThrows(w) PROVE WaitersInv'
  <2>1. \E to \in {"next", "off"} : at' = [at EXCEPT ![w] = to]
    BY <1>7 DEF CallThrows, PassEnds, Done
  <2>2. at[w] \in {"plan", "after", "store", "write"} /\ UNCHANGED queueVars
    BY <1>7 DEF CallThrows
  <2>3. QED
    BY <2>1, <2>2, WaiterOther
<1>8. ASSUME ReplyServed(w) PROVE WaitersInv'
  <2>1. \E to \in {"store", "after"} : at' = [at EXCEPT ![w] = to]
    BY <1>8 DEF ReplyServed, Tried
  <2>2. serving = w /\ serving' = Pause /\ queue' = queue
    BY <1>8 DEF ReplyServed, Sending
  <2>3. QED
    BY <2>1, <2>2, WaiterServed
<1>9. ASSUME TurnEnds(w) PROVE WaitersInv'
  BY <1>9, WaiterOther DEF TurnEnds, Finish, Done
<1>10. ASSUME NEW ok, SaveMark(w, ok) PROVE WaitersInv'
  BY <1>10, WaiterOther DEF SaveMark
<1>11. QED
  BY <1>1, <1>2, <1>3, <1>4, <1>5, <1>6, <1>7, <1>8, <1>9, <1>10
     DEF Step, ReplyPosted, ReplyFails

LEMMA WaitersLoop ==
    ASSUME WaitersInv, LoopStep
    PROVE  WaitersInv'
<1>1. \E to \in Places \ Waiting : at' = [at EXCEPT ![Loop] = to]
  BY DEF LoopStep, LoopStarts, PlanNothing, PlanQuiet, Plan, AttemptFails, Tried,
     QuoteIsEmpty, LoopStoresRow, LoopRests, Done, PassEnds, Move, Places, Working,
     Waiting
<1>2. at[Loop] \notin Waiting /\ UNCHANGED queueVars
  BY DEF LoopStep, LoopStarts, MayStart, PlanNothing, PlanQuiet, Plan, AttemptFails,
     QuoteIsEmpty, LoopStoresRow, LoopRests, Waiting
<1>3. QED
  BY <1>1, <1>2, WaiterOther DEF Workers

LEMMA WaitersStep ==
    ASSUME WaitersInv, [Next]_vars
    PROVE  WaitersInv'
<1>1. CASE UNCHANGED <<at, queueVars>>
  BY <1>1 DEF WaitersInv, WaitersAreQueued, queueVars
<1>2. CASE Post \/ UNCHANGED vars
  BY <1>1, <1>2 DEF Post, vars, workVars
<1>3. ASSUME NEW recent, Start(recent) PROVE WaitersInv'
  BY <1>1, <1>3 DEF Start, workVars
<1>4. CASE Crash
  <2>1. at' = [w \in Workers |-> "off"] /\ queue' = <<>> /\ serving' = Idle
    BY <1>4 DEF Crash
  <2>2. \A w \in Workers : w # Idle
    BY TwitterAssumption
  <2>3. QED
    BY <2>1, <2>2 DEF WaitersInv, WaitersAreQueued, Places
<1>5. ASSUME NEW w \in Polls, PollStarts(w) PROVE WaitersInv'
  BY <1>5, WaiterJoins DEF PollStarts, MayStart, Move, Waiting, Workers
<1>6. QED
  BY <1>2, <1>3, <1>4, <1>5, WaiterNext, WaitersStepOf, WaitersLoop DEF Next

(* Each worker that waits is served or in the queue of requests, once, and *)
(* the queue is being processed while it holds any, however many polls     *)
(* overlap and whatever the requests come to.                              *)
THEOREM WaitersTheorem == Spec => []WaitersAreQueued
<1>1. Init => WaitersInv
  <2>1. \A w \in Workers : w # Idle
    BY TwitterAssumption
  <2>2. QED
    BY <2>1 DEF Init, WaitersInv, WaitersAreQueued, Places
<1>2. WaitersInv => WaitersAreQueued
  BY DEF WaitersInv
<1>3. QED
  BY <1>1, <1>2, WaitersStep, PTL DEF Spec

-----------------------------------------------------------------------------
(* What is dropped.                                                        *)

(* Inductive, beside RaceInv.  A poll works on the oldest of the tweets it *)
(* was given, so that what is older than the tweet in hand has a row, was  *)
(* passed before or was not given at all.                                  *)
DropTyped ==
    /\ newest \in 0 .. N
    /\ stored \subseteq Posted
    /\ mark \in 0 .. newest /\ saved \in 0 .. newest
    /\ todo \in [Workers -> SUBSET Posted]
    /\ fate \in [Tweets -> Fates]

OldestFirst ==
    \A w \in Workers : hand[w] # 0 =>
        /\ hand[w] \in Posted
        /\ w \in Polls => \A u \in todo[w] : hand[w] <= u

PassedHasCause ==
    \A t \in Posted : t <= mark \/ t <= saved => t \in stored \/ fate[t] # "open"

Answering(t) == \E w \in Workers : hand[w] = t /\ at[w] \in {"write", "send"}

RowHasCause == \A t \in stored : fate[t] # "open" \/ Answering(t)

DropInv == RaceInv /\ DropTyped /\ OldestFirst /\ PassedHasCause /\ RowHasCause

(* A thread goes back in time: what a tweet replies to, at whatever        *)
(* distance, was posted before it.                                         *)
LEMMA ThreadIsOlder ==
    ASSUME NEW t \in Tweets, NEW A \in Lines(t), NEW a \in A
    PROVE  a < t
<1> DEFINE Later == {b \in A : b >= t}
           Depths == {N - b : b \in Later}
           Below == OpToRel(<, Nat)
<1>1. /\ N \in Nat /\ A \subseteq 1 .. N /\ t \in 1 .. N
      /\ \A b \in 1 .. N : Parent[b] < b /\ Parent[b] \in 0 .. N
      /\ \A b \in A : b = Parent[t] \/ \E c \in A : b = Parent[c]
  BY TwitterAssumption DEF Lines, Tweets
<1>2. SUFFICES ASSUME a >= t PROVE FALSE
  BY <1>1
<1>3. Depths \subseteq Nat /\ Depths # {}
  BY <1>1, <1>2
<1>4. PICK d \in Depths : \A e \in Depths : ~(<<e, d>> \in Below)
  <2>1. IsWellFoundedOn(Below, Nat)
    BY NatLessThanWellFounded
  <2> HIDE DEF Depths, Below
  <2>2. QED
    BY <1>3, <2>1, WFMin
<1>5. \A e \in Depths : ~(e < d)
  BY <1>3, <1>4 DEF OpToRel
<1>6. PICK b \in Later : d = N - b
  BY <1>4
<1>7. PICK c \in A : b = Parent[c]
  BY <1>1, <1>6
<1>8. c \in Later /\ N - c < d
  BY <1>1, <1>6, <1>7
<1>9. QED
  BY <1>5, <1>8

(* A step that moves worker w and leaves its tweet, the rows and the marks *)
(* as they are, and opens no fate.                                         *)
LEMMA DropMoved ==
    ASSUME DropInv, RaceInv', NEW w \in Workers, NEW to \in Places,
           at' = [at EXCEPT ![w] = to], hand' = hand,
           todo' = todo \/ (hand[w] = 0 /\ \E tweets \in SUBSET Posted :
                               todo' = [todo EXCEPT ![w] = tweets]),
           mark' = mark, saved' = saved \/ saved' = mark,
           UNCHANGED <<newest, stored>>,
           fate' \in [Tweets -> Fates],
           \A t \in Tweets : fate[t] # "open" => fate'[t] # "open",
           at[w] \in {"write", "send"} =>
              to \in {"write", "send"} \/ fate'[hand[w]] # "open"
    PROVE  DropInv'
<1> Posted \subseteq Tweets
  BY TwitterAssumption DEF DropInv, DropTyped, Posted, Tweets
<1>1. DropTyped'
  BY DEF DropInv, DropTyped, Posted
<1>2. OldestFirst'
  BY DEF DropInv, DropTyped, OldestFirst, Posted
<1>3. PassedHasCause'
  BY DEF DropInv, PassedHasCause, Posted
<1>4. RowHasCause'
  <2>1. ASSUME NEW t \in stored, fate'[t] = "open" PROVE Answering(t)'
    <3>1. t \in Tweets
      BY DEF DropInv, DropTyped
    <3>2. PICK v \in Workers : hand[v] = t /\ at[v] \in {"write", "send"}
      BY <2>1, <3>1 DEF DropInv, RowHasCause, Answering
    <3>3. v = w => to \in {"write", "send"}
      BY <2>1, <3>2
    <3>4. QED
      BY <3>2, <3>3 DEF DropInv, RaceInv, WorkersTyped, Answering
  <2>2. QED
    BY <2>1 DEF RowHasCause
<1>5. QED
  BY <1>1, <1>2, <1>3, <1>4 DEF DropInv

(* A step that ends the work of w on its tweet, and gives the tweet a fate *)
(* if w has given it a row.                                                *)
LEMMA DropDone ==
    ASSUME DropInv, RaceInv', NEW w \in Workers, NEW to \in {"next", "off"},
           at' = [at EXCEPT ![w] = to], hand' = [hand EXCEPT ![w] = 0],
           \E rest \in SUBSET todo[w] : todo' = [todo EXCEPT ![w] = rest],
           UNCHANGED <<newest, saved>>,
           stored \subseteq stored', stored' \subseteq Posted,
           fate' \in [Tweets -> Fates],
           \A t \in Tweets : fate[t] # "open" => fate'[t] # "open",
           \A t \in stored' \ stored : fate'[t] # "open",
           at[w] \in {"write", "send"} => fate'[hand[w]] # "open",
           \/ mark' = mark
           \/ /\ w \in Polls /\ mark' = hand[w] /\ hand[w] \in Posted
              /\ hand[w] \in stored
              /\ \A t \in Posted : t < hand[w] =>
                    t \in todo[w] \/ t \in stored \/ fate'[t] # "open"
    PROVE  DropInv'
<1>1. /\ N \in Nat /\ newest \in 0 .. N /\ Posted \subseteq Tweets
      /\ Posted' = Posted
  BY TwitterAssumption DEF DropInv, DropTyped, Posted, Tweets
<1>2. /\ at'[w] = to /\ hand'[w] = 0
      /\ \A v \in Workers \ {w} : at'[v] = at[v] /\ hand'[v] = hand[v]
  BY DEF DropInv, RaceInv, WorkersTyped
<1>3. DropTyped'
  BY <1>1 DEF DropInv, DropTyped, Posted
<1>4. OldestFirst'
  BY <1>1, <1>2 DEF DropInv, DropTyped, OldestFirst
<1>5. PassedHasCause'
  <2>1. ASSUME NEW t \in Posted, t <= mark \/ t <= saved
        PROVE  t \in stored' \/ fate'[t] # "open"
    BY <1>1, <2>1 DEF DropInv, PassedHasCause
  <2>2. ASSUME NEW t \in Posted, mark' # mark, t <= mark'
        PROVE  t \in stored' \/ fate'[t] # "open"
    <3>1. CASE t = hand[w]
      BY <2>2, <3>1
    <3>2. CASE t # hand[w]
      <4>1. t < hand[w] /\ hand[w] # 0
        BY <1>1, <2>2, <3>2 DEF Posted
      <4>2. t \notin todo[w]
        BY <1>1, <2>2, <4>1 DEF DropInv, OldestFirst, Posted
      <4>3. QED
        BY <2>2, <4>1, <4>2
    <3>3. QED
      BY <3>1, <3>2
  <2>3. QED
    BY <1>1, <2>1, <2>2 DEF PassedHasCause
<1>6. RowHasCause'
  <2>1. ASSUME NEW t \in stored', fate'[t] = "open"
        PROVE  Answering(t)'
    <3>1. t \in stored /\ t \in Tweets
      BY <1>1, <2>1
    <3>2. Answering(t)
      BY <2>1, <3>1 DEF DropInv, RowHasCause
    <3>3. PICK v \in Workers : hand[v] = t /\ at[v] \in {"write", "send"}
      BY <3>2 DEF Answering
    <3>4. v # w
      BY <2>1, <3>3
    <3>5. QED
      BY <1>2, <3>3, <3>4 DEF Answering
  <2>2. QED
    BY <2>1 DEF RowHasCause
<1>7. QED
  BY <1>3, <1>4, <1>5, <1>6 DEF DropInv

(* Blame leaves no tweet of S open, and opens none.                        *)
LEMMA BlamedCloses ==
    ASSUME fate \in [Tweets -> Fates], NEW S, NEW why \in Fates \ {"open"}
    PROVE  /\ Blamed(S, why) \in [Tweets -> Fates]
           /\ \A t \in Tweets : fate[t] # "open" => Blamed(S, why)[t] # "open"
           /\ \A t \in S \cap Tweets : Blamed(S, why)[t] # "open"
BY DEF Blamed

LEMMA DropStepOf ==
    ASSUME DropInv, RaceInv', NEW w \in Workers, Step(w)
    PROVE  DropInv'
<1> USE DEF storeVars, workVars, histVars, Move, Places, Working
<1>1. /\ N \in Nat /\ newest \in 0 .. N /\ Posted \subseteq Tweets
      /\ fate \in [Tweets -> Fates] /\ stored \subseteq Posted
      /\ todo[w] \subseteq Posted
  BY TwitterAssumption DEF DropInv, DropTyped, Posted, Tweets
<1>2. /\ at[w] \notin Working => hand[w] = 0
      /\ hand[w] # 0 => hand[w] \in Posted /\ hand[w] \in Tweets
      /\ at[w] \in Working => hand[w] \in Tweets
      /\ Rowed(w, at[w]) => hand[w] \in stored
  BY <1>1 DEF DropInv, RaceInv, OldestFirst
<1>3. ASSUME NEW tweets \in SUBSET Posted, SearchServed(w, tweets) PROVE DropInv'
  BY <1>1, <1>2, <1>3, DropMoved DEF SearchServed
<1>4. ASSUME NEW t \in Tweets, Skip(w, t) PROVE DropInv'
  <2>1. at[w] = "next" /\ UNCHANGED <<newest, saved, stored, mark, fate>>
    BY <1>4 DEF Skip, Turn
  <2>2. hand' = [hand EXCEPT ![w] = 0] /\ at' = [at EXCEPT ![w] = "next"]
    BY <1>4 DEF Skip, Done
  <2>3. \E rest \in SUBSET todo[w] : todo' = [todo EXCEPT ![w] = rest]
    BY <1>1, <1>4 DEF Skip, Done, DropInv, DropTyped
  <2>4. QED
    BY <1>1, <1>4, <2>1, <2>2, <2>3, DropDone DEF Skip
<1>5. ASSUME NEW t \in Tweets, TakeUp(w, t) PROVE DropInv'
  <2>1. /\ \E to \in {"plan", "store"} : at' = [at EXCEPT ![w] = to]
        /\ hand' = [hand EXCEPT ![w] = t]
        /\ at[w] = "next" /\ t \in todo[w] /\ t \in Posted
        /\ UNCHANGED <<newest, stored, mark, saved, todo, fate>>
        /\ Posted' = Posted
    BY <1>1, <1>5 DEF TakeUp, Turn, Posted
  <2>2. DropTyped'
    BY <2>1 DEF DropInv, DropTyped, Posted
  <2>3. OldestFirst'
    BY <1>1, <1>5, <2>1 DEF DropInv, RaceInv, WorkersTyped, OldestFirst, TakeUp, Turn
  <2>4. PassedHasCause'
    BY <1>1, <2>1 DEF DropInv, PassedHasCause
  <2>5. RowHasCause'
    BY <2>1 DEF DropInv, RaceInv, WorkersTyped, RowHasCause, Answering
  <2>6. QED
    BY <2>2, <2>3, <2>4, <2>5 DEF DropInv
<1>6. ASSUME at[w] = "store", NEW parents \in Lines(hand[w]), StoreThread(w, parents)
      PROVE  DropInv'
  <2>1. /\ stored' = stored \cup {hand[w]} \cup parents
        /\ fate' = Blamed(parents \ stored, "parent")
        /\ at' = [at EXCEPT ![w] = "write"]
        /\ UNCHANGED <<newest, mark, saved, todo, hand>>
        /\ Posted' = Posted
    BY <1>6 DEF StoreThread, Blame, Posted
  <2>2. hand[w] \in Posted /\ parents \subseteq Posted
    <3>1. hand[w] \in Posted /\ hand[w] \in Tweets
      BY <1>1, <1>2, <1>6 DEF Tweets
    <3>2. parents \subseteq 1 .. N /\ \A p \in parents : p < hand[w]
      BY <1>6, <3>1, ThreadIsOlder DEF Lines, Tweets
    <3>3. QED
      BY <1>1, <3>1, <3>2 DEF Posted
  <2>3. /\ fate' \in [Tweets -> Fates]
        /\ \A t \in Tweets : fate[t] # "open" => fate'[t] # "open"
        /\ \A t \in (parents \ stored) \cap Tweets : fate'[t] # "open"
    BY <1>1, <2>1, BlamedCloses DEF Fates
  <2>4. DropTyped'
    BY <1>1, <2>1, <2>2, <2>3 DEF DropInv, DropTyped
  <2>5. OldestFirst'
    BY <1>1, <2>1 DEF DropInv, OldestFirst
  <2>6. PassedHasCause'
    BY <1>1, <2>1, <2>3 DEF DropInv, PassedHasCause
  <2>7. RowHasCause'
    <3>1. /\ at'[w] = "write"
          /\ \A v \in Workers \ {w} : at'[v] = at[v]
      BY <2>1 DEF DropInv, RaceInv, WorkersTyped
    <3>2. ASSUME NEW t \in stored PROVE fate'[t] # "open" \/ Answering(t)'
      <4>1. CASE fate[t] # "open"
        BY <1>1, <2>3, <4>1
      <4>2. CASE Answering(t)
        BY <1>6, <2>1, <3>1, <4>2 DEF Answering
      <4>3. QED
        BY <4>1, <4>2 DEF DropInv, RowHasCause
    <3>3. ASSUME NEW t \in parents \ stored PROVE fate'[t] # "open"
      BY <1>1, <2>2, <2>3
    <3>4. ASSUME NEW t, t = hand[w] PROVE Answering(t)'
      BY <2>1, <3>1, <3>4 DEF Answering
    <3>5. QED
      BY <2>1, <3>2, <3>3, <3>4 DEF RowHasCause
  <2>8. QED
    BY <2>4, <2>5, <2>6, <2>7 DEF DropInv
<1>7. ASSUME NEW why \in {"settled", "failure"}, LeaveAlone(w, why) \/ TurnEnds(w)
      PROVE  DropInv'
  <2> DEFINE Blames == Blamed(Behind(w), "omitted")
  <2>1. /\ w \in Polls /\ Rowed(w, at[w])
        /\ at' = [at EXCEPT ![w] = "next"] /\ hand' = [hand EXCEPT ![w] = 0]
        /\ todo' = [todo EXCEPT ![w] = @ \ {hand[w]}]
        /\ mark' = hand[w]
        /\ UNCHANGED <<newest, saved, stored>>
        /\ \/ at[w] = "write" /\ fate' = [Blames EXCEPT ![hand[w]] = why]
           \/ at[w] = "after" /\ fate' = Blames
    BY <1>7, TwitterAssumption DEF LeaveAlone, TurnEnds, Finish, Done, Blame, Rowed
  <2>2. hand[w] \in Posted /\ hand[w] \in Tweets /\ hand[w] \in stored
    BY <1>1, <1>2, <2>1 DEF Rowed
  <2>3. /\ Blames \in [Tweets -> Fates]
        /\ \A t \in Tweets : fate[t] # "open" => Blames[t] # "open"
        /\ \A t \in Behind(w) \cap Tweets : Blames[t] # "open"
    BY <1>1, BlamedCloses DEF Fates
  <2> HIDE DEF Blames
  <2>4. /\ fate' \in [Tweets -> Fates]
        /\ at[w] = "write" => fate'[hand[w]] # "open"
        /\ \A t \in Tweets : fate[t] # "open" => fate'[t] # "open"
        /\ \A t \in Behind(w) \cap Tweets : fate'[t] # "open"
    BY <2>1, <2>2, <2>3 DEF Fates
  <2>5. \E rest \in SUBSET todo[w] : todo' = [todo EXCEPT ![w] = rest]
    BY <1>1, <2>1 DEF DropInv, DropTyped
  <2>6. \A t \in Posted : t < hand[w] =>
           t \in todo[w] \/ t \in stored \/ fate'[t] # "open"
    BY <1>1, <2>4 DEF Behind
  <2>7. QED
    BY <1>1, <2>1, <2>2, <2>4, <2>5, <2>6, DropDone
<1>8. ASSUME Respond(w) \/ PostMore(w) PROVE DropInv'
  BY <1>1, <1>8, DropMoved DEF Respond, PostMore
<1>9. ASSUME CallThrows(w) PROVE DropInv'
  <2>1. /\ at[w] \in {"plan", "store", "write", "after"} /\ hand[w] \in Tweets
        /\ fate' = Blamed({hand[w]} \cap stored, "failure")
        /\ UNCHANGED <<newest, mark, saved, stored>>
    BY <1>2, <1>9 DEF CallThrows, Blame
  <2>2. /\ hand' = [hand EXCEPT ![w] = 0]
        /\ \E to \in {"next", "off"} : at' = [at EXCEPT ![w] = to]
        /\ \E rest \in SUBSET todo[w] : todo' = [todo EXCEPT ![w] = rest]
    BY <1>1, <1>9 DEF CallThrows, PassEnds, Done, DropInv, DropTyped
  <2>3. /\ fate' \in [Tweets -> Fates]
        /\ \A t \in Tweets : fate[t] # "open" => fate'[t] # "open"
        /\ \A t \in ({hand[w]} \cap stored) \cap Tweets : fate'[t] # "open"
    BY <1>1, <2>1, BlamedCloses DEF Fates
  <2>4. at[w] \in {"write", "send"} => fate'[hand[w]] # "open"
    BY <1>2, <2>1, <2>3 DEF Rowed
  <2>5. QED
    BY <1>1, <2>1, <2>2, <2>3, <2>4, DropDone
<1>10. ASSUME NEW ok, SaveMark(w, ok) PROVE DropInv'
  BY <1>1, <1>10, DropMoved DEF SaveMark
<1>11. ASSUME ReplyPosted(w) \/ ReplyFails(w) PROVE DropInv'
  <2>1. /\ at[w] = "send" /\ \E to \in {"store", "after"} : at' = [at EXCEPT ![w] = to]
        /\ UNCHANGED <<newest, mark, saved, stored, todo, hand>>
        /\ \/ fate' = [fate EXCEPT ![hand[w]] = "settled"]
           \/ fate' = Blamed({hand[w]}, "failure")
    BY <1>11 DEF ReplyPosted, ReplyFails, ReplyServed, Sending, Tried, Settle, Blame
  <2>2. hand[w] \in Tweets
    BY <1>2, <2>1
  <2>3. /\ fate' \in [Tweets -> Fates] /\ fate'[hand[w]] # "open"
        /\ \A t \in Tweets : fate[t] # "open" => fate'[t] # "open"
    BY <1>1, <2>1, <2>2, BlamedCloses DEF Fates
  <2>4. QED
    BY <2>1, <2>3, DropMoved
<1>12. QED
  BY <1>3, <1>4, <1>5, <1>6, <1>7, <1>8, <1>9, <1>10, <1>11 DEF Step

LEMMA DropLoop ==
    ASSUME DropInv, RaceInv', LoopStep
    PROVE  DropInv'
<1> USE DEF storeVars, workVars, histVars, Move, Places, Working
<1> DEFINE t == hand[Loop]
<1>1. /\ N \in Nat /\ newest \in 0 .. N /\ Posted \subseteq Tweets
      /\ fate \in [Tweets -> Fates] /\ stored \subseteq Posted
      /\ todo \in [Workers -> SUBSET Posted] /\ Loop \in Workers
  BY TwitterAssumption DEF DropInv, DropTyped, Posted, Tweets, Workers
<1>2. /\ at[Loop] \notin Working => t = 0
      /\ t # 0 => t \in Posted /\ t \in Tweets
      /\ at[Loop] \in Working => t \in Tweets /\ t \in Posted
      /\ at[Loop] \in {"write", "send"} => t \in stored
  BY <1>1 DEF DropInv, RaceInv, OldestFirst, Rowed, Tweets
<1>3. ASSUME NEW tweets \in SUBSET Posted, LoopStarts(tweets) PROVE DropInv'
  BY <1>1, <1>2, <1>3, DropMoved DEF LoopStarts, MayStart
<1>4. CASE PlanNothing \/ PlanQuiet \/ LoopStoresRow
  <2>1. /\ at' = [at EXCEPT ![Loop] = "next"] /\ hand' = [hand EXCEPT ![Loop] = 0]
        /\ todo' = [todo EXCEPT ![Loop] = @ \ {t}]
        /\ UNCHANGED <<newest, saved, mark>>
        /\ at[Loop] \in {"plan", "after"}
        /\ \/ UNCHANGED <<stored, fate>>
           \/ /\ stored' = stored \cup {t}
              /\ \/ fate' = [fate EXCEPT ![t] = "settled"]
                 \/ fate' = Blamed({t}, "failure")
    BY <1>4 DEF PlanNothing, PlanQuiet, LoopStoresRow, Done, Settle, Blame
  <2>2. t \in Posted /\ t \in Tweets
    BY <1>2, <2>1
  <2>3. \E rest \in SUBSET todo[Loop] : todo' = [todo EXCEPT ![Loop] = rest]
    BY <1>1, <2>1
  <2>4. /\ fate' \in [Tweets -> Fates]
        /\ \A u \in Tweets : fate[u] # "open" => fate'[u] # "open"
        /\ \A u \in stored' \ stored : fate'[u] # "open"
        /\ stored \subseteq stored' /\ stored' \subseteq Posted
    <3> HIDE DEF t
    <3>1. CASE UNCHANGED <<stored, fate>>
      BY <1>1, <3>1
    <3>2. CASE stored' = stored \cup {t} /\ fate' = [fate EXCEPT ![t] = "settled"]
      BY <1>1, <2>2, <3>2 DEF Fates
    <3>3. CASE stored' = stored \cup {t} /\ fate' = Blamed({t}, "failure")
      BY <1>1, <2>2, <3>3, BlamedCloses DEF Fates
    <3>4. QED
      BY <2>1, <3>1, <3>2, <3>3
  <2>5. QED
    BY <1>1, <2>1, <2>3, <2>4, DropDone
<1>5. ASSUME NEW plan, Plan(plan) PROVE DropInv'
  BY <1>1, <1>5, DropMoved DEF Plan
<1>6. CASE AttemptFails
  <2>1. /\ at[Loop] \in {"store", "write"}
        /\ \E to \in {"store", "after"} : at' = [at EXCEPT ![Loop] = to]
        /\ UNCHANGED <<newest, mark, saved, stored, todo, hand>>
        /\ fate' = Blamed({t} \cap stored, "failure")
    BY <1>6 DEF AttemptFails, Tried, Blame
  <2>2. /\ fate' \in [Tweets -> Fates]
        /\ \A u \in Tweets : fate[u] # "open" => fate'[u] # "open"
        /\ \A u \in ({t} \cap stored) \cap Tweets : fate'[u] # "open"
    BY <1>1, <2>1, BlamedCloses DEF Fates
  <2>3. at[Loop] \in {"write", "send"} => fate'[t] # "open"
    BY <1>2, <2>2
  <2> HIDE DEF t
  <2>4. QED
    BY <1>1, <2>1, <2>2, <2>3, DropMoved DEF t
<1>7. CASE QuoteIsEmpty
  <2>1. /\ at[Loop] = "write"
        /\ at' = [at EXCEPT ![Loop] = "off"] /\ hand' = [hand EXCEPT ![Loop] = 0]
        /\ todo' = [todo EXCEPT ![Loop] = {}]
        /\ UNCHANGED <<newest, mark, saved, stored>>
        /\ fate' = Blamed({t}, "failure")
    BY <1>7 DEF QuoteIsEmpty, PassEnds, Blame
  <2>2. t \in Tweets
    BY <1>2, <2>1
  <2>3. /\ fate' \in [Tweets -> Fates]
        /\ \A u \in Tweets : fate[u] # "open" => fate'[u] # "open"
        /\ fate'[t] # "open"
    BY <1>1, <2>1, <2>2, BlamedCloses DEF Fates
  <2>4. \E rest \in SUBSET todo[Loop] : todo' = [todo EXCEPT ![Loop] = rest]
    BY <2>1
  <2>5. QED
    BY <1>1, <2>1, <2>3, <2>4, DropDone
<1>8. CASE LoopRests
  BY <1>1, <1>8, DropMoved DEF LoopRests
<1>9. QED
  BY <1>3, <1>4, <1>5, <1>6, <1>7, <1>8 DEF LoopStep

LEMMA DropCrash ==
    ASSUME DropInv, RaceInv', Crash
    PROVE  DropInv'
<1> DEFINE Held == {hand[w] : w \in Workers} \cap stored
<1>1. /\ N \in Nat /\ newest \in 0 .. N /\ Posted \subseteq Tweets
      /\ fate \in [Tweets -> Fates] /\ stored \subseteq Posted
  BY TwitterAssumption DEF DropInv, DropTyped, Posted, Tweets
<1>2. /\ fate' = Blamed(Held, "crash")
      /\ mark' = 0 /\ UNCHANGED <<newest, stored, saved>>
      /\ at' = [w \in Workers |-> "off"] /\ todo' = [w \in Workers |-> {}]
      /\ hand' = [w \in Workers |-> 0]
  BY DEF Crash, Blame, storeVars
<1>3. /\ fate' \in [Tweets -> Fates]
      /\ \A t \in Tweets : fate[t] # "open" => fate'[t] # "open"
      /\ \A t \in Held \cap Tweets : fate'[t] # "open"
  BY <1>1, <1>2, BlamedCloses DEF Fates
<1>4. DropTyped'
  BY <1>1, <1>2, <1>3 DEF DropInv, DropTyped, Posted
<1>5. OldestFirst'
  BY <1>2 DEF OldestFirst
<1>6. PassedHasCause'
  BY <1>1, <1>2, <1>3 DEF DropInv, PassedHasCause, Posted
<1>7. \A t \in stored : fate'[t] # "open"
  BY <1>1, <1>3 DEF DropInv, RowHasCause, Answering
<1>8. RowHasCause'
  BY <1>2, <1>7 DEF RowHasCause
<1>9. QED
  BY <1>4, <1>5, <1>6, <1>8 DEF DropInv

LEMMA DropStart ==
    ASSUME DropInv, RaceInv', NEW recent \in SUBSET Posted, Start(recent)
    PROVE  DropInv'
<1>1. /\ N \in Nat /\ newest \in 0 .. N /\ Posted \subseteq Tweets
      /\ fate \in [Tweets -> Fates] /\ stored \subseteq Posted
  BY TwitterAssumption DEF DropInv, DropTyped, Posted, Tweets
<1>2. /\ fate' = Blamed(recent \ stored, "start")
      /\ mark' = saved /\ stored' = stored \cup recent
      /\ UNCHANGED <<newest, saved, at, todo, hand>>
  BY DEF Start, Blame, workVars
<1>3. /\ fate' \in [Tweets -> Fates]
      /\ \A t \in Tweets : fate[t] # "open" => fate'[t] # "open"
      /\ \A t \in (recent \ stored) \cap Tweets : fate'[t] # "open"
  BY <1>1, <1>2, BlamedCloses DEF Fates
<1>4. DropTyped'
  BY <1>1, <1>2, <1>3 DEF DropInv, DropTyped, Posted
<1>5. OldestFirst'
  BY <1>2 DEF DropInv, OldestFirst, Posted
<1>6. PassedHasCause'
  BY <1>1, <1>2, <1>3 DEF DropInv, PassedHasCause, Posted
<1>7. RowHasCause'
  BY <1>1, <1>2, <1>3 DEF DropInv, RowHasCause, Answering
<1>8. QED
  BY <1>4, <1>5, <1>6, <1>7 DEF DropInv

LEMMA DropStep ==
    ASSUME DropInv, [Next]_vars
    PROVE  DropInv'
<1> USE DEF storeVars, workVars, histVars
<1>1. RaceInv'
  BY RaceStep DEF DropInv
<1>2. newest \in Nat /\ N \in Nat
  BY TwitterAssumption DEF DropInv, DropTyped
<1>3. CASE Post
  <2>1. /\ newest' = newest + 1 /\ newest < N
        /\ UNCHANGED <<at, todo, hand, stored, mark, saved, fate>>
    BY <1>3 DEF Post
  <2>2. DropTyped'
    BY <1>2, <2>1 DEF DropInv, DropTyped, Posted
  <2>3. OldestFirst'
    BY <1>2, <2>1 DEF DropInv, OldestFirst, Posted
  <2>4. PassedHasCause'
    BY <1>2, <2>1 DEF DropInv, DropTyped, PassedHasCause, Posted
  <2>5. RowHasCause'
    BY <2>1 DEF DropInv, RowHasCause, Answering
  <2>6. QED
    BY <1>1, <2>2, <2>3, <2>4, <2>5 DEF DropInv
<1>4. CASE QueueGoesOn \/ UNCHANGED vars
  BY <1>1, <1>4 DEF vars, QueueGoesOn, DropInv, DropTyped, OldestFirst, PassedHasCause,
     RowHasCause, Answering, Posted
<1>5. ASSUME NEW w \in Polls, PollStarts(w) PROVE DropInv'
  BY <1>1, <1>5, DropMoved
     DEF PollStarts, MayStart, Move, Places, Working, Workers, DropInv, DropTyped
<1>6. QED
  BY <1>1, <1>3, <1>4, <1>5, DropStepOf, DropLoop, DropCrash, DropStart DEF Next

(* No mention is dropped in silence: a tweet that no poll will take up any *)
(* more is in hand, is settled, or one of five things happened to it, for  *)
(* every overlap of polls and however often the process ends.              *)
THEOREM DroppedTheorem == Spec => []DroppedHasCause
<1>1. Init => DropInv
  BY TwitterAssumption DEF Init, DropInv, RaceInv, WorkersTyped, Places, Working,
     Rowed, Tweets, DropTyped, OldestFirst, PassedHasCause, RowHasCause, Posted, Fates
<1>2. DropInv => DroppedHasCause
  BY DEF DropInv, PassedHasCause, RowHasCause, Answering, DroppedHasCause, InHand
<1>3. QED
  BY <1>1, <1>2, DropStep, PTL DEF Spec

=============================================================================
