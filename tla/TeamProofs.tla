------------------------------ MODULE TeamProofs ------------------------------
(***************************************************************************)
(* Theorems about Team, for every team, every message its people and       *)
(* agents may write, every number of messages and any decay times.         *)
(***************************************************************************)
EXTENDS Team, SequenceTheorems, TLAPS

(* What a message or an answer adds to the channel.                        *)
Writes(by, text) == posts' = Append(posts, [by |-> by, text |-> text])

LEMMA WritesAdds ==
    ASSUME TypeOK, NEW by \in People \cup Agents, NEW text \in Text,
           Writes(by, text), Len(posts) < N
    PROVE  /\ posts' \in Seq(Message) /\ Len(posts') <= N
           /\ Len(posts) + 1 \in Messages
           /\ DOMAIN posts = 1 .. Len(posts)
           /\ DOMAIN posts' = DOMAIN posts \cup {Len(posts) + 1}
           /\ Len(posts) + 1 \notin DOMAIN posts
           /\ \A i \in DOMAIN posts : posts'[i] = posts[i]
           /\ posts'[Len(posts) + 1] = [by |-> by, text |-> text]
<1>1. posts \in Seq(Message) /\ Len(posts) \in Nat /\ N \in Nat
  BY TeamAssumption, LenProperties DEF TypeOK
<1>2. [by |-> by, text |-> text] \in Message
  BY DEF Message
<1>3. /\ posts' \in Seq(Message) /\ Len(posts') = Len(posts) + 1
      /\ \A i \in 1 .. Len(posts) : posts'[i] = posts[i]
      /\ posts'[Len(posts) + 1] = [by |-> by, text |-> text]
  BY <1>1, <1>2, AppendProperties DEF Writes
<1>4. DOMAIN posts = 1 .. Len(posts) /\ DOMAIN posts' = 1 .. Len(posts) + 1
  BY <1>1, <1>3, LenProperties
<1>5. QED
  BY <1>1, <1>3, <1>4 DEF Messages

(* What is written is a text.                                              *)
LEMMA TextsAreTexts == Kinds \subseteq Text /\ Answers \subseteq Text
BY TeamAssumption

(* An interest is not None, a fresh one nor one with a request.            *)
LEMMA InterestType ==
    ASSUME TypeOK
    PROVE  /\ None \notin Interest
           /\ Fresh \in Interest /\ Fresh # None /\ Fresh.said = <<>>
           /\ Kept \in Interest \cup {None}
           /\ Kept # None => Kept = interest
<1>1. None \notin Interest
  <2>1. Messages \subseteq Nat
    BY DEF Messages
  <2>2. Seq(Messages) \subseteq Seq(Nat)
    BY <2>1, SeqMonotonic
  <2>3. QED
    BY <2>2, TeamAssumption DEF Interest
<1>2. Fresh \in Interest /\ Fresh.said = <<>>
  <2>1. << >> \in Seq(Messages)
    OBVIOUS
  <2>2. QED
    BY <2>1 DEF Fresh, Interest, TypeOK
<1>3. QED
  BY <1>1, <1>2 DEF Kept, TypeOK

LEMMA AfterRequestType ==
    ASSUME TypeOK, NEW text \in Text, NEW old \in Interest \cup {None}
    PROVE  /\ AfterRequest(text, old) \in Interest \cup {None}
           /\ text.team => /\ AfterRequest(text, old) # None
                           /\ AfterRequest(text, old).said = <<>>
           /\ ~text.team => AfterRequest(text, old) = old
<1>1. /\ now \in Nat /\ 0 \in Nat
      /\ Fresh = [sent |-> now, said |-> <<>>]
      /\ Fresh \in Interest /\ None \notin Interest
  BY InterestType DEF TypeOK, Fresh
<1>2. \A t \in Nat : /\ [Fresh EXCEPT !.sent = t] \in Interest
                     /\ [Fresh EXCEPT !.sent = t].said = <<>>
  BY <1>1 DEF Interest
<1>3. CASE text.team
  <2>1. \E t \in Nat : AfterRequest(text, old) = [Fresh EXCEPT !.sent = t]
    BY <1>1, <1>3 DEF AfterRequest
  <2>2. QED
    BY <1>1, <1>2, <1>3, <2>1
<1>4. CASE ~text.team
  BY <1>4 DEF AfterRequest
<1>5. QED
  BY <1>3, <1>4

-----------------------------------------------------------------------------
(* What Gate may do, whoever has an interest: a message that mentions      *)
(* others is let through only when it calls the agent too, and a           *)
(* teammate's only when it calls it.                                       *)
Outcome(i, by, text, old) ==
    \/ CallsIn(text) /\ interest' = Fresh /\ Move(i, "store")
    \/ ~CallsIn(text) /\ interest' = None /\ Move(i, "silent")
    \/ /\ ~CallsIn(text) /\ text.to = {} /\ by \notin Agents
       /\ interest' = AfterRequest(text, old) /\ Move(i, "store")
    \/ /\ ~CallsIn(text) /\ (text.team => by \in Agents)
       /\ interest' = AfterRequest(text, old) /\ Move(i, "silent")

LEMMA GateOutcome ==
    ASSUME TypeOK, NEW i, NEW by, NEW text \in Text,
           NEW old \in Interest \cup {None}, NEW has \in BOOLEAN,
           Gate(i, by, text, has, old)
    PROVE  Outcome(i, by, text, old)
<1>1. /\ text.team => AfterRequest(text, old) # None
      /\ text.to \in SUBSET Agents /\ text.team \in BOOLEAN
  BY AfterRequestType DEF Text
<1>2. ~CallsIn(text) => (text.to \ {self} = {} => text.to = {})
  BY <1>1 DEF CallsIn
<1>3. QED
  BY <1>1, <1>2 DEF Gate, Outcome

LEMMA OutcomeType ==
    ASSUME TypeOK, NEW i \in Messages, NEW by, NEW text \in Text,
           NEW old \in Interest \cup {None}, Outcome(i, by, text, old)
    PROVE  /\ interest' \in Interest \cup {None}
           /\ at' = [at EXCEPT ![i] = at'[i]]
           /\ at'[i] \in {"store", "silent"}
           /\ at' \in [Messages -> Places]
<1>1. /\ AfterRequest(text, old) \in Interest \cup {None}
      /\ Fresh \in Interest
  BY AfterRequestType, InterestType
<1>2. interest' \in Interest \cup {None}
  BY <1>1 DEF Outcome
<1>3. Move(i, "store") \/ Move(i, "silent")
  BY DEF Outcome
<1>4. QED
  BY <1>2, <1>3 DEF Move, TypeOK, Places, Working

-----------------------------------------------------------------------------
(* The two ways into Gate, and the ways around it.                         *)
InterestThen(text) == IF self # Leader /\ ConcernsIn(text) THEN Fresh ELSE Kept

LEMMA HearOutcome ==
    ASSUME TypeOK, NEW by, NEW text \in Text, Hear(by, text)
    PROVE  LET i == Len(posts) + 1 IN
           \/ ~CallsIn(text) /\ interest' = InterestThen(text) /\ Move(i, "recall")
           \/ Outcome(i, by, text, InterestThen(text))
<1> DEFINE i == Len(posts) + 1
<1>1. InterestThen(text) \in Interest \cup {None}
  BY InterestType DEF InterestThen
<1>2. HasInterest \in BOOLEAN
  BY DEF HasInterest
<1>3. CASE Gate(i, by, text, HasInterest, InterestThen(text))
  <2>1. Outcome(i, by, text, InterestThen(text))
    BY <1>1, <1>2, <1>3, GateOutcome
  <2>2. QED
    BY <2>1
<1>4. CASE ~CallsIn(text) /\ interest' = InterestThen(text) /\ Move(i, "recall")
  BY <1>4
<1>5. QED
  BY <1>3, <1>4 DEF Hear, InterestThen

(* The messages of the channel are messages.                               *)
LEMMA PostsType ==
    ASSUME TypeOK
    PROVE  /\ DOMAIN posts \subseteq Messages
           /\ \A i \in DOMAIN posts :
                 posts[i].by \in People \cup Agents /\ TextOf(i) \in Text
<1>1. /\ posts \in Seq(Message) /\ Len(posts) \in Nat /\ N \in Nat
      /\ Len(posts) <= N /\ DOMAIN posts = 1 .. Len(posts)
  BY TeamAssumption, LenProperties DEF TypeOK
<1>2. \A i \in DOMAIN posts : posts[i] \in Message
  BY <1>1, ElementOfSeq
<1>3. QED
  BY <1>1, <1>2 DEF Messages, Message, TextOf

(* Looking up either leaves the message or goes through Gate as well.      *)
LEMMA RecallOutcome ==
    ASSUME TypeOK, NEW i \in DOMAIN posts, NEW alike, Recall(i, alike)
    PROVE  \/ interest' = None /\ Move(i, "silent")
           \/ Outcome(i, posts[i].by, TextOf(i), interest)
<1>1. TextOf(i) \in Text /\ interest \in Interest \cup {None}
  BY PostsType DEF TypeOK
<1>2. TRUE \in BOOLEAN
  OBVIOUS
<1>3. CASE Gate(i, posts[i].by, TextOf(i), TRUE, interest)
  BY <1>1, <1>2, <1>3, GateOutcome
<1>4. QED
  BY <1>3 DEF Recall

-----------------------------------------------------------------------------
(* A handler is at work on a message of the channel that is not the        *)
(* agent's own.                                                            *)
Placed == \A i \in Messages :
    at[i] # "none" => i \in DOMAIN posts /\ posts[i].by # self

(* The handler of a message moves, and no other one.                       *)
LEMMA HandleMoves ==
    ASSUME TypeOK, Placed, NEW i \in Messages, Handle(i)
    PROVE  /\ i \in DOMAIN posts /\ posts[i].by # self
           /\ at[i] \in Working
           /\ self' = self
           /\ \/ Dies /\ UNCHANGED posts
              \/ \E to \in Places \ {"none"} : Move(i, to) /\ UNCHANGED <<up, had, races>>
<1>1. at[i] \in Working
  BY DEF Handle, Recall, RecallThrows, Store, Ignore, Decide, Answer, Fails, Working
<1>2. i \in DOMAIN posts /\ posts[i].by # self
  BY <1>1 DEF Placed, Working
<1>3. self' = self
  BY DEF Handle, Recall, RecallThrows, Store, Ignore, Decide, Answer, Fails, Dies
<1>4. /\ {"recall", "store", "ignore", "decide", "write"} \subseteq Places \ {"none"}
      /\ {"answered", "silent", "failed"} \subseteq Places \ {"none"}
  BY DEF Places, Working
<1>5. ASSUME NEW alike, Recall(i, alike)
      PROVE  \E to \in Places \ {"none"} : Move(i, to)
  BY <1>2, <1>4, <1>5, RecallOutcome DEF Outcome
<1>6. CASE RecallThrows(i)
  BY <1>1, <1>2, <1>3, <1>6 DEF RecallThrows
<1>7. CASE ~RecallThrows(i)
  <2>1. \E to \in Places \ {"none"} : Move(i, to)
    BY <1>4, <1>5, <1>7 DEF Handle, Store, Ignore, Decide, Answer, Fails
  <2>2. UNCHANGED <<up, had, races>>
    BY <1>7 DEF Handle, Recall, Store, Ignore, Decide, Answer, Fails
  <2>3. QED
    BY <1>1, <1>2, <1>3, <2>1, <2>2
<1>8. QED
  BY <1>6, <1>7

(* The steps, as the proofs below take them.                               *)
LEMMA NextCases ==
    ASSUME [Next]_vars
    PROVE  \/ \E by \in People \cup Agents, text \in Text : Receive(by, text)
           \/ \E i \in Messages : Handle(i)
           \/ Tick
           \/ UNCHANGED vars
BY TextsAreTexts DEF Next

LEMMA DiesLeaves ==
    ASSUME Dies
    PROVE  /\ interest' = None /\ self' = self
           /\ \A i \in Messages : at'[i] = "none"
           /\ at' = Idle
BY DEF Dies, Idle

(* Somebody else's message is appended to the channel.                     *)
LEMMA ReceiveAdds ==
    ASSUME TypeOK, NEW by \in People \cup Agents, NEW text \in Text,
           Receive(by, text)
    PROVE  /\ by # self /\ self' = self
           /\ Len(posts) < N /\ Writes(by, text)
           /\ Dies \/ Hear(by, text)
BY DEF Receive, Writes, Hear, Dies

(* The handler of the new message is the only one that moves.              *)
LEMMA HearMoves ==
    ASSUME TypeOK, NEW by, NEW text \in Text, Hear(by, text), Len(posts) < N
    PROVE  LET i == Len(posts) + 1 IN
           /\ interest' \in Interest \cup {None}
           /\ \E to \in {"recall", "store", "silent"} : Move(i, to)
<1> DEFINE i == Len(posts) + 1
<1>1. i \in Messages
  BY TeamAssumption, LenProperties DEF TypeOK, Messages
<1>2. InterestThen(text) \in Interest \cup {None}
  BY InterestType DEF InterestThen
<1>3. CASE ~CallsIn(text) /\ interest' = InterestThen(text) /\ Move(i, "recall")
  BY <1>2, <1>3
<1>4. CASE Outcome(i, by, text, InterestThen(text))
  <2>1. interest' \in Interest \cup {None}
    BY <1>1, <1>2, <1>4, OutcomeType
  <2>2. Move(i, "store") \/ Move(i, "silent")
    BY <1>4 DEF Outcome
  <2>3. QED
    BY <2>1, <2>2
<1>5. QED
  BY <1>3, <1>4, HearOutcome

(* A stored message is the last one of what the interest tracks.           *)
LEMMA StoreTracks ==
    ASSUME TypeOK, NEW i \in Messages, Store(i), interest # None
    PROVE  /\ interest' \in Interest
           /\ interest'.said # <<>>
           /\ \A k \in DOMAIN interest'.said :
                 \/ interest'.said[k] = i
                 \/ /\ k \in DOMAIN interest.said
                    /\ interest'.said[k] = interest.said[k]
<1> DEFINE said == interest.said
<1>1. /\ interest \in Interest /\ said \in Seq(Messages) /\ Len(said) \in Nat
      /\ DOMAIN said = 1 .. Len(said)
  <2>1. interest \in Interest /\ said \in Seq(Messages)
    BY DEF TypeOK, Interest
  <2>2. QED
    BY <2>1, LenProperties
<1>2. /\ Append(said, i) \in Seq(Messages)
      /\ Len(Append(said, i)) = Len(said) + 1
      /\ \A k \in 1 .. Len(said) : Append(said, i)[k] = said[k]
      /\ Append(said, i)[Len(said) + 1] = i
  BY <1>1, AppendProperties
<1>3. DOMAIN Append(said, i) = 1 .. Len(said) + 1
  BY <1>1, <1>2, LenProperties
<1>4. interest' = [interest EXCEPT !.said = Append(said, i)]
  BY DEF Store
<1>5. interest' \in Interest /\ interest'.said = Append(said, i)
  BY <1>1, <1>2, <1>4 DEF Interest
<1>6. Append(said, i) # <<>>
  BY <1>1, <1>2
<1>7. QED
  BY <1>1, <1>2, <1>3, <1>5, <1>6

LEMMA TypeStep == TypeOK /\ Placed /\ [Next]_vars => TypeOK' /\ Placed'
<1> SUFFICES ASSUME TypeOK, Placed, [Next]_vars
             PROVE  TypeOK' /\ Placed'
  OBVIOUS
<1>1. ASSUME Dies, posts' \in Seq(Message), Len(posts') <= N
      PROVE  TypeOK' /\ Placed'
  BY <1>1, DiesLeaves DEF TypeOK, Placed, Dies, Idle, Places
<1>2. ASSUME NEW by \in People \cup Agents, NEW text \in Text, Receive(by, text)
      PROVE  TypeOK' /\ Placed'
  <2> DEFINE i == Len(posts) + 1
  <2>1. /\ by # self /\ self' = self
        /\ Len(posts) < N /\ Writes(by, text)
        /\ Dies \/ Hear(by, text)
    BY <1>2, ReceiveAdds
  <2>2. /\ posts' \in Seq(Message) /\ Len(posts') <= N
        /\ i \in Messages
        /\ DOMAIN posts' = DOMAIN posts \cup {i}
        /\ \A j \in DOMAIN posts : posts'[j] = posts[j]
        /\ posts'[i] = [by |-> by, text |-> text]
    BY <2>1, WritesAdds
  <2>3. CASE Dies
    BY <1>1, <2>2, <2>3
  <2>4. CASE Hear(by, text)
    <3>1. interest' \in Interest \cup {None}
      BY <2>1, <2>4, HearMoves
    <3>2. PICK to \in {"recall", "store", "silent"} : Move(i, to)
      BY <2>1, <2>4, HearMoves
    <3>3. to \in Places
      BY DEF Places, Working
    <3>4. had' \subseteq Messages /\ races' \subseteq Messages
      BY <2>2, <2>4 DEF Hear, UnderWay, TypeOK
    <3>5. TypeOK'
      BY <2>1, <2>2, <2>4, <3>1, <3>2, <3>3, <3>4 DEF TypeOK, Hear, Move
    <3>6. Placed'
      BY <2>1, <2>2, <3>2 DEF TypeOK, Placed, Move
    <3>7. QED
      BY <3>5, <3>6
  <2>5. QED
    BY <2>1, <2>3, <2>4
<1>3. ASSUME NEW i \in Messages, Handle(i)
      PROVE  TypeOK' /\ Placed'
  <2>1. /\ i \in DOMAIN posts /\ posts[i].by # self
        /\ self' = self
    BY <1>3, HandleMoves
  <2>2. CASE Dies /\ UNCHANGED posts
    BY <1>1, <2>2 DEF TypeOK
  <2>3. CASE \E to \in Places \ {"none"} : Move(i, to) /\ UNCHANGED <<up, had, races>>
    <3>1. PICK to \in Places \ {"none"} : Move(i, to) /\ UNCHANGED <<up, had, races>>
      BY <2>3
    <3>2. now' = now
      BY <1>3 DEF Handle, Recall, RecallThrows, Store, Ignore, Decide, Answer, Fails, Dies
    <3>3. interest' \in Interest \cup {None}
      <4>1. ASSUME NEW alike, Recall(i, alike)
            PROVE  interest' \in Interest \cup {None}
        BY <2>1, <4>1, RecallOutcome, OutcomeType, PostsType DEF TypeOK
      <4>2. ASSUME Store(i)
            PROVE  interest' \in Interest \cup {None}
        BY <4>2, StoreTracks DEF Store
      <4>3. ASSUME NEW verdict, Decide(i, verdict)
            PROVE  interest' \in Interest \cup {None}
        BY <4>3 DEF Decide, TypeOK, Interest
      <4>4. QED
        BY <1>3, <4>1, <4>2, <4>3
           DEF Handle, RecallThrows, Dies, Ignore, Answer, Fails, TypeOK
    <3>4. /\ posts' \in Seq(Message) /\ Len(posts') <= N
          /\ DOMAIN posts \subseteq DOMAIN posts'
          /\ \A j \in DOMAIN posts : posts'[j] = posts[j]
      <4>1. ASSUME NEW text \in Answers, Answer(i, text)
            PROVE  /\ posts' \in Seq(Message) /\ Len(posts') <= N
                   /\ DOMAIN posts \subseteq DOMAIN posts'
                   /\ \A j \in DOMAIN posts : posts'[j] = posts[j]
        <5>1. /\ Len(posts) < N /\ Writes(self, text)
              /\ self \in People \cup Agents /\ text \in Text
          BY <4>1, TextsAreTexts DEF Answer, Writes, TypeOK
        <5>2. QED
          BY <5>1, WritesAdds
      <4>2. CASE UNCHANGED posts
        BY <4>2 DEF TypeOK
      <4>3. QED
        BY <1>3, <4>1, <4>2
           DEF Handle, Recall, RecallThrows, Store, Ignore, Decide, Fails
    <3>5. TypeOK'
      BY <2>1, <3>1, <3>2, <3>3, <3>4 DEF TypeOK, Move
    <3>6. Placed'
      BY <2>1, <3>1, <3>4 DEF TypeOK, Placed, Move
    <3>7. QED
      BY <3>5, <3>6
  <2>4. QED
    BY <1>3, <2>2, <2>3, HandleMoves
<1>4. CASE Tick
  BY <1>4 DEF Tick, TypeOK, Placed
<1>5. CASE UNCHANGED vars
  BY <1>5 DEF vars, TypeOK, Placed
<1>6. QED
  BY <1>2, <1>3, <1>4, <1>5, NextCases

(* The channel only grows, and the agent is one and the same.              *)
LEMMA TextsStay ==
    ASSUME TypeOK, Placed, [Next]_vars
    PROVE  /\ self' = self
           /\ \A i \in DOMAIN posts : /\ i \in DOMAIN posts' /\ posts'[i] = posts[i]
                                      /\ TextOf(i)' = TextOf(i)
                                      /\ Calls(i)' <=> Calls(i)
                                      /\ Concerns(i)' <=> Concerns(i)
<1>1. /\ self' = self
      /\ \/ UNCHANGED posts
         \/ \E by \in People \cup Agents, text \in Text :
               Len(posts) < N /\ Writes(by, text)
  <2>1. ASSUME NEW i \in Messages, Handle(i)
        PROVE  /\ self' = self
               /\ \/ UNCHANGED posts
                  \/ \E by \in People \cup Agents, text \in Text :
                        Len(posts) < N /\ Writes(by, text)
    BY <2>1, TextsAreTexts
       DEF Handle, Recall, RecallThrows, Store, Ignore, Decide, Answer, Fails, Dies, Writes, TypeOK
  <2>2. QED
    BY <2>1, NextCases, ReceiveAdds DEF Tick, vars
<1>2. \A i \in DOMAIN posts : i \in DOMAIN posts' /\ posts'[i] = posts[i]
  BY <1>1, WritesAdds
<1>3. QED
  BY <1>1, <1>2 DEF TextOf, Calls, Concerns, CallsIn, ConcernsIn

(* Every reachable state is well typed, and handlers work on messages of   *)
(* others that are in the channel.                                         *)
THEOREM TeamTypeCorrect == Spec => [](TypeOK /\ Placed)
<1>1. Init => TypeOK /\ Placed
  <2> SUFFICES ASSUME Init PROVE TypeOK /\ Placed
    OBVIOUS
  <2>1. posts \in Seq(Message) /\ Len(posts) <= N /\ now \in Nat
    BY TeamAssumption DEF Init
  <2>2. QED
    BY <2>1 DEF Init, Idle, TypeOK, Placed, Places
<1>2. QED
  BY <1>1, TypeStep, PTL DEF Spec

-----------------------------------------------------------------------------
(* Who is answered and what is tracked.                                    *)
Passed == {"store", "ignore", "decide", "write", "answered"}

(* What Gate lets through stays what it was.                               *)
PassedWell == \A i \in DOMAIN posts :
    at[i] \in Passed => /\ TextOf(i).to = {} \/ Calls(i)
                        /\ posts[i].by \in Agents => Calls(i)

TrackedWell ==
    interest # None =>
        \A k \in DOMAIN interest.said :
            LET i == interest.said[k] IN
            /\ i \in DOMAIN posts
            /\ posts[i].by # self /\ (posts[i].by \in Agents => Calls(i))

(* No message that calls the agent waits to be looked up.                  *)
LookedUp == \A i \in DOMAIN posts : at[i] = "recall" => ~Calls(i)

GateInv == LookedUp /\ PassedWell /\ TrackedWell

LEMMA GateInvReceive ==
    ASSUME TypeOK, Placed, GateInv, [Next]_vars,
           NEW by \in People \cup Agents, NEW text \in Text, Receive(by, text)
    PROVE  GateInv'
<1>i. PICK i \in Messages : i = Len(posts) + 1
  BY ReceiveAdds, WritesAdds
<1>1. /\ by # self /\ self' = self /\ Len(posts) < N /\ Writes(by, text)
      /\ Dies \/ Hear(by, text)
  BY ReceiveAdds
<1>2. /\ i \notin DOMAIN posts
      /\ DOMAIN posts' = DOMAIN posts \cup {i}
      /\ DOMAIN posts \subseteq Messages
      /\ posts'[i] = [by |-> by, text |-> text]
  BY <1>i, <1>1, WritesAdds, PostsType
<1>3. TextOf(i)' = text /\ (Calls(i)' <=> CallsIn(text)) /\ (posts'[i]).by = by
  BY <1>1, <1>2 DEF TextOf, Calls, CallsIn
<1>4. CASE Dies
  BY <1>2, <1>4, DiesLeaves DEF GateInv, LookedUp, PassedWell, TrackedWell, Passed
<1>5. CASE Hear(by, text)
  <2>1. /\ \A j \in DOMAIN posts : at'[j] = at[j]
        /\ at'[i] \in {"recall", "store", "silent"}
    BY <1>i, <1>1, <1>2, <1>5, HearMoves DEF Move, TypeOK
  <2>2. \/ ~CallsIn(text) /\ interest' = InterestThen(text) /\ Move(i, "recall")
        \/ Outcome(i, by, text, InterestThen(text))
    BY <1>i, <1>5, HearOutcome
  <2>3. /\ at'[i] = "recall" => ~CallsIn(text)
        /\ at'[i] = "store" => (text.to = {} /\ by \notin Agents) \/ CallsIn(text)
    BY <1>2, <2>2 DEF Outcome, Move, TypeOK
  <2>4. interest' = None \/ interest'.said = <<>> \/ interest' = interest
    <3>1. InterestThen(text) = None \/ InterestThen(text).said = <<>> \/ InterestThen(text) = interest
      BY InterestType DEF InterestThen
    <3>2. InterestThen(text) \in Interest \cup {None}
      BY InterestType DEF InterestThen
    <3>3. \/ AfterRequest(text, InterestThen(text)).said = <<>>
          \/ AfterRequest(text, InterestThen(text)) = InterestThen(text)
      BY <3>2, AfterRequestType
    <3>4. QED
      BY <2>2, <3>1, <3>3, InterestType DEF Outcome
  <2>5. LookedUp' /\ PassedWell'
    BY <1>2, <1>3, <2>1, <2>3, TextsStay DEF GateInv, LookedUp, PassedWell, Passed
  <2>6. TrackedWell'
    BY <2>4, TextsStay DEF GateInv, TrackedWell
  <2>7. QED
    BY <2>5, <2>6 DEF GateInv
<1>6. QED
  BY <1>1, <1>4, <1>5

(* No handler is at work on what the agent has just written.               *)
LEMMA AnswersAreNoWork ==
    ASSUME TypeOK, Placed, NEW i \in Messages, Handle(i), NEW j \in DOMAIN posts'
    PROVE  j \in Messages /\ (j \in DOMAIN posts \/ at'[j] = "none")
<1>1. CASE UNCHANGED posts
  BY <1>1, PostsType
<1>2. ASSUME NEW text \in Answers, Answer(i, text)
      PROVE  j \in Messages /\ (j \in DOMAIN posts \/ at'[j] = "none")
  <2>1. /\ Len(posts) < N /\ Writes(self, text)
        /\ self \in People \cup Agents /\ text \in Text
    BY <1>2, TextsAreTexts DEF Answer, Writes, TypeOK
  <2>2. j \in DOMAIN posts \/ (j \in Messages /\ j \notin DOMAIN posts)
    BY <2>1, WritesAdds
  <2>3. i \in DOMAIN posts
    BY HandleMoves
  <2>4. j \notin DOMAIN posts => at[j] = "none" /\ at'[j] = at[j]
    BY <1>2, <2>2, <2>3 DEF Placed, Answer, Move, TypeOK
  <2>5. QED
    BY <2>2, <2>4, PostsType
<1>3. QED
  BY <1>1, <1>2 DEF Handle, Recall, RecallThrows, Store, Ignore, Decide, Fails

LEMMA GateInvHandle ==
    ASSUME TypeOK, Placed, GateInv, [Next]_vars, NEW i \in Messages, Handle(i)
    PROVE  GateInv'
<1>1. /\ i \in DOMAIN posts /\ posts[i].by # self /\ at[i] \in Working
      /\ self' = self
  BY HandleMoves
<1>2. CASE Dies /\ UNCHANGED posts
  BY <1>2, DiesLeaves, PostsType DEF GateInv, LookedUp, PassedWell, TrackedWell, Passed
<1>3. CASE \E to \in Places \ {"none"} : Move(i, to) /\ UNCHANGED <<up, had, races>>
  <2>1. \A j \in Messages \ {i} : at'[j] = at[j]
    BY <1>3 DEF Move, TypeOK
  <2>2. /\ at'[i] # "recall"
        /\ at'[i] \in Passed => /\ TextOf(i).to = {} \/ Calls(i)
                                /\ posts[i].by \in Agents => Calls(i)
    <3>1. ASSUME NEW alike, Recall(i, alike)
          PROVE  /\ at'[i] # "recall"
                 /\ at'[i] \in Passed => /\ TextOf(i).to = {} \/ Calls(i)
                                         /\ posts[i].by \in Agents => Calls(i)
      BY <1>1, <3>1, RecallOutcome
         DEF Outcome, Move, TypeOK, Passed, Calls
    <3>2. CASE at[i] # "recall" /\ at'[i] # "recall"
      BY <1>1, <3>2 DEF GateInv, PassedWell, Passed, Working
    <3>3. CASE RecallThrows(i)
      BY <3>3, DiesLeaves DEF RecallThrows, Passed
    <3>4. QED
      BY <3>1, <3>2, <3>3
         DEF Handle, Store, Ignore, Decide, Answer, Fails, Working, Move, TypeOK
  <2>3. LookedUp' /\ PassedWell'
    BY <1>1, <2>1, <2>2, AnswersAreNoWork, TextsStay
       DEF GateInv, LookedUp, PassedWell, Passed
  <2>4. ASSUME interest' = None \/ interest'.said = <<>>
               \/ (interest # None /\ interest'.said = interest.said)
        PROVE  TrackedWell'
    BY <2>4, TextsStay DEF GateInv, TrackedWell
  <2>5. ASSUME Store(i), interest # None
        PROVE  TrackedWell'
    <3>1. posts[i].by # self /\ (posts[i].by \in Agents => Calls(i))
      BY <1>1, <2>5 DEF GateInv, PassedWell, Passed, Store
    <3>2. QED
      BY <1>1, <2>5, <3>1, StoreTracks, TextsStay DEF GateInv, TrackedWell
  <2>6. ASSUME NEW alike, Recall(i, alike)
        PROVE  interest' = None \/ interest'.said = <<>>
               \/ (interest # None /\ interest'.said = interest.said)
    <3>1. TextOf(i) \in Text /\ interest \in Interest \cup {None}
      BY <1>1, PostsType DEF TypeOK
    <3>2. \/ AfterRequest(TextOf(i), interest).said = <<>>
          \/ AfterRequest(TextOf(i), interest) = interest
      BY <3>1, AfterRequestType
    <3>3. QED
      BY <1>1, <2>6, <3>1, <3>2, RecallOutcome, InterestType DEF Outcome
  <2>7. ASSUME NEW verdict, Decide(i, verdict)
        PROVE  interest' = None \/ (interest # None /\ interest'.said = interest.said)
    BY <2>7 DEF Decide, TypeOK, Interest
  <2>8. TrackedWell'
    BY <2>4, <2>5, <2>6, <2>7
       DEF Handle, RecallThrows, Dies, Store, Ignore, Answer, Fails
  <2>9. QED
    BY <2>3, <2>8 DEF GateInv
<1>4. QED
  BY <1>2, <1>3, HandleMoves

LEMMA GateInvStep == TypeOK /\ Placed /\ GateInv /\ [Next]_vars => GateInv'
<1> SUFFICES ASSUME TypeOK, Placed, GateInv, [Next]_vars PROVE GateInv'
  OBVIOUS
<1>1. CASE Tick
  BY <1>1, TextsStay DEF Tick, GateInv, LookedUp, PassedWell, TrackedWell
<1>2. CASE UNCHANGED vars
  BY <1>2, TextsStay DEF vars, GateInv, LookedUp, PassedWell, TrackedWell
<1>3. QED
  BY <1>1, <1>2, GateInvReceive, GateInvHandle, NextCases

LEMMA GateInvAlways == Spec => [](TypeOK /\ Placed /\ GateInv)
<1>1. Init => GateInv
  BY DEF Init, GateInv, LookedUp, PassedWell, TrackedWell
<1>2. QED
  BY <1>1, TeamTypeCorrect, GateInvStep, PTL DEF Spec

(* A message that mentions members of the team is answered by nobody whom  *)
(* it does not call, whatever else the agent is handling at the time.      *)
THEOREM MentionsTheorem == Spec => []OthersLeaveMentions
<1>1. GateInv => OthersLeaveMentions
  BY DEF GateInv, PassedWell, Passed, OthersLeaveMentions
<1>2. QED
  BY <1>1, GateInvAlways, PTL

(* The agent tracks nothing of its own, and of its teammates only calls.   *)
THEOREM TrackedTheorem == Spec => []OnlyCallsAreTracked
<1>1. GateInv => OnlyCallsAreTracked
  BY DEF GateInv, TrackedWell, OnlyCallsAreTracked
<1>2. QED
  BY <1>1, GateInvAlways, PTL

-----------------------------------------------------------------------------
(* Why the agent may stay silent to a call: another handler, under way at  *)
(* the same time, took the interest from it.                               *)
Beside == \A i, j \in UnderWay : i # j => i \in races

TakenAway == \A i \in DOMAIN posts :
    Calls(i) /\ at[i] \in {"store", "ignore"} /\ interest = None => i \in races

SilenceInv == Beside /\ TakenAway /\ SilenceNeedsRace

LEMMA SilenceReceive ==
    ASSUME TypeOK, Placed, SilenceInv, [Next]_vars,
           NEW by \in People \cup Agents, NEW text \in Text, Receive(by, text)
    PROVE  SilenceInv'
<1>i. PICK i \in Messages : i = Len(posts) + 1
  BY ReceiveAdds, WritesAdds
<1>1. /\ by # self /\ self' = self /\ Len(posts) < N /\ Writes(by, text)
      /\ Dies \/ Hear(by, text)
  BY ReceiveAdds
<1>2. /\ i \notin DOMAIN posts
      /\ DOMAIN posts' = DOMAIN posts \cup {i}
      /\ DOMAIN posts \subseteq Messages
      /\ posts'[i] = [by |-> by, text |-> text]
  BY <1>i, <1>1, WritesAdds, PostsType
<1>3. TextOf(i)' = text /\ (Calls(i)' <=> CallsIn(text))
  BY <1>1, <1>2 DEF TextOf, Calls, CallsIn
<1>4. CASE Dies
  BY <1>2, <1>4, DiesLeaves
     DEF SilenceInv, Beside, UnderWay, TakenAway, SilenceNeedsRace, Working
<1>5. CASE Hear(by, text)
  <2>1. /\ \A j \in Messages \ {i} : at'[j] = at[j]
        /\ at'[i] \in {"recall", "store", "silent"}
        /\ at[i] = "none"
    BY <1>i, <1>1, <1>2, <1>5, HearMoves DEF Move, TypeOK, Placed
  <2>2. races' = IF UnderWay = {} THEN races ELSE races \cup UnderWay \cup {i}
    BY <1>i, <1>5 DEF Hear
  <2>3. CallsIn(text) => at'[i] = "store" /\ interest' # None
    BY <1>i, <1>5, HearOutcome, InterestType DEF Outcome, Move, TypeOK
  <2>4. UnderWay' \subseteq UnderWay \cup {i}
    BY <2>1 DEF UnderWay
  <2>5. Beside'
    BY <2>2, <2>4 DEF SilenceInv, Beside
  <2>6. \A j \in DOMAIN posts : at[j] \in {"store", "ignore"} => j \in races'
    BY <1>2, <2>2 DEF UnderWay, Working
  <2>7. TakenAway'
    BY <1>2, <1>3, <2>1, <2>3, <2>6, TextsStay DEF TakenAway
  <2>8. SilenceNeedsRace'
    BY <1>2, <1>3, <2>1, <2>2, <2>3, TextsStay DEF SilenceInv, SilenceNeedsRace
  <2>9. QED
    BY <2>5, <2>7, <2>8 DEF SilenceInv
<1>6. QED
  BY <1>1, <1>4, <1>5

LEMMA SilenceHandle ==
    ASSUME TypeOK, Placed, GateInv, SilenceInv, [Next]_vars,
           NEW i \in Messages, Handle(i)
    PROVE  SilenceInv'
<1>1. i \in DOMAIN posts /\ at[i] \in Working
  BY HandleMoves
<1>2. CASE Dies /\ UNCHANGED posts
  BY <1>2, DiesLeaves, PostsType
     DEF SilenceInv, Beside, UnderWay, TakenAway, SilenceNeedsRace, Working
<1>3. CASE \E to \in Places \ {"none"} : Move(i, to) /\ UNCHANGED <<up, had, races>>
  <2>1. races' = races /\ \A j \in Messages \ {i} : at'[j] = at[j]
    BY <1>3 DEF Move, TypeOK
  <2>2. UnderWay' \subseteq UnderWay
    BY <1>1, <2>1 DEF UnderWay
  <2>3. Beside'
    BY <2>1, <2>2 DEF SilenceInv, Beside
  <2>4. Calls(i) /\ at'[i] \in {"store", "ignore"} =>
            at[i] = "store" /\ (interest' = None => interest = None)
    <3>1. Calls(i) => at[i] # "recall"
      BY <1>1 DEF GateInv, LookedUp
    <3>2. Store(i) => (interest' = None => interest = None)
      BY StoreTracks, InterestType
    <3>3. QED
      BY <3>1, <3>2
         DEF Handle, Recall, RecallThrows, Store, Ignore, Decide, Answer, Fails, Move, TypeOK
  <2>5. Calls(i) /\ at'[i] = "silent" => TextOf(i).short /\ i \in races
    <3>1. ASSUME Calls(i), NEW alike, Ignores(i, alike)
          PROVE  TextOf(i).short /\ interest = None
      BY <3>1 DEF Ignores, InContext
    <3>2. ASSUME Calls(i), NEW alike, Ignore(i, alike), at'[i] = "silent"
          PROVE  TextOf(i).short /\ i \in races
      BY <1>1, <3>1, <3>2 DEF Ignore, Move, TypeOK, SilenceInv, TakenAway
    <3>3. Calls(i) => at[i] # "recall"
      BY <1>1 DEF GateInv, LookedUp
    <3>4. QED
      BY <3>2, <3>3
         DEF Handle, Recall, RecallThrows, Store, Decide, Answer, Fails, Move, TypeOK
  <2>6. ASSUME NEW j \in DOMAIN posts, j # i, at[j] \in {"store", "ignore"}
        PROVE  j \in races
    BY <1>1, <2>6, PostsType DEF SilenceInv, Beside, UnderWay, Working
  <2>7. TakenAway'
    BY <1>1, <2>1, <2>4, <2>6, AnswersAreNoWork, TextsStay DEF SilenceInv, TakenAway
  <2>8. SilenceNeedsRace'
    BY <1>1, <2>1, <2>5, AnswersAreNoWork, TextsStay DEF SilenceInv, SilenceNeedsRace
  <2>9. QED
    BY <2>3, <2>7, <2>8 DEF SilenceInv
<1>4. QED
  BY <1>2, <1>3, HandleMoves

LEMMA SilenceStep ==
    TypeOK /\ Placed /\ GateInv /\ SilenceInv /\ [Next]_vars => SilenceInv'
<1> SUFFICES ASSUME TypeOK, Placed, GateInv, SilenceInv, [Next]_vars
             PROVE  SilenceInv'
  OBVIOUS
<1>1. CASE Tick
  BY <1>1, TextsStay
     DEF Tick, SilenceInv, Beside, UnderWay, TakenAway, SilenceNeedsRace
<1>2. CASE UNCHANGED vars
  BY <1>2, TextsStay
     DEF vars, SilenceInv, Beside, UnderWay, TakenAway, SilenceNeedsRace
<1>3. QED
  BY <1>1, <1>2, SilenceReceive, SilenceHandle, NextCases

(* An agent that is called stays silent only to a short message whose      *)
(* interest another one, handled beside it, took away.                     *)
THEOREM SilenceTheorem == Spec => []SilenceNeedsRace
<1>1. Init => SilenceInv
  BY DEF Init, Idle, SilenceInv, Beside, UnderWay, Working, TakenAway, SilenceNeedsRace
<1>2. SilenceInv => SilenceNeedsRace
  BY DEF SilenceInv
<1>3. QED
  BY <1>1, <1>2, GateInvAlways, SilenceStep, PTL DEF Spec

-----------------------------------------------------------------------------
(* Where an interest that has tracked no message comes from.               *)
Cause(i) ==
    \/ at[i] \in {"store", "failed"}
    \/ at[i] \in {"recall", "silent"} /\ self # Leader /\ Concerns(i)
    \/ at[i] = "silent" /\ posts[i].by \in Agents /\ TextOf(i).team

CauseInv ==
    interest # None /\ interest.said = <<>> => \E i \in DOMAIN posts : Cause(i)

(* A cause stays one while its handler does not move.                      *)
LEMMA CauseStays ==
    ASSUME TypeOK, Placed, [Next]_vars, NEW j \in DOMAIN posts, Cause(j),
           at'[j] = at[j]
    PROVE  j \in DOMAIN posts' /\ Cause(j)'
BY TextsStay DEF Cause

LEMMA CauseReceive ==
    ASSUME TypeOK, Placed, CauseInv, [Next]_vars,
           NEW by \in People \cup Agents, NEW text \in Text, Receive(by, text)
    PROVE  CauseInv'
<1>i. PICK i \in Messages : i = Len(posts) + 1
  BY ReceiveAdds, WritesAdds
<1>1. /\ by # self /\ self' = self /\ Len(posts) < N /\ Writes(by, text)
      /\ Dies \/ Hear(by, text)
  BY ReceiveAdds
<1>2. /\ i \notin DOMAIN posts
      /\ DOMAIN posts' = DOMAIN posts \cup {i}
      /\ DOMAIN posts \subseteq Messages
      /\ posts'[i] = [by |-> by, text |-> text]
  BY <1>i, <1>1, WritesAdds, PostsType
<1>3. /\ TextOf(i)' = text /\ posts'[i].by = by
      /\ Concerns(i)' <=> ConcernsIn(text)
  BY <1>1, <1>2 DEF TextOf, Concerns, ConcernsIn
<1>4. CASE Dies
  BY <1>4, DiesLeaves DEF CauseInv
<1>5. CASE Hear(by, text)
  <2>1. \A j \in DOMAIN posts : at'[j] = at[j]
    BY <1>i, <1>1, <1>2, <1>5, HearMoves DEF Move, TypeOK
  <2>2. SUFFICES ASSUME interest' # None, interest'.said = <<>>
                 PROVE  \E j \in DOMAIN posts' : Cause(j)'
    BY DEF CauseInv
  <2>3. CASE interest' = interest
    BY <2>1, <2>2, <2>3, CauseStays DEF CauseInv
  <2>4. CASE at'[i] = "store"
    BY <1>2, <2>4 DEF Cause
  <2>5. CASE at'[i] \in {"recall", "silent"} /\ self # Leader /\ ConcernsIn(text)
    BY <1>1, <1>2, <1>3, <2>5 DEF Cause
  <2>6. CASE at'[i] = "silent" /\ by \in Agents /\ text.team
    BY <1>2, <1>3, <2>6 DEF Cause
  <2>7. \/ at'[i] = "store"
        \/ at'[i] = "silent" /\ by \in Agents /\ text.team
        \/ at'[i] \in {"recall", "silent"} /\ interest' = InterestThen(text)
    <3>1. InterestThen(text) \in Interest \cup {None}
      BY InterestType DEF InterestThen
    <3>2. ~text.team => AfterRequest(text, InterestThen(text)) = InterestThen(text)
      BY <3>1, AfterRequestType
    <3>3. QED
      BY <1>i, <1>5, <2>2, <3>2, HearOutcome DEF Outcome, Move, TypeOK
  <2>8. interest' = InterestThen(text) =>
            interest' = interest \/ (self # Leader /\ ConcernsIn(text))
    BY <2>2, InterestType DEF InterestThen
  <2>9. QED
    BY <2>3, <2>4, <2>5, <2>6, <2>7, <2>8
<1>6. QED
  BY <1>1, <1>4, <1>5

LEMMA CauseHandle ==
    ASSUME TypeOK, Placed, CauseInv, [Next]_vars, NEW i \in Messages, Handle(i)
    PROVE  CauseInv'
<1>1. i \in DOMAIN posts /\ at[i] \in Working
  BY HandleMoves
<1>2. CASE Dies /\ UNCHANGED posts
  BY <1>2, DiesLeaves DEF CauseInv
<1>3. CASE \E to \in Places \ {"none"} : Move(i, to) /\ UNCHANGED <<up, had, races>>
  <2>1. \A j \in DOMAIN posts : j # i => at'[j] = at[j]
    BY <1>3, PostsType DEF Move, TypeOK
  <2>2. SUFFICES ASSUME interest' # None, interest'.said = <<>>
                 PROVE  \E j \in DOMAIN posts' : Cause(j)'
    BY DEF CauseInv
  <2>3. i \in DOMAIN posts' /\ self' = self
    BY <1>1, TextsStay
  <2>4. CASE at'[i] \in {"store", "failed"}
    BY <2>3, <2>4 DEF Cause
  <2>5. CASE at'[i] = "silent" /\ posts[i].by \in Agents /\ TextOf(i).team
    BY <1>1, <2>5, TextsStay DEF Cause
  <2>6. ASSUME interest # None, interest.said = <<>>,
               \/ at[i] \in {"ignore", "decide", "write"}
               \/ at[i] = "recall" /\ at'[i] = "silent"
        PROVE  \E j \in DOMAIN posts' : Cause(j)'
    <3>1. PICK j \in DOMAIN posts : Cause(j)
      BY <2>6 DEF CauseInv
    <3>2. CASE j # i
      BY <2>1, <3>1, <3>2, CauseStays
    <3>3. CASE j = i
      BY <1>1, <2>6, <3>1, <3>3, TextsStay DEF Cause
    <3>4. QED
      BY <3>2, <3>3
  <2>7. ASSUME NEW alike, Recall(i, alike)
        PROVE  \/ at'[i] = "store"
               \/ at'[i] = "silent" /\ posts[i].by \in Agents /\ TextOf(i).team
               \/ at[i] = "recall" /\ at'[i] = "silent" /\ interest' = interest
    <3>1. TextOf(i) \in Text /\ interest \in Interest \cup {None}
      BY <1>1, PostsType DEF TypeOK
    <3>2. ~TextOf(i).team => AfterRequest(TextOf(i), interest) = interest
      BY <3>1, AfterRequestType
    <3>3. at[i] = "recall"
      BY <2>7 DEF Recall
    <3>4. QED
      BY <1>1, <2>2, <2>7, <3>2, <3>3, RecallOutcome DEF Outcome, Move, TypeOK
  <2>8. ASSUME NEW alike, Recall(i, alike)
        PROVE  \E j \in DOMAIN posts' : Cause(j)'
    BY <2>2, <2>4, <2>5, <2>6, <2>7, <2>8
  <2>9. CASE Store(i)
    BY <2>2, <2>9, StoreTracks DEF Store
  <2>10. CASE Fails(i)
    <3>1. at'[i] = "failed"
      BY <2>10 DEF Fails, Move, TypeOK
    <3>2. QED
      BY <2>4, <3>1
  <2>11. ASSUME NEW verdict, Decide(i, verdict)
         PROVE  \E j \in DOMAIN posts' : Cause(j)'
    <3>1. at[i] = "decide" /\ interest # None /\ interest'.said = interest.said
      BY <2>2, <2>11 DEF Decide, TypeOK, Interest
    <3>2. QED
      BY <2>2, <2>6, <3>1
  <2>12. ASSUME at[i] \in {"ignore", "write"}, interest' = interest
         PROVE  \E j \in DOMAIN posts' : Cause(j)'
    BY <2>2, <2>6, <2>12
  <2>13. QED
    BY <1>3, <2>2, <2>8, <2>9, <2>10, <2>11, <2>12
       DEF Handle, RecallThrows, Dies, Ignore, Answer
<1>4. QED
  BY <1>2, <1>3, HandleMoves

LEMMA CauseStep == TypeOK /\ Placed /\ CauseInv /\ [Next]_vars => CauseInv'
<1> SUFFICES ASSUME TypeOK, Placed, CauseInv, [Next]_vars PROVE CauseInv'
  OBVIOUS
<1>1. CASE Tick \/ UNCHANGED vars
  BY <1>1, CauseStays DEF Tick, vars, CauseInv
<1>2. QED
  BY <1>1, CauseReceive, CauseHandle, NextCases

(* An interest without a message, which the next one may end the process   *)
(* with, is a call's that is not stored, or comes from keywords or from a  *)
(* teammate's request in a message left to others.                         *)
THEOREM EmptyTheorem == Spec => []EmptyInterestHasCause
<1>1. Init => CauseInv
  BY DEF Init, CauseInv
<1>2. CauseInv => EmptyInterestHasCause
  BY DEF CauseInv, Cause, EmptyInterestHasCause
<1>3. QED
  BY <1>1, <1>2, TeamTypeCorrect, CauseStep, PTL DEF Spec

=============================================================================
