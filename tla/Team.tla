--------------------------------- MODULE Team ---------------------------------
(***************************************************************************)
(* An agent of a team in a Discord channel: MessageManager of              *)
(* packages/client-discord/src/messages.ts, with isPartOfTeam set.  It     *)
(* hears every message, its teammates' included; each starts a handler     *)
(* that awaits several calls while the handlers of later messages run.     *)
(* What they share is the agent's interest in the channel: when it was     *)
(* last called and what it was told since.  The agent, self, is any of the *)
(* team, and its teammates write whatever an agent may write.              *)
(*                                                                         *)
(* An interest is only ever written with its own agent as currentHandler,  *)
(* which is left out.  The ids of the authors of tracked messages are      *)
(* UUIDs, those of the team are Discord's, so no comparison of the two is  *)
(* ever true: the tests for a teammate's answer and for our own are left   *)
(* out.  So are rooms that are muted or followed, the modes that answer    *)
(* mentions only or no bots, messages without a text, and the cutting of   *)
(* what is tracked to ten.                                                 *)
(***************************************************************************)
EXTENDS Naturals, SequencesExt

CONSTANTS
    Agents, Leader,
    People,     \* those who write besides the agents
    Kinds,      \* what people may write
    Answers,    \* what agents may write
    None,
    N,          \* bound: the messages of the channel
    Partial,    \* PARTIAL_INTEREST_DECAY
    Decay,      \* INTEREST_DECAY_TIME
    Horizon     \* bound: the last moment of the clock

(* to: mentioned by id.  named: called by name.  about: those whose        *)
(* keywords it has.  team: it has a keyword of TEAM_COORDINATION.  short:  *)
(* fewer than ten letters, or words that tell an agent to stop talking.    *)
Text == [to : SUBSET Agents, named : SUBSET Agents, about : SUBSET Agents,
         team : BOOLEAN, short : BOOLEAN]

ASSUME TeamAssumption ==
    /\ Leader \in Agents
    /\ Kinds \cup Answers \subseteq Text
    /\ None \notin [sent : Nat, said : Seq(Nat)]
    /\ People \cap Agents = {}
    /\ {N, Partial, Decay, Horizon} \subseteq Nat /\ Partial <= Decay

VARIABLES
    self,       \* the agent
    posts,      \* the messages of the channel: who wrote what
    now,        \* Date.now()
    up,         \* the process of the agent
    interest,   \* interestChannels[channel], None for none
    at,         \* at[i]: where the handler of message i stands
    had,        \* the messages for which hasInterest was true
    races       \* history: the messages handled beside another

vars == <<self, posts, now, up, interest, at, had, races>>

Working == {"recall", "store", "ignore", "decide", "write"}
Places == {"none", "answered", "silent", "failed"} \cup Working

Messages == 1 .. N
Message == [by : People \cup Agents, text : Text]
Interest == [sent : Nat, said : Seq(Messages)]

TypeOK ==
    /\ self \in Agents
    /\ posts \in Seq(Message) /\ Len(posts) <= N
    /\ now \in Nat
    /\ up \in BOOLEAN
    /\ interest \in Interest \cup {None}
    /\ at \in [Messages -> Places]
    /\ had \subseteq Messages /\ races \subseteq Messages

Idle == [i \in Messages |-> "none"]

Init ==
    /\ self \in Agents /\ posts = <<>> /\ now = Decay + 1 /\ up = TRUE
    /\ interest = None /\ at = Idle /\ had = {} /\ races = {}

-----------------------------------------------------------------------------
TextOf(i) == posts[i].text

(* _isMessageForMe, _isRelevantToTeamMember by keywords.                   *)
CallsIn(text) == self \in text.to \cup text.named
ConcernsIn(text) == self \in text.about
Calls(i) == CallsIn(TextOf(i))
Concerns(i) == ConcernsIn(TextOf(i))

Fresh == [sent |-> now, said |-> <<>>]

Move(i, to) == at' = [at EXCEPT ![i] = to]

UnderWay == {i \in Messages : at[i] \in Working}

-----------------------------------------------------------------------------
(* _checkInterest.                                                         *)
Elapsed == now - interest.sent

(* Between the two decays it looks at the last message that was tracked,   *)
(* and throws when there is none.                                          *)
CheckThrows ==
    /\ interest # None
    /\ Elapsed \in (Partial + 1) .. Decay
    /\ interest.said = <<>>

(* The interest is over, or two people have talked.                        *)
Recent(said) == {posts[said[k]].by : k \in {j \in DOMAIN said : j + 3 > Len(said)}}
Lost ==
    \/ Elapsed > Decay
    \/ Elapsed <= Partial /\ Cardinality(Recent(interest.said)) > 1

Kept == IF interest = None \/ Lost THEN None ELSE interest

HasInterest ==
    /\ Kept # None
    /\ Elapsed > Partial => Concerns(Last(interest.said))

-----------------------------------------------------------------------------
(* The process ends, and with it all that it remembers: an exception of    *)
(* handleMessage before its try is a rejection that nobody handles.        *)
Dies ==
    /\ up' = FALSE
    /\ interest' = None /\ at' = Idle /\ had' = {} /\ races' = {}
    /\ UNCHANGED <<self, now>>

(* What a request to the team leaves: a member's interest is to end with   *)
(* the next message.                                                       *)
AfterRequest(text, old) ==
    IF text.team
    THEN [Fresh EXCEPT !.sent = IF self = Leader \/ CallsIn(text) THEN now ELSE 0]
    ELSE old

(* Wrong forms of Gate, InContext: the agent's own interest is not looked  *)
(* at beside hasInterest; it is kept when the message is left to others;   *)
(* teammates' messages are let through; a call is compared like the rest.  *)
GateHadOnly(i, by, text, has, old) ==
    LET mine == AfterRequest(text, old)
        forOther == text.to \ {self} # {} /\ has
    IN
    \/ CallsIn(text) /\ interest' = Fresh /\ Move(i, "store")
    \/ ~CallsIn(text) /\ forOther /\ interest' = None /\ Move(i, "silent")
    \/ /\ ~CallsIn(text) /\ ~forOther
       /\ interest' = mine
       /\ Move(i, IF (text.team \/ has) /\ by \notin Agents THEN "store" ELSE "silent")

GateKeepsInterest(i, by, text, has, old) ==
    LET mine == AfterRequest(text, old)
        forOther == text.to \ {self} # {} /\ (has \/ mine # None)
    IN
    \/ CallsIn(text) /\ interest' = Fresh /\ Move(i, "store")
    \/ ~CallsIn(text) /\ forOther /\ interest' = mine /\ Move(i, "silent")
    \/ /\ ~CallsIn(text) /\ ~forOther
       /\ interest' = mine
       /\ Move(i, IF (text.team \/ has) /\ by \notin Agents THEN "store" ELSE "silent")

GateForTeammates(i, by, text, has, old) ==
    LET mine == AfterRequest(text, old)
        forOther == text.to \ {self} # {} /\ (has \/ mine # None)
    IN
    \/ CallsIn(text) /\ interest' = Fresh /\ Move(i, "store")
    \/ ~CallsIn(text) /\ forOther /\ interest' = None /\ Move(i, "silent")
    \/ /\ ~CallsIn(text) /\ ~forOther
       /\ interest' = mine
       /\ Move(i, IF text.team \/ has THEN "store" ELSE "silent")

InContextAlways(i, alike) == Len(interest.said) > 1 /\ alike

(* From the check for interest, has, to the try: message i is let through, *)
(* with a fresh interest if it calls the agent, or it is left to others.   *)
Gate(i, by, text, has, old) ==
    LET mine == AfterRequest(text, old)
        forOther == text.to \ {self} # {} /\ (has \/ mine # None)
    IN
    \/ CallsIn(text) /\ interest' = Fresh /\ Move(i, "store")
    \/ ~CallsIn(text) /\ forOther /\ interest' = None /\ Move(i, "silent")
    \/ /\ ~CallsIn(text) /\ ~forOther
       /\ interest' = mine
       /\ Move(i, IF (text.team \/ has) /\ by \notin Agents THEN "store" ELSE "silent")

(* A message reaches the agent; keywords alone give a member an interest.  *)
Hear(by, text) ==
    LET i == Len(posts) + 1
        has == HasInterest
        old == IF self # Leader /\ ConcernsIn(text) THEN Fresh ELSE Kept
    IN
    /\ had' = IF has THEN had \cup {i} ELSE had
    /\ races' = IF UnderWay = {} THEN races ELSE races \cup UnderWay \cup {i}
    /\ \/ has /\ ~CallsIn(text) /\ interest' = old /\ Move(i, "recall")
       \/ (has => CallsIn(text)) /\ Gate(i, by, text, has, old)
    /\ UNCHANGED <<self, now, up>>

Receive(by, text) ==
    /\ Len(posts) < N /\ by # self
    /\ posts' = Append(posts, [by |-> by, text |-> text])
    /\ \/ CheckThrows /\ Dies
       \/ ~CheckThrows /\ Hear(by, text)

(* The agent's last messages have been read: the leader compares with its  *)
(* own last one, the others look for their keywords again.                 *)
Recall(i, alike) ==
    LET relevant == IF self = Leader /\ alike # None THEN alike ELSE Concerns(i) IN
    /\ at[i] = "recall"
    /\ \/ ~relevant /\ interest' = None /\ Move(i, "silent")
       \/ relevant /\ Gate(i, posts[i].by, TextOf(i), TRUE, interest)
    /\ UNCHANGED <<self, posts, now, up, had, races>>

RecallThrows(i) == at[i] = "recall" /\ Dies /\ UNCHANGED posts

(* The message is stored, and tracked by whatever interest there is now.   *)
Store(i) ==
    /\ at[i] = "store"
    /\ Move(i, "ignore")
    /\ interest' = IF interest = None THEN None
                   ELSE [interest EXCEPT !.said = Append(@, i)]
    /\ UNCHANGED <<self, posts, now, up, had, races>>

(* _shouldRespondBasedOnContext, with alike for the comparison of texts.   *)
InContext(i, alike) == Calls(i) \/ (Len(interest.said) > 1 /\ alike)

(* _shouldIgnore: words that mean nothing, or stop, count only where there *)
(* is no interest any more.                                                *)
Ignores(i, alike) ==
    IF TextOf(i).team THEN FALSE
    ELSE IF self = Leader /\ ~Calls(i) /\ Concerns(i) THEN TRUE
    ELSE IF interest # None THEN ~Concerns(i) /\ ~InContext(i, alike)
    ELSE TextOf(i).short

Ignore(i, alike) ==
    /\ at[i] = "ignore"
    /\ Move(i, IF Ignores(i, alike) THEN "silent" ELSE "decide")
    /\ UNCHANGED <<self, posts, now, up, interest, had, races>>

(* _shouldRespond is asked only without an interest: those who are called  *)
(* answer, those whose keywords it has, and the leader a request; of the   *)
(* others generateShouldRespond says what they do, or a comparison with    *)
(* the message it last answered, which ends the interest like a STOP.      *)
Certain(i) ==
    \/ i \in had
    \/ self # Leader /\ Concerns(i)
    \/ self = Leader /\ TextOf(i).team

Decide(i, verdict) ==
    /\ at[i] = "decide"
    /\ \/ Certain(i) /\ Move(i, "write") /\ UNCHANGED interest
       \/ /\ ~Certain(i) /\ Calls(i)
          /\ Move(i, "write")
          /\ interest' = IF interest = None THEN None ELSE [interest EXCEPT !.sent = now]
       \/ /\ ~Certain(i) /\ ~Calls(i)
          /\ Move(i, IF verdict = "RESPOND" THEN "write" ELSE "silent")
          /\ interest' = IF verdict = "STOP" THEN None ELSE interest
    /\ UNCHANGED <<self, posts, now, up, had, races>>

(* The answer is a message like any other, which the agent does not handle *)
(* itself; the interest is left as it is.                                  *)
Answer(i, text) ==
    /\ at[i] = "write" /\ Len(posts) < N
    /\ posts' = Append(posts, [by |-> self, text |-> text])
    /\ Move(i, "answered")
    /\ UNCHANGED <<self, now, up, interest, had, races>>

(* An exception within the try, or an answer without a text.               *)
Fails(i) ==
    /\ at[i] \in Working \ {"recall"}
    /\ Move(i, "failed")
    /\ UNCHANGED <<self, posts, now, up, interest, had, races>>

-----------------------------------------------------------------------------
Tick ==
    /\ now < Horizon
    /\ now' = now + 1
    /\ UNCHANGED <<self, posts, up, interest, at, had, races>>

Handle(i) ==
    \/ \E alike \in BOOLEAN \cup {None} : Recall(i, alike)
    \/ RecallThrows(i)
    \/ Store(i)
    \/ \E alike \in BOOLEAN : Ignore(i, alike)
    \/ \E verdict \in {"RESPOND", "IGNORE", "STOP"} : Decide(i, verdict)
    \/ \E text \in Answers : Answer(i, text)
    \/ Fails(i)

Next ==
    /\ up
    /\ \/ \E p \in People, text \in Kinds : Receive(p, text)
       \/ \E a \in Agents, text \in Answers : Receive(a, text)
       \/ \E i \in Messages : Handle(i)
       \/ Tick

Spec == Init /\ [][Next]_vars

-----------------------------------------------------------------------------
(* Who is called and who answers: a message that mentions members of the   *)
(* team is answered by nobody who is not called by it, whatever interests  *)
(* there are and whatever else is being handled.                           *)
OthersLeaveMentions ==
    \A i \in DOMAIN posts :
        at[i] = "answered" /\ TextOf(i).to # {} => Calls(i)

(* A call is answered.  An agent stays silent to a message that calls it   *)
(* only if the message is short and another one, handled side by side with *)
(* it, took the interest away in between.                                  *)
SilenceNeedsRace ==
    \A i \in DOMAIN posts :
        Calls(i) /\ at[i] = "silent" => TextOf(i).short /\ i \in races

(* What an agent tracks of the channel is never its own, and of its        *)
(* teammates' only what calls it: the leader cannot see there that a       *)
(* member has answered, nor an agent that it has been talking a lot.       *)
OnlyCallsAreTracked ==
    interest # None =>
        \A k \in DOMAIN interest.said :
            LET i == interest.said[k] IN
            posts[i].by # self /\ (posts[i].by \in Agents => Calls(i))

(* An interest that has tracked no message, which is what the next message *)
(* may end the process with, is one whose message is still being stored or *)
(* could not be, or it comes from keywords, or from a teammate's request,  *)
(* in a message that was then left to others.                              *)
EmptyInterestHasCause ==
    interest # None /\ interest.said = <<>> =>
        \E i \in DOMAIN posts :
            \/ at[i] \in {"recall", "store", "failed"}
            \/ /\ at[i] = "silent"
               /\ \/ self # Leader /\ Concerns(i)
                  \/ posts[i].by \in Agents /\ TextOf(i).team
=============================================================================
