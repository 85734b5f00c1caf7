---------------------------- MODULE PluginProofs ----------------------------
(***************************************************************************)
(* Theorems about the parts of the plugin around the trade cycle: two of   *)
(* the steps it awaits, Consensus, for every weight, threshold and         *)
(* confidence, and Buyback, for any number of buybacks, any amounts and    *)
(* any funds; and the Scheduler that starts it, for any agents.            *)
(***************************************************************************)
EXTENDS Consensus, Buyback, Scheduler, SequenceTheorems, FiniteSetTheorems,
        TLAPS

(* What the answers and the decision are made of, and how the verdict      *)
(* hangs on the decision and the decision on the answers.                  *)
AnswersOK == answers \in [Models -> {Pending, Rejected} \cup Answered]

Derived ==
    decision.status = "decided" =>
        LET a == SignalOf("analyst")
            s == SignalOf("sentiment")
        IN  /\ answers["analyst"] \in Answered
            /\ answers["sentiment"] \in Answered
            /\ decision.direction \in Directions(a, s)
            /\ decision.confidence = CombinedConfidence(a, s)
            /\ decision.agreement = Agreement(a, s)

Justified ==
    Allowed => /\ decision.status = "decided"
               /\ MayPass(decision.confidence, MinConfidence)
               /\ MayPass(decision.agreement, MinAgreement)

ConsensusInv == AnswersOK /\ Derived /\ Justified

(* Every signal a call can return is well typed.                           *)
LEMMA SignalsTyped == ParsedSignals \subseteq Signal
  <1>1. NeutralSignal \in Signal
    BY ConsensusAssumption DEF NeutralSignal, Signal, Words, Sides
  <1>2. ASSUME NEW r \in Raw, r # Absent PROVE Clamp(r) \in Percent \cup {NaN}
    BY <1>2, ConsensusAssumption, RiskAssumption DEF Clamp, Percent
  <1>3. ASSUME NEW w \in Words \cup {Absent}, NEW r \in Raw
        PROVE  ParseSignal(w, r) \in Signal
    <2>1. (IF w = Absent THEN "long" ELSE w) \in Words
      BY DEF Words, Sides
    <2>2. (IF r = Absent THEN Fallback ELSE Clamp(r)) \in Percent \cup {NaN}
      BY <1>2, ConsensusAssumption
    <2> QED BY <2>1, <2>2 DEF ParseSignal, Signal
  <1>4. ASSUME NEW s \in ParsedSignals PROVE s \in Signal
    <2>1. CASE s = NeutralSignal
      BY <1>1, <2>1
    <2>2. CASE s # NeutralSignal
      <3>1. PICK w \in Words \cup {Absent} : s \in {ParseSignal(w, r) : r \in Raw}
        BY <1>4, <2>2 DEF ParsedSignals
      <3>2. PICK r \in Raw : s = ParseSignal(w, r)
        BY <3>1
      <3> QED BY <1>3, <3>2
    <2> QED BY <2>1, <2>2
  <1> QED BY <1>4

LEMMA ConsensusInductive ==
    /\ Init => ConsensusInv
    /\ ConsensusInv /\ [Next]_vars => ConsensusInv'
  <1>1. Init => ConsensusInv
    BY DEF Init, ConsensusInv, AnswersOK, Derived, Justified, Allowed,
           Undecided, Pending
  <1> SUFFICES ASSUME ConsensusInv, [Next]_vars PROVE ConsensusInv'
    BY <1>1
  <1> USE DEF ConsensusInv
  <1>2. ASSUME NEW m \in Models, ModelAnswers(m) PROVE ConsensusInv'
    <2>1. PICK s \in Signal :
             answers' = [answers EXCEPT ![m] = [status |-> "answered", signal |-> s]]
      BY <1>2, SignalsTyped DEF ModelAnswers
    <2>2. /\ answers[m] = Pending
          /\ UNCHANGED <<decision, verdict>>
      BY <1>2 DEF ModelAnswers
    <2>3. [status |-> "answered", signal |-> s] \in Answered
      BY <2>1 DEF Answered
    <2>4. AnswersOK'
      BY <2>1, <2>3 DEF AnswersOK
    <2>5. decision.status # "decided"
      BY <2>2 DEF Derived, Answered, Pending, Models
    <2> QED BY <2>2, <2>4, <2>5 DEF Derived, Justified, Allowed
  <1>3. ASSUME NEW m \in Models, ModelFails(m) PROVE ConsensusInv'
    <2>1. /\ answers[m] = Pending
          /\ answers' = [answers EXCEPT ![m] = Rejected]
          /\ UNCHANGED <<decision, verdict>>
      BY <1>3 DEF ModelFails
    <2>2. AnswersOK'
      BY <2>1 DEF AnswersOK
    <2>3. decision.status # "decided"
      BY <2>1 DEF Derived, Answered, Pending, Models
    <2> QED BY <2>1, <2>2, <2>3 DEF Derived, Justified, Allowed
  <1>4. CASE ConsensusRejects
    <2>1. /\ decision.status # "decided" /\ decision'.status # "decided"
          /\ UNCHANGED <<answers, verdict>>
      BY <1>4 DEF ConsensusRejects, Undecided, Rejected
    <2> QED BY <2>1 DEF AnswersOK, Derived, Justified, Allowed
  <1>5. CASE Combine
    <2> DEFINE a == SignalOf("analyst")
               s == SignalOf("sentiment")
    <2>1. PICK d \in Directions(a, s) :
             decision' = [status |-> "decided", direction |-> d,
                          confidence |-> CombinedConfidence(a, s),
                          agreement  |-> Agreement(a, s)]
      BY <1>5 DEF Combine, SignalOf
    <2>2. /\ decision.status # "decided"
          /\ \A m \in Models : answers[m] \in Answered
          /\ UNCHANGED <<answers, verdict>>
      BY <1>5 DEF Combine, Undecided
    <2>3. SignalOf("analyst")' = a /\ SignalOf("sentiment")' = s
      BY <2>2 DEF SignalOf
    <2>4. Derived'
      BY <2>1, <2>2, <2>3 DEF Derived, Models
    <2> QED BY <2>2, <2>4 DEF AnswersOK, Justified, Allowed
  <1>6. CASE Check
    <2>1. decision.status = "decided" /\ UNCHANGED <<answers, decision>>
      BY <1>6 DEF Check, Decided
    <2>2. Allowed' => /\ MayPass(decision.confidence, MinConfidence)
                      /\ MayPass(decision.agreement, MinAgreement)
      BY <1>6 DEF Check, Allowed
    <2> QED BY <2>1, <2>2 DEF AnswersOK, Derived, Justified, SignalOf
  <1>7. CASE UNCHANGED vars
    BY <1>7 DEF vars, AnswersOK, Derived, Justified, Allowed, SignalOf
  <1> QED BY <1>2, <1>3, <1>4, <1>5, <1>6, <1>7 DEF Next

-----------------------------------------------------------------------------
(* The products of weights and confidences stay numbers.                   *)
LEMMA WeightedTyped ==
    ASSUME ConsensusInv, Numeric, Allowed
    PROVE  /\ Tech(SignalOf("analyst")) \in Nat
           /\ Sent(SignalOf("sentiment")) \in Nat
           /\ Sent(SignalOf("sentiment")) <= 100 * SentWeight
           /\ SignalOf("analyst").direction \in Words
           /\ SignalOf("sentiment").direction \in Words
  <1> DEFINE a == SignalOf("analyst")
             s == SignalOf("sentiment")
  <1>1. a \in Signal /\ s \in Signal
    BY DEF ConsensusInv, Justified, Derived, Answered, SignalOf
  <1>2. a.confidence \in Percent /\ s.confidence \in Percent
    BY <1>1 DEF Signal, Numeric, Models
  <1>3. TechWeight \in Percent /\ SentWeight \in Percent
    BY ConsensusAssumption
  <1>4. Tech(a) = TechWeight * a.confidence /\ Sent(s) = SentWeight * s.confidence
    BY <1>2, RiskAssumption DEF Tech, Sent, Times, Numeric, Models
  <1>5. ASSUME NEW w \in Percent, NEW c \in Percent
        PROVE  w * c \in Nat /\ w * c <= 100 * w
    BY DEF Percent
  <1> QED BY <1>1, <1>2, <1>3, <1>4, <1>5 DEF Signal

(* When the sentiment model's weight alone cannot reach the agreement      *)
(* asked for, an allowed trade that the models disagree about goes the     *)
(* analyst's way.                                                          *)
LEMMA DissentLeaf ==
    ASSUME SentWeight < MinAgreement, ConsensusInv
    PROVE  DissentIsTheAnalysts
  <1> SUFFICES ASSUME Allowed, Numeric, Dissent
               PROVE  /\ decision.direction = SignalOf("analyst").direction
                      /\ Tech(SignalOf("analyst"))
                            >= 100 * MinAgreement + Sent(SignalOf("sentiment"))
    BY DEF DissentIsTheAnalysts
  <1> DEFINE a == SignalOf("analyst")
             s == SignalOf("sentiment")
             T == Tech(a)
             S == Sent(s)
  <1>1. /\ T \in Nat /\ S \in Nat /\ S <= 100 * SentWeight
        /\ a.direction \in Words /\ s.direction \in Words
    BY WeightedTyped
  <1>2. MinAgreement \in Nat /\ SentWeight \in Nat /\ NaN \notin Int
    BY ConsensusAssumption, RiskAssumption DEF Percent
  <1>3. /\ decision.direction \in Directions(a, s)
        /\ decision.agreement = Agreement(a, s)
        /\ MayPass(decision.agreement, MinAgreement)
    BY DEF ConsensusInv, Justified, Derived
  <1>4. a.direction # s.direction /\ a.direction \in Sides
    BY DEF Dissent
  <1>5. Agreement(a, s) = Apart(T, S)
    BY <1>4 DEF Agreement
  <1> HIDE DEF T, S
  <1>6. Apart(T, S) = IF T >= S THEN T - S ELSE S - T
    BY <1>1, <1>2 DEF Apart
  <1>7. Apart(T, S) >= 100 * MinAgreement
    BY <1>1, <1>2, <1>3, <1>5, <1>6 DEF MayPass, Below
  <1>8. T >= 100 * MinAgreement + S
    BY <1>1, <1>2, <1>6, <1>7
  <1>9. T > S /\ T > 0
    BY <1>1, <1>2, <1>8
  <1>10. Score(a.direction, a, s) = T
    BY <1>1, <1>2, <1>4 DEF Score, Plus, T
  <1>11. \A word \in Words : word # a.direction =>
            Score(word, a, s) = IF s.direction = word THEN S ELSE 0
    BY <1>1, <1>2, <1>4 DEF Score, Plus, S
  <1>12. decision.direction = a.direction
    <2>1. CASE a.direction = "long"
      <3>1. /\ Score("long", a, s) = T
            /\ Score("short", a, s) \in {S, 0}
        BY <1>10, <1>11, <2>1 DEF Words, Sides
      <3>2. Directions(a, s) = {"long"}
        BY <1>1, <1>2, <1>9, <3>1 DEF Directions
      <3> QED BY <1>3, <2>1, <3>2
    <2>2. CASE a.direction = "short"
      <3>1. /\ Score("short", a, s) = T
            /\ Score("long", a, s) \in {S, 0}
        BY <1>10, <1>11, <2>2 DEF Words, Sides
      <3>2. Directions(a, s) = {"short"}
        BY <1>1, <1>2, <1>9, <3>1 DEF Directions
      <3> QED BY <1>3, <2>2, <3>2
    <2> QED BY <1>4, <2>1, <2>2 DEF Sides
  <1> QED BY <1>8, <1>12 DEF T, S

(* With a minimum confidence above zero, a direction is allowed without a  *)
(* vote only as DirectionHasAVote says: its score is zero, and the other   *)
(* side's is no number or zero too.                                        *)
LEMMA VoteLeaf ==
    ASSUME MinConfidence > 0, ConsensusInv
    PROVE  DirectionHasAVote
  <1> SUFFICES ASSUME Allowed, \A m \in Models : SignalOf(m).direction # decision.direction
               PROVE  IF decision.direction = "short"
                      THEN \E m \in Models : /\ SignalOf(m).direction = "long"
                                             /\ SignalOf(m).confidence = NaN
                      ELSE /\ \E m \in Models : SignalOf(m).direction \notin Sides
                           /\ \A m \in Models : SignalOf(m).direction = "short" =>
                                 SignalOf(m).confidence = 0
    BY DEF DirectionHasAVote
  <1> DEFINE a == SignalOf("analyst")
             s == SignalOf("sentiment")
             T == Tech(a)
             S == Sent(s)
  <1>1. a \in Signal /\ s \in Signal
    BY DEF ConsensusInv, Justified, Derived, Answered, SignalOf
  <1>2. /\ MinConfidence \in Nat /\ NaN \notin Int
        /\ TechWeight \in Percent \ {0} /\ SentWeight \in Percent \ {0}
    BY RiskAssumption, ConsensusAssumption
  <1>3. /\ decision.direction \in Directions(a, s)
        /\ decision.confidence = CombinedConfidence(a, s)
        /\ MayPass(decision.confidence, MinConfidence)
    BY DEF ConsensusInv, Justified, Derived
  <1>4. ASSUME NEW w \in Percent \ {0}, NEW c \in Percent \cup {NaN}
        PROVE  /\ Times(w, c) = NaN <=> c = NaN
               /\ c # NaN => Times(w, c) \in Nat
               /\ Times(w, c) = 0 => c = 0
    <2>1. CASE c = NaN
      BY <1>2, <2>1 DEF Times
    <2>2. CASE c \in Percent
      BY <1>2, <2>2 DEF Times, Percent
    <2> QED BY <2>1, <2>2
  <1>5. /\ T = NaN <=> a.confidence = NaN
        /\ a.confidence # NaN => T \in Nat
        /\ T = 0 => a.confidence = 0
    BY <1>1, <1>2, <1>4 DEF Tech, Signal
  <1>6. /\ S = NaN <=> s.confidence = NaN
        /\ s.confidence # NaN => S \in Nat
        /\ S = 0 => s.confidence = 0
    BY <1>1, <1>2, <1>4 DEF Sent, Signal
  <1>7. a.direction # decision.direction /\ s.direction # decision.direction
    BY DEF Models
  <1>8. \A word \in Sides :
           Score(word, a, s) = Plus(IF a.direction = word THEN T ELSE 0,
                                    IF s.direction = word THEN S ELSE 0)
    BY DEF Score
  <1>9. CombinedConfidence(a, s) = Plus(T, S)
    BY DEF CombinedConfidence
  <1> HIDE DEF T, S
  <1>10. CASE decision.direction = "short"
    <2>1. Score("short", a, s) = 0
      BY <1>2, <1>7, <1>8, <1>10 DEF Sides, Plus
    <2>2. Score("long", a, s) = NaN
      <3>1. Score("long", a, s) \in Nat \cup {NaN}
        BY <1>2, <1>5, <1>6, <1>8 DEF Sides, Plus
      <3>2. CASE Score("long", a, s) \in Nat
        BY <1>2, <1>3, <1>10, <2>1, <3>2 DEF Directions
      <3> QED BY <3>1, <3>2
    <2>3. \/ a.direction = "long" /\ a.confidence = NaN
          \/ s.direction = "long" /\ s.confidence = NaN
      BY <1>2, <1>5, <1>6, <1>8, <2>2 DEF Sides, Plus
    <2> QED BY <1>10, <2>3 DEF Models
  <1>11. CASE decision.direction # "short"
    <2>1. decision.direction = "long"
      BY <1>3, <1>11 DEF Directions
    <2>2. Score("long", a, s) = 0
      BY <1>2, <1>7, <1>8, <2>1 DEF Sides, Plus
    <2>3. Score("short", a, s) # NaN /\ ~(0 < Score("short", a, s))
      BY <1>2, <1>3, <2>1, <2>2 DEF Directions
    <2>4. /\ a.direction = "short" => a.confidence = 0 /\ T = 0
          /\ s.direction = "short" => s.confidence = 0 /\ S = 0
      BY <1>2, <1>5, <1>6, <1>8, <2>3 DEF Sides, Plus
    <2>5. a.direction \notin Sides \/ s.direction \notin Sides
      <3> SUFFICES ASSUME a.direction = "short", s.direction = "short" PROVE FALSE
        BY <1>7, <2>1 DEF Sides
      <3>1. decision.confidence = 0
        BY <1>2, <1>3, <1>9, <2>4 DEF Plus
      <3> QED BY <1>2, <1>3, <3>1 DEF MayPass, Below
    <2> QED BY <1>11, <2>4, <2>5 DEF Models
  <1> QED BY <1>10, <1>11

-----------------------------------------------------------------------------
(* An answer nobody can read.                                              *)

UnreadableIsNeutral ==
    \A m \in Models : answers[m] \in Answered =>
        SignalOf(m).readable \/ SignalOf(m) = NeutralSignal

ReaderInv == ConsensusInv /\ UnreadableIsNeutral

LEMMA ReaderInductive ==
    /\ Init => ReaderInv
    /\ ReaderInv /\ [Next]_vars => ReaderInv'
  <1>1. Init => ReaderInv
    BY ConsensusInductive DEF Init, ReaderInv, UnreadableIsNeutral, Answered, Pending
  <1> SUFFICES ASSUME ReaderInv, [Next]_vars PROVE UnreadableIsNeutral'
    BY <1>1, ConsensusInductive DEF ReaderInv
  <1>2. ASSUME NEW m \in Models, ModelAnswers(m) PROVE UnreadableIsNeutral'
    <2>1. PICK s \in ParsedSignals :
             answers' = [answers EXCEPT ![m] = [status |-> "answered", signal |-> s]]
      BY <1>2 DEF ModelAnswers
    <2>2. s.readable \/ s = NeutralSignal
      BY <2>1 DEF ParsedSignals, ParseSignal
    <2>3. /\ answers'[m].signal = s
          /\ \A n \in Models \ {m} : answers'[n] = answers[n]
      BY <2>1 DEF ReaderInv, ConsensusInv, AnswersOK
    <2> QED BY <2>2, <2>3 DEF ReaderInv, UnreadableIsNeutral, SignalOf
  <1>3. ASSUME NEW m \in Models, ModelFails(m) PROVE UnreadableIsNeutral'
    <2>1. answers'[m] = Rejected /\ \A n \in Models \ {m} : answers'[n] = answers[n]
      BY <1>3 DEF ModelFails, ReaderInv, ConsensusInv, AnswersOK
    <2> QED BY <2>1 DEF ReaderInv, UnreadableIsNeutral, SignalOf, Answered, Rejected
  <1>4. CASE UNCHANGED answers
    BY <1>4 DEF ReaderInv, UnreadableIsNeutral, SignalOf
  <1> QED BY <1>2, <1>3, <1>4 DEF Next, ConsensusRejects, Combine, Check, vars

LEMMA UnreadableLeaf ==
    ASSUME NeutralIsWeak, ReaderInv
    PROVE  UnreadableNeverDecides
  <1> SUFFICES ASSUME Allowed, Numeric
               PROVE  \E m \in Models :
                         /\ SignalOf(m).readable
                         /\ \A n \in Models : ~SignalOf(n).readable =>
                               decision.direction = SignalOf(m).direction
    BY DEF UnreadableNeverDecides
  <1> DEFINE a == SignalOf("analyst")
             s == SignalOf("sentiment")
             T == Tech(a)
             S == Sent(s)
  <1>1. /\ T \in Nat /\ S \in Nat /\ S <= 100 * SentWeight
        /\ a.direction \in Words /\ s.direction \in Words
    BY WeightedTyped DEF ReaderInv
  <1>2. /\ {MinAgreement, MinConfidence, SentWeight, TechWeight, Neutral} \subseteq Nat
        /\ NaN \notin Int /\ Neutral \in Percent
        /\ TechWeight + SentWeight = 100 /\ TechWeight \in Percent
    BY ConsensusAssumption, RiskAssumption DEF Percent
  <1>3. /\ decision.confidence = CombinedConfidence(a, s)
        /\ decision.agreement = Agreement(a, s)
        /\ MayPass(decision.confidence, MinConfidence)
        /\ MayPass(decision.agreement, MinAgreement)
        /\ a \in Signal /\ s \in Signal
    BY DEF ReaderInv, ConsensusInv, Justified, Derived, Answered, SignalOf
  <1>4. a.readable \/ a = NeutralSignal
    BY DEF ReaderInv, UnreadableIsNeutral, ConsensusInv, Justified, Derived, Models
  <1>5. s.readable \/ s = NeutralSignal
    BY DEF ReaderInv, UnreadableIsNeutral, ConsensusInv, Justified, Derived, Models
  <1>6. T <= 100 * TechWeight
    <2>1. a.confidence \in Percent
      BY <1>3 DEF Signal, Numeric, Models
    <2>2. T = TechWeight * a.confidence
      BY <1>2, <2>1 DEF Tech, Times, Percent
    <2>3. \A w, c \in Percent : w * c <= 100 * w
      BY DEF Percent
    <2> QED BY <1>2, <2>1, <2>2, <2>3
  <1>7. a = NeutralSignal => T = TechWeight * Neutral
    BY <1>2 DEF NeutralSignal, Tech, Times, Percent
  <1>8. s = NeutralSignal => S = SentWeight * Neutral
    BY <1>2 DEF NeutralSignal, Sent, Times, Percent
  <1>9. a.direction # s.direction =>
           T >= 100 * MinAgreement + S \/ S >= 100 * MinAgreement + T
    <2> HIDE DEF T, S
    <2>1. ASSUME a.direction # s.direction PROVE Agreement(a, s) = Apart(T, S)
      BY <2>1 DEF Agreement, T, S
    <2>2. Apart(T, S) = IF T >= S THEN T - S ELSE S - T
      BY <1>1, <1>2 DEF Apart
    <2> QED BY <1>1, <1>2, <1>3, <2>1, <2>2 DEF MayPass, Below
  <1>10. T + S >= 100 * MinConfidence
    <2>1. CombinedConfidence(a, s) = Plus(T, S)
      BY DEF CombinedConfidence
    <2> HIDE DEF T, S
    <2>2. Plus(T, S) = T + S
      BY <1>1, <1>2 DEF Plus
    <2> QED BY <1>1, <1>2, <1>3, <2>1, <2>2 DEF MayPass, Below
  <1>11. a.direction = "long" /\ s.direction = "long" => decision.direction = "long"
    <2>1. DirectionHasAVote
      BY <1>2, VoteLeaf DEF ReaderInv, NeutralIsWeak
    <2>2. decision.direction \in {"long", "short"}
      BY DEF ReaderInv, ConsensusInv, Justified, Derived, Directions
    <2> QED BY <2>1, <2>2 DEF DirectionHasAVote, Numeric, Models
  <1>12. a.readable \/ s.readable
    <2> SUFFICES ASSUME a = NeutralSignal, s = NeutralSignal PROVE FALSE
      BY <1>4, <1>5
    <2>1. T + S = 100 * Neutral
      <3>1. TechWeight * Neutral + SentWeight * Neutral = (TechWeight + SentWeight) * Neutral
        BY <1>2
      <3> QED BY <1>2, <1>7, <1>8, <3>1
    <2> QED BY <1>2, <1>10, <2>1 DEF NeutralIsWeak
  <1>13. CASE a.readable /\ s.readable
    BY <1>13 DEF Models
  <1>14. CASE a.readable /\ ~s.readable
    <2>1. s = NeutralSignal /\ s.direction = "long"
      BY <1>5, <1>14 DEF NeutralSignal
    <2>2. decision.direction = a.direction
      <3>1. CASE a.direction = "long"
        BY <1>11, <2>1, <3>1
      <3>2. CASE a.direction # "long"
        <4>1. T >= 100 * MinAgreement + S
          BY <1>1, <1>2, <1>9, <2>1, <3>2 DEF NeutralIsWeak
        <4>2. FALSE
          BY <1>1, <1>2, <1>6, <1>8, <2>1, <4>1 DEF NeutralIsWeak
        <4> QED BY <4>2
      <3> QED BY <3>1, <3>2
    <2> QED BY <1>14, <2>2 DEF Models
  <1>15. CASE ~a.readable /\ s.readable
    <2>1. a = NeutralSignal /\ a.direction = "long"
      BY <1>4, <1>15 DEF NeutralSignal
    <2>2. decision.direction = s.direction
      <3>1. CASE s.direction = "long"
        BY <1>11, <2>1, <3>1
      <3>2. CASE s.direction # "long"
        <4>1. FALSE
          BY <1>1, <1>2, <1>7, <1>9, <2>1, <3>2 DEF NeutralIsWeak
        <4> QED BY <4>1
      <3> QED BY <3>1, <3>2
    <2> QED BY <1>15, <2>2 DEF Models
  <1> QED BY <1>12, <1>13, <1>14, <1>15

-----------------------------------------------------------------------------
(* A trade allowed against one model's direction is the analyst's, for any *)
(* thresholds that ask for more agreement than the sentiment model weighs. *)
THEOREM DissentTheorem ==
    ASSUME SentWeight < MinAgreement
    PROVE  Spec => []DissentIsTheAnalysts
  <1>1. ConsensusInv => DissentIsTheAnalysts
    BY DissentLeaf
  <1> QED BY <1>1, ConsensusInductive, PTL DEF Spec

(* A direction that no model voted for is allowed only for a vote that is  *)
(* no number or for a word that is no side, for any weights above zero and *)
(* any confidence asked for.                                               *)
THEOREM VoteTheorem ==
    ASSUME MinConfidence > 0
    PROVE  Spec => []DirectionHasAVote
  <1>1. ConsensusInv => DirectionHasAVote
    BY VoteLeaf
  <1> QED BY <1>1, ConsensusInductive, PTL DEF Spec

(* The neutral signal of an answer nobody can read votes long, and never   *)
(* turns a trade around or makes one, for any settings that keep it weak.  *)
THEOREM UnreadableTheorem ==
    ASSUME NeutralIsWeak
    PROVE  Spec => []UnreadableNeverDecides
  <1>1. ReaderInv => UnreadableNeverDecides
    BY UnreadableLeaf
  <1> QED BY <1>1, ReaderInductive, PTL DEF Spec

-----------------------------------------------------------------------------
(* The buyback.                                                            *)

ApproveOf(b) == [kind |-> "approve", of |-> b]
SwapOf(b) == [kind |-> "swap", of |-> b]

NoneOf(b, q) == \A i \in DOMAIN q : q[i].of # b

Paid(b) == token.balanceOf[Agent] >= AmountIn[b]
Granted(b) == token.allowance[Agent][Dex] >= AmountIn[b]

(* The approval is on its way or counts already ...                        *)
Approved(b) ==
    /\ receipt[b] = "none"
    /\ mempool = <<ApproveOf(b)>> \/ (mempool = <<>> /\ Granted(b))

(* ... and so is the swap behind it, which the chain will not refuse.      *)
SwapComes(b) ==
    /\ receipt[b] = "none" /\ Paid(b)
    /\ \/ mempool = <<ApproveOf(b), SwapOf(b)>>
       \/ mempool = <<SwapOf(b)>> /\ Granted(b)

Settled(b) == receipt[b] # "reverted" /\ NoneOf(b, mempool)

(* What an undisturbed buyback has come to, at each of its awaits.         *)
Undisturbed(b) ==
    /\ pc[b] = "called" => receipt[b] = "none" /\ mempool = <<>>
    /\ pc[b] \in {"approved", "simulated"} => Approved(b)
    /\ pc[b] = "simulated" => Paid(b)
    /\ pc[b] = "sent" => SwapComes(b) \/ (Settled(b) /\ receipt[b] = "success")
    /\ pc[b] = "done" => Settled(b) /\ receipt[b] = "success"
    /\ pc[b] = "failed" => \/ receipt[b] = "none" /\ mempool = <<ApproveOf(b)>>
                           \/ SwapComes(b) \/ Settled(b)

(* No other is at it beside a clean one ...                                *)
Quiet == \A b \in clean, c \in Buybacks : b # c => ~(Busy(b) /\ Busy(c))

(* ... and one that was not called has sent nothing.                       *)
Uncalled ==
    \A b \in Buybacks : pc[b] = "idle" => receipt[b] = "none" /\ NoneOf(b, mempool)

BuybackInv ==
    /\ BuybackTypeOK /\ Quiet /\ Uncalled
    /\ \A b \in clean : Undisturbed(b)

-----------------------------------------------------------------------------
(* The mempool holds what was sent, in the order of the nonces: what is    *)
(* sent joins its end, and what is mined leaves its head.                  *)

LEMMA NoneOfNothing == ASSUME NEW b PROVE NoneOf(b, <<>>)
BY DEF NoneOf

LEMMA SentOf ==
    ASSUME NEW q \in Seq(Tx), NEW x \in Tx, NEW b
    PROVE  /\ Append(q, x) \in Seq(Tx)
           /\ NoneOf(b, Append(q, x)) <=> NoneOf(b, q) /\ x.of # b
  <1>1. /\ Append(q, x) \in Seq(Tx)
        /\ DOMAIN Append(q, x) = 1 .. (Len(q) + 1)
        /\ \A i \in 1 .. Len(q) : Append(q, x)[i] = q[i]
        /\ Append(q, x)[Len(q) + 1] = x
        /\ DOMAIN q = 1 .. Len(q) /\ Len(q) \in Nat
    BY AppendProperties
  <1> QED BY <1>1 DEF NoneOf

LEMMA MinedOf ==
    ASSUME NEW q \in Seq(Tx), q # <<>>
    PROVE  /\ Tail(q) \in Seq(Tx) /\ Head(q) \in Tx
           /\ ~NoneOf(Head(q).of, q)
           /\ \A b : NoneOf(b, q) => NoneOf(b, Tail(q))
  <1>1. /\ Tail(q) \in Seq(Tx) /\ Head(q) \in Tx
        /\ Head(q) = q[1] /\ 1 \in DOMAIN q
        /\ DOMAIN Tail(q) = 1 .. (Len(q) - 1)
        /\ DOMAIN q = 1 .. Len(q) /\ Len(q) \in Nat \ {0}
        /\ \A i \in 1 .. (Len(q) - 1) : Tail(q)[i] = q[i + 1]
    BY HeadTailProperties, EmptySeq
  <1> QED BY <1>1 DEF NoneOf

(* One and two transactions.                                               *)
LEMMA ShortMempools ==
    ASSUME NEW x, NEW y
    PROVE  /\ Append(<<>>, x) = <<x>> /\ Append(<<x>>, y) = <<x, y>>
           /\ Head(<<x>>) = x /\ Tail(<<x>>) = <<>>
           /\ Head(<<x, y>>) = x /\ Tail(<<x, y>>) = <<y>>
           /\ <<x>> # <<>> /\ <<x, y>> # <<>>
  <1>1. Append(<<>>, x) = <<x>>
    OBVIOUS
  <1>2. Append(<<x>>, y) = <<x, y>>
    <2>1. <<x>> \in Seq({x, y}) /\ <<x, y>> \in Seq({x, y})
      OBVIOUS
    <2>2. /\ Append(<<x>>, y) \in Seq({x, y}) /\ Len(Append(<<x>>, y)) = 2
          /\ Append(<<x>>, y)[1] = x /\ Append(<<x>>, y)[2] = y
      BY <2>1, AppendProperties
    <2>3. \A i \in 1 .. Len(Append(<<x>>, y)) : Append(<<x>>, y)[i] = <<x, y>>[i]
      BY <2>2
    <2> QED BY <2>1, <2>2, <2>3, SeqEqual
  <1>3. Head(<<x>>) = x
    OBVIOUS
  <1>4. Tail(<<x>>) = <<>>
    OBVIOUS
  <1>5. Head(<<x, y>>) = x
    OBVIOUS
  <1>6. Tail(<<x, y>>) = <<y>>
    OBVIOUS
  <1>7. <<x>> # <<>> /\ <<x, y>> # <<>>
    OBVIOUS
  <1> QED BY <1>1, <1>2, <1>3, <1>4, <1>5, <1>6, <1>7

LEMMA ShortMempoolsOf ==
    ASSUME NEW b, NEW c, b # c
    PROVE  /\ NoneOf(b, <<ApproveOf(c)>>) /\ ~NoneOf(b, <<ApproveOf(b)>>)
           /\ NoneOf(b, <<SwapOf(c)>>) /\ ~NoneOf(b, <<SwapOf(b)>>)
           /\ NoneOf(b, <<ApproveOf(c), SwapOf(c)>>)
           /\ ~NoneOf(b, <<ApproveOf(b), SwapOf(b)>>)
BY DEF NoneOf, ApproveOf, SwapOf

LEMMA BusyHas ==
    ASSUME NEW b \in Buybacks
    PROVE  Busy(b) <=> InCall(b) \/ ~NoneOf(b, mempool)
BY DEF Busy, NoneOf

-----------------------------------------------------------------------------
(* The token as the buyback uses it.                                       *)

LEMMA ApproveGrants ==
    ASSUME NEW t \in Token, NEW owner \in Accounts, NEW spender \in Accounts,
           NEW amount \in Nat
    PROVE  /\ Approve(t, owner, spender, amount) \in Token
           /\ Approve(t, owner, spender, amount).balanceOf = t.balanceOf
           /\ Approve(t, owner, spender, amount).allowance[owner][spender] = amount
  <1> DEFINE l == [t.allowance[owner] EXCEPT ![spender] = amount]
             m == [t.allowance EXCEPT ![owner] = l]
  <1>1. l \in [Accounts -> Nat] /\ l[spender] = amount
    BY DEF Token
  <1>2. Approve(t, owner, spender, amount) = [t EXCEPT !.allowance = m]
    BY DEF Approve
  <1> HIDE DEF l
  <1>3. m \in [Accounts -> [Accounts -> Nat]] /\ m[owner] = l
    BY <1>1 DEF Token
  <1> HIDE DEF m
  <1> QED BY <1>1, <1>2, <1>3 DEF Token

LEMMA TransferTyped ==
    ASSUME NEW t \in Token, NEW from \in Accounts, NEW to \in Accounts,
           NEW amount \in Nat, CanTransfer(t, from, amount)
    PROVE  Transfer(t, from, to, amount) \in Token
  <1> DEFINE b == [t.balanceOf EXCEPT ![from] = @ - amount]
             c == [b EXCEPT ![to] = @ + amount]
             u == [t EXCEPT !.balanceOf = b]
  <1>1. b \in [Accounts -> Nat]
    BY DEF Token, CanTransfer
  <1>2. u.balanceOf = b
    BY DEF Token
  <1>3. Transfer(t, from, to, amount) = [u EXCEPT !.balanceOf = c]
    BY <1>2 DEF Transfer
  <1> HIDE DEF b
  <1>4. c \in [Accounts -> Nat]
    BY <1>1
  <1>5. u \in Token
    BY <1>1 DEF Token
  <1> HIDE DEF c, u
  <1> QED BY <1>3, <1>4, <1>5 DEF Token

LEMMA PullTyped ==
    ASSUME NEW t \in Token, NEW spender \in Accounts, NEW from \in Accounts,
           NEW to \in Accounts, NEW amount \in Nat,
           CanTransferFrom(t, spender, from, amount)
    PROVE  TransferFrom(t, spender, from, to, amount) \in Token
  <1> DEFINE l == [t.allowance[from] EXCEPT ![spender] = @ - amount]
             m == [t.allowance EXCEPT ![from] = l]
             u == [t EXCEPT !.allowance = m]
  <1>1. l \in [Accounts -> Nat]
    BY DEF Token, CanTransferFrom
  <1>2. u = [t EXCEPT !.allowance[from][spender] = @ - amount]
    OBVIOUS
  <1> HIDE DEF l
  <1>3. m \in [Accounts -> [Accounts -> Nat]]
    BY <1>1 DEF Token
  <1> HIDE DEF m
  <1>4. u \in Token /\ u.balanceOf = t.balanceOf
    BY <1>3 DEF Token
  <1>5. CanTransfer(u, from, amount)
    BY <1>4 DEF CanTransfer, CanTransferFrom
  <1>6. TransferFrom(t, spender, from, to, amount) = Transfer(u, from, to, amount)
    BY <1>2 DEF TransferFrom
  <1> HIDE DEF u
  <1> QED BY <1>4, <1>5, <1>6, TransferTyped

LEMMA FirstToken == Mint(EmptyToken, Agent, Funds) \in Token
  <1> DEFINE b == [EmptyToken.balanceOf EXCEPT ![Agent] = @ + Funds]
             u == [EmptyToken EXCEPT !.balanceOf = b]
  <1>1. EmptyToken \in Token
    BY DEF EmptyToken, Token
  <1>2. b \in [Accounts -> Nat]
    BY <1>1, BuybackAssumption DEF Token
  <1>3. Mint(EmptyToken, Agent, Funds) = [u EXCEPT !.totalSupply = @ + Funds]
    BY DEF Mint
  <1> HIDE DEF b
  <1>4. u \in Token
    BY <1>1, <1>2 DEF Token
  <1> HIDE DEF u
  <1> QED BY <1>3, <1>4, BuybackAssumption DEF Token

LEMMA BuybackConstants ==
    /\ {Agent, Dex, Myx} \subseteq Accounts
    /\ \A b \in Buybacks : AmountIn[b] \in Nat
    /\ \A b \in Buybacks : ApproveOf(b) \in Tx /\ SwapOf(b) \in Tx
BY BuybackAssumption DEF ApproveOf, SwapOf, Tx

-----------------------------------------------------------------------------
(* Type correctness.                                                       *)

LEMMA BuybackInitTyped == BuybackInit => BuybackTypeOK
BY FirstToken DEF BuybackInit, BuybackTypeOK, Steps

LEMMA BuybackTypeStep ==
    ASSUME BuybackTypeOK, [BuybackNext]_buybackVars
    PROVE  BuybackTypeOK'
  <1> USE DEF BuybackTypeOK
  <1>1. ASSUME NEW b \in Buybacks, Call(b) PROVE BuybackTypeOK'
    BY <1>1 DEF Call, Go, Steps
  <1>2. ASSUME NEW b \in Buybacks, SendApprove(b) PROVE BuybackTypeOK'
    <2>1. mempool' = Append(mempool, ApproveOf(b))
      BY <1>2 DEF SendApprove, Send, ApproveOf
    <2>2. mempool' \in Seq(Tx)
      BY <2>1, SentOf, BuybackConstants
    <2> QED BY <1>2, <2>2 DEF SendApprove, Go, Steps
  <1>3. ASSUME NEW b \in Buybacks, SimulateSwap(b) PROVE BuybackTypeOK'
    BY <1>3 DEF SimulateSwap, Go, Steps
  <1>4. ASSUME NEW b \in Buybacks, SendSwap(b) PROVE BuybackTypeOK'
    <2>1. mempool' = Append(mempool, SwapOf(b))
      BY <1>4 DEF SendSwap, Send, SwapOf
    <2>2. mempool' \in Seq(Tx)
      BY <2>1, SentOf, BuybackConstants
    <2> QED BY <1>4, <2>2 DEF SendSwap, Go, Steps
  <1>5. ASSUME NEW b \in Buybacks, Receipt(b) PROVE BuybackTypeOK'
    BY <1>5 DEF Receipt, Go, Steps
  <1>6. ASSUME NEW b \in Buybacks, Fail(b) PROVE BuybackTypeOK'
    BY <1>6 DEF Fail, Go, Steps
  <1>7. ASSUME MineApprove PROVE BuybackTypeOK'
    <2>1. Head(mempool) \in Tx /\ Tail(mempool) \in Seq(Tx)
      BY <1>7, MinedOf DEF MineApprove
    <2>2. Head(mempool).of \in Buybacks
      BY <2>1 DEF Tx
    <2>3. token' \in Token
      BY <1>7, <2>2, ApproveGrants, BuybackConstants DEF MineApprove
    <2> QED BY <1>7, <2>1, <2>3 DEF MineApprove
  <1>8. ASSUME MineSwap PROVE BuybackTypeOK'
    <2>1. Head(mempool) \in Tx /\ Tail(mempool) \in Seq(Tx)
      BY <1>8, MinedOf DEF MineSwap
    <2>2. Head(mempool).of \in Buybacks
      BY <2>1 DEF Tx
    <2>3. token' \in Token
      BY <1>8, <2>2, PullTyped, BuybackConstants DEF MineSwap
    <2>4. receipt' \in [Buybacks -> {"none", "success", "reverted"}]
      BY <1>8, <2>2 DEF MineSwap
    <2> QED BY <1>8, <2>1, <2>3, <2>4 DEF MineSwap
  <1>9. ASSUME PayCollateral PROVE BuybackTypeOK'
    <2>1. token' \in Token
      BY <1>9, TransferTyped, BuybackConstants, BuybackAssumption DEF PayCollateral
    <2> QED BY <1>9, <2>1 DEF PayCollateral
  <1>10. ASSUME UNCHANGED buybackVars PROVE BuybackTypeOK'
    BY <1>10 DEF buybackVars
  <1> QED
    BY <1>1, <1>2, <1>3, <1>4, <1>5, <1>6, <1>7, <1>8, <1>9, <1>10
    DEF BuybackNext, Awaits, Mine

(* Whatever approvals, swaps and collaterals compete for the account, its  *)
(* balances and allowances stay natural numbers and the mempool holds      *)
(* transactions of the buybacks only.                                      *)
THEOREM BuybackTypeCorrect == BuybackSpec => []BuybackTypeOK
  <1>1. BuybackTypeOK /\ [BuybackNext]_buybackVars => BuybackTypeOK'
    BY BuybackTypeStep
  <1> QED BY <1>1, BuybackInitTyped, PTL DEF BuybackSpec

-----------------------------------------------------------------------------
(* An undisturbed buyback is swapped.                                      *)

(* While another is at it a clean one has nothing in the mempool, and so   *)
(* stays as it is.                                                         *)
LEMMA OthersStay ==
    ASSUME NEW b, Undisturbed(b), ~InCall(b), NoneOf(b, mempool),
           NoneOf(b, mempool'), pc'[b] = pc[b], receipt'[b] = receipt[b]
    PROVE  Undisturbed(b)'
  <1>1. ~SwapComes(b) /\ mempool # <<ApproveOf(b)>>
    BY ShortMempoolsOf DEF SwapComes, NoneOf, ApproveOf, SwapOf
  <1>2. pc[b] \notin {"called", "approved", "simulated", "sent"}
    BY DEF InCall
  <1> QED BY <1>1, <1>2 DEF Undisturbed, Settled

(* A step of a buyback that is at it, or the mining of what it sent.       *)
LEMMA StepOf ==
    ASSUME BuybackInv, BuybackTypeOK', NEW c \in Buybacks, Busy(c),
           pc'[c] # "idle", clean' = clean,
           \A b \in Buybacks \ {c} :
               /\ pc'[b] = pc[b] /\ receipt'[b] = receipt[b]
               /\ NoneOf(b, mempool) => NoneOf(b, mempool'),
           c \in clean => Undisturbed(c)'
    PROVE  BuybackInv'
  <1> USE DEF BuybackInv
  <1>1. Uncalled'
    BY DEF Uncalled
  <1>2. ASSUME NEW b \in Buybacks, Busy(b)' PROVE Busy(b)
    <2>1. CASE b = c
      BY <2>1
    <2>2. CASE b # c
      <3>1. InCall(b)' => InCall(b)
        BY <2>2 DEF InCall
      <3>2. (~NoneOf(b, mempool))' => ~NoneOf(b, mempool)
        BY <2>2
      <3> QED BY <1>2, <3>1, <3>2 DEF Busy, NoneOf
    <2> QED BY <2>1, <2>2
  <1>3. Quiet'
    BY <1>2 DEF Quiet, BuybackTypeOK
  <1>4. ASSUME NEW b \in clean' PROVE Undisturbed(b)'
    <2>1. CASE b = c
      BY <1>4, <2>1
    <2>2. CASE b # c
      <3>1. b \in Buybacks /\ b \in clean /\ ~Busy(b)
        BY <1>4, <2>2 DEF Quiet, BuybackTypeOK
      <3>2. ~InCall(b) /\ NoneOf(b, mempool)
        BY <3>1, BusyHas
      <3> QED BY <2>2, <3>1, <3>2, OthersStay
    <2> QED BY <2>1, <2>2
  <1> QED BY <1>1, <1>3, <1>4

LEMMA BuybackInitInv == BuybackInit => BuybackInv
  <1> SUFFICES ASSUME BuybackInit PROVE BuybackInv
    OBVIOUS
  <1>1. \A b \in Buybacks : NoneOf(b, mempool)
    BY NoneOfNothing DEF BuybackInit
  <1>2. \A b \in Buybacks : ~Busy(b)
    BY <1>1, BusyHas DEF BuybackInit, InCall
  <1> QED BY <1>1, <1>2, BuybackInitTyped
      DEF BuybackInit, BuybackInv, Quiet, Uncalled, Undisturbed

(* A call is clean only if nobody is at it, and spoils those who are.      *)
LEMMA CallStep ==
    ASSUME BuybackInv, BuybackTypeOK', NEW c \in Buybacks, Call(c)
    PROVE  BuybackInv'
  <1> DEFINE others == {d \in Buybacks \ {c} : Busy(d)}
  <1>1. /\ pc[c] = "idle" /\ pc' = [pc EXCEPT ![c] = "called"]
        /\ UNCHANGED <<mempool, receipt, token>>
        /\ clean' = IF others = {} THEN clean ELSE clean \ (others \cup {c})
    BY DEF Call, Go
  <1>2. /\ pc'[c] = "called"
        /\ \A b \in Buybacks \ {c} : pc'[b] = pc[b]
        /\ BuybackTypeOK /\ Quiet /\ Uncalled /\ clean \subseteq Buybacks
    BY <1>1 DEF BuybackInv, BuybackTypeOK
  <1>3. receipt[c] = "none" /\ NoneOf(c, mempool)
    BY <1>1, <1>2 DEF Uncalled
  <1>4. Uncalled'
    BY <1>1, <1>2 DEF Uncalled
  <1>5. ASSUME NEW b \in Buybacks \ {c} PROVE Busy(b)' <=> Busy(b)
    BY <1>1, <1>2 DEF Busy, InCall
  <1>6. \A b \in clean' : b \in clean /\ (b # c => b \notin others)
    BY <1>1
  <1>7. c \in clean' => others = {}
    BY <1>1
  <1>8. Quiet'
    <2> SUFFICES ASSUME NEW b \in clean', NEW d \in Buybacks, b # d,
                        Busy(b)', Busy(d)'
                 PROVE  FALSE
      BY DEF Quiet
    <2>1. CASE b = c
      BY <2>1, <1>5, <1>7
    <2>2. CASE b # c
      BY <2>2, <1>2, <1>5, <1>6
    <2> QED BY <2>1, <2>2
  <1>9. ASSUME NEW b \in clean' PROVE Undisturbed(b)'
    <2>1. CASE b = c
      <3>1. \A d \in Buybacks : NoneOf(d, mempool)
        BY <2>1, <1>3, <1>7, <1>9, BusyHas
      <3>2. mempool = <<>>
        <4> SUFFICES ASSUME mempool # <<>> PROVE FALSE
          OBVIOUS
        <4>1. Head(mempool) \in Tx /\ ~NoneOf(Head(mempool).of, mempool)
          BY <1>2, MinedOf DEF BuybackTypeOK
        <4> QED BY <3>1, <4>1 DEF Tx
      <3> QED BY <2>1, <3>2, <1>1, <1>2, <1>3 DEF Undisturbed
    <2>2. CASE b # c
      <3>1. b \in Buybacks /\ Undisturbed(b) /\ ~Busy(b)
        BY <2>2, <1>2, <1>6, <1>9 DEF BuybackInv
      <3>2. ~InCall(b) /\ NoneOf(b, mempool)
        BY <3>1, BusyHas
      <3> QED BY <2>2, <3>1, <3>2, <1>1, <1>2, OthersStay
    <2> QED BY <2>1, <2>2
  <1> QED BY <1>4, <1>8, <1>9 DEF BuybackInv

(* A collateral spoils every buyback that is under way.                    *)
LEMMA CollateralStep ==
    ASSUME BuybackInv, BuybackTypeOK', PayCollateral
    PROVE  BuybackInv'
  <1>1. /\ UNCHANGED <<pc, mempool, receipt>>
        /\ clean' = clean \ {b \in Buybacks : Busy(b)}
        /\ BuybackTypeOK /\ Quiet /\ Uncalled /\ clean \subseteq Buybacks
    BY DEF PayCollateral, BuybackInv, BuybackTypeOK
  <1>2. Uncalled'
    BY <1>1 DEF Uncalled
  <1>3. ASSUME NEW b \in Buybacks PROVE Busy(b)' <=> Busy(b)
    BY <1>1 DEF Busy, InCall
  <1>4. Quiet'
    BY <1>1, <1>3 DEF Quiet
  <1>5. ASSUME NEW b \in clean' PROVE Undisturbed(b)'
    <2>1. b \in Buybacks /\ Undisturbed(b) /\ ~Busy(b)
      BY <1>1, <1>5 DEF BuybackInv
    <2> QED BY <2>1, <1>1, BusyHas, OthersStay
  <1> QED BY <1>2, <1>4, <1>5 DEF BuybackInv

(* The awaits of the buyback itself.                                       *)
LEMMA AwaitStep ==
    ASSUME BuybackInv, BuybackTypeOK', NEW c \in Buybacks, Awaits(c)
    PROVE  BuybackInv'
  <1>1. /\ BuybackTypeOK /\ clean \subseteq Buybacks
        /\ ApproveOf(c) \in Tx /\ SwapOf(c) \in Tx
        /\ c \in clean => Undisturbed(c)
    BY BuybackConstants DEF BuybackInv, BuybackTypeOK
  <1>2. ASSUME SendApprove(c) PROVE BuybackInv'
    <2>1. /\ pc[c] = "called" /\ pc' = [pc EXCEPT ![c] = "approved"]
          /\ mempool' = Append(mempool, ApproveOf(c))
          /\ UNCHANGED <<receipt, token, clean>>
      BY <1>2 DEF SendApprove, Send, ApproveOf, Go
    <2>2. pc'[c] = "approved" /\ Busy(c)
      BY <1>1, <2>1 DEF BuybackTypeOK, Busy, InCall
    <2>3. \A b \in Buybacks \ {c} : NoneOf(b, mempool) => NoneOf(b, mempool')
      BY <1>1, <2>1, SentOf DEF BuybackTypeOK, ApproveOf
    <2>4. ASSUME c \in clean PROVE Undisturbed(c)'
      <3>1. mempool = <<>> /\ receipt[c] = "none"
        BY <1>1, <2>1, <2>4 DEF Undisturbed
      <3>2. mempool' = <<ApproveOf(c)>>
        BY <2>1, <3>1, ShortMempools
      <3> QED BY <2>1, <2>2, <3>1, <3>2 DEF Undisturbed, Approved, ApproveOf
    <2> QED BY <1>1, <2>1, <2>2, <2>3, <2>4, StepOf DEF BuybackTypeOK
  <1>3. ASSUME SimulateSwap(c) PROVE BuybackInv'
    <2>1. /\ pc[c] = "approved" /\ pc' = [pc EXCEPT ![c] = "simulated"]
          /\ Paid(c)
          /\ UNCHANGED <<mempool, receipt, token, clean>>
      BY <1>3 DEF SimulateSwap, Go, CanTransferFrom, Paid
    <2>2. pc'[c] = "simulated" /\ Busy(c)
      BY <1>1, <2>1 DEF BuybackTypeOK, Busy, InCall
    <2>3. ASSUME c \in clean PROVE Undisturbed(c)'
      <3>1. Approved(c)
        BY <1>1, <2>1, <2>3 DEF Undisturbed
      <3> QED
        BY <2>1, <2>2, <3>1 DEF Undisturbed, Approved, Granted, Paid, ApproveOf
    <2> QED BY <1>1, <2>1, <2>2, <2>3, StepOf DEF BuybackTypeOK
  <1>4. ASSUME SendSwap(c) PROVE BuybackInv'
    <2>1. /\ pc[c] = "simulated" /\ pc' = [pc EXCEPT ![c] = "sent"]
          /\ mempool' = Append(mempool, SwapOf(c))
          /\ UNCHANGED <<receipt, token, clean>>
      BY <1>4 DEF SendSwap, Send, SwapOf, Go
    <2>2. pc'[c] = "sent" /\ Busy(c)
      BY <1>1, <2>1 DEF BuybackTypeOK, Busy, InCall
    <2>3. \A b \in Buybacks \ {c} : NoneOf(b, mempool) => NoneOf(b, mempool')
      BY <1>1, <2>1, SentOf DEF BuybackTypeOK, SwapOf
    <2>4. ASSUME c \in clean PROVE Undisturbed(c)'
      <3>1. Approved(c) /\ Paid(c)
        BY <1>1, <2>1, <2>4 DEF Undisturbed
      <3>2. \/ mempool' = <<ApproveOf(c), SwapOf(c)>>
            \/ mempool' = <<SwapOf(c)>> /\ Granted(c)
        BY <2>1, <3>1, ShortMempools DEF Approved
      <3>3. SwapComes(c)'
        BY <2>1, <3>1, <3>2
           DEF SwapComes, Approved, Granted, Paid, ApproveOf, SwapOf
      <3> QED BY <2>2, <3>3 DEF Undisturbed
    <2> QED BY <1>1, <2>1, <2>2, <2>3, <2>4, StepOf DEF BuybackTypeOK
  <1>5. ASSUME Receipt(c) PROVE BuybackInv'
    <2>1. /\ pc[c] = "sent" /\ pc' = [pc EXCEPT ![c] = "done"]
          /\ receipt[c] # "none"
          /\ UNCHANGED <<mempool, receipt, token, clean>>
      BY <1>5 DEF Receipt, Go
    <2>2. pc'[c] = "done" /\ Busy(c)
      BY <1>1, <2>1 DEF BuybackTypeOK, Busy, InCall
    <2>3. ASSUME c \in clean PROVE Undisturbed(c)'
      <3>1. Settled(c) /\ receipt[c] = "success"
        BY <1>1, <2>1, <2>3 DEF Undisturbed, SwapComes
      <3> QED BY <2>1, <2>2, <3>1 DEF Undisturbed, Settled, NoneOf
    <2> QED BY <1>1, <2>1, <2>2, <2>3, StepOf DEF BuybackTypeOK
  <1>6. ASSUME Fail(c) PROVE BuybackInv'
    <2>1. /\ InCall(c) /\ pc' = [pc EXCEPT ![c] = "failed"]
          /\ receipt[c] = "none"
          /\ UNCHANGED <<mempool, receipt, token, clean>>
      BY <1>6 DEF Fail, Go
    <2>2. pc'[c] = "failed" /\ Busy(c)
      BY <1>1, <2>1 DEF BuybackTypeOK, Busy
    <2>3. ASSUME c \in clean PROVE Undisturbed(c)'
      <3>1. \/ mempool = <<>>
            \/ mempool = <<ApproveOf(c)>>
            \/ SwapComes(c)
        BY <1>1, <2>1, <2>3 DEF InCall, Undisturbed, Approved
      <3>2. mempool = <<>> => NoneOf(c, mempool)
        BY NoneOfNothing
      <3> QED BY <2>1, <2>2, <3>1, <3>2
              DEF Undisturbed, Settled, SwapComes, Granted, Paid, NoneOf,
                  ApproveOf, SwapOf
    <2> QED BY <1>1, <2>1, <2>2, <2>3, StepOf DEF BuybackTypeOK
  <1> QED BY <1>2, <1>3, <1>4, <1>5, <1>6 DEF Awaits

(* The chain takes the approval, then the swap it allows.                  *)
LEMMA MineStep ==
    ASSUME BuybackInv, BuybackTypeOK', Mine
    PROVE  BuybackInv'
  <1> DEFINE c == Head(mempool).of
  <1>1. /\ BuybackTypeOK /\ Uncalled /\ mempool # <<>> /\ mempool' = Tail(mempool)
        /\ UNCHANGED <<pc, clean>>
    BY DEF Mine, MineApprove, MineSwap, BuybackInv
  <1>2. /\ Head(mempool) \in Tx /\ c \in Buybacks /\ ~NoneOf(c, mempool)
        /\ \A b : NoneOf(b, mempool) => NoneOf(b, mempool')
    BY <1>1, MinedOf DEF BuybackTypeOK, Tx
  <1>3. PICK d \in Buybacks : d = c
    BY <1>2
  <1>4. Busy(d) /\ pc'[d] # "idle"
    BY <1>1, <1>2, <1>3, BusyHas DEF Uncalled
  <1>5. d \in clean => Undisturbed(d)
    BY DEF BuybackInv
  <1>6. ApproveOf(d) # SwapOf(d)
    BY DEF ApproveOf, SwapOf
  <1>7. ASSUME d \in clean
        PROVE  \/ /\ receipt[d] = "none" /\ mempool = <<ApproveOf(d)>>
                  /\ pc[d] \in {"approved", "simulated", "failed"}
                  /\ pc[d] = "simulated" => Paid(d)
               \/ SwapComes(d) /\ pc[d] \in {"sent", "failed"}
    <2>1. mempool # <<>> /\ ~Settled(d)
      BY <1>1, <1>2, <1>3 DEF Settled
    <2>2. pc[d] \in {"called", "approved", "simulated", "sent", "done", "failed"}
      BY <1>1, <1>2, <1>3 DEF Uncalled, BuybackTypeOK, Steps
    <2> QED BY <1>5, <1>7, <2>1, <2>2 DEF Undisturbed, Approved
  <1> HIDE DEF c
  <1>8. ASSUME MineApprove PROVE BuybackInv'
    <2>1. /\ Head(mempool).kind = "approve" /\ UNCHANGED receipt
          /\ token' = Approve(token, Agent, Dex, AmountIn[d])
      BY <1>3, <1>8 DEF MineApprove, c
    <2>2. token'.balanceOf = token.balanceOf /\ Granted(d)'
      <3>1. /\ token \in Token /\ AmountIn[d] \in Nat
            /\ Agent \in Accounts /\ Dex \in Accounts
        BY <1>1, BuybackConstants DEF BuybackTypeOK
      <3>2. /\ token'.balanceOf = token.balanceOf
            /\ token'.allowance[Agent][Dex] = AmountIn[d]
        BY <2>1, <3>1, ApproveGrants
      <3> QED BY <3>1, <3>2 DEF Granted
    <2>3. ASSUME d \in clean PROVE Undisturbed(d)'
      <3>1. Head(mempool) # SwapOf(d)
        BY <2>1 DEF SwapOf
      <3>2. CASE mempool = <<ApproveOf(d)>>
        <4>1. mempool' = <<>> /\ receipt'[d] = "none"
          BY <1>1, <1>6, <1>7, <2>1, <2>3, <3>2, ShortMempools DEF SwapComes
        <4>2. Settled(d)'
          BY <4>1, NoneOfNothing DEF Settled
        <4>3. /\ pc'[d] \in {"approved", "simulated", "failed"}
              /\ pc'[d] = "simulated" => Paid(d)'
          BY <1>1, <1>6, <1>7, <2>2, <2>3, <3>2, ShortMempools DEF SwapComes, Paid
        <4> QED BY <2>2, <4>1, <4>2, <4>3 DEF Undisturbed, Approved
      <3>3. CASE mempool # <<ApproveOf(d)>>
        <4>1. /\ receipt'[d] = "none" /\ Paid(d) /\ mempool = <<ApproveOf(d), SwapOf(d)>>
              /\ pc'[d] \in {"sent", "failed"}
          BY <1>1, <1>7, <2>1, <2>3, <3>1, <3>3, ShortMempools DEF SwapComes
        <4>2. mempool' = <<SwapOf(d)>> /\ Paid(d)'
          BY <1>1, <2>2, <4>1, ShortMempools DEF Paid
        <4>3. SwapComes(d)'
          BY <2>2, <4>1, <4>2 DEF SwapComes, SwapOf
        <4> QED BY <4>1, <4>3 DEF Undisturbed
      <3> QED BY <3>2, <3>3
    <2> QED BY <1>1, <1>2, <1>4, <2>1, <2>3, StepOf DEF BuybackTypeOK
  <1>9. ASSUME MineSwap PROVE BuybackInv'
    <2> DEFINE ok == CanTransferFrom(token, Dex, Agent, AmountIn[d])
    <2>1. /\ Head(mempool).kind = "swap"
          /\ receipt' = [receipt EXCEPT ![d] = IF ok THEN "success" ELSE "reverted"]
      BY <1>3, <1>9 DEF MineSwap, c
    <2>2. \A b \in Buybacks \ {d} : receipt'[b] = receipt[b]
      BY <1>1, <2>1 DEF BuybackTypeOK
    <2>3. ASSUME d \in clean PROVE Undisturbed(d)'
      <3>1. Head(mempool) # ApproveOf(d)
        BY <2>1 DEF ApproveOf
      <3>2. /\ Paid(d) /\ Granted(d) /\ mempool = <<SwapOf(d)>>
            /\ pc'[d] \in {"sent", "failed"}
        BY <1>1, <1>7, <2>3, <3>1, ShortMempools DEF SwapComes
      <3>3. receipt'[d] = "success" /\ mempool' = <<>>
        BY <1>1, <2>1, <3>2, ShortMempools
           DEF BuybackTypeOK, CanTransferFrom, Paid, Granted
      <3>4. Settled(d)'
        BY <3>3, NoneOfNothing DEF Settled
      <3> QED BY <3>2, <3>3, <3>4 DEF Undisturbed
    <2> QED BY <1>1, <1>2, <1>4, <2>2, <2>3, StepOf DEF BuybackTypeOK
  <1> QED BY <1>8, <1>9 DEF Mine

LEMMA BuybackStep ==
    ASSUME BuybackInv, [BuybackNext]_buybackVars PROVE BuybackInv'
  <1>1. BuybackTypeOK /\ BuybackTypeOK'
    BY BuybackTypeStep DEF BuybackInv
  <1>2. ASSUME UNCHANGED buybackVars PROVE BuybackInv'
    BY <1>1, <1>2
       DEF buybackVars, BuybackInv, Quiet, Uncalled, Undisturbed, Busy, InCall,
           NoneOf, Approved, SwapComes, Settled, Paid, Granted, ApproveOf, SwapOf
  <1> QED BY <1>1, <1>2, CallStep, AwaitStep, MineStep, CollateralStep
          DEF BuybackNext

(* A buyback beside which nothing of the same account ran is reported done *)
(* only if it was swapped, and the chain never reverts its swap, for any   *)
(* number of other buybacks, whatever the amounts, the funds and the       *)
(* collaterals, and whichever awaits threw.                                *)
THEOREM AloneTheorem == BuybackSpec => []AloneDoneIsSwapped
  <1>1. BuybackInv /\ [BuybackNext]_buybackVars => BuybackInv'
    BY BuybackStep
  <1>2. BuybackInv => AloneDoneIsSwapped
    <2> SUFFICES ASSUME BuybackInv, NEW b \in clean
                 PROVE  (pc[b] = "done" => receipt[b] = "success")
                        /\ receipt[b] # "reverted"
      BY DEF AloneDoneIsSwapped
    <2>1. Undisturbed(b) /\ pc[b] \in Steps /\ (pc[b] = "idle" => receipt[b] = "none")
      BY DEF BuybackInv, BuybackTypeOK, Uncalled
    <2> QED BY <2>1 DEF Undisturbed, Steps, Approved, SwapComes, Settled
  <1> QED BY <1>1, <1>2, BuybackInitInv, PTL DEF BuybackSpec

-----------------------------------------------------------------------------
(* Every swap is sent once, and is waited for until the chain has had it.  *)

SwapSent(b, q) == \E i \in DOMAIN q : q[i] = SwapOf(b)

SentTwice(b, q) ==
    \E i, j \in DOMAIN q : i # j /\ q[i] = SwapOf(b) /\ q[j] = SwapOf(b)

(* What EveryBuybackEnds rests on: the receipt a call waits for is there   *)
(* or is to come; and no swap is mined twice.                              *)
AwaitedIsSent ==
    \A b \in Buybacks :
        /\ pc[b] = "sent" => receipt[b] # "none" \/ SwapSent(b, mempool)
        /\ ~SentTwice(b, mempool)
        /\ SwapSent(b, mempool) => receipt[b] = "none"

BeforeSending ==
    \A b \in Buybacks : pc[b] \in {"idle", "called", "approved", "simulated"} =>
        receipt[b] = "none" /\ ~SwapSent(b, mempool)

AwaitedInv == BuybackTypeOK /\ AwaitedIsSent /\ BeforeSending

LEMMA SentAtEnd ==
    ASSUME NEW q \in Seq(Tx), NEW x \in Tx, NEW b
    PROVE  /\ SwapSent(b, Append(q, x)) <=> SwapSent(b, q) \/ x = SwapOf(b)
           /\ SentTwice(b, Append(q, x)) =>
                 SentTwice(b, q) \/ (SwapSent(b, q) /\ x = SwapOf(b))
  <1>1. /\ DOMAIN Append(q, x) = 1 .. (Len(q) + 1)
        /\ \A i \in 1 .. Len(q) : Append(q, x)[i] = q[i]
        /\ Append(q, x)[Len(q) + 1] = x
        /\ DOMAIN q = 1 .. Len(q) /\ Len(q) \in Nat
    BY AppendProperties
  <1>2. \A i \in 1 .. (Len(q) + 1) : i \in 1 .. Len(q) \/ i = Len(q) + 1
    BY <1>1
  <1>3. \A i \in 1 .. Len(q) : i \in 1 .. (Len(q) + 1)
    BY <1>1
  <1>4. Len(q) + 1 \in 1 .. (Len(q) + 1)
    BY <1>1
  <1> DEFINE n == Len(q)
             all == Append(q, x)
  <1> HIDE DEF n, all
  <1> QED BY <1>1, <1>2, <1>3, <1>4 DEF SwapSent, SentTwice

LEMMA SentAtHead ==
    ASSUME NEW q \in Seq(Tx), q # <<>>
    PROVE  \A b : /\ SwapSent(b, q) <=> SwapSent(b, Tail(q)) \/ Head(q) = SwapOf(b)
                  /\ SentTwice(b, Tail(q)) => SentTwice(b, q)
                  /\ Head(q) = SwapOf(b) /\ ~SentTwice(b, q) =>
                        ~SwapSent(b, Tail(q))
  <1>1. /\ Head(q) = q[1] /\ 1 \in DOMAIN q
        /\ DOMAIN Tail(q) = 1 .. (Len(q) - 1)
        /\ DOMAIN q = 1 .. Len(q) /\ Len(q) \in Nat \ {0}
        /\ \A i \in 1 .. (Len(q) - 1) : Tail(q)[i] = q[i + 1]
    BY HeadTailProperties, EmptySeq
  <1>2. \A i \in DOMAIN Tail(q) : /\ i + 1 \in DOMAIN q /\ i + 1 # 1
                                  /\ Tail(q)[i] = q[i + 1]
    BY <1>1
  <1>3. \A i \in DOMAIN q : i # 1 => /\ i - 1 \in DOMAIN Tail(q)
                                    /\ Tail(q)[i - 1] = q[i]
    <2> SUFFICES ASSUME NEW i \in DOMAIN q, i # 1
                 PROVE  i - 1 \in DOMAIN Tail(q) /\ Tail(q)[i - 1] = q[i]
      OBVIOUS
    <2>1. i - 1 \in 1 .. (Len(q) - 1) /\ (i - 1) + 1 = i
      BY <1>1
    <2> QED BY <1>1, <2>1
  <1>4. \A i, j \in DOMAIN Tail(q) : i # j => i + 1 # j + 1
    BY <1>1
  <1> SUFFICES ASSUME NEW b
               PROVE  /\ SwapSent(b, q) <=> SwapSent(b, Tail(q)) \/ Head(q) = SwapOf(b)
                      /\ SentTwice(b, Tail(q)) => SentTwice(b, q)
                      /\ Head(q) = SwapOf(b) /\ ~SentTwice(b, q) =>
                            ~SwapSent(b, Tail(q))
    OBVIOUS
  <1>5. SwapSent(b, q) <=> SwapSent(b, Tail(q)) \/ Head(q) = SwapOf(b)
    BY <1>1, <1>2, <1>3 DEF SwapSent
  <1>6. SentTwice(b, Tail(q)) => SentTwice(b, q)
    BY <1>2, <1>4 DEF SentTwice
  <1>7. Head(q) = SwapOf(b) /\ SwapSent(b, Tail(q)) => SentTwice(b, q)
    BY <1>1, <1>2 DEF SentTwice, SwapSent
  <1> QED BY <1>5, <1>6, <1>7

LEMMA KindsApart ==
    \A b, c : /\ SwapOf(b) = SwapOf(c) => b = c
              /\ ApproveOf(b) # SwapOf(c)
  BY DEF SwapOf, ApproveOf

LEMMA AwaitedStep ==
    ASSUME AwaitedInv, [BuybackNext]_buybackVars
    PROVE  AwaitedIsSent' /\ BeforeSending'
  <1> DEFINE Ok == AwaitedIsSent' /\ BeforeSending'
  <1>0. /\ pc \in [Buybacks -> Steps] /\ mempool \in Seq(Tx)
        /\ receipt \in [Buybacks -> {"none", "success", "reverted"}]
    BY DEF AwaitedInv, BuybackTypeOK
  <1>1. ASSUME NEW b \in Buybacks, NEW to, Go(b, to), UNCHANGED <<mempool, receipt>>,
               to \in {"called", "simulated"} =>
                  pc[b] \in {"idle", "called", "approved", "simulated"},
               to \notin {"idle", "approved", "sent"}
        PROVE  Ok
    <2>1. \A c \in Buybacks : pc'[c] = IF c = b THEN to ELSE pc[c]
      BY <1>0, <1>1 DEF Go
    <2> QED BY <1>1, <2>1 DEF AwaitedInv, AwaitedIsSent, BeforeSending
  <1>2. ASSUME NEW b \in Buybacks, Call(b) PROVE Ok
    BY <1>1, <1>2 DEF Call
  <1>3. ASSUME NEW b \in Buybacks, SimulateSwap(b) \/ Receipt(b) \/ Fail(b) PROVE Ok
    BY <1>1, <1>3 DEF SimulateSwap, Receipt, Fail
  <1>4. ASSUME NEW b \in Buybacks, SendApprove(b) PROVE Ok
    <2>1. /\ mempool' = Append(mempool, ApproveOf(b)) /\ receipt' = receipt
          /\ pc[b] = "called"
          /\ \A c \in Buybacks : pc'[c] = IF c = b THEN "approved" ELSE pc[c]
      BY <1>0, <1>4 DEF SendApprove, Send, ApproveOf, Go
    <2>2. \A c : /\ SwapSent(c, mempool') <=> SwapSent(c, mempool)
                 /\ SentTwice(c, mempool') => SentTwice(c, mempool)
      BY <1>0, <2>1, SentAtEnd, KindsApart, BuybackConstants
    <2> QED BY <2>1, <2>2 DEF AwaitedInv, AwaitedIsSent, BeforeSending
  <1>5. ASSUME NEW b \in Buybacks, SendSwap(b) PROVE Ok
    <2>1. /\ mempool' = Append(mempool, SwapOf(b)) /\ receipt' = receipt
          /\ pc[b] = "simulated"
          /\ \A c \in Buybacks : pc'[c] = IF c = b THEN "sent" ELSE pc[c]
      BY <1>0, <1>5 DEF SendSwap, Send, SwapOf, Go
    <2>2. \A c : /\ SwapSent(c, mempool') <=> SwapSent(c, mempool) \/ c = b
                 /\ SentTwice(c, mempool') =>
                       SentTwice(c, mempool) \/ (SwapSent(c, mempool) /\ c = b)
      BY <1>0, <2>1, SentAtEnd, KindsApart, BuybackConstants
    <2>3. receipt[b] = "none" /\ ~SwapSent(b, mempool)
      BY <2>1 DEF AwaitedInv, BeforeSending
    <2> QED BY <2>1, <2>2, <2>3 DEF AwaitedInv, AwaitedIsSent, BeforeSending
  <1>6. ASSUME MineApprove PROVE Ok
    <2>1. /\ mempool # <<>> /\ mempool' = Tail(mempool)
          /\ Head(mempool).kind = "approve" /\ pc' = pc /\ receipt' = receipt
      BY <1>6 DEF MineApprove
    <2>2. \A b : Head(mempool) # SwapOf(b)
      BY <2>1 DEF SwapOf
    <2>3. \A b : /\ SwapSent(b, mempool') <=> SwapSent(b, mempool)
                 /\ SentTwice(b, mempool') => SentTwice(b, mempool)
      BY <1>0, <2>1, <2>2, SentAtHead
    <2> QED BY <2>1, <2>3 DEF AwaitedInv, AwaitedIsSent, BeforeSending
  <1>7. ASSUME MineSwap PROVE Ok
    <2>1. /\ mempool # <<>> /\ mempool' = Tail(mempool) /\ pc' = pc
          /\ Head(mempool).kind = "swap"
      BY <1>7 DEF MineSwap
    <2>2. PICK b \in Buybacks : Head(mempool) = SwapOf(b)
      <3>1. Head(mempool) \in Tx
        BY <1>0, <2>1, MinedOf
      <3> QED BY <2>1, <3>1 DEF Tx, SwapOf
    <2>3. PICK r \in {"success", "reverted"} : receipt' = [receipt EXCEPT ![b] = r]
      <3>1. Head(mempool).of = b
        BY <2>2 DEF SwapOf
      <3> QED BY <1>7, <3>1 DEF MineSwap
    <2>4. \A c \in Buybacks : receipt'[c] = IF c = b THEN r ELSE receipt[c]
      BY <1>0, <2>3
    <2>5. \A c : /\ SwapSent(c, mempool) <=> SwapSent(c, mempool') \/ c = b
                 /\ SentTwice(c, mempool') => SentTwice(c, mempool)
      BY <1>0, <2>1, <2>2, SentAtHead, KindsApart
    <2>6. ~SwapSent(b, mempool')
      BY <1>0, <2>1, <2>2, SentAtHead DEF AwaitedInv, AwaitedIsSent
    <2> QED BY <2>1, <2>4, <2>5, <2>6 DEF AwaitedInv, AwaitedIsSent, BeforeSending
  <1>8. ASSUME PayCollateral \/ UNCHANGED buybackVars PROVE Ok
    <2>1. UNCHANGED <<pc, mempool, receipt>>
      BY <1>8 DEF PayCollateral, buybackVars
    <2> QED BY <2>1 DEF AwaitedInv, AwaitedIsSent, BeforeSending, SwapSent, SentTwice
  <1> QED BY <1>2, <1>3, <1>4, <1>5, <1>6, <1>7, <1>8 DEF BuybackNext, Awaits, Mine

(* The safety part of EveryBuybackEnds: however the account's transactions *)
(* queue up, the swap whose receipt executeBuyback waits for is mined or   *)
(* in the mempool, once, and none is ever mined again.                     *)
THEOREM AwaitedTheorem == BuybackSpec => []AwaitedIsSent
  <1>1. BuybackInit => AwaitedInv
    BY BuybackInitTyped
       DEF BuybackInit, AwaitedInv, AwaitedIsSent, BeforeSending, SwapSent, SentTwice
  <1>2. AwaitedInv /\ [BuybackNext]_buybackVars => AwaitedInv'
    BY AwaitedStep, BuybackTypeStep DEF AwaitedInv
  <1>3. AwaitedInv => AwaitedIsSent
    BY DEF AwaitedInv
  <1> QED BY <1>1, <1>2, <1>3, PTL DEF BuybackSpec

-----------------------------------------------------------------------------
(* The scheduler.                                                          *)

Intervals == {t \in DOMAIN timers : timers[t].repeats}

(* What KeepsTrading rests on: after one call of the service's stop, too,  *)
(* an agent that is up has an interval that goes on.                       *)
IntervalGoesOn ==
    stops <= 1 /\ (\E a \in Agents : phase[a] = "up") =>
        \E t \in Intervals : timers[t].live

(* What AloneIsServed rests on: the timers serve an agent that is up if    *)
(* no other was ever started.                                              *)
Lonely(a) == \A b \in Agents \ {a} : phase[b] = "down"

TimersServeTheLonely ==
    \A a \in Agents : phase[a] = "up" /\ Lonely(a) => runtime = a

(* A start has set one interval after its first initialize, and two after  *)
(* its second ...                                                          *)
IntervalsSet ==
    \A a \in Agents :
        /\ phase[a] \in {"services", "plugin"} => Intervals # {}
        /\ phase[a] \in {"rest", "up", "stopped"} =>
              \E t, u \in Intervals : t # u

(* ... of which each call of stop clears one at most.                      *)
ClearedOne ==
    \A t, u \in Intervals :
        ~timers[t].live /\ ~timers[u].live /\ stops <= 1 => t = u /\ stops = 1

(* An agent that has reached the service leaves its runtime there, and no  *)
(* timer is set before.                                                    *)
Reached == {a \in Agents : phase[a] \in {"service", "services", "plugin", "rest",
                                         "up", "stopped"}}

KeepsRuntime ==
    /\ \A a \in Reached : Lonely(a) => runtime = a
    /\ runtime = None => Reached = {} /\ timers = <<>>

(* The starts under way count towards the bound.                           *)
StartsUnderWay == {a \in Agents : phase[a] = "opening"}

StartsCounted == starts + Cardinality(StartsUnderWay) <= MaxStarts

SchedulerInv ==
    /\ SchedulerTypeOK /\ StartsCounted
    /\ IntervalsSet /\ ClearedOne /\ KeepsRuntime

-----------------------------------------------------------------------------
(* What becomes of the timers.                                             *)

LEMMA ArmFacts ==
    ASSUME timers \in Seq(Timer), timers' = ArmTimers
    PROVE  /\ timers' \in Seq(Timer) /\ Len(timers') = Len(timers) + 2
           /\ \A t \in DOMAIN timers : t \in DOMAIN timers' /\ timers'[t] = timers[t]
           /\ Len(timers') \in Intervals' /\ Len(timers') \notin DOMAIN timers
           /\ \A t \in Intervals' : t \in Intervals \/ timers'[t].live
           /\ Intervals \subseteq Intervals'
  <1> DEFINE once == [left |-> FirstDelay, repeats |-> FALSE, live |-> TRUE]
             again == [left |-> Interval, repeats |-> TRUE, live |-> TRUE]
             some == Append(timers, once)
             n == Len(timers)
  <1>1. once \in Timer /\ again \in Timer
    BY SchedulerAssumption DEF Timer
  <1>2. timers' = Append(some, again)
    BY DEF ArmTimers
  <1>3. once.repeats = FALSE /\ again.repeats = TRUE /\ again.live = TRUE
    OBVIOUS
  <1> HIDE DEF once, again
  <1>4. /\ some \in Seq(Timer) /\ Len(some) = n + 1 /\ n \in Nat
        /\ \A t \in 1 .. n : some[t] = timers[t]
        /\ some[n + 1] = once /\ DOMAIN timers = 1 .. n
    BY <1>1, AppendProperties, LenProperties
  <1> HIDE DEF some
  <1>5. /\ timers' \in Seq(Timer) /\ Len(timers') = n + 2
        /\ DOMAIN timers' = 1 .. n + 2
        /\ \A t \in 1 .. n + 1 : timers'[t] = some[t]
        /\ timers'[n + 2] = again
    <2>1. /\ Append(some, again) \in Seq(Timer)
          /\ Len(Append(some, again)) = (n + 1) + 1
          /\ \A t \in 1 .. n + 1 : Append(some, again)[t] = some[t]
          /\ Append(some, again)[(n + 1) + 1] = again
      BY <1>1, <1>4, AppendProperties
    <2>2. (n + 1) + 1 = n + 2
      BY <1>4
    <2>3. DOMAIN Append(some, again) = 1 .. n + 2
      BY <2>1, <2>2, LenProperties
    <2> QED BY <1>2, <2>1, <2>2, <2>3
  <1> HIDE DEF n
  <1>6. \A t \in 1 .. n : timers'[t] = timers[t] /\ t \in 1 .. n + 2
    BY <1>4, <1>5
  <1>7. \A t \in 1 .. n + 2 : t \in 1 .. n \/ t = n + 1 \/ t = n + 2
    BY <1>4
  <1>8. n + 2 \in 1 .. n + 2 /\ n + 2 \notin 1 .. n /\ n + 1 \in 1 .. n + 1
    BY <1>4
  <1> QED BY <1>3, <1>4, <1>5, <1>6, <1>7, <1>8 DEF Intervals, n

(* The timers stay the timers they are.                                    *)
TimersKept ==
    /\ timers' \in Seq(Timer) /\ Len(timers') = Len(timers)
    /\ DOMAIN timers' = DOMAIN timers
    /\ \A t \in DOMAIN timers : timers'[t].repeats = timers[t].repeats

LEMMA FireFacts ==
    ASSUME timers \in Seq(Timer), NEW t, Fire(t)
    PROVE  TimersKept /\ \A u \in Intervals : timers'[u].live = timers[u].live
  <1> DEFINE fired == IF timers[t].repeats THEN [timers[t] EXCEPT !.left = Interval]
                                           ELSE [timers[t] EXCEPT !.live = FALSE]
  <1>1. t \in DOMAIN timers /\ timers' = [timers EXCEPT ![t] = fired]
    BY DEF Fire
  <1>2. DOMAIN timers = 1 .. Len(timers) /\ timers[t] \in Timer
    BY <1>1, LenProperties, ElementOfSeq
  <1>3. /\ fired \in Timer /\ fired.repeats = timers[t].repeats
        /\ timers[t].repeats => fired.live = timers[t].live
    <2>1. CASE timers[t].repeats
      <3>1. fired = [timers[t] EXCEPT !.left = Interval]
        BY <2>1
      <3>2. Interval \in 0 .. (Interval + FirstDelay)
        BY SchedulerAssumption
      <3> QED BY <1>2, <3>1, <3>2 DEF Timer
    <2>2. CASE ~timers[t].repeats
      <3>1. fired = [timers[t] EXCEPT !.live = FALSE]
        BY <2>2
      <3> QED BY <1>2, <2>2, <3>1 DEF Timer
    <2> QED BY <2>1, <2>2
  <1> HIDE DEF fired
  <1>4. /\ timers' \in Seq(Timer) /\ Len(timers') = Len(timers)
        /\ \A u \in 1 .. Len(timers) : timers'[u] = IF u = t THEN fired ELSE timers[u]
    BY <1>1, <1>2, <1>3, ExceptSeq
  <1>5. DOMAIN timers' = DOMAIN timers
    BY <1>1
  <1> QED BY <1>2, <1>3, <1>4, <1>5 DEF TimersKept, Intervals

LEMMA TickFacts ==
    ASSUME timers \in Seq(Timer), Tick
    PROVE  TimersKept /\ \A u \in Intervals : timers'[u].live = timers[u].live
  <1> DEFINE ticked(t) == IF t \in Live THEN [timers[t] EXCEPT !.left = @ - 1]
                                        ELSE timers[t]
  <1>1. /\ timers' = [t \in DOMAIN timers |-> ticked(t)]
        /\ \A t \in Live : timers[t].left > 0
    BY DEF Tick
  <1>2. DOMAIN timers = 1 .. Len(timers) /\ Len(timers) \in Nat
    BY LenProperties
  <1>3. ASSUME NEW t \in DOMAIN timers
        PROVE  /\ ticked(t) \in Timer /\ ticked(t).repeats = timers[t].repeats
               /\ ticked(t).live = timers[t].live
    <2>1. timers[t] \in Timer
      BY <1>2, ElementOfSeq
    <2>2. CASE t \in Live
      <3>1. ticked(t) = [timers[t] EXCEPT !.left = @ - 1]
        BY <2>2
      <3>2. timers[t].left > 0
        BY <1>1, <2>2
      <3>3. timers[t].left - 1 \in 0 .. (Interval + FirstDelay)
        BY <2>1, <3>2, SchedulerAssumption DEF Timer
      <3> QED BY <2>1, <3>1, <3>3 DEF Timer
    <2>3. CASE t \notin Live
      BY <2>1, <2>3
    <2> QED BY <2>2, <2>3
  <1>4. \A t \in DOMAIN timers : timers'[t] = ticked(t)
    BY <1>1
  <1> HIDE DEF ticked
  <1>5. timers' \in [1 .. Len(timers) -> Timer]
    BY <1>1, <1>2, <1>3
  <1>6. timers' \in Seq(Timer)
    BY <1>2, <1>5, SeqDef
  <1>7. DOMAIN timers' = 1 .. Len(timers) /\ Len(timers') = Len(timers)
    BY <1>2, <1>5, <1>6, LenProperties
  <1> QED BY <1>2, <1>3, <1>4, <1>6, <1>7 DEF TimersKept, Intervals

LEMMA StopFacts ==
    ASSUME timers \in Seq(Timer), handle \in 0 .. Len(timers), Stop
    PROVE  /\ TimersKept
           /\ \A u \in Intervals : u # handle => timers'[u].live = timers[u].live
  <1>1. CASE handle = 0
    BY <1>1 DEF Stop, TimersKept, Intervals
  <1>2. CASE handle # 0
    <2> DEFINE stopped == [timers[handle] EXCEPT !.live = FALSE]
    <2>1. timers' = [timers EXCEPT ![handle] = stopped]
      BY <1>2 DEF Stop, Cleared
    <2>2. DOMAIN timers = 1 .. Len(timers) /\ handle \in 1 .. Len(timers)
      BY <1>2, LenProperties
    <2>3. timers[handle] \in Timer
      BY <2>2, ElementOfSeq
    <2>4. stopped \in Timer /\ stopped.repeats = timers[handle].repeats
      BY <2>3 DEF Timer
    <2> HIDE DEF stopped
    <2>5. /\ timers' \in Seq(Timer) /\ Len(timers') = Len(timers)
          /\ \A u \in 1 .. Len(timers) :
                timers'[u] = IF u = handle THEN stopped ELSE timers[u]
      BY <2>1, <2>2, <2>4, ExceptSeq
    <2>6. DOMAIN timers' = DOMAIN timers
      BY <2>1
    <2> QED BY <2>2, <2>4, <2>5, <2>6 DEF TimersKept, Intervals
  <1> QED BY <1>1, <1>2

-----------------------------------------------------------------------------
(* The starts under way.                                                   *)

LEMMA UnderWay ==
    ASSUME SchedulerTypeOK
    PROVE  IsFiniteSet(StartsUnderWay) /\ Cardinality(StartsUnderWay) \in Nat
  <1>1. StartsUnderWay \subseteq Agents /\ IsFiniteSet(Agents)
    BY SchedulerAssumption DEF StartsUnderWay
  <1> QED BY <1>1, FS_Subset, FS_CardinalityType

LEMMA Begins ==
    ASSUME SchedulerTypeOK, NEW a \in Agents, phase[a] # "opening",
           phase' = [phase EXCEPT ![a] = "opening"]
    PROVE  Cardinality(StartsUnderWay') = Cardinality(StartsUnderWay) + 1
  <1>1. StartsUnderWay' = StartsUnderWay \cup {a} /\ a \notin StartsUnderWay
    BY DEF SchedulerTypeOK, StartsUnderWay
  <1> QED BY <1>1, UnderWay, FS_AddElement

LEMMA GoesOn ==
    ASSUME SchedulerTypeOK, NEW a \in Agents, NEW x, x # "opening",
           phase' = [phase EXCEPT ![a] = x]
    PROVE  /\ Cardinality(StartsUnderWay') \in Nat
           /\ Cardinality(StartsUnderWay') <= Cardinality(StartsUnderWay)
           /\ phase[a] = "opening" =>
                 Cardinality(StartsUnderWay') = Cardinality(StartsUnderWay) - 1
  <1>1. StartsUnderWay' = StartsUnderWay \ {a}
    BY DEF SchedulerTypeOK, StartsUnderWay
  <1>2. phase[a] = "opening" <=> a \in StartsUnderWay
    BY DEF StartsUnderWay
  <1> DEFINE n == Cardinality(StartsUnderWay)
  <1>3. n \in Nat /\ IsFiniteSet(StartsUnderWay)
    BY UnderWay
  <1>4. CASE a \in StartsUnderWay
    <2>1. Cardinality(StartsUnderWay') = n - 1 /\ Cardinality(StartsUnderWay') \in Nat
      BY <1>1, <1>3, <1>4, FS_RemoveElement, FS_CardinalityType
    <2> HIDE DEF n
    <2>2. n - 1 <= n
      BY <1>3
    <2> QED BY <2>1, <2>2 DEF n
  <1>5. CASE a \notin StartsUnderWay
    <2>1. StartsUnderWay' = StartsUnderWay
      BY <1>1, <1>5
    <2> HIDE DEF n
    <2>2. n <= n
      BY <1>3
    <2> QED BY <1>2, <1>3, <1>5, <2>1, <2>2 DEF n
  <1> QED BY <1>4, <1>5

LEMMA CountedStep ==
    ASSUME SchedulerTypeOK, StartsCounted, [SchedulerNext]_schedulerVars
    PROVE  StartsCounted' /\ starts' \in 0 .. MaxStarts
  <1> USE SchedulerAssumption
  <1>0. starts \in Nat /\ MaxStarts \in Nat /\ Cardinality(StartsUnderWay) \in Nat
    BY UnderWay DEF SchedulerTypeOK
  <1>1. ASSUME NEW a \in Agents, StartAgent(a)
        PROVE  StartsCounted' /\ starts' \in 0 .. MaxStarts
    <2>1. /\ phase[a] # "opening" /\ phase' = [phase EXCEPT ![a] = "opening"]
          /\ starts + Cardinality(StartsUnderWay) < MaxStarts /\ starts' = starts
      BY <1>1 DEF StartAgent, StartsUnderWay
    <2>2. Cardinality(StartsUnderWay') = Cardinality(StartsUnderWay) + 1
      BY <2>1, Begins
    <2> QED BY <1>0, <2>1, <2>2 DEF StartsCounted
  <1>2. ASSUME NEW a \in Agents, InitializeService(a)
        PROVE  StartsCounted' /\ starts' \in 0 .. MaxStarts
    <2>1. /\ phase[a] = "opening" /\ phase' = [phase EXCEPT ![a] = "service"]
          /\ starts' = starts + 1
      BY <1>2 DEF InitializeService, Goes
    <2>2. /\ Cardinality(StartsUnderWay') \in Nat
          /\ Cardinality(StartsUnderWay') = Cardinality(StartsUnderWay) - 1
      BY <2>1, GoesOn
    <2> QED BY <1>0, <2>1, <2>2 DEF StartsCounted
  <1>3. ASSUME NEW a \in Agents, NEW x, x # "opening",
               phase' = [phase EXCEPT ![a] = x], starts' = starts
        PROVE  StartsCounted' /\ starts' \in 0 .. MaxStarts
    <2>1. /\ Cardinality(StartsUnderWay') \in Nat
          /\ Cardinality(StartsUnderWay') <= Cardinality(StartsUnderWay)
      BY <1>3, GoesOn
    <2> QED BY <1>0, <1>3, <2>1 DEF StartsCounted
  <1>4. ASSUME phase' = phase, starts' = starts
        PROVE  StartsCounted' /\ starts' \in 0 .. MaxStarts
    BY <1>0, <1>4 DEF StartsCounted, StartsUnderWay
  <1>5. ASSUME NEW a \in Agents, Starting(a) \/ StopAgent(a)
        PROVE  StartsCounted' /\ starts' \in 0 .. MaxStarts
    BY <1>2, <1>3, <1>5 DEF Starting, ServiceInitialized, InitializePlugin,
       PluginInitialized, RegisterAgent, StartFails, StopAgent, Goes
  <1>6. CASE BootEnds \/ FireAny \/ Stop \/ Tick \/ UNCHANGED schedulerVars
             \/ \E a \in Agents : Dashboard(a)
    BY <1>4, <1>6 DEF BootEnds, FireAny, Fire, Stop, Tick, Dashboard,
       schedulerVars, agentVars
  <1> QED BY <1>1, <1>5, <1>6 DEF SchedulerNext

-----------------------------------------------------------------------------
(* The runtime the service keeps.                                          *)

LEMMA RuntimeStep ==
    ASSUME SchedulerTypeOK, KeepsRuntime, [SchedulerNext]_schedulerVars
    PROVE  KeepsRuntime' /\ runtime' \in Agents \cup {None}
  <1> DEFINE Ok == KeepsRuntime' /\ runtime' \in Agents \cup {None}
  <1> USE SchedulerAssumption DEF SchedulerTypeOK
  <1>1. ASSUME NEW a \in Agents, NEW x \in {"service", "plugin"},
               phase' = [phase EXCEPT ![a] = x], runtime' = a
        PROVE  Ok
    <2>1. runtime' # None
      BY <1>1
    <2>2. ASSUME NEW b \in Agents, Lonely(b)'
          PROVE  runtime' = b
      BY <1>1, <2>2 DEF Lonely
    <2> QED BY <1>1, <2>1, <2>2 DEF KeepsRuntime, Reached
  <1>2. ASSUME NEW a \in Agents, NEW x \in Phases \ {"down"},
               phase' = [phase EXCEPT ![a] = x], runtime' = runtime,
               x \in {"opening", "failed"} \/ a \in Reached,
               timers' = timers \/ a \in Reached
        PROVE  Ok
    <2>1. ASSUME NEW b \in Agents, b \in Reached', Lonely(b)'
          PROVE  runtime' = b
      <3>1. b \in Reached /\ Lonely(b)
        BY <1>2, <2>1 DEF Lonely, Reached
      <3> QED BY <1>2, <3>1 DEF KeepsRuntime
    <2>2. ASSUME runtime' = None
          PROVE  Reached' = {} /\ timers' = <<>>
      <3>1. Reached = {} /\ timers = <<>>
        BY <1>2, <2>2 DEF KeepsRuntime
      <3> QED BY <1>2, <3>1 DEF Reached
    <2>3. Reached' \subseteq Agents
      BY DEF Reached
    <2> QED BY <1>2, <2>1, <2>2, <2>3 DEF KeepsRuntime
  <1>3. ASSUME phase' = phase, runtime' = runtime, timers = <<>> => timers' = <<>>
        PROVE  Ok
    BY <1>3 DEF KeepsRuntime, Reached, Lonely
  <1>4. ASSUME NEW a \in Agents, InitializeService(a) \/ InitializePlugin(a)
        PROVE  Ok
    BY <1>1, <1>4 DEF InitializeService, InitializePlugin, Goes, BeginInitialize
  <1>5. ASSUME NEW a \in Agents, ServiceInitialized(a) \/ PluginInitialized(a)
        PROVE  Ok
    BY <1>2, <1>5 DEF ServiceInitialized, PluginInitialized, Goes, Reached, Phases
  <1>6. ASSUME NEW a \in Agents,
               StartAgent(a) \/ RegisterAgent(a) \/ StartFails(a) \/ StopAgent(a)
        PROVE  Ok
    BY <1>2, <1>6 DEF StartAgent, RegisterAgent, StartFails, StopAgent, Goes,
       Reached, Phases, serviceVars
  <1>7. CASE BootEnds \/ UNCHANGED schedulerVars \/ \E a \in Agents : Dashboard(a)
    BY <1>3, <1>7 DEF BootEnds, Dashboard, schedulerVars, agentVars, serviceVars
  <1>8. CASE FireAny \/ Stop \/ Tick
    <2>1. phase' = phase /\ runtime' = runtime
      BY <1>8 DEF FireAny, Fire, Stop, Tick, agentVars
    <2>2. ASSUME timers = <<>>
          PROVE  timers' = <<>>
      <3>1. DOMAIN timers = {}
        BY <2>2
      <3>2. ~FireAny /\ ~Tick
        BY <3>1 DEF FireAny, Fire, Tick, Live
      <3>3. handle = 0
        BY <2>2
      <3> QED BY <1>8, <2>2, <3>2, <3>3 DEF Stop
    <2> QED BY <1>3, <2>1, <2>2
  <1> QED BY <1>4, <1>5, <1>6, <1>7, <1>8 DEF SchedulerNext, Starting

-----------------------------------------------------------------------------
(* The intervals.                                                          *)

LEMMA KeptFacts ==
    ASSUME TimersKept
    PROVE  Intervals' = Intervals
  BY DEF TimersKept, Intervals

(* The timers and the handle after each step.                              *)
LEMMA TimersStep ==
    ASSUME SchedulerTypeOK, [SchedulerNext]_schedulerVars
    PROVE  timers' \in Seq(Timer) /\ handle' \in 0 .. Len(timers')
  <1> DEFINE Ok == timers' \in Seq(Timer) /\ handle' \in 0 .. Len(timers')
  <1>0. timers \in Seq(Timer) /\ handle \in 0 .. Len(timers)
    BY DEF SchedulerTypeOK
  <1>1. ASSUME EndInitialize
        PROVE  Ok
    <2>1. timers' \in Seq(Timer) /\ handle' = Len(timers')
      BY <1>0, <1>1, ArmFacts DEF EndInitialize
    <2> QED BY <2>1, LenProperties
  <1>2. ASSUME TimersKept, handle' \in {0, handle}
        PROVE  Ok
    BY <1>0, <1>2, LenProperties DEF TimersKept
  <1>3. ASSUME timers' = timers, handle' = handle
        PROVE  Ok
    BY <1>0, <1>3
  <1>4. ASSUME NEW a \in Agents, ServiceInitialized(a) \/ PluginInitialized(a)
        PROVE  Ok
    BY <1>1, <1>4 DEF ServiceInitialized, PluginInitialized
  <1>5. CASE FireAny
    BY <1>0, <1>2, <1>5, FireFacts DEF FireAny, Fire
  <1>6. CASE Tick
    BY <1>0, <1>2, <1>6, TickFacts DEF Tick
  <1>7. CASE Stop
    BY <1>0, <1>2, <1>7, StopFacts DEF Stop
  <1>8. ASSUME NEW a \in Agents,
               \/ StartAgent(a) \/ InitializeService(a) \/ InitializePlugin(a)
               \/ RegisterAgent(a) \/ StartFails(a) \/ StopAgent(a) \/ Dashboard(a)
        PROVE  Ok
    BY <1>3, <1>8 DEF StartAgent, InitializeService, InitializePlugin,
       RegisterAgent, StartFails, StopAgent, Dashboard, serviceVars
  <1>9. CASE BootEnds \/ UNCHANGED schedulerVars
    BY <1>3, <1>9 DEF BootEnds, schedulerVars, serviceVars
  <1> QED BY <1>4, <1>5, <1>6, <1>7, <1>8, <1>9 DEF SchedulerNext, Starting

LEMMA IntervalsStep ==
    ASSUME SchedulerTypeOK, IntervalsSet, ClearedOne,
           [SchedulerNext]_schedulerVars
    PROVE  IntervalsSet' /\ ClearedOne'
  <1> DEFINE Ok == IntervalsSet' /\ ClearedOne'
  <1>0. /\ timers \in Seq(Timer) /\ handle \in 0 .. Len(timers)
        /\ phase \in [Agents -> Phases] /\ stops \in Nat
    BY SchedulerAssumption DEF SchedulerTypeOK
  <1>1. ASSUME NEW a \in Agents, EndInitialize, stops' = stops,
               \/ phase[a] = "service" /\ phase' = [phase EXCEPT ![a] = "services"]
               \/ phase[a] = "plugin" /\ phase' = [phase EXCEPT ![a] = "rest"]
        PROVE  Ok
    <2>1. /\ \A t \in DOMAIN timers : timers'[t] = timers[t]
          /\ Len(timers') \in Intervals' /\ Len(timers') \notin DOMAIN timers
          /\ \A t \in Intervals' : t \in Intervals \/ timers'[t].live
          /\ Intervals \subseteq Intervals' /\ Intervals \subseteq DOMAIN timers
      BY <1>0, <1>1, ArmFacts DEF EndInitialize, Intervals
    <2>2. ClearedOne'
      BY <1>1, <2>1 DEF ClearedOne
    <2>3. ASSUME NEW b \in Agents
          PROVE  /\ phase'[b] \in {"services", "plugin"} => Intervals' # {}
                 /\ phase'[b] \in {"rest", "up", "stopped"} =>
                       \E t, u \in Intervals' : t # u
      <3>1. CASE b # a
        <4>1. phase'[b] = phase[b]
          BY <1>0, <1>1, <3>1
        <4> QED BY <2>1, <4>1 DEF IntervalsSet
      <3>2. CASE b = a /\ phase[a] = "service"
        BY <1>0, <1>1, <2>1, <3>2
      <3>3. CASE b = a /\ phase[a] = "plugin"
        <4>1. PICK t \in Intervals : TRUE
          BY <3>3 DEF IntervalsSet
        <4> QED BY <2>1, <4>1
      <3> QED BY <1>1, <3>1, <3>2, <3>3
    <2> QED BY <2>2, <2>3 DEF IntervalsSet
  <1>2. ASSUME TimersKept, phase' = phase, stops' = stops,
               \A u \in Intervals : timers'[u].live = timers[u].live
        PROVE  Ok
    BY <1>2, KeptFacts DEF IntervalsSet, ClearedOne
  <1>3. CASE Stop
    <2>1. /\ TimersKept /\ phase' = phase /\ stops' = stops + 1
          /\ \A u \in Intervals : u # handle => timers'[u].live = timers[u].live
      BY <1>0, <1>3, StopFacts DEF Stop, agentVars
    <2>2. IntervalsSet'
      BY <2>1, KeptFacts DEF IntervalsSet
    <2>3. ASSUME NEW t \in Intervals', NEW u \in Intervals',
                 ~timers'[t].live, ~timers'[u].live, stops' <= 1
          PROVE  t = u /\ stops' = 1
      <3>1. stops = 0 /\ stops' = 1
        BY <1>0, <2>1, <2>3
      <3>2. \A v \in Intervals : timers[v].live
        BY <3>1 DEF ClearedOne
      <3>3. t \in Intervals /\ u \in Intervals
        BY <2>1, KeptFacts
      <3>4. t = handle /\ u = handle
        BY <2>1, <2>3, <3>2, <3>3
      <3> QED BY <3>1, <3>4
    <2>4. ClearedOne'
      BY <2>3 DEF ClearedOne
    <2> QED BY <2>2, <2>4
  <1>4. ASSUME NEW a \in Agents, NEW x, phase' = [phase EXCEPT ![a] = x],
               timers' = timers, stops' = stops,
               \/ x \in {"opening", "failed", "service"}
               \/ phase[a] = "services" /\ x = "plugin"
               \/ phase[a] \in {"rest", "up"} /\ x \in {"up", "stopped"}
        PROVE  Ok
    <2>1. Intervals' = Intervals
      BY <1>4 DEF Intervals
    <2>2. ClearedOne'
      BY <1>4, <2>1 DEF ClearedOne
    <2>3. \A b \in Agents : phase'[b] = IF b = a THEN x ELSE phase[b]
      BY <1>0, <1>4
    <2>4. IntervalsSet'
      BY <1>4, <2>1, <2>3 DEF IntervalsSet
    <2> QED BY <2>2, <2>4
  <1>5. ASSUME phase' = phase, timers' = timers, stops' = stops
        PROVE  Ok
    BY <1>5 DEF IntervalsSet, ClearedOne, Intervals
  <1>6. ASSUME NEW a \in Agents, ServiceInitialized(a) \/ PluginInitialized(a)
        PROVE  Ok
    BY <1>1, <1>6 DEF ServiceInitialized, PluginInitialized, Goes
  <1>7. CASE FireAny
    <2>1. PICK t \in DOMAIN timers : Fire(t)
      BY <1>7 DEF FireAny
    <2>2. TimersKept /\ \A u \in Intervals : timers'[u].live = timers[u].live
      BY <1>0, <2>1, FireFacts
    <2>3. phase' = phase /\ stops' = stops
      BY <2>1 DEF Fire, agentVars
    <2> QED BY <1>2, <2>2, <2>3
  <1>8. CASE Tick
    <2>1. TimersKept /\ \A u \in Intervals : timers'[u].live = timers[u].live
      BY <1>0, <1>8, TickFacts
    <2>2. phase' = phase /\ stops' = stops
      BY <1>8 DEF Tick, agentVars
    <2> QED BY <1>2, <2>1, <2>2
  <1>9. ASSUME NEW a \in Agents,
               \/ StartAgent(a) \/ InitializeService(a) \/ InitializePlugin(a)
               \/ RegisterAgent(a) \/ StartFails(a) \/ StopAgent(a)
        PROVE  Ok
    BY <1>4, <1>9 DEF StartAgent, InitializeService, InitializePlugin,
       RegisterAgent, StartFails, StopAgent, Goes, serviceVars
  <1>10. CASE BootEnds \/ UNCHANGED schedulerVars \/ \E a \in Agents : Dashboard(a)
    BY <1>5, <1>10 DEF BootEnds, Dashboard, schedulerVars, agentVars, serviceVars
  <1> QED BY <1>3, <1>6, <1>7, <1>8, <1>9, <1>10 DEF SchedulerNext, Starting

(* The rest of the types: a timer fires for the runtime the service has    *)
(* been given.                                                             *)
LEMMA SchedulerTypeStep ==
    ASSUME SchedulerInv, [SchedulerNext]_schedulerVars
    PROVE  SchedulerTypeOK'
  <1> USE SchedulerAssumption
  <1>1. timers' \in Seq(Timer) /\ handle' \in 0 .. Len(timers')
    BY TimersStep DEF SchedulerInv
  <1>2. starts' \in 0 .. MaxStarts
    BY CountedStep DEF SchedulerInv
  <1>3. runtime' \in Agents \cup {None}
    BY RuntimeStep DEF SchedulerInv
  <1>4. process' \in {"booting", "serving", "dead"}
    BY DEF SchedulerInv, SchedulerTypeOK, SchedulerNext, Starting, StartAgent, Goes,
       InitializeService, ServiceInitialized, InitializePlugin, PluginInitialized,
       RegisterAgent, StartFails, StopAgent, Dashboard, BootEnds, FireAny, Fire,
       Stop, Tick, schedulerVars, agentVars
  <1>5. phase' \in [Agents -> Phases]
    BY DEF SchedulerInv, SchedulerTypeOK, SchedulerNext, Starting, StartAgent, Goes,
       InitializeService, ServiceInitialized, InitializePlugin, PluginInitialized,
       RegisterAgent, StartFails, StopAgent, Dashboard, BootEnds, FireAny, Fire,
       Stop, Tick, schedulerVars, agentVars, Phases
  <1>6. served' \subseteq Agents
    <2>1. CASE FireAny
      <3>1. PICK t \in DOMAIN timers : served' = served \cup {runtime}
        BY <2>1 DEF FireAny, Fire
      <3>2. timers # <<>>
        BY <3>1
      <3>3. runtime \in Agents
        BY <3>2 DEF SchedulerInv, SchedulerTypeOK, KeepsRuntime
      <3> QED BY <3>1, <3>3 DEF SchedulerInv, SchedulerTypeOK
    <2>2. CASE ~FireAny
      BY <2>2 DEF SchedulerInv, SchedulerTypeOK, SchedulerNext, Starting, StartAgent,
         Goes, InitializeService, ServiceInitialized, InitializePlugin,
         PluginInitialized, RegisterAgent, StartFails, StopAgent, Dashboard,
         BootEnds, Stop, Tick, schedulerVars
    <2> QED BY <2>1, <2>2
  <1>7. stops' \in 0 .. MaxStops
    <2>1. CASE Stop
      BY <2>1 DEF Stop, SchedulerInv, SchedulerTypeOK
    <2>2. CASE ~Stop
      <3>1. stops' = stops
        BY <2>2 DEF SchedulerNext, Starting, StartAgent, Goes, InitializeService,
           ServiceInitialized, InitializePlugin, PluginInitialized, RegisterAgent,
           StartFails, StopAgent, Dashboard, BootEnds, FireAny, Fire, Tick,
           schedulerVars, serviceVars
      <3> QED BY <3>1 DEF SchedulerInv, SchedulerTypeOK
    <2> QED BY <2>1, <2>2
  <1> QED BY <1>1, <1>2, <1>3, <1>4, <1>5, <1>6, <1>7 DEF SchedulerTypeOK

LEMMA SchedulerInvInit ==
    ASSUME SchedulerInit
    PROVE  SchedulerInv
  <1> USE SchedulerAssumption DEF SchedulerInit
  <1>1. /\ timers = <<>> /\ timers \in Seq(Timer) /\ Len(timers) = 0
        /\ DOMAIN timers = {}
    OBVIOUS
  <1>2. SchedulerTypeOK
    BY <1>1 DEF SchedulerTypeOK, Phases
  <1>3. StartsUnderWay = {}
    BY DEF StartsUnderWay
  <1>4. StartsCounted
    BY <1>3, FS_EmptySet DEF StartsCounted
  <1>5. IntervalsSet /\ ClearedOne
    BY <1>1 DEF IntervalsSet, ClearedOne, Intervals
  <1>6. KeepsRuntime
    BY <1>1 DEF KeepsRuntime, Reached
  <1> QED BY <1>2, <1>4, <1>5, <1>6 DEF SchedulerInv

LEMMA SchedulerInductive == SchedulerSpec => []SchedulerInv
  <1>1. SchedulerInv /\ [SchedulerNext]_schedulerVars => SchedulerInv'
    BY SchedulerTypeStep, CountedStep, IntervalsStep, RuntimeStep DEF SchedulerInv
  <1> QED BY <1>1, SchedulerInvInit, PTL DEF SchedulerSpec

(* Type correctness of the scheduler.                                      *)
THEOREM SchedulerTypeCorrect == SchedulerSpec => []SchedulerTypeOK
  <1>1. SchedulerInv => SchedulerTypeOK
    BY DEF SchedulerInv
  <1> QED BY <1>1, SchedulerInductive, PTL

(* The safety part of KeepsTrading, for any number of agents and starts:   *)
(* while an agent is up, an interval goes on, unless the service's stop    *)
(* was called twice (EndInitialize and stop of scheduler.ts: a stop clears *)
(* the last interval only).                                                *)
THEOREM IntervalTheorem == SchedulerSpec => []IntervalGoesOn
  <1>1. SchedulerInv => IntervalGoesOn
    BY DEF SchedulerInv, IntervalGoesOn, IntervalsSet, ClearedOne
  <1> QED BY <1>1, SchedulerInductive, PTL

(* The safety part of AloneIsServed: the timers serve the agent that is up *)
(* when no other was ever started (this.runtime in scheduler.ts).          *)
THEOREM RuntimeTheorem == SchedulerSpec => []TimersServeTheLonely
  <1>1. SchedulerInv => TimersServeTheLonely
    BY DEF SchedulerInv, KeepsRuntime, Reached, TimersServeTheLonely
  <1> QED BY <1>1, SchedulerInductive, PTL

(* An interval once set is there for good, and goes on as it did, whatever *)
(* becomes of the agents, but for the service's stop.                      *)
OnlyStopClears ==
    [][\A t \in Intervals :
          t \in Intervals' /\ (Stop \/ timers'[t].live = timers[t].live)]_schedulerVars

(* ... for agents that are stopped and starts that fail, too: nothing of   *)
(* agent/src/index.ts or client-direct calls stop of the service.          *)
THEOREM OnlyStopTheorem == SchedulerSpec => OnlyStopClears
  <1>1. SchedulerTypeOK /\ [SchedulerNext]_schedulerVars =>
           [\A t \in Intervals :
               t \in Intervals' /\ (Stop \/ timers'[t].live = timers[t].live)]_schedulerVars
    <2> SUFFICES ASSUME SchedulerTypeOK, SchedulerNext
                 PROVE  \A t \in Intervals :
                           t \in Intervals' /\ (Stop \/ timers'[t].live = timers[t].live)
      OBVIOUS
    <2>0. timers \in Seq(Timer) /\ handle \in 0 .. Len(timers)
      BY DEF SchedulerTypeOK
    <2>1. CASE FireAny
      BY <2>0, <2>1, FireFacts, KeptFacts DEF FireAny
    <2>2. CASE Tick
      BY <2>0, <2>2, TickFacts, KeptFacts
    <2>3. CASE Stop
      BY <2>0, <2>3, StopFacts, KeptFacts
    <2>4. ASSUME NEW a \in Agents, ServiceInitialized(a) \/ PluginInitialized(a)
          PROVE  \A t \in Intervals :
                    t \in Intervals' /\ timers'[t].live = timers[t].live
      BY <2>0, <2>4, ArmFacts DEF ServiceInitialized, PluginInitialized,
         EndInitialize, Intervals
    <2>5. ASSUME timers' = timers
          PROVE  \A t \in Intervals :
                    t \in Intervals' /\ timers'[t].live = timers[t].live
      BY <2>5 DEF Intervals
    <2>6. ASSUME NEW a \in Agents,
                 \/ StartAgent(a) \/ InitializeService(a) \/ InitializePlugin(a)
                 \/ RegisterAgent(a) \/ StartFails(a) \/ StopAgent(a) \/ Dashboard(a)
          PROVE  timers' = timers
      BY <2>6 DEF StartAgent, InitializeService, InitializePlugin, RegisterAgent,
         StartFails, StopAgent, Dashboard, serviceVars
    <2>7. BootEnds => timers' = timers
      BY DEF BootEnds, serviceVars
    <2> QED BY <2>1, <2>2, <2>3, <2>4, <2>5, <2>6, <2>7 DEF SchedulerNext, Starting
  <1> QED BY <1>1, SchedulerTypeCorrect, PTL DEF SchedulerSpec, OnlyStopClears

=============================================================================
