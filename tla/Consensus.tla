------------------------------ MODULE Consensus ------------------------------
(***************************************************************************)
(* The consensus of the two models (src/providers/dgrid.ts) and the two    *)
(* checks that the compliance engine makes of it (riskEngine.ts): from the *)
(* answers of the analyst and the sentiment model to a direction that is   *)
(* allowed to trade.                                                       *)
(*                                                                         *)
(* A confidence is in percent, and so is a weight; their products are in   *)
(* ten-thousandths and are exact, where the code's are binary fractions:   *)
(* on a tie the code may round either way, so both outcomes are kept.      *)
(***************************************************************************)
EXTENDS RiskEngine

CONSTANTS
    TechWeight, SentWeight, \* 60 and 40: the analyst and the sentiment model
    Neutral,                \* 30: the confidence of an answer nobody can read
    Fallback,               \* 50: the confidence of an answer that has none
    Raw,                    \* inputs: what Number(json.confidence) may be
    Absent                  \* a field that is not in the answer

ASSUME ConsensusAssumption ==
    /\ {TechWeight, SentWeight, Neutral, Fallback} \subseteq Percent
    /\ TechWeight > 0 /\ SentWeight > 0 /\ TechWeight + SentWeight = 100
    /\ Raw \subseteq Int \cup {NaN, Absent}
    /\ Absent \notin Int \cup {NaN}

VARIABLES
    answers,  \* what each call to DGrid has come to
    decision, \* finalDecision and agreementScore, or none yet
    verdict   \* of the checks on confidence and agreement

vars == <<answers, decision, verdict>>

Models == {"analyst", "sentiment"}

(* A direction is any word the model gives: two stand for all the others,  *)
(* so that two such words may be the same or not.                          *)
Sides == {"long", "short"}
Words == Sides \cup {"hold", "wait"}

(* A signal as parseSignalFromLLM returns it; `readable' is history.       *)
Signal == [direction : Words, confidence : Percent \cup {NaN},
           readable : BOOLEAN]

Pending == [status |-> "pending"]
Rejected == [status |-> "rejected"]
Answered == [status : {"answered"}, signal : Signal]

Undecided == [status |-> "none"]
Decided == [status : {"decided"}, direction : Sides,
            confidence : 0 .. 10000 \cup {NaN}, agreement : 0 .. 10000 \cup {NaN}]

TypeOK ==
    /\ answers \in [Models -> {Pending, Rejected} \cup Answered]
    /\ decision \in {Undecided, Rejected} \cup Decided
    /\ verdict \in {"none", "allowed", "denied"}

Init ==
    /\ answers = [m \in Models |-> Pending]
    /\ decision = Undecided
    /\ verdict = "none"

-----------------------------------------------------------------------------
(* Math.min(1, Math.max(0, c)), which keeps NaN.                           *)
Clamp(c) == IF c = NaN THEN NaN ELSE IF c < 0 THEN 0 ELSE IF c > 100 THEN 100 ELSE c

ParseSignal(word, raw) ==
    [direction  |-> IF word = Absent THEN "long" ELSE word,
     confidence |-> IF raw = Absent THEN Fallback ELSE Clamp(raw),
     readable   |-> TRUE]

NeutralSignal == [direction |-> "long", confidence |-> Neutral, readable |-> FALSE]

ParsedSignals ==
    {NeutralSignal} \cup
    UNION {{ParseSignal(w, r) : r \in Raw} : w \in Words \cup {Absent}}

(* One of the two calls returns; it throws on an HTTP error.               *)
ModelAnswers(m) ==
    /\ answers[m] = Pending
    /\ \E s \in ParsedSignals :
          answers' = [answers EXCEPT ![m] = [status |-> "answered", signal |-> s]]
    /\ UNCHANGED <<decision, verdict>>

ModelFails(m) ==
    /\ answers[m] = Pending
    /\ answers' = [answers EXCEPT ![m] = Rejected]
    /\ UNCHANGED <<decision, verdict>>

-----------------------------------------------------------------------------
(* Numbers of JavaScript: NaN swallows what it meets.                      *)
Times(w, c) == IF c = NaN THEN NaN ELSE w * c
Plus(x, y)  == IF NaN \in {x, y} THEN NaN ELSE x + y
Apart(x, y) == IF NaN \in {x, y} THEN NaN ELSE IF x >= y THEN x - y ELSE y - x

Tech(a) == Times(TechWeight, a.confidence)
Sent(s) == Times(SentWeight, s.confidence)

CombinedConfidence(a, s) == Plus(Tech(a), Sent(s))

(* Wrong form: the two confidences are averaged whatever the directions.   *)
AgreementUndirected(a, s) == Times(50, Plus(a.confidence, s.confidence))

Agreement(a, s) ==
    IF a.direction = s.direction
    THEN Times(50, Plus(a.confidence, s.confidence))
    ELSE Apart(Tech(a), Sent(s))

Score(word, a, s) ==
    Plus(IF a.direction = word THEN Tech(a) ELSE 0,
         IF s.direction = word THEN Sent(s) ELSE 0)

(* Wrong form: the comparison is turned around.                            *)
DirectionsReversed(a, s) ==
    LET long  == Score("long", a, s)
        short == Score("short", a, s)
    IN  IF NaN \in {long, short} \/ long >= short THEN {"short"} ELSE {"long"}

(* longScore >= shortScore chooses long; NaN fails that comparison.        *)
Directions(a, s) ==
    LET long  == Score("long", a, s)
        short == Score("short", a, s)
    IN  IF NaN \in {long, short} \/ long < short THEN {"short"}
        ELSE IF long > short \/ long = 0 THEN {"long"}
        ELSE {"long", "short"}

(* Promise.all: the first rejection rejects the whole, whatever the other  *)
(* call does; otherwise both answers are combined.                         *)
ConsensusRejects ==
    /\ decision = Undecided
    /\ \E m \in Models : answers[m] = Rejected
    /\ decision' = Rejected
    /\ UNCHANGED <<answers, verdict>>

Combine ==
    /\ decision = Undecided
    /\ \A m \in Models : answers[m] \in Answered
    /\ LET a == answers["analyst"].signal
           s == answers["sentiment"].signal
       IN  \E d \in Directions(a, s) :
              decision' = [status |-> "decided", direction |-> d,
                           confidence |-> CombinedConfidence(a, s),
                           agreement  |-> Agreement(a, s)]
    /\ UNCHANGED <<answers, verdict>>

(* The first two checks of runRiskCheck.  A number that is exactly the     *)
(* minimum may have been rounded below it.                                 *)
MayPass(x, min) == ~Below(x, 100 * min)
MayFail(x, min) == x # NaN /\ x <= 100 * min

(* Wrong form: the agreement is not looked at.                             *)
CheckConfidenceOnly ==
    /\ decision \in Decided /\ verdict = "none"
    /\ \/ MayPass(decision.confidence, MinConfidence) /\ verdict' = "allowed"
       \/ MayFail(decision.confidence, MinConfidence) /\ verdict' = "denied"
    /\ UNCHANGED <<answers, decision>>

Check ==
    /\ decision \in Decided /\ verdict = "none"
    /\ \/ /\ MayPass(decision.confidence, MinConfidence)
          /\ MayPass(decision.agreement, MinAgreement)
          /\ verdict' = "allowed"
       \/ /\ \/ MayFail(decision.confidence, MinConfidence)
             \/ MayFail(decision.agreement, MinAgreement)
          /\ verdict' = "denied"
    /\ UNCHANGED <<answers, decision>>

Next ==
    \/ \E m \in Models : ModelAnswers(m) \/ ModelFails(m)
    \/ ConsensusRejects
    \/ Combine
    \/ Check

Spec == Init /\ [][Next]_vars

-----------------------------------------------------------------------------
(* What holds.                                                             *)

Allowed == verdict = "allowed"
SignalOf(m) == answers[m].signal
Numeric == \A m \in Models : SignalOf(m).confidence # NaN

(* The analyst says long or short, and the sentiment model another word.   *)
Dissent ==
    /\ SignalOf("analyst").direction \in Sides
    /\ SignalOf("analyst").direction # SignalOf("sentiment").direction

(* "models must agree at least 50%" (riskEngine.ts), though the two checks *)
(* are on numbers and the direction is on none of them: an allowed trade   *)
(* against one model's direction is the analyst's, with the margin of the  *)
(* agreement score over the sentiment model.  A confidence that is no      *)
(* number is left to DirectionHasAVote: no margin can be spoken of there.  *)
DissentIsTheAnalysts ==
    Allowed /\ Numeric /\ Dissent =>
        /\ decision.direction = SignalOf("analyst").direction
        /\ Tech(SignalOf("analyst"))
              >= 100 * MinAgreement + Sent(SignalOf("sentiment"))

(* What the settings must say for a neutral signal never to decide: alone  *)
(* it is not confident enough; against a readable one, whichever of the    *)
(* two models it comes from, the two never agree enough, unless the        *)
(* analyst says long or short.                                             *)
NeutralIsWeak ==
    /\ Neutral < MinConfidence
    /\ SentWeight < MinAgreement
    /\ TechWeight * Neutral < 100 * MinAgreement
    /\ 100 * TechWeight < 100 * MinAgreement + SentWeight * Neutral

(* "Fallback: neutral signal" (dgrid.ts) votes long, yet it never turns a  *)
(* trade around or makes one: an allowed direction is the readable one's.  *)
(* Only the direction is: a neutral vote beside a very sure one may still  *)
(* lift the confidence over its minimum.                                   *)
UnreadableNeverDecides ==
    Allowed /\ Numeric =>
        \E m \in Models :
            /\ SignalOf(m).readable
            /\ \A n \in Models : ~SignalOf(n).readable =>
                  decision.direction = SignalOf(m).direction

(* "majority vote weighted by confidence" (dgrid.ts): what is known of an  *)
(* allowed direction that no model voted for, NaN and all.  A short comes  *)
(* from a vote for long whose confidence is a word, since the comparison   *)
(* of the scores fails and leaves the last branch; a long comes from a     *)
(* word that is neither side, and from nobody who gave short any weight.   *)
DirectionHasAVote ==
    Allowed /\ (\A m \in Models : SignalOf(m).direction # decision.direction) =>
        IF decision.direction = "short"
        THEN \E m \in Models : SignalOf(m).direction = "long" /\ SignalOf(m).confidence = NaN
        ELSE /\ \E m \in Models : SignalOf(m).direction \notin Sides
             /\ \A m \in Models :
                   SignalOf(m).direction = "short" => SignalOf(m).confidence = 0

=============================================================================
