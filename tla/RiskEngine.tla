----------------------------- MODULE RiskEngine -----------------------------
(***************************************************************************)
(* The compliance engine of the AuraLens plugin                            *)
(* (packages/plugin-bnb-auralens/src/providers/riskEngine.ts).             *)
(*                                                                         *)
(* The engine is a module-level record `state` that every trade cycle of   *)
(* the process shares, and synchronous functions on it: each runs without  *)
(* an await, so each is one indivisible operator from the record before to *)
(* the record after.  Time is a natural number read from Date.now();       *)
(* percentages and dollars are integers (confidence 55 stands for 0.55).   *)
(***************************************************************************)
EXTENDS Integers

CONSTANTS
    MinConfidence,    \* RISK_MIN_CONFIDENCE, in percent
    MinAgreement,     \* RISK_MIN_AGREEMENT_SCORE, in percent
    MaxTradePct,      \* RISK_MAX_TRADE_PCT, in percent of the treasury
    Timelock,         \* RISK_TIMELOCK_MS
    MaxOpenPositions, \* RISK_MAX_OPEN_POSITIONS
    MaxDailyLossPct,  \* RISK_MAX_DAILY_LOSS_PCT, in percent of the treasury
    MinTreasury,      \* the $100 floor
    Day,              \* 86_400_000 ms
    NaN               \* the number a model's answer that is no number becomes

ASSUME RiskAssumption ==
    /\ {MinConfidence, MinAgreement, MaxTradePct, Timelock, MaxOpenPositions,
        MaxDailyLossPct, MinTreasury} \subseteq Nat
    /\ MinTreasury > 0
    /\ Day \in Nat \ {0}
    /\ NaN \notin Int

Percent == 0 .. 100

(* Every comparison with NaN is false, so a check written `x < min` lets   *)
(* NaN pass.                                                               *)
Below(x, min) == x # NaN /\ x < min

(* A decision of the consensus, as far as the engine reads it.             *)
Decision == [confidence : Percent \cup {NaN}, agreement : Percent \cup {NaN}]

RiskState == [lastTradeAt : Nat, openPositionCount : Nat,
              dailyPnlUsd : Int, dailyResetAt : Nat]

(* startOfDay(): the last midnight.                                        *)
StartOfDay(t) == t - (t % Day)

(* The record the module is loaded with, at time t.                        *)
InitialRisk(t) == [lastTradeAt |-> 0, openPositionCount |-> 0,
                   dailyPnlUsd |-> 0, dailyResetAt |-> StartOfDay(t)]

(* The comparison is strict: at exactly dailyResetAt + Day the old day     *)
(* still counts.                                                           *)
ResetDailyIfNeeded(s, t) ==
    IF t > s.dailyResetAt + Day
    THEN [s EXCEPT !.dailyPnlUsd = 0, !.dailyResetAt = StartOfDay(t)]
    ELSE s

(* Wrong form: a result is booked without looking at the day first.        *)
RecordTradeResultNoReset(s, t, pnl) == [s EXCEPT !.dailyPnlUsd = @ + pnl]

RecordTradeResult(s, t, pnl) ==
    LET r == ResetDailyIfNeeded(s, t)
    IN  [r EXCEPT !.dailyPnlUsd = @ + pnl]

(* Wrong form: the position is counted, the time of the trade is not kept. *)
RecordPositionOpenedNoStamp(s, t) == [s EXCEPT !.openPositionCount = @ + 1]

RecordPositionOpened(s, t) ==
    [s EXCEPT !.openPositionCount = @ + 1, !.lastTradeAt = t]

(* Wrong form: the slot is never given back.                               *)
RecordPositionClosedKeepsSlot(s) == s

(* Math.max(0, count - 1).                                                 *)
RecordPositionClosed(s) ==
    [s EXCEPT !.openPositionCount = IF @ > 0 THEN @ - 1 ELSE 0]

(* The loss of the day as a share of the treasury reaches the limit; with  *)
(* nothing in the treasury the share is taken as 0.                        *)
DailyLoss(s) == IF s.dailyPnlUsd < 0 THEN -s.dailyPnlUsd ELSE 0

DailyLossReached(s, treasury) ==
    IF treasury > 0
    THEN DailyLoss(s) * 100 >= MaxDailyLossPct * treasury
    ELSE MaxDailyLossPct = 0

Reasons == {"confidence", "agreement", "timelock", "positions", "dailyLoss",
            "treasury"}

(* Wrong form: the limit is taken for the largest count to trade at.       *)
DenialsOneTooMany(s, t, d, treasury) ==
    {r \in Reasons :
        \/ r = "confidence" /\ Below(d.confidence, MinConfidence)
        \/ r = "agreement"  /\ Below(d.agreement, MinAgreement)
        \/ r = "timelock"   /\ s.lastTradeAt > 0 /\ t - s.lastTradeAt < Timelock
        \/ r = "positions"  /\ s.openPositionCount > MaxOpenPositions
        \/ r = "dailyLoss"  /\ DailyLossReached(s, treasury)
        \/ r = "treasury"   /\ treasury < MinTreasury}

(* The checks of runRiskCheck that fail for decision d at time t, s being  *)
(* the record after resetDailyIfNeeded.  The code reports the first one    *)
(* that fails; which one that is decides only the wording of the denial.   *)
Denials(s, t, d, treasury) ==
    {r \in Reasons :
        \/ r = "confidence" /\ Below(d.confidence, MinConfidence)
        \/ r = "agreement"  /\ Below(d.agreement, MinAgreement)
        \/ r = "timelock"   /\ s.lastTradeAt > 0 /\ t - s.lastTradeAt < Timelock
        \/ r = "positions"  /\ s.openPositionCount >= MaxOpenPositions
        \/ r = "dailyLoss"  /\ DailyLossReached(s, treasury)
        \/ r = "treasury"   /\ treasury < MinTreasury}

(* The size of an approved trade, in ten-thousandths of a dollar: the      *)
(* limit scaled by the confidence.                                         *)
CappedSize(d, treasury) ==
    IF d.confidence = NaN THEN NaN ELSE treasury * MaxTradePct * d.confidence

=============================================================================
