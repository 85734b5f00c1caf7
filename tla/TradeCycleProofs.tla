-------------------------- MODULE TradeCycleProofs --------------------------
(***************************************************************************)
(* Theorems about TradeCycle, for every set of cycles and every value of   *)
(* the settings.                                                           *)
(***************************************************************************)
EXTENDS TradeCycle, FiniteSetTheorems, SequenceTheorems,
        WellFoundedInduction, TLAPS

-----------------------------------------------------------------------------
(* Lemmas about the RiskEngine's operators.                                *)

(* The last midnight is a time, not later than now.                        *)
LEMMA StartOfDayType ==
    ASSUME NEW t \in Nat
    PROVE  StartOfDay(t) \in Nat /\ StartOfDay(t) <= t
BY RiskAssumption DEF StartOfDay

(* Each function of the engine keeps the record a record.                  *)
LEMMA RiskOperatorsType ==
    ASSUME NEW s \in RiskState, NEW t \in Nat
    PROVE  /\ InitialRisk(t) \in RiskState
           /\ ResetDailyIfNeeded(s, t) \in RiskState
           /\ \A pnl \in Int : RecordTradeResult(s, t, pnl) \in RiskState
           /\ RecordPositionOpened(s, t) \in RiskState
           /\ RecordPositionClosed(s) \in RiskState
<1>1. StartOfDay(t) \in Nat
  BY StartOfDayType
<1>2. InitialRisk(t) \in RiskState
  BY <1>1 DEF InitialRisk, RiskState
<1>3. ResetDailyIfNeeded(s, t) \in RiskState
  <2>1. [s EXCEPT !.dailyPnlUsd = 0] \in RiskState
    BY DEF RiskState
  <2>2. [s EXCEPT !.dailyPnlUsd = 0, !.dailyResetAt = StartOfDay(t)] \in RiskState
    BY <1>1, <2>1 DEF RiskState
  <2>3. QED
    BY <2>2 DEF ResetDailyIfNeeded
<1>4. \A pnl \in Int : RecordTradeResult(s, t, pnl) \in RiskState
  BY <1>3 DEF RecordTradeResult, RiskState
<1>5. RecordPositionOpened(s, t) \in RiskState
  <2>1. s.openPositionCount + 1 \in Nat
    BY DEF RiskState
  <2>2. [s EXCEPT !.openPositionCount = s.openPositionCount + 1] \in RiskState
    BY <2>1 DEF RiskState
  <2>3. QED
    BY <2>2 DEF RecordPositionOpened, RiskState
<1>6. RecordPositionClosed(s) \in RiskState
  BY DEF RecordPositionClosed, RiskState
<1>7. QED
  BY <1>2, <1>3, <1>4, <1>5, <1>6

(* A result of a position that could be mined is read as a number that is  *)
(* never negative.                                                         *)
LEMMA ReadPnlIsNatural ==
    ASSUME NEW p \in PnlValues, NEW r \in ReadPnl(p)
    PROVE  r \in Nat
<1>1. p \in Int /\ Collateral + p >= 0 /\ Collateral \in Nat
  BY TradeCycleAssumption
<1>2. WordRange \in Int /\ WordRange > 0
  BY TradeCycleAssumption
<1>3. p % WordRange \in 0 .. WordRange - 1
  BY <1>1, <1>2
<1>4. QED
  BY <1>1, <1>2, <1>3 DEF ReadPnl

(* The size of a trade is at most its share of the treasury.               *)
LEMMA SizeWithinCap ==
    ASSUME NEW d \in Decision, d.confidence \in Percent, NEW usd \in Nat
    PROVE  CappedSize(d, usd) <= 100 * (MaxTradePct * usd)
<1>1. MaxTradePct \in Nat /\ NaN \notin Int
  BY RiskAssumption
<1>2. \A x \in Nat, k \in Percent : x * k <= 100 * x
  BY DEF Percent
<1>3. usd * MaxTradePct \in Nat /\ usd * MaxTradePct = MaxTradePct * usd
  BY <1>1
<1>4. CappedSize(d, usd) = (usd * MaxTradePct) * d.confidence
  BY <1>1 DEF CappedSize, Percent
<1>5. QED
  BY <1>2, <1>3, <1>4

-----------------------------------------------------------------------------
(* Type correctness.                                                       *)

LEMMA InitType == Init => TypeOK
<1>1. InitialRisk(1) \in RiskState
  BY StartOfDayType DEF InitialRisk, RiskState
<1>2. EmptyFrame \in Frame
  BY RiskAssumption DEF EmptyFrame, Frame, Decision, Percent
<1>3. QED
  BY <1>1, <1>2 DEF Init, TypeOK, Control, ChainEntry, TxState, Times, NoTimes

(* A stored record is a record.                                            *)
LEMMA PersistType ==
    ASSUME TypeOK, NEW c \in Cycles, Persist(c)
    PROVE  memory' \in Seq(Record)
<1>1. NewRecord(c) \in Record
  BY DEF NewRecord, Record
<1>2. <<NewRecord(c)>> \in Seq(Record)
  BY <1>1
<1>3. memory \in Seq(Record)
  BY DEF TypeOK
<1>4. <<NewRecord(c)>> \o memory \in Seq(Record)
  BY <1>2, <1>3, ConcatProperties
<1>5. QED
  BY <1>3, <1>4 DEF Persist

(* A handler moves from one point of control to another.                   *)
LEMMA GoType ==
    ASSUME TypeOK, NEW c \in Cycles, NEW from, NEW to \in Control,
           Go(c, from, to)
    PROVE  pc' \in [Cycles -> Control]
BY DEF TypeOK, Go

LEMMA HandlerType ==
    ASSUME TypeOK, NEW c \in Cycles, Handler(c)
    PROVE  TypeOK'
<1> USE DEF TypeOK, books
<1>1. CASE ReadTreasury(c)
  <2>1. TreasuryReadings \subseteq Nat
    BY TradeCycleAssumption
  <2>2. local' \in [Cycles -> Frame]
    BY <1>1, <2>1 DEF ReadTreasury, Frame
  <2>3. QED
    BY <1>1, <2>2, GoType DEF ReadTreasury, Control, Active
<1>2. CASE BuildContext(c)
  BY <1>2, GoType DEF BuildContext, Control, Active, Ended
<1>3. CASE Consult(c)
  <2>1. Decisions \subseteq Decision
    BY TradeCycleAssumption
  <2>2. \A d \in Decision :
           [local EXCEPT ![c].decision = d] \in [Cycles -> Frame]
    BY DEF Frame
  <2>3. local' \in [Cycles -> Frame]
    BY <1>3, <2>1, <2>2 DEF Consult
  <2>4. pc' \in [Cycles -> Control]
    BY <1>3, GoType DEF Consult, Control, Active, Ended
  <2>5. QED
    BY <1>3, <2>3, <2>4 DEF Consult
<1>4. CASE CheckRisk(c)
  <2> DEFINE today   == ResetDailyIfNeeded(risk, now)
             verdict == Denials(today, now, local[c].decision, local[c].treasury)
  <2>1. today \in RiskState
    BY RiskOperatorsType
  <2>2. verdict \in SUBSET Reasons
    BY DEF Denials
  <2> HIDE DEF today, verdict
  <2>3. local' \in [Cycles -> Frame]
    BY <1>4, <2>2 DEF CheckRisk, Frame, today, verdict
  <2>4. pc' \in [Cycles -> Control]
    BY <1>4 DEF CheckRisk, Go, Control, Active
  <2>5. risk' \in RiskState
    BY <1>4, <2>1 DEF CheckRisk, today
  <2>6. recorded' \in [Cycles -> Times]
    BY <1>4 DEF CheckRisk, Times
  <2>7. QED
    BY <1>4, <2>3, <2>4, <2>5, <2>6 DEF CheckRisk
<1>5. CASE PersistDenial(c)
  BY <1>5, GoType, PersistType DEF PersistDenial, Control, Ended
<1>6. CASE OpenFails(c)
  BY <1>6, GoType DEF OpenFails, Control, Ended
<1>7. CASE OpenSend(c)
  <2>1. chain' \in [Cycles -> ChainEntry]
    BY <1>7 DEF OpenSend, ChainEntry, TxState
  <2>2. QED
    BY <1>7, <2>1, GoType DEF OpenSend, Control, Active
<1>8. CASE OpenReceipt(c)
  <2>1. now + Hold \in Nat
    BY TradeCycleAssumption
  <2>2. PICK usable \in BOOLEAN :
           local' = [local EXCEPT ![c].usable = usable,
                                  ![c].holdUntil = now + Hold]
    BY <1>8 DEF OpenReceipt
  <2>3. [local EXCEPT ![c].usable = usable] \in [Cycles -> Frame]
    BY <2>2 DEF Frame
  <2>4. local' \in [Cycles -> Frame]
    BY <2>1, <2>2, <2>3 DEF Frame
  <2>5. risk' \in RiskState
    BY <1>8, RiskOperatorsType DEF OpenReceipt
  <2>6. recorded' \in [Cycles -> Times]
    BY <1>8 DEF OpenReceipt, Times
  <2>7. QED
    BY <1>8, <2>4, <2>5, <2>6, GoType DEF OpenReceipt, Control, Active
<1>9. CASE OpenWaitFails(c)
  BY <1>9, GoType DEF OpenWaitFails, Control, Ended
<1>10. CASE HoldElapses(c)
  BY <1>10, GoType DEF HoldElapses, Control, Active
<1>11. CASE CloseFails(c)
  BY <1>11, GoType, RiskOperatorsType DEF CloseFails, Control, Ended
<1>12. CASE CloseSend(c)
  <2>1. chain' \in [Cycles -> ChainEntry]
    BY <1>12 DEF CloseSend, ChainEntry, TxState
  <2>2. QED
    BY <1>12, <2>1, GoType DEF CloseSend, Control, Active
<1>13. CASE CloseReceipt(c)
  <2>1. PICK read \in IF chain[c].close = "mined" THEN ReadPnl(chain[c].pnl)
                                                  ELSE {0} :
           /\ local' = [local EXCEPT ![c].pnlUsd = read]
           /\ risk' = RecordTradeResult(RecordPositionClosed(risk), now, read)
    BY <1>13 DEF CloseReceipt
  <2>2. read \in Int
    <3>1. chain[c].pnl \in Int
      BY DEF ChainEntry
    <3>2. WordRange \in Nat \ {0} /\ Collateral \in Nat
      BY TradeCycleAssumption
    <3>3. chain[c].pnl % WordRange \in Int
      BY <3>1, <3>2
    <3>4. QED
      BY <2>1, <3>1, <3>2, <3>3 DEF ReadPnl
  <2>3. local' \in [Cycles -> Frame]
    BY <2>1, <2>2 DEF Frame
  <2>4. risk' \in RiskState
    BY <2>1, <2>2, RiskOperatorsType
  <2>5. recorded' \in [Cycles -> Times]
    BY <1>13 DEF CloseReceipt, Times
  <2>6. QED
    BY <1>13, <2>3, <2>4, <2>5, GoType DEF CloseReceipt, Control, Active
<1>14. CASE CloseWaitFails(c)
  BY <1>14, GoType, RiskOperatorsType DEF CloseWaitFails, Control, Ended
<1>15. CASE PayInfraFees(c)
  BY <1>15, GoType DEF PayInfraFees, Control, Active
<1>16. CASE IssueInvoice(c)
  BY <1>16, GoType DEF IssueInvoice, Control, Active
<1>17. CASE ExecuteBuyback(c)
  BY <1>17, GoType DEF ExecuteBuyback, Control, Active
<1>18. CASE PersistResult(c)
  BY <1>18, GoType, PersistType DEF PersistResult, Control, Ended
<1>19. QED
  BY <1>1, <1>2, <1>3, <1>4, <1>5, <1>6, <1>7, <1>8, <1>9, <1>10, <1>11,
     <1>12, <1>13, <1>14, <1>15, <1>16, <1>17, <1>18 DEF Handler

(* The variables always have their types.                                  *)
THEOREM TypeCorrect == Spec => []TypeOK
<1>1. TypeOK /\ [Next]_vars => TypeOK'
  <2> SUFFICES ASSUME TypeOK, [Next]_vars PROVE TypeOK'
    OBVIOUS
  <2>1. ASSUME NEW c \in Cycles, StartCycle(c) PROVE TypeOK'
    BY <2>1, GoType DEF TypeOK, StartCycle, books, Control, Active
  <2>2. ASSUME NEW c \in Cycles, Handler(c) PROVE TypeOK'
    BY <2>2, HandlerType
  <2>3. ASSUME NEW c \in Cycles, MineOpen(c) PROVE TypeOK'
    BY <2>3 DEF TypeOK, MineOpen, chainOnly, books, ChainEntry, TxState
  <2>4. ASSUME NEW c \in Cycles, MineClose(c) PROVE TypeOK'
    <3>1. PnlValues \subseteq Int
      BY TradeCycleAssumption
    <3>2. chain' \in [Cycles -> ChainEntry]
      <4>1. [chain EXCEPT ![c].close = "mined"] \in [Cycles -> ChainEntry]
        BY DEF TypeOK, ChainEntry, TxState
      <4>2. \A p \in Int : [chain EXCEPT ![c].close = "mined", ![c].pnl = p]
                              \in [Cycles -> ChainEntry]
        BY <4>1 DEF ChainEntry
      <4>3. [chain EXCEPT ![c].close = "reverted"] \in [Cycles -> ChainEntry]
        BY DEF TypeOK, ChainEntry, TxState
      <4>4. QED
        BY <2>4, <3>1, <4>2, <4>3 DEF MineClose
    <3>3. QED
      BY <2>4, <3>2 DEF TypeOK, MineClose, chainOnly, books
  <2>5. ASSUME Tick PROVE TypeOK'
    BY <2>5 DEF TypeOK, Tick, books
  <2>6. ASSUME Crash PROVE TypeOK'
    <3>1. InitialRisk(now) \in RiskState
      BY RiskOperatorsType DEF TypeOK
    <3>2. pc' \in [Cycles -> Control]
      BY <2>6 DEF TypeOK, Crash, Control, Ended
    <3>3. recorded' \in [Cycles -> Times]
      BY <2>6 DEF Crash, NoTimes, Times
    <3>4. crashes' \in Nat
      BY <2>6 DEF TypeOK, Crash
    <3>5. QED
      BY <2>6, <3>1, <3>2, <3>3, <3>4 DEF TypeOK, Crash, books
  <2>7. CASE UNCHANGED vars
    BY <2>7 DEF TypeOK, vars
  <2>8. QED
    BY <2>1, <2>2, <2>3, <2>4, <2>5, <2>6, <2>7 DEF Next
<1>2. QED
  BY InitType, <1>1, PTL DEF Spec

-----------------------------------------------------------------------------
(* The count of open positions.                                            *)

(* A change of day leaves the count alone, and so does booking a result.   *)
LEMMA CountKept ==
    ASSUME NEW s \in RiskState, NEW t \in Nat
    PROVE  /\ ResetDailyIfNeeded(s, t).openPositionCount = s.openPositionCount
           /\ \A pnl \in Int : RecordTradeResult(s, t, pnl).openPositionCount
                                  = s.openPositionCount
<1>1. ResetDailyIfNeeded(s, t) \in RiskState
  BY RiskOperatorsType
<1>2. ResetDailyIfNeeded(s, t).openPositionCount = s.openPositionCount
  BY DEF ResetDailyIfNeeded, RiskState
<1>3. QED
  BY <1>1, <1>2 DEF RecordTradeResult, RiskState

(* What a handler's step does to the set of holding handlers.              *)
LEMMA HoldingFinite == IsFiniteSet(Holding) /\ Cardinality(Holding) \in Nat
<1>1. Holding \subseteq Cycles
  BY DEF Holding
<1>2. QED
  BY <1>1, TradeCycleAssumption, FS_Subset, FS_CardinalityType

LEMMA OpeningAddsHolder ==
    ASSUME TypeOK, NEW c \in Cycles, Go(c, "openSent", "hold")
    PROVE  Cardinality(Holding)' = Cardinality(Holding) + 1
<1>1. c \notin Holding /\ Holding' = Holding \cup {c}
  BY DEF Holding, Go, TypeOK
<1>2. QED
  BY <1>1, HoldingFinite, FS_AddElement

LEMMA ClosingRemovesHolder ==
    ASSUME TypeOK, CountMatchesHandlers, NEW c \in Cycles,
           NEW from \in {"closing", "closeSent"},
           NEW to \in {"failedClose", "fees"}, Go(c, from, to)
    PROVE  Cardinality(Holding)' = RecordPositionClosed(risk).openPositionCount
<1>1. c \in Holding /\ Holding' = Holding \ {c}
  BY DEF Holding, Go, TypeOK
<1>2. Cardinality(Holding)' = Cardinality(Holding) - 1
  BY <1>1, HoldingFinite, FS_RemoveElement
<1>3. Cardinality(Holding) > 0
  BY <1>1, HoldingFinite, FS_EmptySet
<1>4. QED
  BY <1>2, <1>3, HoldingFinite
     DEF CountMatchesHandlers, RecordPositionClosed, TypeOK, RiskState

LEMMA OtherStepsKeepHolders ==
    ASSUME TypeOK, NEW c \in Cycles, NEW from, NEW to, Go(c, from, to),
           from \in {"hold", "closing"} <=> to \in {"closing", "closeSent"},
           from # "closeSent", to # "hold"
    PROVE  Holding' = Holding
BY DEF Holding, Go, TypeOK

LEMMA CountStep ==
    ASSUME TypeOK, CountMatchesHandlers, [Next]_vars
    PROVE  CountMatchesHandlers'
<1> USE DEF CountMatchesHandlers
<1>1. ASSUME NEW c \in Cycles, StartCycle(c) PROVE CountMatchesHandlers'
  BY <1>1, OtherStepsKeepHolders DEF StartCycle
<1>2. ASSUME NEW c \in Cycles, Handler(c) PROVE CountMatchesHandlers'
  <2>1. CASE ReadTreasury(c)
    BY <2>1, OtherStepsKeepHolders DEF ReadTreasury
  <2>2. CASE BuildContext(c)
    BY <2>2, OtherStepsKeepHolders DEF BuildContext
  <2>3. CASE Consult(c)
    BY <2>3, OtherStepsKeepHolders DEF Consult
  <2>4. CASE CheckRisk(c)
    <3>1. Holding' = Holding
      BY <2>4, OtherStepsKeepHolders DEF CheckRisk
    <3>2. risk'.openPositionCount = risk.openPositionCount
      BY <2>4, CountKept DEF CheckRisk, TypeOK
    <3>3. QED
      BY <3>1, <3>2
  <2>5. CASE PersistDenial(c)
    BY <2>5, OtherStepsKeepHolders DEF PersistDenial
  <2>6. CASE OpenFails(c)
    BY <2>6, OtherStepsKeepHolders DEF OpenFails
  <2>7. CASE OpenSend(c)
    BY <2>7, OtherStepsKeepHolders DEF OpenSend
  <2>8. CASE OpenReceipt(c)
    <3>1. risk'.openPositionCount = risk.openPositionCount + 1
      BY <2>8 DEF OpenReceipt, RecordPositionOpened, TypeOK, RiskState
    <3>2. QED
      BY <2>8, <3>1, OpeningAddsHolder DEF OpenReceipt
  <2>9. CASE OpenWaitFails(c)
    BY <2>9, OtherStepsKeepHolders DEF OpenWaitFails
  <2>10. CASE HoldElapses(c)
    BY <2>10, OtherStepsKeepHolders DEF HoldElapses
  <2>11. CASE CloseFails(c)
    BY <2>11, ClosingRemovesHolder DEF CloseFails
  <2>12. CASE CloseSend(c)
    BY <2>12, OtherStepsKeepHolders DEF CloseSend
  <2>13. CASE CloseReceipt(c)
    <3>1. PICK read \in IF chain[c].close = "mined" THEN ReadPnl(chain[c].pnl)
                                                    ELSE {0} :
             risk' = RecordTradeResult(RecordPositionClosed(risk), now, read)
      BY <2>13 DEF CloseReceipt
    <3>2. read \in Int
      <4>1. chain[c].pnl \in Int
        BY DEF TypeOK, ChainEntry
      <4>2. QED
        BY <3>1, <4>1, TradeCycleAssumption DEF ReadPnl
    <3>3. risk'.openPositionCount = RecordPositionClosed(risk).openPositionCount
      BY <3>1, <3>2, CountKept, RiskOperatorsType DEF TypeOK
    <3>4. QED
      BY <2>13, <3>3, ClosingRemovesHolder DEF CloseReceipt
  <2>14. CASE CloseWaitFails(c)
    BY <2>14, ClosingRemovesHolder DEF CloseWaitFails
  <2>15. CASE PayInfraFees(c)
    BY <2>15, OtherStepsKeepHolders DEF PayInfraFees
  <2>16. CASE IssueInvoice(c)
    BY <2>16, OtherStepsKeepHolders DEF IssueInvoice
  <2>17. CASE ExecuteBuyback(c)
    BY <2>17, OtherStepsKeepHolders DEF ExecuteBuyback
  <2>18. CASE PersistResult(c)
    BY <2>18, OtherStepsKeepHolders DEF PersistResult
  <2>19. QED
    BY <1>2, <2>1, <2>2, <2>3, <2>4, <2>5, <2>6, <2>7, <2>8, <2>9, <2>10,
       <2>11, <2>12, <2>13, <2>14, <2>15, <2>16, <2>17, <2>18 DEF Handler
<1>3. ASSUME NEW c \in Cycles, MineOpen(c) \/ MineClose(c)
      PROVE  CountMatchesHandlers'
  BY <1>3 DEF MineOpen, MineClose, chainOnly, Holding
<1>4. ASSUME Tick PROVE CountMatchesHandlers'
  BY <1>4 DEF Tick, Holding
<1>5. ASSUME Crash PROVE CountMatchesHandlers'
  <2>1. Holding' = {}
    BY <1>5 DEF Crash, Holding, Active
  <2>2. QED
    BY <1>5, <2>1, FS_EmptySet DEF Crash, InitialRisk
<1>6. CASE UNCHANGED vars
  BY <1>6 DEF vars, Holding
<1>7. QED
  BY <1>1, <1>2, <1>3, <1>4, <1>5, <1>6 DEF Next

(* The engine's count is the number of handlers that hold a position.      *)
THEOREM CountCorrect == Spec => []CountMatchesHandlers
<1>1. Init => CountMatchesHandlers
  <2> SUFFICES ASSUME Init PROVE CountMatchesHandlers
    OBVIOUS
  <2>1. Holding = {}
    BY DEF Init, Holding
  <2>2. QED
    BY <2>1, FS_EmptySet DEF Init, InitialRisk, CountMatchesHandlers
<1>2. QED
  BY <1>1, CountStep, TypeCorrect, PTL DEF Spec

-----------------------------------------------------------------------------
(* The daily figure.                                                       *)

(* Inductive: what is booked, what was read and what can still be read are *)
(* all natural numbers, and no verdict names the daily loss.               *)
NoLossInv ==
    /\ NoLossIsBooked
    /\ \A c \in Cycles : local[c].pnlUsd >= 0
    /\ \A c \in Cycles : chain[c].close = "mined" => chain[c].pnl \in PnlValues

(* Days that change and positions that open or close do not take from the  *)
(* daily figure.                                                           *)
LEMMA DailyFigureKept ==
    ASSUME NEW s \in RiskState, NEW t \in Nat, s.dailyPnlUsd >= 0
    PROVE  /\ ResetDailyIfNeeded(s, t).dailyPnlUsd >= 0
           /\ RecordPositionOpened(s, t).dailyPnlUsd >= 0
           /\ RecordPositionClosed(s).dailyPnlUsd >= 0
           /\ \A pnl \in Nat : RecordTradeResult(s, t, pnl).dailyPnlUsd >= 0
<1>1. ResetDailyIfNeeded(s, t) \in RiskState
  BY RiskOperatorsType
<1>2. ResetDailyIfNeeded(s, t).dailyPnlUsd >= 0
  BY DEF ResetDailyIfNeeded, RiskState
<1>3. \A pnl \in Nat : RecordTradeResult(s, t, pnl).dailyPnlUsd >= 0
  BY <1>1, <1>2 DEF RecordTradeResult, RiskState
<1>4. RecordPositionOpened(s, t).dailyPnlUsd >= 0
  BY DEF RecordPositionOpened, RiskState
<1>5. RecordPositionClosed(s).dailyPnlUsd >= 0
  BY DEF RecordPositionClosed, RiskState
<1>6. QED
  BY <1>2, <1>3, <1>4, <1>5

(* With no loss in the figure the daily-loss check passes.                 *)
LEMMA NoLossNoDenial ==
    ASSUME NEW s \in RiskState, s.dailyPnlUsd >= 0, NEW t \in Nat, NEW d,
           NEW usd \in Nat, MaxDailyLossPct > 0
    PROVE  "dailyLoss" \notin Denials(s, t, d, usd)
<1>1. DailyLoss(s) = 0
  BY DEF DailyLoss, RiskState
<1>2. MaxDailyLossPct * usd > 0 \/ usd = 0
  BY RiskAssumption
<1>3. ~DailyLossReached(s, usd)
  BY <1>1, <1>2, RiskAssumption DEF DailyLossReached
<1>4. QED
  BY <1>3 DEF Denials

LEMMA NoLossStep ==
    ASSUME TypeOK, NoLossInv, [Next]_vars
    PROVE  NoLossInv'
<1> USE DEF NoLossInv, NoLossIsBooked
<1>1. ASSUME NEW c \in Cycles, StartCycle(c) PROVE NoLossInv'
  BY <1>1 DEF StartCycle
<1>2. ASSUME NEW c \in Cycles, Handler(c) PROVE NoLossInv'
  <2>1. CASE ReadTreasury(c)
    BY <2>1 DEF ReadTreasury, TypeOK, Frame
  <2>2. CASE BuildContext(c)
    BY <2>2 DEF BuildContext
  <2>3. CASE Consult(c)
    <3>1. \A b \in Cycles : /\ local'[b].pnlUsd = local[b].pnlUsd
                            /\ local'[b].verdict = local[b].verdict
      BY <2>3 DEF Consult, TypeOK, Frame
    <3>2. QED
      BY <2>3, <3>1 DEF Consult
  <2>4. CASE CheckRisk(c)
    <3> DEFINE today   == ResetDailyIfNeeded(risk, now)
               verdict == Denials(today, now, local[c].decision,
                                  local[c].treasury)
    <3>1. today \in RiskState /\ today.dailyPnlUsd >= 0
      BY RiskOperatorsType, DailyFigureKept DEF TypeOK
    <3>2. local[c].treasury \in Nat /\ now \in Nat
      BY DEF TypeOK, Frame
    <3> HIDE DEF today
    <3>3. MaxDailyLossPct > 0 => "dailyLoss" \notin verdict
      BY <3>1, <3>2, NoLossNoDenial
    <3> HIDE DEF verdict
    <3>4. risk' = today /\ local' = [local EXCEPT ![c].verdict = verdict]
      BY <2>4 DEF CheckRisk, today, verdict
    <3>5. \A b \in Cycles :
             /\ local'[b].pnlUsd = local[b].pnlUsd
             /\ local'[b].verdict = IF b = c THEN verdict ELSE local[b].verdict
      BY <3>4 DEF TypeOK, Frame
    <3>6. QED
      BY <2>4, <3>1, <3>3, <3>4, <3>5 DEF CheckRisk
  <2>5. CASE PersistDenial(c)
    BY <2>5 DEF PersistDenial
  <2>6. CASE OpenFails(c)
    BY <2>6 DEF OpenFails
  <2>7. CASE OpenSend(c)
    BY <2>7 DEF OpenSend, TypeOK, ChainEntry
  <2>8. CASE OpenReceipt(c)
    <3>1. risk'.dailyPnlUsd >= 0
      BY <2>8, DailyFigureKept DEF OpenReceipt, TypeOK
    <3>2. \A b \in Cycles : /\ local'[b].pnlUsd = local[b].pnlUsd
                            /\ local'[b].verdict = local[b].verdict
      BY <2>8 DEF OpenReceipt, TypeOK, Frame
    <3>3. QED
      BY <2>8, <3>1, <3>2 DEF OpenReceipt
  <2>9. CASE OpenWaitFails(c)
    BY <2>9 DEF OpenWaitFails
  <2>10. CASE HoldElapses(c)
    BY <2>10 DEF HoldElapses
  <2>11. CASE CloseFails(c)
    BY <2>11, DailyFigureKept DEF CloseFails, TypeOK
  <2>12. CASE CloseSend(c)
    BY <2>12 DEF CloseSend, TypeOK, ChainEntry
  <2>13. CASE CloseReceipt(c)
    <3>1. PICK read \in IF chain[c].close = "mined" THEN ReadPnl(chain[c].pnl)
                                                    ELSE {0} :
             /\ local' = [local EXCEPT ![c].pnlUsd = read]
             /\ risk' = RecordTradeResult(RecordPositionClosed(risk), now, read)
      BY <2>13 DEF CloseReceipt
    <3>2. read \in Nat
      BY <3>1, ReadPnlIsNatural
    <3>3. \A b \in Cycles : /\ local'[b].pnlUsd >= 0
                            /\ local'[b].verdict = local[b].verdict
      BY <3>1, <3>2 DEF TypeOK, Frame
    <3>4. risk'.dailyPnlUsd >= 0
      <4>1. RecordPositionClosed(risk) \in RiskState
        BY RiskOperatorsType DEF TypeOK
      <4>2. RecordPositionClosed(risk).dailyPnlUsd >= 0
        BY DailyFigureKept DEF TypeOK
      <4>3. QED
        BY <3>1, <3>2, <4>1, <4>2, DailyFigureKept DEF TypeOK
    <3>5. QED
      BY <2>13, <3>3, <3>4 DEF CloseReceipt
  <2>14. CASE CloseWaitFails(c)
    BY <2>14, DailyFigureKept DEF CloseWaitFails, TypeOK
  <2>15. CASE PayInfraFees(c)
    BY <2>15 DEF PayInfraFees
  <2>16. CASE IssueInvoice(c)
    BY <2>16 DEF IssueInvoice
  <2>17. CASE ExecuteBuyback(c)
    BY <2>17 DEF ExecuteBuyback
  <2>18. CASE PersistResult(c)
    BY <2>18 DEF PersistResult
  <2>19. QED
    BY <1>2, <2>1, <2>2, <2>3, <2>4, <2>5, <2>6, <2>7, <2>8, <2>9, <2>10,
       <2>11, <2>12, <2>13, <2>14, <2>15, <2>16, <2>17, <2>18 DEF Handler
<1>3. ASSUME NEW c \in Cycles, MineOpen(c) PROVE NoLossInv'
  BY <1>3 DEF MineOpen, chainOnly, TypeOK, ChainEntry
<1>4. ASSUME NEW c \in Cycles, MineClose(c) PROVE NoLossInv'
  <2>1. \A b \in Cycles \ {c} : chain'[b] = chain[b]
    BY <1>4 DEF MineClose, TypeOK
  <2>2. chain'[c].close = "mined" => chain'[c].pnl \in PnlValues
    <3>1. CASE chain' = [chain EXCEPT ![c].close = "reverted"]
      BY <3>1 DEF TypeOK, ChainEntry
    <3>2. ASSUME NEW p \in PnlValues,
                 chain' = [chain EXCEPT ![c].close = "mined", ![c].pnl = p]
          PROVE  chain'[c].pnl = p
      <4>1. [chain EXCEPT ![c].close = "mined"] \in [Cycles -> ChainEntry]
        BY DEF TypeOK, ChainEntry, TxState
      <4>2. QED
        BY <3>2, <4>1 DEF ChainEntry
    <3>3. QED
      BY <1>4, <3>1, <3>2 DEF MineClose
  <2>3. QED
    BY <1>4, <2>1, <2>2 DEF MineClose, chainOnly
<1>5. ASSUME Tick PROVE NoLossInv'
  BY <1>5 DEF Tick
<1>6. ASSUME Crash PROVE NoLossInv'
  BY <1>6 DEF Crash, InitialRisk
<1>7. CASE UNCHANGED vars
  BY <1>7 DEF vars
<1>8. QED
  BY <1>1, <1>2, <1>3, <1>4, <1>5, <1>6, <1>7 DEF Next

(* The daily-loss check denies nothing, in any behaviour.                  *)
THEOREM LossNeverBooked == Spec => []NoLossIsBooked
<1>1. Init => NoLossInv
  BY DEF Init, NoLossInv, NoLossIsBooked, InitialRisk, EmptyFrame
<1>2. NoLossInv => NoLossIsBooked
  BY DEF NoLossInv
<1>3. QED
  BY <1>1, <1>2, NoLossStep, TypeCorrect, PTL DEF Spec

-----------------------------------------------------------------------------
(* Where a handler is, and what it has on the chain.                       *)

BeforeOpening == {"idle", "treasury", "context", "consult", "check", "deny",
                  "opening", "threw", "brokenContext", "denied"}
Settling == {"fees", "invoice", "buyback", "persist", "completed"}

(* The engine approved cycle c on what its frame holds.                    *)
Approved(c) ==
    /\ local[c].verdict = {}
    /\ local[c].decision.confidence = NaN
         \/ local[c].decision.confidence >= MinConfidence
    /\ local[c].treasury >= MinTreasury

(* Inductive: nothing is on the chain before the opening is sent, what is  *)
(* there was approved, and a cycle that settles had a receipt of its       *)
(* closing.                                                                *)
StageInv ==
    \A c \in Cycles :
        /\ pc[c] \in BeforeOpening => chain[c].open = "none"
        /\ pc[c] = "opening" => Approved(c)
        /\ chain[c].open # "none" =>
              Approved(c) /\ local[c].decision.confidence # NaN
        /\ pc[c] \in Settling => chain[c].close \in {"mined", "reverted"}

(* What a handler reads and decides stays as it was once it is approved.   *)
SameDecision(c) ==
    /\ local'[c].verdict = local[c].verdict
    /\ local'[c].decision = local[c].decision
    /\ local'[c].treasury = local[c].treasury

(* A step of cycle c that leaves the chain and the decisions alone, and    *)
(* enters no stage that asks for more, keeps the invariant.                *)
LEMMA StageKept ==
    ASSUME TypeOK, StageInv, NEW c \in Cycles, NEW from, NEW to,
           Go(c, from, to), chain' = chain,
           \A b \in Cycles : SameDecision(b),
           to \in BeforeOpening => from \in BeforeOpening,
           to = "opening" => FALSE,
           to \in Settling => from \in Settling
    PROVE  StageInv'
<1>1. \A b \in Cycles \ {c} : pc'[b] = pc[b]
  BY DEF TypeOK, Go
<1>2. pc'[c] = to /\ pc[c] = from
  BY DEF TypeOK, Go
<1>3. QED
  BY <1>1, <1>2 DEF StageInv, SameDecision, Approved

(* Before the opening is sent the frame may change: nothing depends on it. *)
LEMMA StageKeptBefore ==
    ASSUME TypeOK, StageInv, NEW c \in Cycles, NEW from \in BeforeOpening,
           NEW to \in BeforeOpening, Go(c, from, to), chain' = chain,
           \A b \in Cycles \ {c} : local'[b] = local[b],
           to = "opening" => Approved(c)'
    PROVE  StageInv'
<1>1. \A b \in Cycles \ {c} : pc'[b] = pc[b]
  BY DEF TypeOK, Go
<1>2. pc'[c] = to /\ pc[c] = from
  BY DEF TypeOK, Go
<1>3. to \notin Settling
  BY DEF BeforeOpening, Settling
<1>4. chain'[c].open = "none"
  BY <1>2 DEF StageInv
<1>5. \A b \in Cycles \ {c} : Approved(b)' <=> Approved(b)
  BY DEF Approved
<1>6. QED
  BY <1>1, <1>2, <1>3, <1>4, <1>5 DEF StageInv

LEMMA StageStepHandler ==
    ASSUME TypeOK, StageInv, NEW c \in Cycles, Handler(c)
    PROVE  StageInv'
<1> USE DEF BeforeOpening, Settling
<1>1. CASE ReadTreasury(c)
  BY <1>1, StageKeptBefore DEF ReadTreasury, TypeOK
<1>2. CASE BuildContext(c)
  BY <1>2, StageKeptBefore DEF BuildContext
<1>3. CASE Consult(c)
  <2>1. \A b \in Cycles \ {c} : local'[b] = local[b]
    BY <1>3 DEF Consult, TypeOK
  <2>2. QED
    BY <1>3, <2>1, StageKeptBefore DEF Consult
<1>4. CASE CheckRisk(c)
  <2> DEFINE today   == ResetDailyIfNeeded(risk, now)
             verdict == Denials(today, now, local[c].decision, local[c].treasury)
             to      == IF verdict = {} THEN "opening" ELSE "deny"
  <2>1. /\ Go(c, "check", to)
        /\ chain' = chain
        /\ local' = [local EXCEPT ![c].verdict = verdict]
    BY <1>4 DEF CheckRisk
  <2>2. /\ local'[c].verdict = verdict
        /\ local'[c].decision = local[c].decision
        /\ local'[c].treasury = local[c].treasury
    BY <2>1 DEF TypeOK, Frame
  <2>3. verdict = {} => Approved(c)'
    <3>1. /\ local[c].decision.confidence \in Percent \cup {NaN}
          /\ local[c].treasury \in Nat
      BY DEF TypeOK, Frame, Decision
    <3>2. verdict = {} => /\ ~Below(local[c].decision.confidence, MinConfidence)
                          /\ ~(local[c].treasury < MinTreasury)
      BY DEF Denials, Reasons
    <3> HIDE DEF verdict
    <3>3. QED
      BY <2>2, <3>1, <3>2, RiskAssumption DEF Approved, Below, Percent
  <2> HIDE DEF verdict
  <2>4. \A b \in Cycles \ {c} : local'[b] = local[b]
    BY <2>1 DEF TypeOK
  <2>5. QED
    BY <2>1, <2>3, <2>4, StageKeptBefore
<1>5. CASE PersistDenial(c)
  BY <1>5, StageKeptBefore DEF PersistDenial
<1>6. CASE OpenFails(c)
  BY <1>6, StageKept DEF OpenFails, SameDecision
<1>7. CASE OpenSend(c)
  <2>1. /\ pc[c] = "opening" /\ local' = local
        /\ local[c].decision.confidence # NaN
    BY <1>7 DEF OpenSend, CappedSize, Go
  <2>2. \A b \in Cycles \ {c} : pc'[b] = pc[b] /\ chain'[b] = chain[b]
    BY <1>7 DEF OpenSend, Go, TypeOK
  <2>3. pc'[c] = "openSent"
    BY <1>7 DEF OpenSend, Go, TypeOK
  <2>4. QED
    BY <2>1, <2>2, <2>3 DEF StageInv, Approved
<1>8. CASE OpenReceipt(c)
  <2>1. \A b \in Cycles : SameDecision(b)
    BY <1>8 DEF OpenReceipt, SameDecision, TypeOK, Frame
  <2>2. QED
    BY <1>8, <2>1, StageKept DEF OpenReceipt
<1>9. CASE OpenWaitFails(c)
  BY <1>9, StageKept DEF OpenWaitFails, SameDecision
<1>10. CASE HoldElapses(c)
  BY <1>10, StageKept DEF HoldElapses, SameDecision
<1>11. CASE CloseFails(c)
  BY <1>11, StageKept DEF CloseFails, SameDecision
<1>12. CASE CloseSend(c)
  <2>1. local' = local /\ pc[c] = "closing"
    BY <1>12 DEF CloseSend, Go
  <2>2. \A b \in Cycles \ {c} : pc'[b] = pc[b] /\ chain'[b] = chain[b]
    BY <1>12 DEF CloseSend, Go, TypeOK
  <2>3. pc'[c] = "closeSent" /\ chain'[c].open = chain[c].open
    BY <1>12 DEF CloseSend, Go, TypeOK, ChainEntry
  <2>4. QED
    BY <2>1, <2>2, <2>3 DEF StageInv, Approved
<1>13. CASE CloseReceipt(c)
  <2>1. \A b \in Cycles : SameDecision(b)
    BY <1>13 DEF CloseReceipt, SameDecision, TypeOK, Frame
  <2>2. /\ chain' = chain
        /\ chain[c].close \in {"mined", "reverted"}
    BY <1>13 DEF CloseReceipt
  <2>3. \A b \in Cycles \ {c} : pc'[b] = pc[b]
    BY <1>13 DEF CloseReceipt, Go, TypeOK
  <2>4. pc'[c] = "fees"
    BY <1>13 DEF CloseReceipt, Go, TypeOK
  <2>5. QED
    BY <2>1, <2>2, <2>3, <2>4 DEF StageInv, SameDecision, Approved
<1>14. CASE CloseWaitFails(c)
  BY <1>14, StageKept DEF CloseWaitFails, SameDecision
<1>15. CASE PayInfraFees(c)
  BY <1>15, StageKept DEF PayInfraFees, SameDecision
<1>16. CASE IssueInvoice(c)
  BY <1>16, StageKept DEF IssueInvoice, SameDecision
<1>17. CASE ExecuteBuyback(c)
  BY <1>17, StageKept DEF ExecuteBuyback, SameDecision
<1>18. CASE PersistResult(c)
  BY <1>18, StageKept DEF PersistResult, SameDecision
<1>19. QED
  BY <1>1, <1>2, <1>3, <1>4, <1>5, <1>6, <1>7, <1>8, <1>9, <1>10, <1>11,
     <1>12, <1>13, <1>14, <1>15, <1>16, <1>17, <1>18 DEF Handler

LEMMA StageStep ==
    ASSUME TypeOK, StageInv, [Next]_vars
    PROVE  StageInv'
<1>1. ASSUME NEW c \in Cycles, StartCycle(c) PROVE StageInv'
  BY <1>1, StageKeptBefore DEF StartCycle, BeforeOpening
<1>2. ASSUME NEW c \in Cycles, Handler(c) PROVE StageInv'
  BY <1>2, StageStepHandler
<1>3. ASSUME NEW c \in Cycles, MineOpen(c) PROVE StageInv'
  <2>1. \A b \in Cycles : /\ chain'[b].close = chain[b].close
                          /\ chain'[b].open # chain[b].open =>
                                chain[b].open = "pending"
    BY <1>3 DEF MineOpen, TypeOK, ChainEntry
  <2>2. pc' = pc /\ local' = local
    BY <1>3 DEF MineOpen, chainOnly
  <2>3. QED
    BY <2>1, <2>2 DEF StageInv, Approved
<1>4. ASSUME NEW c \in Cycles, MineClose(c) PROVE StageInv'
  <2>1. \A b \in Cycles \ {c} : chain'[b] = chain[b]
    BY <1>4 DEF MineClose, TypeOK
  <2>2. chain'[c].open = chain[c].open /\ chain[c].close = "pending"
    <3>1. \A p : [chain EXCEPT ![c].close = "mined", ![c].pnl = p][c].open
                    = chain[c].open
      BY DEF TypeOK, ChainEntry
    <3>2. [chain EXCEPT ![c].close = "reverted"][c].open = chain[c].open
      BY DEF TypeOK, ChainEntry
    <3>3. QED
      BY <1>4, <3>1, <3>2 DEF MineClose
  <2>3. pc' = pc /\ local' = local
    BY <1>4 DEF MineClose, chainOnly
  <2>4. pc[c] \notin Settling
    BY <2>2 DEF StageInv
  <2>5. QED
    BY <2>1, <2>2, <2>3, <2>4 DEF StageInv, Approved
<1>5. ASSUME Tick PROVE StageInv'
  BY <1>5 DEF Tick, StageInv, Approved
<1>6. ASSUME Crash PROVE StageInv'
  <2>1. local' = local /\ chain' = chain
    BY <1>6 DEF Crash
  <2>2. \A c \in Cycles : pc'[c] = pc[c] \/ pc'[c] = "crashed"
    BY <1>6 DEF Crash
  <2>3. QED
    BY <2>1, <2>2 DEF StageInv, Approved, BeforeOpening, Settling
<1>7. CASE UNCHANGED vars
  BY <1>7 DEF vars, StageInv, Approved
<1>8. QED
  BY <1>1, <1>2, <1>3, <1>4, <1>5, <1>6, <1>7 DEF Next

LEMMA StageInvariant == Spec => []StageInv
<1>1. Init => StageInv
  BY DEF Init, StageInv, Settling
<1>2. QED
  BY <1>1, StageStep, TypeCorrect, PTL DEF Spec

(* Only what the engine approved, on a decision that is a number, is ever  *)
(* sent to the chain.                                                      *)
THEOREM OnlyApproved == Spec => []OnlyApprovedOnChain
<1>1. TypeOK /\ StageInv => OnlyApprovedOnChain
  <2> SUFFICES ASSUME TypeOK, StageInv, NEW c \in Cycles,
                      chain[c].open # "none"
               PROVE  /\ local[c].verdict = {}
                      /\ local[c].decision.confidence \in Percent
                      /\ local[c].decision.confidence >= MinConfidence
                      /\ local[c].treasury >= MinTreasury
                      /\ CappedSize(local[c].decision, local[c].treasury)
                            <= 100 * (MaxTradePct * local[c].treasury)
    BY DEF OnlyApprovedOnChain
  <2>1. Approved(c) /\ local[c].decision.confidence # NaN
    BY DEF StageInv
  <2>2. /\ local[c].decision \in Decision
        /\ local[c].treasury \in Nat
    BY DEF TypeOK, Frame
  <2>3. local[c].decision.confidence \in Percent
    BY <2>1, <2>2 DEF Decision
  <2>4. CappedSize(local[c].decision, local[c].treasury)
           <= 100 * (MaxTradePct * local[c].treasury)
    BY <2>1, <2>2, <2>3, SizeWithinCap
  <2>5. QED
    BY <2>1, <2>3, <2>4 DEF Approved
<1>2. QED
  BY <1>1, StageInvariant, TypeCorrect, PTL

(* Every position without a handler was left behind in a known way.        *)
THEOREM UnattendedExplained == Spec => []UnattendedHasCause
<1>1. TypeOK /\ StageInv => UnattendedHasCause
  BY DEF TypeOK, StageInv, UnattendedHasCause, PositionOpen, Ended,
         BeforeOpening, Settling
<1>2. QED
  BY <1>1, StageInvariant, TypeCorrect, PTL

-----------------------------------------------------------------------------
(* The timelock.                                                           *)

Pending  == {"opening", "openSent"}
Unopened == BeforeOpening \cup {"openSent", "failedOpen"}

(* An opening on record is not later than lastTradeAt, so an approval      *)
(* stands Timelock or more after every opening recorded before it.         *)
TimelockInv ==
    /\ risk.lastTradeAt <= now
    /\ \A c \in Cycles : /\ recorded[c].open <= risk.lastTradeAt
                         /\ recorded[c].check <= now
    /\ \A c \in Cycles : pc[c] \in Unopened => recorded[c].open = 0
    /\ \A c, d \in Cycles :
          /\ pc[d] \in Pending
          /\ recorded[c].open > 0
          /\ recorded[c].open < recorded[d].check
          => recorded[d].check >= recorded[c].open + Timelock
    /\ TimelockBreachNeedsOverlap

LEMMA TimelockKept ==
    ASSUME TypeOK, TimelockInv, NEW c \in Cycles, NEW from, NEW to,
           Go(c, from, to), now' = now, recorded' = recorded,
           risk'.lastTradeAt = risk.lastTradeAt,
           to \in Unopened => from \in Unopened,
           to \in Pending => from \in Pending
    PROVE  TimelockInv'
<1>1. \A b \in Cycles \ {c} : pc'[b] = pc[b]
  BY DEF TypeOK, Go
<1>2. pc'[c] = to /\ pc[c] = from
  BY DEF TypeOK, Go
<1>3. QED
  BY <1>1, <1>2 DEF TimelockInv, TimelockBreachNeedsOverlap

(* Only an opening touches lastTradeAt.                                    *)
LEMMA LastTradeKept ==
    ASSUME NEW s \in RiskState, NEW t \in Nat
    PROVE  /\ ResetDailyIfNeeded(s, t).lastTradeAt = s.lastTradeAt
           /\ RecordPositionClosed(s).lastTradeAt = s.lastTradeAt
           /\ \A pnl \in Int :
                 RecordTradeResult(s, t, pnl).lastTradeAt = s.lastTradeAt
<1>1. ResetDailyIfNeeded(s, t) \in RiskState
  BY RiskOperatorsType
<1>2. ResetDailyIfNeeded(s, t).lastTradeAt = s.lastTradeAt
  BY DEF ResetDailyIfNeeded, RiskState
<1>3. RecordPositionClosed(s).lastTradeAt = s.lastTradeAt
  BY DEF RecordPositionClosed, RiskState
<1>4. QED
  BY <1>1, <1>2, <1>3 DEF RecordTradeResult, RiskState

LEMMA TimelockCheck ==
    ASSUME TypeOK, TimelockInv, NEW c \in Cycles, CheckRisk(c)
    PROVE  TimelockInv'
<1> DEFINE today   == ResetDailyIfNeeded(risk, now)
           verdict == Denials(today, now, local[c].decision, local[c].treasury)
<1>1. /\ pc[c] = "check"
      /\ pc' = [pc EXCEPT ![c] = IF verdict = {} THEN "opening" ELSE "deny"]
      /\ risk' = today
      /\ recorded' = [recorded EXCEPT ![c].check = now]
      /\ now' = now
  BY DEF CheckRisk, Go
<1>2. risk'.lastTradeAt = risk.lastTradeAt
  BY <1>1, LastTradeKept DEF TypeOK
<1>3. recorded[c].open = 0
  BY <1>1 DEF TimelockInv, Unopened, BeforeOpening
<1>4. verdict = {} => risk.lastTradeAt = 0 \/ now - risk.lastTradeAt >= Timelock
  <2>1. now \in Nat /\ risk.lastTradeAt \in Nat /\ Timelock \in Nat
    BY RiskAssumption DEF TypeOK, RiskState
  <2>2. today.lastTradeAt = risk.lastTradeAt
    BY <1>1, <1>2
  <2> HIDE DEF today
  <2>3. QED
    BY <2>1, <2>2 DEF Denials, Reasons
<1> HIDE DEF today, verdict
<1>5. \A b \in Cycles : /\ recorded'[b].open = recorded[b].open
                        /\ recorded'[b].check =
                              IF b = c THEN now ELSE recorded[b].check
  BY <1>1 DEF TypeOK, Times
<1>6. \A b \in Cycles \ {c} : pc'[b] = pc[b]
  BY <1>1 DEF TypeOK
<1>7. pc'[c] = "opening" => verdict = {}
  BY <1>1 DEF TypeOK
<1>8. \A b \in Cycles : recorded[b].open \in Nat /\ recorded[b].check \in Nat
  BY DEF TypeOK, Times
<1>9. pc'[c] \in {"opening", "deny"}
  BY <1>1 DEF TypeOK
<1>10. now \in Nat /\ risk.lastTradeAt \in Nat /\ Timelock \in Nat
  BY RiskAssumption DEF TypeOK, RiskState
<1>11. \A b \in Cycles : pc'[b] \in Unopened => recorded'[b].open = 0
  BY <1>3, <1>5, <1>6 DEF TimelockInv
<1>12. \A b, d \in Cycles :
          /\ pc'[d] \in Pending
          /\ recorded'[b].open > 0
          /\ recorded'[b].open < recorded'[d].check
          => recorded'[d].check >= recorded'[b].open + Timelock
  <2> SUFFICES ASSUME NEW b \in Cycles, NEW d \in Cycles, pc'[d] \in Pending,
                      recorded'[b].open > 0,
                      recorded'[b].open < recorded'[d].check
               PROVE  recorded'[d].check >= recorded'[b].open + Timelock
    OBVIOUS
  <2>1. CASE d = c
    <3>1. verdict = {}
      BY <2>1, <1>7, <1>9 DEF Pending
    <3>2. recorded[b].open <= risk.lastTradeAt
      BY DEF TimelockInv
    <3>3. QED
      BY <2>1, <3>1, <3>2, <1>4, <1>5, <1>8, <1>10
  <2>2. CASE d # c
    BY <2>2, <1>5, <1>6 DEF TimelockInv
  <2>3. QED
    BY <2>1, <2>2
<1>13. TimelockBreachNeedsOverlap'
  BY <1>3, <1>5, <1>8, <1>10 DEF TimelockInv, TimelockBreachNeedsOverlap
<1>14. QED
  BY <1>1, <1>2, <1>5, <1>8, <1>10, <1>11, <1>12, <1>13 DEF TimelockInv

LEMMA TimelockOpen ==
    ASSUME TypeOK, TimelockInv, NEW c \in Cycles, OpenReceipt(c)
    PROVE  TimelockInv'
<1>1. /\ pc[c] = "openSent"
      /\ pc' = [pc EXCEPT ![c] = "hold"]
      /\ recorded' = [recorded EXCEPT ![c].open = now]
      /\ now' = now
  BY DEF OpenReceipt, Go
<1>2. risk'.lastTradeAt = now
  BY DEF OpenReceipt, RecordPositionOpened, TypeOK, RiskState
<1>3. \A b \in Cycles : /\ recorded'[b].check = recorded[b].check
                        /\ recorded'[b].open =
                              IF b = c THEN now ELSE recorded[b].open
  BY <1>1 DEF TypeOK, Times
<1>4. \A b \in Cycles \ {c} : pc'[b] = pc[b]
  BY <1>1 DEF TypeOK
<1>5. pc'[c] = "hold"
  BY <1>1 DEF TypeOK
<1>6. \A b \in Cycles : recorded[b].open \in Nat /\ recorded[b].check \in Nat
  BY DEF TypeOK, Times
<1>7. now \in Nat /\ risk.lastTradeAt \in Nat /\ Timelock \in Nat
  BY RiskAssumption DEF TypeOK, RiskState
<1>8. \A b \in Cycles : recorded'[b].open <= now /\ recorded'[b].check <= now
  BY <1>3, <1>6, <1>7 DEF TimelockInv
<1>9. \A b \in Cycles : pc'[b] \in Unopened => recorded'[b].open = 0
  BY <1>3, <1>4, <1>5 DEF TimelockInv, Unopened, BeforeOpening
<1>10. \A b, d \in Cycles :
          /\ pc'[d] \in Pending
          /\ recorded'[b].open > 0
          /\ recorded'[b].open < recorded'[d].check
          => recorded'[d].check >= recorded'[b].open + Timelock
  <2> SUFFICES ASSUME NEW b \in Cycles, NEW d \in Cycles, pc'[d] \in Pending,
                      recorded'[b].open > 0,
                      recorded'[b].open < recorded'[d].check
               PROVE  recorded'[d].check >= recorded'[b].open + Timelock
    OBVIOUS
  <2>1. d # c
    BY <1>5 DEF Pending
  <2>2. b # c
    BY <1>3, <1>6, <1>7, <1>8
  <2>3. QED
    BY <2>1, <2>2, <1>3, <1>4 DEF TimelockInv
<1>11. TimelockBreachNeedsOverlap'
  <2> SUFFICES ASSUME NEW b \in Cycles, NEW d \in Cycles,
                      recorded'[b].open > 0,
                      recorded'[b].open < recorded'[d].open,
                      recorded'[d].open < recorded'[b].open + Timelock
               PROVE  recorded'[d].check <= recorded'[b].open
    BY DEF TimelockBreachNeedsOverlap
  <2>1. b # c
    BY <1>3, <1>6, <1>7, <1>8
  <2>2. CASE d = c
    <3>1. pc[d] \in Pending
      BY <1>1, <2>2 DEF Pending
    <3>2. /\ recorded[b].open > 0
          /\ now < recorded[b].open + Timelock
      BY <1>3, <2>1, <2>2
    <3>3. recorded[d].check <= now
      BY DEF TimelockInv
    <3>4. recorded[b].open < recorded[d].check =>
             recorded[d].check >= recorded[b].open + Timelock
      BY <3>1, <3>2 DEF TimelockInv
    <3>5. recorded[d].check <= recorded[b].open
      BY <3>2, <3>3, <3>4, <1>6, <1>7
    <3>6. QED
      BY <3>5, <1>3, <2>1
  <2>3. CASE d # c
    BY <2>1, <2>3, <1>3 DEF TimelockInv, TimelockBreachNeedsOverlap
  <2>4. QED
    BY <2>2, <2>3
<1>12. QED
  BY <1>1, <1>2, <1>7, <1>8, <1>9, <1>10, <1>11 DEF TimelockInv

LEMMA TimelockStep ==
    ASSUME TypeOK, TimelockInv, [Next]_vars
    PROVE  TimelockInv'
<1> USE DEF Unopened, Pending, BeforeOpening
<1>1. ASSUME NEW c \in Cycles, StartCycle(c) PROVE TimelockInv'
  BY <1>1, TimelockKept DEF StartCycle
<1>2. ASSUME NEW c \in Cycles, Handler(c) PROVE TimelockInv'
  <2>1. CASE ReadTreasury(c)
    BY <2>1, TimelockKept DEF ReadTreasury
  <2>2. CASE BuildContext(c)
    BY <2>2, TimelockKept DEF BuildContext
  <2>3. CASE Consult(c)
    BY <2>3, TimelockKept DEF Consult
  <2>4. CASE CheckRisk(c)
    BY <2>4, TimelockCheck
  <2>5. CASE PersistDenial(c)
    BY <2>5, TimelockKept DEF PersistDenial
  <2>6. CASE OpenFails(c)
    BY <2>6, TimelockKept DEF OpenFails
  <2>7. CASE OpenSend(c)
    BY <2>7, TimelockKept DEF OpenSend
  <2>8. CASE OpenReceipt(c)
    BY <2>8, TimelockOpen
  <2>9. CASE OpenWaitFails(c)
    BY <2>9, TimelockKept DEF OpenWaitFails
  <2>10. CASE HoldElapses(c)
    BY <2>10, TimelockKept DEF HoldElapses
  <2>11. CASE CloseFails(c)
    BY <2>11, TimelockKept, LastTradeKept DEF CloseFails, TypeOK
  <2>12. CASE CloseSend(c)
    BY <2>12, TimelockKept DEF CloseSend
  <2>13. CASE CloseReceipt(c)
    <3>1. risk'.lastTradeAt = risk.lastTradeAt
      <4>1. PICK read \in IF chain[c].close = "mined"
                          THEN ReadPnl(chain[c].pnl) ELSE {0} :
               risk' = RecordTradeResult(RecordPositionClosed(risk), now, read)
        BY <2>13 DEF CloseReceipt
      <4>2. chain[c].pnl \in Int
        BY DEF TypeOK, ChainEntry
      <4>3. read \in Int
        BY <4>1, <4>2, TradeCycleAssumption DEF ReadPnl
      <4>4. RecordPositionClosed(risk) \in RiskState
        BY RiskOperatorsType DEF TypeOK
      <4>5. QED
        BY <4>1, <4>3, <4>4, LastTradeKept DEF TypeOK
    <3>2. /\ pc[c] = "closeSent"
          /\ pc' = [pc EXCEPT ![c] = "fees"]
          /\ recorded' = [recorded EXCEPT ![c].result = now]
          /\ now' = now
      BY <2>13 DEF CloseReceipt, Go
    <3>3. \A b \in Cycles : /\ recorded'[b].open = recorded[b].open
                            /\ recorded'[b].check = recorded[b].check
      BY <3>2 DEF TypeOK, Times
    <3>4. \A b \in Cycles : pc'[b] = IF b = c THEN "fees" ELSE pc[b]
      BY <3>2 DEF TypeOK
    <3>5. QED
      BY <3>1, <3>2, <3>3, <3>4 DEF TimelockInv, TimelockBreachNeedsOverlap
  <2>14. CASE CloseWaitFails(c)
    BY <2>14, TimelockKept, LastTradeKept DEF CloseWaitFails, TypeOK
  <2>15. CASE PayInfraFees(c)
    BY <2>15, TimelockKept DEF PayInfraFees
  <2>16. CASE IssueInvoice(c)
    BY <2>16, TimelockKept DEF IssueInvoice
  <2>17. CASE ExecuteBuyback(c)
    BY <2>17, TimelockKept DEF ExecuteBuyback
  <2>18. CASE PersistResult(c)
    BY <2>18, TimelockKept DEF PersistResult
  <2>19. QED
    BY <1>2, <2>1, <2>2, <2>3, <2>4, <2>5, <2>6, <2>7, <2>8, <2>9, <2>10,
       <2>11, <2>12, <2>13, <2>14, <2>15, <2>16, <2>17, <2>18 DEF Handler
<1>3. ASSUME NEW c \in Cycles, MineOpen(c) \/ MineClose(c)
      PROVE  TimelockInv'
  BY <1>3 DEF MineOpen, MineClose, chainOnly, TimelockInv,
              TimelockBreachNeedsOverlap
<1>4. ASSUME Tick PROVE TimelockInv'
  <2>1. /\ now' = now + 1 /\ risk' = risk /\ pc' = pc
        /\ recorded' = recorded
    BY <1>4 DEF Tick
  <2>2. /\ now \in Nat /\ risk.lastTradeAt \in Nat
        /\ \A c \in Cycles : recorded[c].check \in Nat
    BY DEF TypeOK, RiskState, Times
  <2>3. QED
    BY <2>1, <2>2 DEF TimelockInv, TimelockBreachNeedsOverlap
<1>5. ASSUME Crash PROVE TimelockInv'
  <2>1. \A c \in Cycles : recorded'[c].open = 0 /\ recorded'[c].check = 0
    BY <1>5 DEF Crash, NoTimes
  <2>2. risk'.lastTradeAt = 0 /\ now' = now /\ now \in Nat
    BY <1>5 DEF Crash, InitialRisk, TypeOK
  <2>3. QED
    BY <2>1, <2>2 DEF TimelockInv, TimelockBreachNeedsOverlap
<1>6. CASE UNCHANGED vars
  BY <1>6 DEF vars, TimelockInv, TimelockBreachNeedsOverlap
<1>7. QED
  BY <1>1, <1>2, <1>3, <1>4, <1>5, <1>6 DEF Next

(* Two openings closer than the timelock were approved side by side.       *)
THEOREM TimelockTheorem == Spec => []TimelockBreachNeedsOverlap
<1>1. Init => TimelockInv
  BY DEF Init, InitialRisk, NoTimes, TimelockInv, TimelockBreachNeedsOverlap
<1>2. TimelockInv => TimelockBreachNeedsOverlap
  BY DEF TimelockInv
<1>3. QED
  BY <1>1, <1>2, TimelockStep, TypeCorrect, PTL DEF Spec

-----------------------------------------------------------------------------
(* Settlement.                                                             *)

(* Where a handler is that has issued its invoice.                         *)
Invoicing == {"buyback", "persist", "completed", "crashed"}

(* Of one cycle: a result other than nothing was read off a closing that   *)
(* was mined, and what is issued was earned.                               *)
SettledWell(c) ==
    /\ pc[c] \in Settling /\ local[c].pnlUsd > 0 => chain[c].close = "mined"
    /\ pc[c] = "buyback" => c \in invoiced
    /\ c \in invoiced => /\ chain[c].close = "mined"
                         /\ pc[c] \in Invoicing

InvoicesKnown ==
    \A i \in 1 .. Len(memory) : memory[i].invoice => memory[i].cycle \in invoiced

(* Inductive.                                                              *)
SettleInv ==
    /\ bought \subseteq invoiced
    /\ \A c \in Cycles : SettledWell(c)
    /\ InvoicesKnown

(* A step of cycle c that leaves the chain, the books and the results      *)
(* alone, and does not move it beyond the payment of its fees.             *)
LEMMA SettleKept ==
    ASSUME TypeOK, SettleInv, NEW c \in Cycles, NEW from, NEW to,
           Go(c, from, to), from \notin Settling, to \notin Settling,
           from # "crashed",
           \A b \in Cycles : chain'[b].close = "mined" <=> chain[b].close = "mined",
           \A b \in Cycles \ {c} : local'[b].pnlUsd = local[b].pnlUsd,
           invoiced' = invoiced, bought' = bought, InvoicesKnown'
    PROVE  SettleInv'
<1> USE DEF Settling, Invoicing
<1>1. \A b \in Cycles \ {c} : pc'[b] = pc[b]
  BY DEF TypeOK, Go
<1>2. pc'[c] = to /\ pc[c] = from
  BY DEF TypeOK, Go
<1>3. c \notin invoiced
  BY <1>2 DEF SettleInv, SettledWell
<1>4. SettledWell(c)'
  BY <1>2, <1>3 DEF SettledWell
<1>5. ASSUME NEW b \in Cycles \ {c} PROVE SettledWell(b)'
  BY <1>1 DEF SettleInv, SettledWell
<1>6. QED
  BY <1>4, <1>5 DEF SettleInv

(* A step that moves cycle c on within its settlement.                     *)
LEMMA SettleOn ==
    ASSUME TypeOK, SettleInv, NEW c \in Cycles, NEW from, NEW to,
           Go(c, from, to), chain' = chain, local' = local,
           invoiced \subseteq invoiced',
           \A b \in Cycles \ {c} : b \in invoiced' => b \in invoiced,
           bought' \subseteq invoiced', InvoicesKnown',
           SettledWell(c)'
    PROVE  SettleInv'
<1>1. \A b \in Cycles \ {c} : pc'[b] = pc[b]
  BY DEF TypeOK, Go
<1>2. ASSUME NEW b \in Cycles \ {c} PROVE SettledWell(b)'
  BY <1>1 DEF SettleInv, SettledWell
<1>3. QED
  BY <1>2 DEF SettleInv

(* A record says that there is an invoice when there is one.               *)
LEMMA PersistKnown ==
    ASSUME TypeOK, SettleInv, NEW c \in Cycles, Persist(c), invoiced' = invoiced
    PROVE  InvoicesKnown'
<1>1. CASE memory' = memory
  BY <1>1 DEF SettleInv, InvoicesKnown
<1>2. CASE memory' = <<NewRecord(c)>> \o memory
  <2>1. memory \in Seq(Record) /\ NewRecord(c) \in Record
    BY DEF TypeOK, NewRecord, Record
  <2>2. <<NewRecord(c)>> \in Seq(Record) /\ Len(<<NewRecord(c)>>) = 1
    BY <2>1
  <2>3. Len(memory') = 1 + Len(memory) /\ Len(memory) \in Nat
    BY <1>2, <2>1, <2>2, ConcatProperties
  <2>4. ASSUME NEW i \in 1 .. Len(memory'), memory'[i].invoice
        PROVE  memory'[i].cycle \in invoiced
    <3>1. CASE i = 1
      <4>1. memory'[i] = NewRecord(c)
        BY <1>2, <2>1, <2>2, <2>3, <3>1, ConcatProperties
      <4>2. NewRecord(c).cycle = c /\ (NewRecord(c).invoice <=> c \in invoiced)
        BY Zenon DEF NewRecord
      <4>3. QED
        BY <2>4, <4>1, <4>2, Zenon
    <3>2. CASE i > 1
      <4>1. memory'[i] = memory[i - 1] /\ i - 1 \in 1 .. Len(memory)
        BY <1>2, <2>1, <2>2, <2>3, <3>2, ConcatProperties
      <4>2. QED
        BY <2>4, <4>1 DEF SettleInv, InvoicesKnown
    <3>3. QED
      BY <2>3, <3>1, <3>2
  <2>5. QED
    BY <2>4 DEF InvoicesKnown
<1>3. QED
  BY <1>1, <1>2 DEF Persist

(* The steps up to the settlement.                                         *)
EarlyStep(c) ==
    \/ ReadTreasury(c) \/ BuildContext(c) \/ Consult(c) \/ CheckRisk(c)
    \/ PersistDenial(c)
    \/ OpenFails(c) \/ OpenSend(c) \/ OpenReceipt(c) \/ OpenWaitFails(c)
    \/ HoldElapses(c)
    \/ CloseFails(c) \/ CloseSend(c) \/ CloseWaitFails(c)

LEMMA SettleEarly ==
    ASSUME TypeOK, SettleInv, NEW c \in Cycles, EarlyStep(c)
    PROVE  SettleInv'
<1> USE DEF Settling, books
<1>1. memory' = memory => (invoiced' = invoiced => InvoicesKnown')
  BY DEF SettleInv, InvoicesKnown
<1>2. CASE ReadTreasury(c)
  BY <1>1, <1>2, SettleKept DEF ReadTreasury, TypeOK
<1>3. CASE BuildContext(c)
  BY <1>1, <1>3, SettleKept DEF BuildContext
<1>4. CASE Consult(c)
  <2>1. \A b \in Cycles \ {c} : local'[b].pnlUsd = local[b].pnlUsd
    BY <1>4 DEF Consult, TypeOK
  <2>2. chain' = chain
    BY <1>4 DEF Consult
  <2>3. \E to \in {"check", "threw"} : Go(c, "consult", to)
    BY <1>4 DEF Consult
  <2>4. invoiced' = invoiced /\ bought' = bought /\ memory' = memory
    BY <1>4 DEF Consult
  <2>5. QED
    BY <1>1, <2>1, <2>2, <2>3, <2>4, SettleKept
<1>5. CASE CheckRisk(c)
  <2>1. /\ chain' = chain /\ memory' = memory
        /\ invoiced' = invoiced /\ bought' = bought
    BY <1>5 DEF CheckRisk
  <2>2. \E to \in {"opening", "deny"} : Go(c, "check", to)
    BY <1>5 DEF CheckRisk
  <2>3. \A b \in Cycles \ {c} : local'[b].pnlUsd = local[b].pnlUsd
    BY <1>5 DEF CheckRisk, TypeOK
  <2>4. QED
    BY <1>1, <2>1, <2>2, <2>3, SettleKept
<1>6. CASE PersistDenial(c)
  BY <1>6, PersistKnown, SettleKept DEF PersistDenial
<1>7. CASE OpenFails(c)
  BY <1>1, <1>7, SettleKept DEF OpenFails
<1>8. CASE OpenSend(c)
  <2>1. \A b \in Cycles : chain'[b].close = chain[b].close
    BY <1>8 DEF OpenSend, TypeOK, ChainEntry
  <2>2. QED
    BY <1>1, <1>8, <2>1, SettleKept DEF OpenSend
<1>9. CASE OpenReceipt(c)
  <2>1. \A b \in Cycles \ {c} : local'[b].pnlUsd = local[b].pnlUsd
    BY <1>9 DEF OpenReceipt, TypeOK
  <2>2. QED
    BY <1>1, <1>9, <2>1, SettleKept DEF OpenReceipt
<1>10. CASE OpenWaitFails(c)
  BY <1>1, <1>10, SettleKept DEF OpenWaitFails
<1>11. CASE HoldElapses(c)
  BY <1>1, <1>11, SettleKept DEF HoldElapses
<1>12. CASE CloseFails(c)
  BY <1>1, <1>12, SettleKept DEF CloseFails
<1>13. CASE CloseSend(c)
  <2>1. \A b \in Cycles : chain'[b].close = "mined" <=> chain[b].close = "mined"
    BY <1>13 DEF CloseSend, PositionOpen, TypeOK, ChainEntry
  <2>2. QED
    BY <1>1, <1>13, <2>1, SettleKept DEF CloseSend
<1>14. CASE CloseWaitFails(c)
  BY <1>1, <1>14, SettleKept DEF CloseWaitFails
<1>15. QED
  BY <1>2, <1>3, <1>4, <1>5, <1>6, <1>7, <1>8, <1>9, <1>10, <1>11, <1>12,
     <1>13, <1>14 DEF EarlyStep

(* A receipt of a closing that reverted is read as a result of nothing.    *)
LEMMA SettleReceipt ==
    ASSUME TypeOK, SettleInv, NEW c \in Cycles, CloseReceipt(c)
    PROVE  SettleInv'
<1> USE DEF Settling, Invoicing
<1>1. /\ pc[c] = "closeSent" /\ pc'[c] = "fees"
      /\ \A b \in Cycles \ {c} : pc'[b] = pc[b]
  BY DEF CloseReceipt, Go, TypeOK
<1>2. /\ chain' = chain /\ memory' = memory
      /\ invoiced' = invoiced /\ bought' = bought
  BY DEF CloseReceipt, books
<1>3. chain[c].close # "mined" => local'[c].pnlUsd = 0
  BY DEF CloseReceipt, TypeOK, Frame
<1>4. \A b \in Cycles \ {c} : local'[b] = local[b]
  BY DEF CloseReceipt, TypeOK
<1>5. c \notin invoiced
  BY <1>1 DEF SettleInv, SettledWell
<1>6. SettledWell(c)'
  BY <1>1, <1>2, <1>3, <1>5 DEF SettledWell
<1>7. ASSUME NEW b \in Cycles \ {c} PROVE SettledWell(b)'
  BY <1>1, <1>2, <1>4 DEF SettleInv, SettledWell
<1>8. QED
  BY <1>2, <1>6, <1>7 DEF SettleInv, InvoicesKnown

LEMMA SettleLate ==
    ASSUME TypeOK, SettleInv, NEW c \in Cycles,
           \/ PayInfraFees(c) \/ IssueInvoice(c) \/ ExecuteBuyback(c)
           \/ PersistResult(c)
    PROVE  SettleInv'
<1> USE DEF Settling, Invoicing
<1>1. SettledWell(c) /\ bought \subseteq invoiced /\ InvoicesKnown
  BY DEF SettleInv
<1>2. CASE PayInfraFees(c)
  <2>1. pc[c] = "fees" /\ pc'[c] = "invoice"
    BY <1>2 DEF PayInfraFees, Go, TypeOK
  <2>2. SettledWell(c)'
    BY <1>1, <1>2, <2>1 DEF PayInfraFees, SettledWell, books
  <2>3. QED
    BY <1>1, <1>2, <2>2, SettleOn DEF PayInfraFees, InvoicesKnown, books
<1>3. CASE IssueInvoice(c)
  <2>1. CASE local[c].pnlUsd > 0
    <3>1. pc[c] = "invoice" /\ pc'[c] = "buyback"
      BY <1>3, <2>1 DEF IssueInvoice, Go, TypeOK
    <3>2. SettledWell(c)'
      BY <1>1, <1>3, <2>1, <3>1 DEF IssueInvoice, SettledWell
    <3>3. QED
      BY <1>1, <1>3, <2>1, <3>2, SettleOn DEF IssueInvoice, InvoicesKnown
  <2>2. CASE ~(local[c].pnlUsd > 0)
    <3>1. pc[c] = "invoice" /\ pc'[c] = "persist"
      BY <1>3, <2>2 DEF IssueInvoice, Go, TypeOK
    <3>2. SettledWell(c)'
      BY <1>1, <1>3, <2>2, <3>1 DEF IssueInvoice, SettledWell
    <3>3. QED
      BY <1>1, <1>3, <2>2, <3>2, SettleOn DEF IssueInvoice, InvoicesKnown
  <2>3. QED
    BY <2>1, <2>2
<1>4. CASE ExecuteBuyback(c)
  <2>1. pc[c] = "buyback" /\ pc'[c] = "persist"
    BY <1>4 DEF ExecuteBuyback, Go, TypeOK
  <2>2. SettledWell(c)'
    BY <1>1, <1>4, <2>1 DEF ExecuteBuyback, SettledWell
  <2>3. bought' \subseteq invoiced
    BY <1>1, <1>4, <2>1 DEF ExecuteBuyback, SettledWell
  <2>4. QED
    BY <1>1, <1>4, <2>2, <2>3, SettleOn DEF ExecuteBuyback, InvoicesKnown
<1>5. CASE PersistResult(c)
  <2>1. pc[c] = "persist" /\ pc'[c] = "completed"
    BY <1>5 DEF PersistResult, Go, TypeOK
  <2>2. SettledWell(c)'
    BY <1>1, <1>5, <2>1 DEF PersistResult, SettledWell
  <2>3. InvoicesKnown'
    BY <1>5, PersistKnown DEF PersistResult
  <2>4. QED
    BY <1>1, <1>5, <2>2, <2>3, SettleOn DEF PersistResult
<1>6. QED
  BY <1>2, <1>3, <1>4, <1>5

LEMMA SettleStep ==
    ASSUME TypeOK, SettleInv, [Next]_vars
    PROVE  SettleInv'
<1>1. ASSUME NEW c \in Cycles, StartCycle(c) PROVE SettleInv'
  <2>1. InvoicesKnown'
    BY <1>1 DEF StartCycle, books, SettleInv, InvoicesKnown
  <2>2. QED
    BY <1>1, <2>1, SettleKept DEF StartCycle, books, Settling
<1>2. ASSUME NEW c \in Cycles, Handler(c) PROVE SettleInv'
  BY <1>2, SettleEarly, SettleReceipt, SettleLate DEF Handler, EarlyStep
<1>3. ASSUME NEW c \in Cycles, MineOpen(c) PROVE SettleInv'
  <2>1. \A b \in Cycles : chain'[b].close = chain[b].close
    BY <1>3 DEF MineOpen, TypeOK, ChainEntry
  <2>2. QED
    BY <1>3, <2>1 DEF MineOpen, chainOnly, books, SettleInv, SettledWell,
                     InvoicesKnown
<1>4. ASSUME NEW c \in Cycles, MineClose(c) PROVE SettleInv'
  <2>1. \A b \in Cycles \ {c} : chain'[b] = chain[b]
    BY <1>4 DEF MineClose, TypeOK
  <2>2. chain[c].close = "pending"
    BY <1>4 DEF MineClose
  <2>3. UNCHANGED <<pc, local, books>>
    BY <1>4 DEF MineClose, chainOnly
  <2>4. SettledWell(c)'
    BY <2>2, <2>3 DEF SettleInv, SettledWell, books
  <2>5. QED
    BY <2>1, <2>3, <2>4 DEF SettleInv, SettledWell, InvoicesKnown, books
<1>5. ASSUME Tick PROVE SettleInv'
  BY <1>5 DEF Tick, books, SettleInv, SettledWell, InvoicesKnown
<1>6. ASSUME Crash PROVE SettleInv'
  <2>1. UNCHANGED <<local, chain, books>>
    BY <1>6 DEF Crash
  <2>2. \A c \in Cycles : pc'[c] = pc[c] \/ pc'[c] = "crashed"
    BY <1>6 DEF Crash
  <2>3. QED
    BY <2>1, <2>2 DEF SettleInv, SettledWell, InvoicesKnown, books, Settling,
                     Invoicing
<1>7. CASE UNCHANGED vars
  BY <1>7 DEF vars, books, SettleInv, SettledWell, InvoicesKnown
<1>8. QED
  BY <1>1, <1>2, <1>3, <1>4, <1>5, <1>6, <1>7 DEF Next

(* Invoices and buybacks are for positions that were closed.               *)
THEOREM SettlementTheorem == Spec => []InvoicedIsClosed
<1>1. Init => SettleInv
  BY DEF Init, SettleInv, SettledWell, InvoicesKnown, Settling
<1>2. TypeOK /\ SettleInv => InvoicedIsClosed
  BY DEF TypeOK, SettleInv, SettledWell, InvoicesKnown, InvoicedIsClosed
<1>3. QED
  BY <1>1, <1>2, SettleStep, TypeCorrect, PTL DEF Spec

-----------------------------------------------------------------------------
(* Sums over finite sets.  The community module's SumFunctionOnSet takes   *)
(* the elements of a set in the order of CHOOSE; the lemmas show that no   *)
(* order matters.  An induction on the size of a set is an argument about  *)
(* the least size for which the claim fails.                               *)
Chosen(T) == CHOOSE x \in T : TRUE


(* g holds the sum of f over every set in D.                               *)
SumsUp(g, f, D) ==
    \A T \in D : g[T] = IF T = {} THEN 0
                        ELSE f[Chosen(T)] + g[T \ {Chosen(T)}]

Small(S, n) == {T \in SUBSET S : Cardinality(T) <= n}

LEMMA ChosenIn == ASSUME NEW T, T # {} PROVE Chosen(T) \in T
BY DEF Chosen

(* A set without one of its elements is smaller by one.                    *)
LEMMA Smaller ==
    ASSUME NEW T, IsFiniteSet(T), NEW x \in T
    PROVE  /\ IsFiniteSet(T \ {x})
           /\ Cardinality(T \ {x}) = Cardinality(T) - 1
           /\ Cardinality(T) \in Nat \ {0}
           /\ Cardinality(T \ {x}) \in Nat
BY FS_RemoveElement, FS_CardinalityType, FS_EmptySet

(* Some number of every set of numbers is the least.                       *)
LEMMA Least ==
    ASSUME NEW B \in SUBSET Nat, B # {}
    PROVE  \E n \in B : \A m \in B : ~(m < n)
<1> DEFINE Under == OpToRel(<, Nat)
<1>1. PICK n \in B : \A m \in B : ~(<<m, n>> \in Under)
  <2>1. IsWellFoundedOn(Under, Nat)
    BY NatLessThanWellFounded
  <2> HIDE DEF Under
  <2>2. QED
    BY <2>1, WFMin
<1>2. QED
  BY <1>1 DEF OpToRel

(* The sums over all subsets of a finite set exist.                        *)
LEMMA SumsExist ==
    ASSUME NEW f, NEW S, IsFiniteSet(S), \A x \in S : f[x] \in Int
    PROVE  \E g \in [SUBSET S -> Int] : SumsUp(g, f, SUBSET S)
<1> DEFINE Step(g, T) == IF T = {} THEN 0 ELSE f[Chosen(T)] + g[T \ {Chosen(T)}]
           Good(n) == \E g \in [Small(S, n) -> Int] :
                         \A T \in Small(S, n) : g[T] = Step(g, T)
           Bad == {n \in Nat : ~Good(n)}
<1>0. \A T \in SUBSET S : IsFiniteSet(T) /\ Cardinality(T) \in Nat
  BY FS_Subset, FS_CardinalityType
<1>1. Good(0)
  <2> DEFINE g == [T \in Small(S, 0) |-> 0]
  <2>1. \A T \in Small(S, 0) : T = {}
    BY <1>0, FS_EmptySet DEF Small
  <2>2. g \in [Small(S, 0) -> Int]
    OBVIOUS
  <2>3. \A T \in Small(S, 0) : g[T] = Step(g, T)
    BY <2>1
  <2>4. QED
    BY <2>2, <2>3
<1>2. ASSUME NEW n \in Nat, Good(n) PROVE Good(n + 1)
  <2>1. PICK g \in [Small(S, n) -> Int] :
           \A T \in Small(S, n) : g[T] = Step(g, T)
    BY <1>2
  <2> DEFINE h == [T \in Small(S, n + 1) |-> Step(g, T)]
  <2>2. ASSUME NEW T \in Small(S, n + 1), T # {}
        PROVE  /\ T \ {Chosen(T)} \in Small(S, n)
               /\ T \ {Chosen(T)} \in Small(S, n + 1)
               /\ Chosen(T) \in S
    <3>1. /\ Chosen(T) \in T /\ IsFiniteSet(T) /\ T \subseteq S
          /\ Cardinality(T) <= n + 1
      BY <1>0, <2>2, ChosenIn DEF Small
    <3>2. Cardinality(T \ {Chosen(T)}) = Cardinality(T) - 1 /\ Cardinality(T) \in Nat
      BY <3>1, Smaller
    <3>3. QED
      BY <3>1, <3>2 DEF Small
  <2>3. \A T \in Small(S, n + 1) : Step(g, T) \in Int
    BY <2>2
  <2>4. h \in [Small(S, n + 1) -> Int]
    BY <2>3
  <2>5. \A T \in Small(S, n) : T \in Small(S, n + 1) /\ h[T] = g[T]
    BY <1>0, <2>1 DEF Small
  <2>6. \A T \in Small(S, n + 1) : h[T] = Step(h, T)
    BY <2>2, <2>5
  <2>7. QED
    BY <2>4, <2>6
<1>3. Bad = {}
  <2>1. SUFFICES ASSUME Bad # {} PROVE FALSE
    OBVIOUS
  <2>2. PICK n \in Bad : \A m \in Bad : ~(m < n)
    <3>1. Bad \subseteq Nat
      OBVIOUS
    <3> HIDE DEF Bad
    <3>2. QED
      BY <2>1, <3>1, Least
  <2>3. n # 0 /\ n \in Nat
    BY <1>1
  <2>4. n - 1 \in Nat /\ n - 1 < n /\ (n - 1) + 1 = n
    BY <2>3
  <2>5. Good(n - 1)
    BY <2>2, <2>4
  <2> HIDE DEF Good
  <2>6. Good((n - 1) + 1)
    BY <1>2, <2>4, <2>5
  <2>7. QED
    BY <2>2, <2>4, <2>6
<1>4. Good(Cardinality(S)) /\ Small(S, Cardinality(S)) = SUBSET S
  <2>1. \A T \in SUBSET S : Cardinality(T) <= Cardinality(S)
    BY FS_Subset
  <2> HIDE DEF Good
  <2>2. QED
    BY <1>0, <1>3, <2>1 DEF Small
<1>5. QED
  BY <1>4 DEF SumsUp

(* Sums of functions that agree on a set agree on it.                      *)
LEMMA SumsAgree ==
    ASSUME NEW f, NEW e, NEW g, NEW h, NEW S, IsFiniteSet(S),
           SumsUp(g, f, SUBSET S), SumsUp(h, e, SUBSET S),
           \A x \in S : f[x] = e[x]
    PROVE  g[S] = h[S]
<1> DEFINE Differ(n) == \E T \in SUBSET S : Cardinality(T) = n /\ g[T] # h[T]
           Bad == {n \in Nat : Differ(n)}
<1>0. \A T \in SUBSET S : IsFiniteSet(T) /\ Cardinality(T) \in Nat
  BY FS_Subset, FS_CardinalityType
<1>1. SUFFICES ASSUME g[S] # h[S] PROVE FALSE
  OBVIOUS
<1>2. Cardinality(S) \in Bad
  BY <1>0, <1>1
<1>3. PICK n \in Bad : \A m \in Bad : ~(m < n)
  <2>1. Bad \subseteq Nat /\ Bad # {}
    BY <1>2
  <2> HIDE DEF Bad
  <2>2. QED
    BY <2>1, Least
<1>4. PICK T \in SUBSET S : Cardinality(T) = n /\ g[T] # h[T]
  BY <1>3
<1>5. T # {}
  BY <1>4 DEF SumsUp
<1>6. g[T] = f[Chosen(T)] + g[T \ {Chosen(T)}]
   /\ h[T] = e[Chosen(T)] + h[T \ {Chosen(T)}]
  BY <1>5 DEF SumsUp
<1>7. Chosen(T) \in T
  BY <1>5, ChosenIn
<1>8. g[T \ {Chosen(T)}] # h[T \ {Chosen(T)}]
  BY <1>4, <1>6, <1>7
<1>9. Cardinality(T \ {Chosen(T)}) \in Nat /\ Cardinality(T \ {Chosen(T)}) < n
  BY <1>0, <1>4, <1>7, Smaller
<1>10. Cardinality(T \ {Chosen(T)}) \in Bad
  BY <1>8, <1>9
<1>11. QED
  BY <1>3, <1>9, <1>10

(* What the community module's sum is.                                     *)
LEMMA SumUnfolds ==
    ASSUME NEW f, NEW S, IsFiniteSet(S), \A x \in S : f[x] \in Int
    PROVE  \E g \in [SUBSET S -> Int] :
              SumsUp(g, f, SUBSET S) /\ SumFunctionOnSet(f, S) = g[S]
<1> DEFINE Table(g) == [T \in SUBSET S |->
                          IF T = {} THEN 0
                          ELSE f[Chosen(T)] + g[T \ {Chosen(T)}]]
           sums == CHOOSE g : g = Table(g)
<1>1. SumFunctionOnSet(f, S) = sums[S]
  BY DEF SumFunctionOnSet, FoldFunctionOnSet, MapThenFoldSet, Chosen
<1>2. PICK g \in [SUBSET S -> Int] : SumsUp(g, f, SUBSET S)
  BY SumsExist
<1>3. g = Table(g)
  BY <1>2 DEF SumsUp
<1>4. sums = Table(sums)
  <2> HIDE DEF Table
  <2>1. QED
    BY <1>3
<1>5. \A T \in SUBSET S : sums[T] = Table(sums)[T]
  <2> HIDE DEF sums, Table
  <2>1. QED
    BY <1>4
<1>6. SumsUp(sums, f, SUBSET S)
  <2> HIDE DEF sums
  <2>1. QED
    BY <1>5 DEF SumsUp
<1>7. sums[S] = g[S]
  <2> HIDE DEF sums
  <2>1. QED
    BY <1>2, <1>6, SumsAgree
<1>8. QED
  <2> HIDE DEF sums
  <2>1. QED
    BY <1>1, <1>2, <1>7

(* Any element of a set may be added first.                                *)
LEMMA AnyFirst ==
    ASSUME NEW f, NEW g, NEW S, IsFiniteSet(S), \A x \in S : f[x] \in Int,
           g \in [SUBSET S -> Int], SumsUp(g, f, SUBSET S), NEW y \in S
    PROVE  g[S] = f[y] + g[S \ {y}]
<1> DEFINE Wrong(n) == \E T \in SUBSET S : \E x \in T :
                          Cardinality(T) = n /\ g[T] # f[x] + g[T \ {x}]
           Bad == {n \in Nat : Wrong(n)}
<1>0. \A T \in SUBSET S : IsFiniteSet(T) /\ Cardinality(T) \in Nat
  BY FS_Subset, FS_CardinalityType
<1>1. SUFFICES ASSUME g[S] # f[y] + g[S \ {y}] PROVE FALSE
  OBVIOUS
<1>2. Cardinality(S) \in Bad
  BY <1>0, <1>1
<1>3. PICK n \in Bad : \A m \in Bad : ~(m < n)
  <2>1. Bad \subseteq Nat /\ Bad # {}
    BY <1>2
  <2> HIDE DEF Bad
  <2>2. QED
    BY <2>1, Least
<1>4. PICK T \in SUBSET S :
         \E x \in T : Cardinality(T) = n /\ g[T] # f[x] + g[T \ {x}]
  BY <1>3
<1>5. PICK x \in T : Cardinality(T) = n /\ g[T] # f[x] + g[T \ {x}]
  BY <1>4
<1> DEFINE z == Chosen(T)
<1>6. z \in T /\ g[T] = f[z] + g[T \ {z}]
  BY ChosenIn DEF SumsUp
<1> HIDE DEF z
<1>7. x # z
  BY <1>5, <1>6
<1>8. \A u \in T : Cardinality(T \ {u}) \in Nat /\ Cardinality(T \ {u}) < n
  BY <1>0, <1>5, Smaller
<1>9. \A u \in T : \A v \in T \ {u} : g[T \ {u}] = f[v] + g[(T \ {u}) \ {v}]
  <2>1. SUFFICES ASSUME NEW u \in T, NEW v \in T \ {u},
                        g[T \ {u}] # f[v] + g[(T \ {u}) \ {v}]
                 PROVE  FALSE
    OBVIOUS
  <2>2. Cardinality(T \ {u}) \in Bad
    BY <1>8, <2>1
  <2>3. QED
    BY <1>3, <1>8, <2>2
<1>10. (T \ {z}) \ {x} = (T \ {x}) \ {z}
  OBVIOUS
<1> DEFINE rest == g[(T \ {x}) \ {z}]
<1>11. g[T \ {z}] = f[x] + rest /\ g[T \ {x}] = f[z] + rest
  BY <1>6, <1>5, <1>7, <1>9, <1>10
<1>12. f[x] \in Int /\ f[z] \in Int /\ rest \in Int
  BY <1>6
<1> HIDE DEF rest
<1>13. g[T] = f[x] + g[T \ {x}]
  <2>1. g[T] = f[z] + (f[x] + rest) /\ g[T \ {x}] = f[z] + rest
    BY <1>6, <1>11
  <2>2. QED
    BY <1>12, <2>1
<1>14. QED
  BY <1>5, <1>13

(* What a sum is, in the terms of its users: a number, 0 over no set, the  *)
(* same for the same values, larger by each element, never negative when   *)
(* no value is.                                                            *)
LEMMA SumType ==
    ASSUME NEW f, NEW S, IsFiniteSet(S), \A x \in S : f[x] \in Int
    PROVE  SumFunctionOnSet(f, S) \in Int
<1>1. PICK g \in [SUBSET S -> Int] : SumFunctionOnSet(f, S) = g[S]
  BY SumUnfolds
<1>2. QED
  BY <1>1

LEMMA SumOfNone == ASSUME NEW f PROVE SumFunctionOnSet(f, {}) = 0
<1>1. IsFiniteSet({})
  BY FS_EmptySet
<1>2. QED
  BY <1>1, SumUnfolds DEF SumsUp

LEMMA SumSame ==
    ASSUME NEW f, NEW e, NEW S, IsFiniteSet(S), \A x \in S : f[x] \in Int,
           \A x \in S : e[x] = f[x]
    PROVE  SumFunctionOnSet(e, S) = SumFunctionOnSet(f, S)
<1>1. PICK g \in [SUBSET S -> Int] :
         SumsUp(g, f, SUBSET S) /\ SumFunctionOnSet(f, S) = g[S]
  BY SumUnfolds
<1>2. PICK h \in [SUBSET S -> Int] :
         SumsUp(h, e, SUBSET S) /\ SumFunctionOnSet(e, S) = h[S]
  BY SumUnfolds
<1>3. QED
  BY <1>1, <1>2, SumsAgree

LEMMA SumAdds ==
    ASSUME NEW f, NEW S, IsFiniteSet(S), NEW y, y \notin S,
           \A x \in S \cup {y} : f[x] \in Int
    PROVE  SumFunctionOnSet(f, S \cup {y}) = f[y] + SumFunctionOnSet(f, S)
<1> DEFINE U == S \cup {y}
<1>1. IsFiniteSet(U) /\ U \ {y} = S /\ y \in U /\ \A x \in U : f[x] \in Int
  BY FS_AddElement
<1>2. PICK g \in [SUBSET U -> Int] :
         SumsUp(g, f, SUBSET U) /\ SumFunctionOnSet(f, U) = g[U]
  BY <1>1, SumUnfolds
<1>3. PICK h \in [SUBSET S -> Int] :
         SumsUp(h, f, SUBSET S) /\ SumFunctionOnSet(f, S) = h[S]
  BY SumUnfolds
<1>4. g[U] = f[y] + g[S]
  <2> HIDE DEF U
  <2>1. g[U] = f[y] + g[U \ {y}]
    BY <1>1, <1>2, AnyFirst
  <2>2. QED
    BY <1>1, <2>1
<1>5. SumsUp(g, f, SUBSET S)
  BY <1>2 DEF SumsUp
<1>6. g[S] = h[S]
  BY <1>3, <1>5, SumsAgree
<1>7. QED
  BY <1>2, <1>3, <1>4, <1>6

LEMMA SumNatural ==
    ASSUME NEW f, NEW S, IsFiniteSet(S), \A x \in S : f[x] \in Nat
    PROVE  SumFunctionOnSet(f, S) >= 0
<1> DEFINE Bad == {n \in Nat : \E T \in SUBSET S :
                      Cardinality(T) = n /\ SumFunctionOnSet(f, T) < 0}
<1>0. \A T \in SUBSET S : IsFiniteSet(T) /\ Cardinality(T) \in Nat
  BY FS_Subset, FS_CardinalityType
<1>1. SUFFICES ASSUME SumFunctionOnSet(f, S) < 0 PROVE FALSE
  BY SumType
<1>2. Cardinality(S) \in Bad
  BY <1>0, <1>1
<1>3. PICK n \in Bad : \A m \in Bad : ~(m < n)
  <2>1. Bad \subseteq Nat /\ Bad # {}
    BY <1>2
  <2> HIDE DEF Bad
  <2>2. QED
    BY <2>1, Least
<1>4. PICK T \in SUBSET S : Cardinality(T) = n /\ SumFunctionOnSet(f, T) < 0
  BY <1>3
<1>5. T # {}
  BY <1>4, SumOfNone
<1>6. PICK y \in T : TRUE
  BY <1>5
<1>7. /\ IsFiniteSet(T \ {y}) /\ Cardinality(T \ {y}) \in Nat
      /\ Cardinality(T \ {y}) < n
  BY <1>0, <1>4, Smaller
<1>8. SumFunctionOnSet(f, T) = f[y] + SumFunctionOnSet(f, T \ {y})
  <2>1. (T \ {y}) \cup {y} = T
    OBVIOUS
  <2>2. \A x \in (T \ {y}) \cup {y} : f[x] \in Int
    OBVIOUS
  <2>3. SumFunctionOnSet(f, (T \ {y}) \cup {y})
           = f[y] + SumFunctionOnSet(f, T \ {y})
    BY <1>7, <2>2, SumAdds
  <2>4. QED
    BY <2>1, <2>3
<1>9. SumFunctionOnSet(f, T \ {y}) >= 0
  <2>1. SumFunctionOnSet(f, T \ {y}) \in Int
    BY <1>7, SumType
  <2>2. QED
    BY <1>3, <1>7, <2>1
<1>10. SumFunctionOnSet(f, T \ {y}) \in Int /\ f[y] \in Nat
  BY <1>7, SumType
<1>11. QED
  BY <1>4, <1>8, <1>9, <1>10

-----------------------------------------------------------------------------
(* The daily figure, once more: the sum of the day's results.              *)

(* The results that count since time t, as ReadSince selects them.         *)
Results == [c \in Cycles |-> local[c].pnlUsd]
Since(t, strict) == {c \in Cycles : /\ recorded[c].result > 0
                                    /\ recorded[c].result >= t
                                    /\ strict => recorded[c].result # t}

(* The two bounds of the daily figure.                                     *)
SumAfter == ReadSince(risk.dailyResetAt, TRUE)
SumFrom  == ReadSince(risk.dailyResetAt, FALSE)

(* Inductive: the day began at a midnight that is not later than now, and  *)
(* no result is from beyond the end of that day, for booking it would have *)
(* begun another one.  Only a handler that settles has a result.           *)
DayInv ==
    /\ \E k \in Nat : risk.dailyResetAt = k * Day
    /\ risk.dailyResetAt <= now
    /\ \A c \in Cycles :
          /\ recorded[c].result > 0 => pc[c] \in Settling
          /\ recorded[c].result <= now
          /\ recorded[c].result <= risk.dailyResetAt + Day
    /\ DailyFigureIsToday

(* ReadSince is a sum over a finite set of numbers.                        *)
LEMMA SinceFinite ==
    ASSUME TypeOK, NEW t, NEW strict \in BOOLEAN
    PROVE  /\ IsFiniteSet(Since(t, strict))
           /\ \A c \in Since(t, strict) : Results[c] = local[c].pnlUsd
           /\ \A c \in Since(t, strict) : Results[c] \in Int
           /\ ReadSince(t, strict) = SumFunctionOnSet(Results, Since(t, strict))
           /\ ReadSince(t, strict) \in Int
<1>1. Since(t, strict) \subseteq Cycles
  BY DEF Since
<1>2. IsFiniteSet(Since(t, strict))
  BY <1>1, TradeCycleAssumption, FS_Subset
<1>3. \A c \in Cycles : Results[c] = local[c].pnlUsd /\ Results[c] \in Int
  BY DEF Results, TypeOK, Frame
<1>4. ReadSince(t, strict) = SumFunctionOnSet(Results, Since(t, strict))
  BY DEF ReadSince, Since, Results
<1>5. QED
  BY <1>1, <1>2, <1>3, <1>4, SumType

(* A day after the day that began k days ago began, it is a later one.     *)
LEMMA NextDay ==
    ASSUME NEW t \in Nat, NEW k \in Nat
    PROVE  /\ \E j \in Nat : StartOfDay(t) = j * Day
           /\ t > k * Day + Day => StartOfDay(t) >= k * Day + Day
<1> DEFINE q == t \div Day
           r == t % Day
<1>1. Day \in Nat /\ Day > 0
  BY RiskAssumption
<1>2. q \in Nat /\ r \in Nat /\ r < Day /\ t = Day * q + r
  BY <1>1
<1> HIDE DEF q, r
<1>3. StartOfDay(t) = q * Day
  <2>1. StartOfDay(t) = t - r
    BY DEF StartOfDay, r
  <2>2. QED
    BY <1>1, <1>2, <2>1
<1>4. ASSUME t > k * Day + Day PROVE q * Day >= k * Day + Day
  <2>1. SUFFICES ASSUME q <= k PROVE FALSE
    <3>1. ASSUME q >= k + 1 PROVE q * Day >= (k + 1) * Day
      BY <1>1, <1>2, <3>1
    <3>2. (k + 1) * Day = k * Day + Day
      BY <1>1
    <3>3. QED
      BY <1>2, <3>1, <3>2
  <2>2. q * Day <= k * Day
    BY <1>1, <1>2, <2>1
  <2>3. Day * q = q * Day /\ k * Day \in Nat /\ q * Day \in Nat
    BY <1>1, <1>2
  <2>4. QED
    BY <1>1, <1>2, <1>4, <2>2, <2>3
<1>5. QED
  BY <1>2, <1>3, <1>4

(* A step that leaves the figure, the day and the results as they are.     *)
LEMMA DayKept ==
    ASSUME TypeOK, TypeOK', DayInv, now' >= now,
           risk'.dailyPnlUsd = risk.dailyPnlUsd,
           risk'.dailyResetAt = risk.dailyResetAt,
           \A c \in Cycles : /\ local'[c].pnlUsd = local[c].pnlUsd
                             /\ recorded'[c].result = recorded[c].result
                             /\ pc[c] \in Settling => pc'[c] \in Settling
    PROVE  DayInv'
<1>1. now \in Nat /\ now' \in Nat /\ risk.dailyResetAt \in Nat
  BY DEF TypeOK, RiskState
<1>2. \A c \in Cycles : recorded[c].result \in Nat
  BY DEF TypeOK, Times
<1>3. ASSUME NEW strict \in BOOLEAN
      PROVE  ReadSince(risk.dailyResetAt, strict)'
                = ReadSince(risk.dailyResetAt, strict)
  <2> DEFINE t == risk.dailyResetAt
  <2>1. Since(t, strict)' = Since(t, strict)
    BY DEF Since
  <2>2. ReadSince(t, strict) = SumFunctionOnSet(Results, Since(t, strict))
        /\ ReadSince(t, strict)' = SumFunctionOnSet(Results', Since(t, strict))
    BY <2>1 DEF ReadSince, Since, Results
  <2>3. \A c \in Since(t, strict) : Results'[c] = Results[c]
    BY DEF Since, Results
  <2>4. IsFiniteSet(Since(t, strict))
        /\ \A c \in Since(t, strict) : Results[c] \in Int
    BY SinceFinite
  <2> HIDE DEF t
  <2>5. SumFunctionOnSet(Results', Since(t, strict))
           = SumFunctionOnSet(Results, Since(t, strict))
    BY <2>3, <2>4, SumSame
  <2>6. QED
    BY <2>2, <2>5 DEF t
<1>4. DailyFigureIsToday'
  BY <1>3 DEF DayInv, DailyFigureIsToday
<1>5. QED
  BY <1>1, <1>2, <1>4 DEF DayInv

(* A step that begins a day which no result is later than.                 *)
LEMMA DayBegins ==
    ASSUME TypeOK', NoLossInv', risk'.dailyPnlUsd = 0,
           \A c \in Cycles : recorded'[c].result <= risk'.dailyResetAt
    PROVE  DailyFigureIsToday'
<1>1. \A c \in Cycles : recorded'[c].result \in Nat
  BY DEF TypeOK, Times
<1>2. risk'.dailyResetAt \in Nat
  BY DEF TypeOK, RiskState
<1>3. Since(risk.dailyResetAt, TRUE)' = {}
  BY <1>1, <1>2 DEF Since
<1>4. SumAfter' <= risk'.dailyPnlUsd
  <2>1. ReadSince(risk.dailyResetAt, TRUE)'
           = SumFunctionOnSet(Results', Since(risk.dailyResetAt, TRUE)')
    BY DEF ReadSince, Since, Results
  <2>2. SumFunctionOnSet(Results', {}) = 0
    BY SumOfNone
  <2>3. SumAfter' = 0
    BY <1>3, <2>1, <2>2, Zenon DEF SumAfter
  <2>4. QED
    BY <2>3
<1>5. risk'.dailyPnlUsd <= ReadSince(risk.dailyResetAt, FALSE)'
  <2> DEFINE S == Since(risk.dailyResetAt, FALSE)'
  <2>1. ReadSince(risk.dailyResetAt, FALSE)' = SumFunctionOnSet(Results', S)
    BY DEF ReadSince, Since, Results
  <2>2. S \subseteq Cycles
    BY DEF Since
  <2>3. \A c \in S : Results'[c] \in Nat
    <3>1. Results' = [c \in Cycles |-> local'[c].pnlUsd]
      BY DEF Results
    <3>2. \A c \in Cycles : local'[c].pnlUsd \in Nat
      BY DEF NoLossInv, TypeOK, Frame
    <3>3. QED
      BY <2>2, <3>1, <3>2
  <2>4. IsFiniteSet(S)
    BY <2>2, TradeCycleAssumption, FS_Subset
  <2> HIDE DEF S
  <2>5. QED
    BY <2>1, <2>3, <2>4, SumNatural
<1>6. QED
  BY <1>4, <1>5, Zenon DEF DailyFigureIsToday, SumAfter

(* A step that begins a day, if any, and then books a result of cycle c.   *)
LEMMA DayBooked ==
    ASSUME TypeOK, TypeOK', NoLossInv', DayInv, NEW c \in Cycles,
           NEW today \in RiskState, today = ResetDailyIfNeeded(risk, now),
           recorded[c].result = 0, recorded'[c].result = now,
           risk'.dailyResetAt = today.dailyResetAt,
           risk'.dailyPnlUsd = today.dailyPnlUsd + local'[c].pnlUsd,
           \A b \in Cycles \ {c} : /\ local'[b].pnlUsd = local[b].pnlUsd
                                   /\ recorded'[b].result = recorded[b].result
    PROVE  DailyFigureIsToday'
<1> DEFINE t == risk.dailyResetAt
           t1 == today.dailyResetAt
           read == local'[c].pnlUsd
<1>1. /\ now \in Nat /\ now > 0 /\ t \in Nat /\ t1 \in Nat
      /\ risk.dailyPnlUsd \in Int /\ today.dailyPnlUsd \in Int /\ t <= now
  BY DEF TypeOK, RiskState, DayInv
<1>2. \A b \in Cycles : recorded'[b].result \in Nat /\ recorded[b].result \in Nat
  BY DEF TypeOK, Times
<1>3. \A b \in Cycles : local'[b].pnlUsd \in Nat
  BY DEF NoLossInv, TypeOK, Frame
<1>4. Results' = [b \in Cycles |-> local'[b].pnlUsd]
  BY DEF Results
<1>5. ASSUME NEW strict \in BOOLEAN
      PROVE  /\ ReadSince(risk.dailyResetAt, strict)'
                   = SumFunctionOnSet(Results', Since(risk.dailyResetAt, strict)')
             /\ IsFiniteSet(Since(risk.dailyResetAt, strict)')
             /\ Since(risk.dailyResetAt, strict)' \subseteq Cycles
             /\ Since(risk.dailyResetAt, strict)'
                   = {b \in Cycles : /\ recorded'[b].result > 0
                                     /\ recorded'[b].result >= t1
                                     /\ strict => recorded'[b].result # t1}
  <2>1. Since(risk.dailyResetAt, strict)' \subseteq Cycles
    BY DEF Since
  <2>2. IsFiniteSet(Since(risk.dailyResetAt, strict)')
    BY <2>1, TradeCycleAssumption, FS_Subset
  <2>3. QED
    BY <2>1, <2>2 DEF ReadSince, Since, Results
<1>6. CASE now > t + Day
  <2>1. today.dailyPnlUsd = 0 /\ t1 = StartOfDay(now)
    BY <1>6 DEF ResetDailyIfNeeded, TypeOK, RiskState
  <2>2. t1 >= t + Day /\ t1 <= now
    BY <1>1, <1>6, <2>1, NextDay, StartOfDayType DEF DayInv
  <2>3. \A b \in Cycles \ {c} : recorded'[b].result <= t1
    BY <1>1, <1>2, <2>2, RiskAssumption DEF DayInv
  <2>4. ReadSince(risk.dailyResetAt, TRUE)' <= risk'.dailyPnlUsd
    <3> DEFINE S == Since(risk.dailyResetAt, TRUE)'
    <3>1. S = {} \/ S = {c}
      <4>1. S = {b \in Cycles : /\ recorded'[b].result > 0
                                /\ recorded'[b].result >= t1
                                /\ TRUE => recorded'[b].result # t1}
        BY <1>5, Zenon
      <4> HIDE DEF S
      <4>2. QED
        BY <1>1, <1>2, <2>3, <4>1
    <3> HIDE DEF S
    <3>2. SumFunctionOnSet(Results', {}) = 0
      BY SumOfNone
    <3>3. SumFunctionOnSet(Results', {c}) = read
      <4>1. {} \cup {c} = {c} /\ c \notin {} /\ IsFiniteSet({})
        BY FS_EmptySet
      <4>2. \A x \in {} \cup {c} : Results'[x] \in Int
        BY <1>3, <1>4
      <4>3. SumFunctionOnSet(Results', {} \cup {c})
               = Results'[c] + SumFunctionOnSet(Results', {})
        BY <4>1, <4>2, SumAdds
      <4>4. QED
        BY <1>3, <1>4, <3>2, <4>1, <4>3
    <3>4. SumFunctionOnSet(Results', S) <= read
      <4>1. \/ SumFunctionOnSet(Results', S) = 0
            \/ SumFunctionOnSet(Results', S) = read
        BY <3>1, <3>2, <3>3, Zenon
      <4>2. read \in Nat
        BY <1>3
      <4> HIDE DEF read
      <4>3. QED
        BY <4>1, <4>2
    <3>5. risk'.dailyPnlUsd = read
      BY <1>3, <2>1
    <3>6. ReadSince(risk.dailyResetAt, TRUE)' = SumFunctionOnSet(Results', S)
      BY <1>5 DEF S
    <3>7. QED
      BY <3>4, <3>5, <3>6
  <2>5. risk'.dailyPnlUsd <= ReadSince(risk.dailyResetAt, FALSE)'
    <3> DEFINE S == Since(risk.dailyResetAt, FALSE)'
               T == S \ {c}
    <3>1. S = T \cup {c} /\ c \notin T
      BY <1>1, <1>5, <2>2
    <3>2. IsFiniteSet(T) /\ \A b \in T \cup {c} : Results'[b] \in Nat
      BY <1>3, <1>4, <1>5, FS_Subset
    <3>3. ReadSince(risk.dailyResetAt, FALSE)' = SumFunctionOnSet(Results', S)
      BY <1>5
    <3> HIDE DEF S, T
    <3>4. SumFunctionOnSet(Results', T \cup {c})
             = Results'[c] + SumFunctionOnSet(Results', T)
      BY <3>1, <3>2, SumAdds
    <3>5. SumFunctionOnSet(Results', T) >= 0
      BY <3>2, SumNatural
    <3>6. SumFunctionOnSet(Results', T) \in Int
      BY <3>2, SumType
    <3>7. risk'.dailyPnlUsd = read /\ Results'[c] = read /\ read \in Int
      BY <1>3, <1>4, <2>1
    <3>8. SumFunctionOnSet(Results', T \cup {c}) >= read
      BY <3>4, <3>5, <3>6, <3>7
    <3>9. QED
      BY <3>1, <3>3, <3>7, <3>8
  <2>6. QED
    BY <2>4, <2>5, Zenon DEF DailyFigureIsToday
<1>7. CASE ~(now > t + Day)
  <2>1. today = risk
    BY <1>7 DEF ResetDailyIfNeeded
  <2>2. ASSUME NEW strict \in BOOLEAN
        PROVE  /\ ~(strict /\ now = t) =>
                     ReadSince(risk.dailyResetAt, strict)'
                        = read + ReadSince(risk.dailyResetAt, strict)
               /\ strict /\ now = t =>
                     ReadSince(risk.dailyResetAt, strict)'
                        = ReadSince(risk.dailyResetAt, strict)
    <3> DEFINE S == Since(risk.dailyResetAt, strict)
               S1 == Since(risk.dailyResetAt, strict)'
    <3>1. /\ c \notin S
          /\ ~(strict /\ now = t) => S1 = S \cup {c}
          /\ strict /\ now = t => S1 = S
      <4>1. S1 = {b \in Cycles : /\ recorded'[b].result > 0
                                 /\ recorded'[b].result >= t
                                 /\ strict => recorded'[b].result # t}
        BY <1>5, <2>1
      <4>2. S = {b \in Cycles : /\ recorded[b].result > 0
                                /\ recorded[b].result >= t
                                /\ strict => recorded[b].result # t}
        BY DEF Since
      <4> HIDE DEF S, S1
      <4>3. QED
        BY <1>1, <1>2, <4>1, <4>2
    <3>2. /\ IsFiniteSet(S) /\ S \subseteq Cycles
          /\ \A b \in S : Results[b] \in Int
          /\ ReadSince(risk.dailyResetAt, strict) = SumFunctionOnSet(Results, S)
      BY SinceFinite DEF Since
    <3>3. ReadSince(risk.dailyResetAt, strict)' = SumFunctionOnSet(Results', S1)
      BY <1>5
    <3> HIDE DEF S, S1
    <3>4. \A b \in S : Results'[b] = Results[b]
      BY <1>4, <3>1, <3>2 DEF Results
    <3>5. SumFunctionOnSet(Results', S) = SumFunctionOnSet(Results, S)
      BY <3>2, <3>4, SumSame
    <3>6. Results'[c] = read /\ \A b \in S \cup {c} : Results'[b] \in Int
      BY <1>3, <1>4, <3>2
    <3>7. SumFunctionOnSet(Results', S \cup {c})
             = Results'[c] + SumFunctionOnSet(Results', S)
      BY <3>1, <3>2, <3>6, SumAdds
    <3>8. QED
      BY <3>1, <3>2, <3>3, <3>5, <3>6, <3>7
  <2>3. /\ SumAfter <= risk.dailyPnlUsd /\ risk.dailyPnlUsd <= SumFrom
        /\ SumAfter \in Int /\ SumFrom \in Int
    BY SinceFinite DEF DayInv, DailyFigureIsToday, SumAfter, SumFrom
  <2>4. read \in Nat /\ risk'.dailyPnlUsd = risk.dailyPnlUsd + read
    BY <1>3, <2>1
  <2>5. SumAfter' <= risk'.dailyPnlUsd
    <3>1. SumAfter' = read + SumAfter \/ SumAfter' = SumAfter
      BY <2>2, Zenon DEF SumAfter
    <3>2. QED
      BY <1>1, <2>3, <2>4, <3>1
  <2>6. risk'.dailyPnlUsd <= SumFrom'
    <3>1. SumFrom' = read + SumFrom
      BY <2>2, Zenon DEF SumFrom
    <3>2. QED
      BY <1>1, <2>3, <2>4, <3>1
  <2>7. QED
    BY <2>5, <2>6, Zenon DEF DailyFigureIsToday, SumAfter, SumFrom
<1>8. QED
  BY <1>6, <1>7

LEMMA DayStepHandler ==
    ASSUME TypeOK, TypeOK', NoLossInv', DayInv, NEW c \in Cycles, Handler(c)
    PROVE  DayInv'
<1> USE DEF Settling
<1>0. now \in Nat /\ pc \in [Cycles -> Control]
  BY DEF TypeOK
<1>1. ASSUME NEW from, NEW to, Go(c, from, to), from \notin Settling
      PROVE  \A b \in Cycles : pc[b] \in Settling => pc'[b] \in Settling
  BY <1>0, <1>1 DEF Go
<1>2. CASE ReadTreasury(c)
  <2>1. \A b \in Cycles : local'[b].pnlUsd = local[b].pnlUsd
    BY <1>2 DEF ReadTreasury, TypeOK, Frame
  <2>2. QED
    BY <1>0, <1>1, <1>2, <2>1, DayKept DEF ReadTreasury
<1>3. CASE BuildContext(c)
  BY <1>0, <1>1, <1>3, DayKept DEF BuildContext
<1>4. CASE Consult(c)
  <2>1. \A b \in Cycles : local'[b].pnlUsd = local[b].pnlUsd
    BY <1>4 DEF Consult, TypeOK, Frame
  <2>2. QED
    BY <1>0, <1>1, <1>4, <2>1, DayKept DEF Consult
<1>5. CASE CheckRisk(c)
  <2> DEFINE today == ResetDailyIfNeeded(risk, now)
  <2>1. \A b \in Cycles : /\ local'[b].pnlUsd = local[b].pnlUsd
                          /\ recorded'[b].result = recorded[b].result
                          /\ pc[b] \in Settling => pc'[b] \in Settling
    <3>1. \A b \in Cycles : local'[b].pnlUsd = local[b].pnlUsd
      BY <1>5 DEF CheckRisk, TypeOK, Frame
    <3>2. \A b \in Cycles : recorded'[b].result = recorded[b].result
      BY <1>5 DEF CheckRisk, TypeOK, Times
    <3>3. \A b \in Cycles : pc[b] \in Settling => pc'[b] \in Settling
      BY <1>1, <1>5 DEF CheckRisk
    <3>4. QED
      BY <3>1, <3>2, <3>3
  <2>2. risk' = today /\ now' = now
    BY <1>5 DEF CheckRisk
  <2>3. CASE now > risk.dailyResetAt + Day
    <3>1. today.dailyPnlUsd = 0 /\ today.dailyResetAt = StartOfDay(now)
      BY <2>3 DEF ResetDailyIfNeeded, TypeOK, RiskState
    <3>2. /\ \E k \in Nat : StartOfDay(now) = k * Day
          /\ StartOfDay(now) >= risk.dailyResetAt + Day
          /\ StartOfDay(now) <= now /\ StartOfDay(now) \in Nat
      BY <1>0, <2>3, NextDay, StartOfDayType DEF DayInv
    <3>3. risk.dailyResetAt \in Nat /\ Day \in Nat
      BY RiskAssumption DEF TypeOK, RiskState
    <3>4. \A b \in Cycles : recorded[b].result \in Nat
      BY DEF TypeOK, Times
    <3>5. \A b \in Cycles : recorded'[b].result <= risk'.dailyResetAt
      BY <2>1, <2>2, <3>1, <3>2, <3>3, <3>4 DEF DayInv
    <3>6. DailyFigureIsToday'
      BY <2>2, <3>1, <3>5, DayBegins
    <3>7. \A b \in Cycles : recorded'[b].result <= risk'.dailyResetAt + Day
      BY <2>1, <2>2, <3>1, <3>2, <3>3, <3>4, <3>5
    <3>8. QED
      BY <2>1, <2>2, <3>1, <3>2, <3>6, <3>7 DEF DayInv
  <2>4. CASE ~(now > risk.dailyResetAt + Day)
    <3>1. risk' = risk
      BY <2>2, <2>4 DEF ResetDailyIfNeeded
    <3>2. QED
      BY <1>0, <2>1, <2>2, <3>1, DayKept
  <2>5. QED
    BY <2>3, <2>4
<1>6. CASE PersistDenial(c)
  BY <1>0, <1>1, <1>6, DayKept DEF PersistDenial
<1>7. CASE OpenFails(c)
  BY <1>0, <1>1, <1>7, DayKept DEF OpenFails
<1>8. CASE OpenSend(c)
  BY <1>0, <1>1, <1>8, DayKept DEF OpenSend
<1>9. CASE OpenReceipt(c)
  <2>1. \A b \in Cycles : local'[b].pnlUsd = local[b].pnlUsd
    BY <1>9 DEF OpenReceipt, TypeOK, Frame
  <2>2. \A b \in Cycles : recorded'[b].result = recorded[b].result
    BY <1>9 DEF OpenReceipt, TypeOK, Times
  <2>3. /\ risk'.dailyPnlUsd = risk.dailyPnlUsd
        /\ risk'.dailyResetAt = risk.dailyResetAt
    BY <1>9 DEF OpenReceipt, RecordPositionOpened, TypeOK, RiskState
  <2>4. \A b \in Cycles : pc[b] \in Settling => pc'[b] \in Settling
    BY <1>1, <1>9 DEF OpenReceipt
  <2>5. now' = now
    BY <1>9 DEF OpenReceipt
  <2>6. QED
    BY <1>0, <2>1, <2>2, <2>3, <2>4, <2>5, DayKept
<1>10. CASE OpenWaitFails(c)
  BY <1>0, <1>1, <1>10, DayKept DEF OpenWaitFails
<1>11. CASE HoldElapses(c)
  BY <1>0, <1>1, <1>11, DayKept DEF HoldElapses
<1>12. CASE CloseFails(c)
  <2>1. /\ risk'.dailyPnlUsd = risk.dailyPnlUsd
        /\ risk'.dailyResetAt = risk.dailyResetAt
    BY <1>12 DEF CloseFails, RecordPositionClosed, TypeOK, RiskState
  <2>2. QED
    BY <1>0, <1>1, <1>12, <2>1, DayKept DEF CloseFails
<1>13. CASE CloseSend(c)
  BY <1>0, <1>1, <1>13, DayKept DEF CloseSend
<1>14. CASE CloseReceipt(c)
  <2> DEFINE closed == RecordPositionClosed(risk)
             today  == ResetDailyIfNeeded(risk, now)
             after  == ResetDailyIfNeeded(closed, now)
  <2>1. PICK read \in IF chain[c].close = "mined" THEN ReadPnl(chain[c].pnl)
                                                  ELSE {0} :
           /\ local' = [local EXCEPT ![c].pnlUsd = read]
           /\ risk' = RecordTradeResult(closed, now, read)
    BY <1>14 DEF CloseReceipt
  <2>2. local'[c].pnlUsd = read
        /\ \A b \in Cycles \ {c} : local'[b].pnlUsd = local[b].pnlUsd
    BY <2>1 DEF TypeOK, Frame
  <2>3. recorded'[c].result = now
        /\ \A b \in Cycles \ {c} : recorded'[b].result = recorded[b].result
    BY <1>14 DEF CloseReceipt, TypeOK, Times
  <2>4. pc[c] = "closeSent" /\ pc'[c] = "fees" /\ now' = now
        /\ \A b \in Cycles \ {c} : pc'[b] = pc[b]
    BY <1>0, <1>14 DEF CloseReceipt, Go
  <2>5. recorded[c].result = 0
    <3>1. recorded[c].result \in Nat
      BY DEF TypeOK, Times
    <3>2. ~(recorded[c].result > 0)
      BY <2>4 DEF DayInv
    <3>3. QED
      BY <3>1, <3>2
  <2>6. today \in RiskState /\ closed \in RiskState /\ after \in RiskState
    BY <1>0, RiskOperatorsType DEF TypeOK
  <2>7. closed.dailyPnlUsd = risk.dailyPnlUsd
        /\ closed.dailyResetAt = risk.dailyResetAt
    BY DEF RecordPositionClosed, TypeOK, RiskState
  <2>8. after.dailyPnlUsd = today.dailyPnlUsd
        /\ after.dailyResetAt = today.dailyResetAt
    BY <2>6, <2>7 DEF ResetDailyIfNeeded, TypeOK, RiskState
  <2>9. risk'.dailyPnlUsd = after.dailyPnlUsd + read
        /\ risk'.dailyResetAt = after.dailyResetAt
    <3>1. risk' = [after EXCEPT !.dailyPnlUsd = @ + read]
      BY <2>1 DEF RecordTradeResult
    <3> HIDE DEF after
    <3>2. QED
      BY <2>6, <3>1 DEF RiskState
  <2>10. risk'.dailyPnlUsd = today.dailyPnlUsd + local'[c].pnlUsd
         /\ risk'.dailyResetAt = today.dailyResetAt
    BY <2>2, <2>8, <2>9
  <2>11. DailyFigureIsToday'
    <3>1. today = ResetDailyIfNeeded(risk, now)
      OBVIOUS
    <3> HIDE DEF today
    <3>2. QED
      BY <2>2, <2>3, <2>5, <2>6, <2>10, <3>1, DayBooked
  <2>12. /\ \E k \in Nat : today.dailyResetAt = k * Day
         /\ today.dailyResetAt <= now /\ now <= today.dailyResetAt + Day
         /\ today.dailyResetAt >= risk.dailyResetAt
    <3>1. risk.dailyResetAt \in Nat /\ Day \in Nat
      BY RiskAssumption DEF TypeOK, RiskState
    <3>2. CASE now > risk.dailyResetAt + Day
      <4>1. today.dailyResetAt = StartOfDay(now)
        BY <3>2 DEF ResetDailyIfNeeded, TypeOK, RiskState
      <4>2. /\ \E k \in Nat : StartOfDay(now) = k * Day
            /\ StartOfDay(now) >= risk.dailyResetAt + Day
            /\ StartOfDay(now) <= now /\ StartOfDay(now) \in Nat
        BY <1>0, <3>2, NextDay, StartOfDayType DEF DayInv
      <4>3. now <= StartOfDay(now) + Day
        BY <1>0, RiskAssumption DEF StartOfDay
      <4>4. QED
        BY <3>1, <4>1, <4>2, <4>3
    <3>3. CASE ~(now > risk.dailyResetAt + Day)
      <4>1. today = risk
        BY <3>3 DEF ResetDailyIfNeeded
      <4>2. /\ \E k \in Nat : risk.dailyResetAt = k * Day
            /\ risk.dailyResetAt <= now
        BY DEF DayInv
      <4> HIDE DEF today
      <4>3. QED
        BY <1>0, <3>1, <3>3, <4>1, <4>2
    <3>4. QED
      BY <3>2, <3>3
  <2>13. \A b \in Cycles : /\ recorded'[b].result > 0 => pc'[b] \in Settling
                           /\ recorded'[b].result <= now
                           /\ recorded'[b].result <= today.dailyResetAt + Day
    <3>1. risk.dailyResetAt \in Nat /\ Day \in Nat /\ today.dailyResetAt \in Nat
      BY <2>6, RiskAssumption DEF TypeOK, RiskState
    <3>2. \A b \in Cycles : recorded[b].result \in Nat
      BY DEF TypeOK, Times
    <3> HIDE DEF today
    <3>3. QED
      BY <1>0, <2>3, <2>4, <2>12, <3>1, <3>2 DEF DayInv
  <2> HIDE DEF today
  <2>14. QED
    BY <2>4, <2>10, <2>11, <2>12, <2>13 DEF DayInv
<1>15. CASE CloseWaitFails(c)
  <2>1. /\ risk'.dailyPnlUsd = risk.dailyPnlUsd
        /\ risk'.dailyResetAt = risk.dailyResetAt
    BY <1>15 DEF CloseWaitFails, RecordPositionClosed, TypeOK, RiskState
  <2>2. QED
    BY <1>0, <1>1, <1>15, <2>1, DayKept DEF CloseWaitFails
<1>16. CASE \/ PayInfraFees(c) \/ IssueInvoice(c) \/ ExecuteBuyback(c)
            \/ PersistResult(c)
  <2>1. UNCHANGED <<now, risk, local, recorded>>
    BY <1>16 DEF PayInfraFees, IssueInvoice, ExecuteBuyback, PersistResult
  <2>2. \A b \in Cycles : pc[b] \in Settling => pc'[b] \in Settling
    BY <1>0, <1>16
       DEF PayInfraFees, IssueInvoice, ExecuteBuyback, PersistResult, Go
  <2>3. QED
    BY <1>0, <2>1, <2>2, DayKept
<1>17. QED
  BY <1>2, <1>3, <1>4, <1>5, <1>6, <1>7, <1>8, <1>9, <1>10, <1>11, <1>12,
     <1>13, <1>14, <1>15, <1>16 DEF Handler

LEMMA DayStep ==
    ASSUME TypeOK, TypeOK', NoLossInv', DayInv, [Next]_vars
    PROVE  DayInv'
<1>0. now \in Nat /\ pc \in [Cycles -> Control]
  BY DEF TypeOK
<1>1. ASSUME NEW c \in Cycles, StartCycle(c) PROVE DayInv'
  BY <1>0, <1>1, DayKept DEF StartCycle, Go, Settling
<1>2. ASSUME NEW c \in Cycles, Handler(c) PROVE DayInv'
  BY <1>2, DayStepHandler
<1>3. ASSUME NEW c \in Cycles, MineOpen(c) \/ MineClose(c) PROVE DayInv'
  <2>1. UNCHANGED chainOnly
    BY <1>3 DEF MineOpen, MineClose
  <2>2. QED
    BY <1>0, <2>1, DayKept DEF chainOnly
<1>4. ASSUME Tick PROVE DayInv'
  BY <1>0, <1>4, DayKept DEF Tick
<1>5. ASSUME Crash PROVE DayInv'
  <2>1. /\ risk'.dailyPnlUsd = 0 /\ risk'.dailyResetAt = StartOfDay(now)
        /\ now' = now
    BY <1>5 DEF Crash, InitialRisk
  <2>2. \A c \in Cycles : recorded'[c].result = 0
    BY <1>5 DEF Crash, NoTimes
  <2>3. /\ StartOfDay(now) \in Nat /\ StartOfDay(now) <= now
        /\ \E k \in Nat : StartOfDay(now) = k * Day
    BY <1>0, StartOfDayType, NextDay
  <2>4. DailyFigureIsToday'
    BY <2>1, <2>2, <2>3, DayBegins
  <2>5. \A c \in Cycles : /\ ~(recorded'[c].result > 0)
                          /\ recorded'[c].result <= now
                          /\ recorded'[c].result <= StartOfDay(now) + Day
    BY <1>0, <2>2, <2>3, RiskAssumption
  <2>6. QED
    BY <2>1, <2>3, <2>4, <2>5 DEF DayInv
<1>6. CASE UNCHANGED vars
  BY <1>0, <1>6, DayKept DEF vars
<1>7. QED
  BY <1>1, <1>2, <1>3, <1>4, <1>5, <1>6 DEF Next

(* The daily figure is the sum of the results this process read since      *)
(* midnight, up to those of the instant of midnight itself.                *)
THEOREM DailyFigureTheorem == Spec => []DailyFigureIsToday
<1>1. Init => DayInv
  <2> SUFFICES ASSUME Init PROVE DayInv
    OBVIOUS
  <2>1. /\ risk.dailyPnlUsd = 0 /\ risk.dailyResetAt = StartOfDay(1) /\ now = 1
        /\ \A c \in Cycles : recorded[c].result = 0
    BY DEF Init, InitialRisk, NoTimes
  <2>2. /\ StartOfDay(1) \in Nat /\ StartOfDay(1) <= 1
        /\ \E k \in Nat : StartOfDay(1) = k * Day
    BY StartOfDayType, NextDay
  <2>3. ASSUME NEW strict \in BOOLEAN
        PROVE  ReadSince(risk.dailyResetAt, strict) = 0
    <3>1. Since(risk.dailyResetAt, strict) = {}
      BY <2>1 DEF Since
    <3>2. ReadSince(risk.dailyResetAt, strict)
             = SumFunctionOnSet(Results, Since(risk.dailyResetAt, strict))
      BY DEF ReadSince, Since, Results
    <3>3. QED
      BY <3>1, <3>2, SumOfNone, Zenon
  <2>4. DailyFigureIsToday
    <3>1. SumAfter = 0 /\ SumFrom = 0
      BY <2>3, Zenon DEF SumAfter, SumFrom
    <3>2. SumAfter <= risk.dailyPnlUsd /\ risk.dailyPnlUsd <= SumFrom
      BY <2>1, <3>1
    <3>3. QED
      BY <3>2, Zenon DEF DailyFigureIsToday, SumAfter, SumFrom
  <2>5. QED
    BY <2>1, <2>2, <2>4, RiskAssumption DEF DayInv
<1>2. DayInv => DailyFigureIsToday
  BY DEF DayInv
<1>3. Init => NoLossInv
  BY DEF Init, NoLossInv, NoLossIsBooked, InitialRisk, EmptyFrame
<1>4. QED
  BY <1>1, <1>2, <1>3, NoLossStep, DayStep, TypeCorrect, PTL DEF Spec

-----------------------------------------------------------------------------
(* The history.                                                            *)

AfterSending == {"openSent", "hold", "closing", "closeSent"} \cup Settling

Quotable(c) == local[c].decision.confidence # NaN

(* Cycle c was denied, and if it has no confidence then not for that.      *)
WellDenied(c) ==
    /\ local[c].verdict # {}
    /\ ~Quotable(c) => "confidence" \notin local[c].verdict

Stored(i) == ~memory[i].quotable =>
                /\ pc[memory[i].cycle] = "denied"
                /\ ~Quotable(memory[i].cycle)

SomeUnquotable == \E i \in 1 .. Len(memory) : ~memory[i].quotable

(* Inductive.                                                              *)
HistoryInv ==
    /\ \A c \in Cycles : /\ pc[c] \in {"deny", "denied"} => WellDenied(c)
                         /\ pc[c] \in AfterSending => Quotable(c)
                         /\ pc[c] = "brokenContext" => SomeUnquotable
    /\ \A i \in 1 .. Len(memory) : Stored(i)

(* A step of cycle c that stores nothing and ends no denial.               *)
LEMMA HistoryKept ==
    ASSUME TypeOK, HistoryInv, NEW c \in Cycles, NEW from, NEW to,
           Go(c, from, to), memory' = memory,
           \A b \in Cycles \ {c} : local'[b] = local[b],
           from # "denied", to # "denied",
           to = "deny" => WellDenied(c)',
           to \in AfterSending => Quotable(c)',
           to = "brokenContext" => SomeUnquotable
    PROVE  HistoryInv'
<1>1. /\ \A b \in Cycles \ {c} : pc'[b] = pc[b]
      /\ pc'[c] = to /\ pc[c] = from
  BY DEF TypeOK, Go
<1>2. ASSUME NEW i \in 1 .. Len(memory) PROVE Stored(i)'
  <2>1. memory[i] \in Record /\ Stored(i)
    BY DEF TypeOK, HistoryInv
  <2>2. memory[i].cycle \in Cycles
    BY <2>1 DEF Record
  <2>3. QED
    BY <1>1, <2>1, <2>2 DEF Stored, Quotable
<1>3. ASSUME NEW b \in Cycles
      PROVE  /\ pc'[b] \in {"deny", "denied"} => WellDenied(b)'
             /\ pc'[b] \in AfterSending => Quotable(b)'
             /\ pc'[b] = "brokenContext" => SomeUnquotable'
  <2>1. SomeUnquotable' <=> SomeUnquotable
    BY DEF SomeUnquotable
  <2>2. CASE b = c
    BY <1>1, <2>1, <2>2 DEF WellDenied, Quotable
  <2>3. CASE b # c
    BY <1>1, <2>1, <2>3 DEF HistoryInv, WellDenied, Quotable
  <2>4. QED
    BY <2>2, <2>3
<1>4. QED
  BY <1>2, <1>3 DEF HistoryInv

(* A step of cycle c that ends it with a record, or without.               *)
LEMMA HistoryPersist ==
    ASSUME TypeOK, HistoryInv, NEW c \in Cycles, NEW from,
           NEW to \in {"denied", "completed"},
           Go(c, from, to), local' = local, Persist(c), from # "denied",
           to = "denied" => WellDenied(c),
           to = "completed" => Quotable(c)
    PROVE  HistoryInv'
<1>1. /\ \A b \in Cycles \ {c} : pc'[b] = pc[b]
      /\ pc'[c] = to /\ pc[c] = from
  BY DEF TypeOK, Go
<1>2. ASSUME NEW i \in 1 .. Len(memory)
      PROVE  /\ memory[i].cycle \in Cycles
             /\ ~memory[i].quotable => /\ pc'[memory[i].cycle] = "denied"
                                       /\ ~Quotable(memory[i].cycle)
  <2>1. memory[i] \in Record /\ Stored(i)
    BY DEF TypeOK, HistoryInv
  <2>2. QED
    BY <1>1, <2>1 DEF Record, Stored
<1>3. CASE memory' = memory
  <2>1. ASSUME NEW i \in 1 .. Len(memory) PROVE Stored(i)'
    BY <1>2, <1>3 DEF Stored, Quotable
  <2>2. SomeUnquotable' <=> SomeUnquotable
    BY <1>3 DEF SomeUnquotable
  <2>3. QED
    BY <1>1, <1>3, <2>1, <2>2 DEF HistoryInv, WellDenied, Quotable, AfterSending, Settling
<1>4. CASE memory' = <<NewRecord(c)>> \o memory
  <2>1. memory \in Seq(Record) /\ NewRecord(c) \in Record
    BY DEF TypeOK, NewRecord, Record
  <2>2. <<NewRecord(c)>> \in Seq(Record) /\ Len(<<NewRecord(c)>>) = 1
    BY <2>1
  <2>3. Len(memory') = 1 + Len(memory) /\ Len(memory) \in Nat
    BY <1>4, <2>1, <2>2, ConcatProperties
  <2>4. memory'[1] = NewRecord(c)
    BY <1>4, <2>1, <2>2, <2>3, ConcatProperties
  <2>5. ASSUME NEW i \in 1 .. Len(memory)
        PROVE  memory'[i + 1] = memory[i] /\ i + 1 \in 1 .. Len(memory')
    BY <1>4, <2>1, <2>2, <2>3, ConcatProperties
  <2>6. NewRecord(c).cycle = c /\ (NewRecord(c).quotable <=> Quotable(c))
    BY Zenon DEF NewRecord, Quotable
  <2>7. ASSUME NEW i \in 1 .. Len(memory') PROVE Stored(i)'
    <3>1. CASE i = 1
      BY <1>1, <2>4, <2>6, <3>1 DEF Stored, Quotable
    <3>2. CASE i # 1
      <4>1. i - 1 \in 1 .. Len(memory) /\ memory'[i] = memory[i - 1]
        BY <1>4, <2>1, <2>2, <2>3, <3>2, ConcatProperties
      <4>2. QED
        BY <1>2, <4>1 DEF Stored, Quotable
    <3>3. QED
      BY <3>1, <3>2
  <2>8. SomeUnquotable => SomeUnquotable'
    BY <2>5 DEF SomeUnquotable
  <2>9. QED
    BY <1>1, <2>7, <2>8 DEF HistoryInv, WellDenied, Quotable, AfterSending, Settling
<1>5. QED
  BY <1>3, <1>4 DEF Persist

LEMMA HistoryStepHandler ==
    ASSUME TypeOK, HistoryInv, NEW c \in Cycles, Handler(c)
    PROVE  HistoryInv'
<1> USE DEF AfterSending, Settling, books
<1>1. CASE ReadTreasury(c)
  BY <1>1, HistoryKept DEF ReadTreasury, TypeOK
<1>2. CASE BuildContext(c)
  BY <1>2, HistoryKept DEF BuildContext, ContextThrows, SomeUnquotable
<1>3. CASE Consult(c)
  <2>1. \A b \in Cycles \ {c} : local'[b] = local[b]
    BY <1>3 DEF Consult, TypeOK
  <2>2. memory' = memory /\ \E to \in {"check", "threw"} : Go(c, "consult", to)
    BY <1>3 DEF Consult
  <2>3. QED
    BY <2>1, <2>2, HistoryKept
<1>4. CASE CheckRisk(c)
  <2> DEFINE today   == ResetDailyIfNeeded(risk, now)
             verdict == Denials(today, now, local[c].decision, local[c].treasury)
             to      == IF verdict = {} THEN "opening" ELSE "deny"
  <2>1. /\ Go(c, "check", to)
        /\ memory' = memory
        /\ local' = [local EXCEPT ![c].verdict = verdict]
    BY <1>4 DEF CheckRisk
  <2>2. /\ local'[c].verdict = verdict
        /\ local'[c].decision = local[c].decision
    BY <2>1 DEF TypeOK, Frame
  <2>3. local[c].decision.confidence = NaN => "confidence" \notin verdict
    BY DEF Denials, Below
  <2> HIDE DEF verdict
  <2>4. to = "deny" => WellDenied(c)'
    BY <2>2, <2>3 DEF WellDenied, Quotable
  <2>5. \A b \in Cycles \ {c} : local'[b] = local[b]
    BY <2>1 DEF TypeOK
  <2>6. QED
    BY <2>1, <2>4, <2>5, HistoryKept
<1>5. CASE PersistDenial(c)
  <2>1. Go(c, "deny", "denied") /\ local' = local /\ Persist(c)
    BY <1>5 DEF PersistDenial
  <2>2. WellDenied(c)
    BY <2>1 DEF HistoryInv, Go
  <2>3. QED
    BY <2>1, <2>2, HistoryPersist
<1>6. CASE OpenFails(c)
  BY <1>6, HistoryKept DEF OpenFails
<1>7. CASE OpenSend(c)
  <2>1. Go(c, "opening", "openSent") /\ local' = local /\ memory' = memory
    BY <1>7 DEF OpenSend
  <2>2. Quotable(c)'
    BY <1>7, <2>1 DEF OpenSend, CappedSize, Quotable
  <2>3. QED
    BY <2>1, <2>2, HistoryKept
<1>8. CASE OpenReceipt(c)
  <2>1. Go(c, "openSent", "hold") /\ memory' = memory
    BY <1>8 DEF OpenReceipt
  <2>2. /\ \A b \in Cycles \ {c} : local'[b] = local[b]
        /\ local'[c].decision = local[c].decision
    BY <1>8 DEF OpenReceipt, TypeOK, Frame
  <2>3. Quotable(c)'
    BY <2>1, <2>2 DEF HistoryInv, Quotable, Go
  <2>4. QED
    BY <2>1, <2>2, <2>3, HistoryKept
<1>9. CASE OpenWaitFails(c)
  BY <1>9, HistoryKept DEF OpenWaitFails
<1>10. ASSUME NEW from \in AfterSending, NEW to \in AfterSending \cup {"failedClose"},
              Go(c, from, to), local' = local, memory' = memory
       PROVE  HistoryInv'
  <2>1. Quotable(c)'
    BY <1>10 DEF HistoryInv, Quotable, Go
  <2>2. QED
    BY <1>10, <2>1, HistoryKept
<1>11. CASE HoldElapses(c)
  BY <1>10, <1>11 DEF HoldElapses
<1>12. CASE CloseFails(c)
  BY <1>10, <1>12 DEF CloseFails
<1>13. CASE CloseSend(c)
  BY <1>10, <1>13 DEF CloseSend
<1>14. CASE CloseReceipt(c)
  <2>1. Go(c, "closeSent", "fees") /\ memory' = memory
    BY <1>14 DEF CloseReceipt
  <2>2. /\ \A b \in Cycles \ {c} : local'[b] = local[b]
        /\ local'[c].decision = local[c].decision
    BY <1>14 DEF CloseReceipt, TypeOK, Frame
  <2>3. Quotable(c)'
    BY <2>1, <2>2 DEF HistoryInv, Quotable, Go
  <2>4. QED
    BY <2>1, <2>2, <2>3, HistoryKept
<1>15. CASE CloseWaitFails(c)
  BY <1>10, <1>15 DEF CloseWaitFails
<1>16. CASE PayInfraFees(c)
  BY <1>10, <1>16 DEF PayInfraFees
<1>17. CASE IssueInvoice(c)
  BY <1>10, <1>17 DEF IssueInvoice
<1>18. CASE ExecuteBuyback(c)
  BY <1>10, <1>18 DEF ExecuteBuyback
<1>19. CASE PersistResult(c)
  <2>1. Go(c, "persist", "completed") /\ local' = local /\ Persist(c)
    BY <1>19 DEF PersistResult
  <2>2. Quotable(c)
    BY <2>1 DEF HistoryInv, Go
  <2>3. QED
    BY <2>1, <2>2, HistoryPersist
<1>20. QED
  BY <1>1, <1>2, <1>3, <1>4, <1>5, <1>6, <1>7, <1>8, <1>9, <1>11, <1>12,
     <1>13, <1>14, <1>15, <1>16, <1>17, <1>18, <1>19 DEF Handler

LEMMA HistoryStep ==
    ASSUME TypeOK, HistoryInv, [Next]_vars
    PROVE  HistoryInv'
<1>1. ASSUME NEW c \in Cycles, StartCycle(c) PROVE HistoryInv'
  BY <1>1, HistoryKept DEF StartCycle, books, AfterSending, Settling
<1>2. ASSUME NEW c \in Cycles, Handler(c) PROVE HistoryInv'
  BY <1>2, HistoryStepHandler
<1>3. ASSUME UNCHANGED <<pc, local, memory>> PROVE HistoryInv'
  BY <1>3 DEF HistoryInv, WellDenied, Quotable, Stored, SomeUnquotable
<1>4. ASSUME NEW c \in Cycles, MineOpen(c) \/ MineClose(c) PROVE HistoryInv'
  BY <1>3, <1>4 DEF MineOpen, MineClose, chainOnly, books
<1>5. ASSUME Tick PROVE HistoryInv'
  BY <1>3, <1>5 DEF Tick, books
<1>6. ASSUME Crash PROVE HistoryInv'
  <2>1. local' = local /\ memory' = memory
    BY <1>6 DEF Crash, books
  <2>2. \A c \in Cycles : /\ pc'[c] = pc[c] \/ pc'[c] = "crashed"
                          /\ pc[c] = "denied" => pc'[c] = "denied"
    BY <1>6 DEF Crash, Active
  <2>3. ASSUME NEW i \in 1 .. Len(memory) PROVE Stored(i)'
    <3>1. memory[i] \in Record /\ Stored(i)
      BY DEF TypeOK, HistoryInv
    <3>2. memory[i].cycle \in Cycles
      BY <3>1 DEF Record
    <3>3. QED
      BY <2>1, <2>2, <3>1, <3>2 DEF Stored, Quotable
  <2>4. SomeUnquotable' <=> SomeUnquotable
    BY <2>1 DEF SomeUnquotable
  <2>5. ASSUME NEW c \in Cycles
        PROVE  /\ pc'[c] \in {"deny", "denied"} => WellDenied(c)'
               /\ pc'[c] \in AfterSending => Quotable(c)'
               /\ pc'[c] = "brokenContext" => SomeUnquotable'
    BY <2>1, <2>2, <2>4 DEF HistoryInv, WellDenied, Quotable, AfterSending, Settling
  <2>6. QED
    BY <2>1, <2>3, <2>5 DEF HistoryInv
<1>7. CASE UNCHANGED vars
  BY <1>3, <1>7 DEF vars, books
<1>8. QED
  BY <1>1, <1>2, <1>4, <1>5, <1>6, <1>7 DEF Next

(* What breaks a context is a record of a denial, and of one for another   *)
(* reason than the confidence that is missing in it.                       *)
THEOREM HistoryTheorem == Spec => []UnquotableWasDenied
<1>1. Init => HistoryInv
  BY DEF Init, HistoryInv, AfterSending, Settling, Stored
<1>2. TypeOK /\ HistoryInv => UnquotableWasDenied
  <2> SUFFICES ASSUME TypeOK, HistoryInv PROVE UnquotableWasDenied
    OBVIOUS
  <2>1. ASSUME NEW i \in 1 .. Len(memory), ~memory[i].quotable
        PROVE  /\ local[memory[i].cycle].verdict # {}
               /\ "confidence" \notin local[memory[i].cycle].verdict
    <3>1. memory[i] \in Record /\ Stored(i)
      BY DEF TypeOK, HistoryInv
    <3>2. memory[i].cycle \in Cycles
      BY <3>1 DEF Record
    <3>3. QED
      BY <2>1, <3>1, <3>2 DEF HistoryInv, Stored, WellDenied
  <2>2. QED
    BY <2>1 DEF HistoryInv, SomeUnquotable, UnquotableWasDenied
<1>3. QED
  BY <1>1, <1>2, HistoryStep, TypeCorrect, PTL DEF Spec


-----------------------------------------------------------------------------
(***************************************************************************)
(* The trade cycle implements the abstract trader, for every set of cycles *)
(* and every value of the settings.                                        *)
(***************************************************************************)

(* The invariants of the cycle the refinement rests on.                    *)
Known == TypeOK /\ CountMatchesHandlers /\ TimelockInv /\ SettleInv

(* The stage and the recorded opening of each cycle, as Trader sees them.  *)
Stage  == [c \in Cycles |-> StageOf(pc[c])]
Opened == [c \in Cycles |-> recorded[c].open]

LEMMA KnownAlways == Spec => []Known
<1>1. Init => TimelockInv
  BY DEF Init, InitialRisk, NoTimes, TimelockInv, TimelockBreachNeedsOverlap
<1>2. Init => SettleInv
  BY DEF Init, SettleInv, SettledWell, InvoicesKnown, Settling
<1>3. QED
  BY <1>1, <1>2, TimelockStep, SettleStep, TypeCorrect, CountCorrect, PTL
     DEF Spec, Known

-----------------------------------------------------------------------------
(* Each point of control belongs to one stage.                             *)
LEMMA StageOfCall ==
    /\ StageOf("idle") = "idle"
    /\ \A p \in {"treasury", "context", "consult", "check"} :
          StageOf(p) = "deciding"
    /\ \A p \in {"opening", "openSent"} : StageOf(p) = "approved"
    /\ \A p \in {"hold", "closing", "closeSent"} : StageOf(p) = "holding"
    /\ \A p \in {"fees", "invoice", "buyback", "persist"} :
          StageOf(p) = "settling"
    /\ \A p \in Ended \cup {"deny"} : StageOf(p) = "over"
BY DEF StageOf, Ended

(* A step of a handler changes the stage of that handler alone.            *)
LEMMA StageGoes ==
    ASSUME TypeOK, NEW c \in Cycles, NEW from, NEW to, Go(c, from, to)
    PROVE  /\ Stage[c] = StageOf(from)
           /\ Stage' = [Stage EXCEPT ![c] = StageOf(to)]
BY DEF Go, TypeOK, Stage

(* A step within one stage is a stutter of it.                             *)
LEMMA StageStays ==
    ASSUME TypeOK, NEW c \in Cycles, NEW from, NEW to, Go(c, from, to),
           StageOf(from) = StageOf(to)
    PROVE  Stage' = Stage
BY DEF Go, TypeOK, Stage

(* The slots Trader counts are those the engine counts.                    *)
LEMMA HoldersAreHolding ==
    ASSUME TypeOK
    PROVE  {c \in Cycles : Stage[c] = "holding"} = Holding
<1>1. \A c \in Cycles : StageOf(pc[c]) = "holding" <=>
                           pc[c] \in {"hold", "closing", "closeSent"}
  BY DEF StageOf
<1>2. QED
  BY <1>1 DEF Stage, Holding

(* Trader counts as the cycle does.                                        *)
LEMMA SameCardinality ==
    ASSUME NEW S
    PROVE  Engine!Cardinality(S) = Cardinality(S)
BY Zenon DEF Engine!Cardinality, Cardinality

LEMMA OpenedKept ==
    ASSUME TypeOK, recorded' = recorded
    PROVE  Opened' = Opened
BY DEF Opened

-----------------------------------------------------------------------------
(* Moves and the actions of Trader, once per shape of a step.              *)

LEMMA EndStep ==
    ASSUME Known, NEW c \in Cycles, NEW from, NEW to, Go(c, from, to),
           StageOf(from) \in {"deciding", "approved", "holding", "settling"},
           StageOf(to) = "over",
           now' = now, invoiced' = invoiced, recorded' = recorded
    PROVE  Engine!End(c)
<1>1. Stage[c] = StageOf(from) /\ Stage' = [Stage EXCEPT ![c] = "over"]
  BY StageGoes DEF Known
<1>2. StageOf(from) \in Engine!Stages \ {"idle", "over"}
  BY DEF Engine!Stages
<1>3. Opened' = Opened
  BY OpenedKept DEF Known
<1>4. QED
  BY <1>1, <1>2, <1>3 DEF Engine!End, Engine!Moves, Stage, Opened

LEMMA InnerStep ==
    ASSUME Known, NEW c \in Cycles, NEW from, NEW to, Go(c, from, to),
           StageOf(from) = StageOf(to),
           now' = now, invoiced' = invoiced, Opened' = Opened
    PROVE  UNCHANGED Engine!vars
<1>1. Stage' = Stage
  BY StageStays DEF Known
<1>2. QED
  BY <1>1 DEF Engine!vars, Stage, Opened

(* The check approves when Trader does.                                    *)
LEMMA ApproveStep ==
    ASSUME Known, NEW c \in Cycles, CheckRisk(c)
    PROVE  Engine!Approve(c) \/ Engine!End(c)
<1> DEFINE today   == ResetDailyIfNeeded(risk, now)
           verdict == Denials(today, now, local[c].decision, local[c].treasury)
<1>1. /\ Go(c, "check", IF verdict = {} THEN "opening" ELSE "deny")
      /\ recorded' = [recorded EXCEPT ![c].check = now]
      /\ now' = now /\ invoiced' = invoiced
  BY DEF CheckRisk, books
<1>2. Opened' = Opened
  BY <1>1 DEF Known, TypeOK, Times, Opened
<1>3. CASE verdict # {}
  <2>1. Go(c, "check", "deny")
    BY <1>1, <1>3
  <2>2. Stage[c] = "deciding" /\ Stage' = [Stage EXCEPT ![c] = "over"]
    BY <2>1, StageGoes, StageOfCall DEF Known
  <2>3. "deciding" \in Engine!Stages \ {"idle", "over"}
    BY DEF Engine!Stages
  <2>4. Engine!End(c)
    BY <1>1, <1>2, <2>2, <2>3 DEF Engine!End, Engine!Moves, Stage, Opened
  <2>5. QED
    BY <2>4
<1>4. CASE verdict = {}
  <2>1. Go(c, "check", "opening")
    BY <1>1, <1>4
  <2>2. Stage[c] = "deciding" /\ Stage' = [Stage EXCEPT ![c] = "approved"]
    BY <2>1, StageGoes, StageOfCall DEF Known
  <2>3. /\ risk \in RiskState /\ now \in Nat
        /\ today.lastTradeAt = risk.lastTradeAt
        /\ today.openPositionCount = risk.openPositionCount
    BY LastTradeKept DEF Known, TypeOK, ResetDailyIfNeeded, RiskState
  <2>4. /\ risk.openPositionCount \in Nat /\ risk.lastTradeAt \in Nat
        /\ MaxOpenPositions \in Nat /\ Timelock \in Nat
    BY <2>3, RiskAssumption DEF RiskState
  <2> HIDE DEF today
  <2>5. /\ ~(today.openPositionCount >= MaxOpenPositions)
        /\ ~(today.lastTradeAt > 0 /\ now - today.lastTradeAt < Timelock)
    BY <1>4 DEF Denials, Reasons
  <2>6. Engine!SlotFree
    <3>1. Engine!Holders = Holding
      BY HoldersAreHolding DEF Known, Engine!Holders, Stage
    <3>2. Cardinality(Holding) < MaxOpenPositions
      BY <2>3, <2>4, <2>5 DEF Known, CountMatchesHandlers
    <3>3. QED
      BY <3>1, <3>2, SameCardinality DEF Engine!SlotFree
  <2>7. Engine!TimelockOver
    <3> SUFFICES ASSUME NEW d \in Cycles, Opened[d] > 0
                 PROVE  now >= Opened[d] + Timelock
      BY DEF Engine!TimelockOver, Opened
    <3>1. recorded[d].open \in Nat /\ recorded[d].open <= risk.lastTradeAt
      BY DEF Known, TypeOK, Times, TimelockInv
    <3>2. Opened[d] = recorded[d].open
      BY DEF Opened
    <3>3. QED
      BY <2>3, <2>4, <2>5, <3>1, <3>2
  <2>8. QED
    BY <1>1, <1>2, <2>2, <2>6, <2>7
       DEF Engine!Approve, Engine!Moves, Stage, Opened
<1>5. QED
  BY <1>3, <1>4

LEMMA OpenStep ==
    ASSUME Known, NEW c \in Cycles, OpenReceipt(c)
    PROVE  Engine!Open(c)
<1>1. /\ Go(c, "openSent", "hold")
      /\ recorded' = [recorded EXCEPT ![c].open = now]
      /\ now' = now /\ invoiced' = invoiced
  BY DEF OpenReceipt, books
<1>2. Stage[c] = "approved" /\ Stage' = [Stage EXCEPT ![c] = "holding"]
  BY <1>1, StageGoes, StageOfCall DEF Known
<1>3. Opened' = [Opened EXCEPT ![c] = now]
  BY <1>1 DEF Known, TypeOK, Times, Opened
<1>4. QED
  BY <1>1, <1>2, <1>3 DEF Engine!Open, Engine!Moves, Stage, Opened

LEMMA CloseStep ==
    ASSUME Known, NEW c \in Cycles, CloseReceipt(c)
    PROVE  Engine!Close(c)
<1>1. /\ Go(c, "closeSent", "fees")
      /\ recorded' = [recorded EXCEPT ![c].result = now]
      /\ now' = now /\ invoiced' = invoiced
  BY DEF CloseReceipt, books
<1>2. Stage[c] = "holding" /\ Stage' = [Stage EXCEPT ![c] = "settling"]
  BY <1>1, StageGoes, StageOfCall DEF Known
<1>3. Opened' = Opened
  BY <1>1 DEF Known, TypeOK, Times, Opened
<1>4. QED
  BY <1>1, <1>2, <1>3 DEF Engine!Close, Engine!Moves, Stage, Opened

LEMMA InvoiceStep ==
    ASSUME Known, NEW c \in Cycles, IssueInvoice(c)
    PROVE  Engine!Invoice(c) \/ UNCHANGED Engine!vars
<1>1. /\ now' = now /\ recorded' = recorded
      /\ \E to \in {"buyback", "persist"} : Go(c, "invoice", to)
      /\ invoiced' = invoiced \/ invoiced' = invoiced \cup {c}
  BY DEF IssueInvoice
<1>2. Stage' = Stage
  BY <1>1, StageStays, StageOfCall DEF Known
<1>3. Opened' = Opened
  BY <1>1, OpenedKept DEF Known
<1>4. Stage[c] = "settling" /\ c \notin invoiced
  BY <1>1, StageOfCall DEF Known, SettleInv, SettledWell, Invoicing, Go, Stage
<1>5. QED
  BY <1>1, <1>2, <1>3, <1>4 DEF Engine!Invoice, Engine!vars, Stage, Opened

LEMMA HandlerStep ==
    ASSUME Known, NEW c \in Cycles, Handler(c)
    PROVE  (\E d \in Cycles : \/ Engine!Approve(d) \/ Engine!Open(d)
                              \/ Engine!Close(d) \/ Engine!Invoice(d)
                              \/ Engine!End(d))
           \/ UNCHANGED Engine!vars
<1> USE StageOfCall DEF Ended
<1>1. recorded' = recorded => Opened' = Opened
  BY OpenedKept DEF Known
<1>2. CASE ReadTreasury(c)
  BY <1>1, <1>2, InnerStep DEF ReadTreasury, books
<1>3. CASE BuildContext(c)
  BY <1>1, <1>3, InnerStep, EndStep DEF BuildContext, books
<1>4. CASE Consult(c)
  BY <1>1, <1>4, InnerStep, EndStep DEF Consult, books
<1>5. CASE CheckRisk(c)
  BY <1>5, ApproveStep
<1>6. CASE PersistDenial(c)
  BY <1>1, <1>6, InnerStep DEF PersistDenial
<1>7. CASE OpenFails(c)
  BY <1>7, EndStep DEF OpenFails, books
<1>8. CASE OpenSend(c)
  BY <1>1, <1>8, InnerStep DEF OpenSend, books
<1>9. CASE OpenReceipt(c)
  BY <1>9, OpenStep
<1>10. CASE OpenWaitFails(c)
  BY <1>10, EndStep DEF OpenWaitFails, books
<1>11. CASE HoldElapses(c)
  BY <1>1, <1>11, InnerStep DEF HoldElapses, books
<1>12. CASE CloseFails(c)
  BY <1>12, EndStep DEF CloseFails, books
<1>13. CASE CloseSend(c)
  BY <1>1, <1>13, InnerStep DEF CloseSend, books
<1>14. CASE CloseReceipt(c)
  BY <1>14, CloseStep
<1>15. CASE CloseWaitFails(c)
  BY <1>15, EndStep DEF CloseWaitFails, books
<1>16. CASE PayInfraFees(c)
  BY <1>1, <1>16, InnerStep DEF PayInfraFees, books
<1>17. CASE IssueInvoice(c)
  BY <1>17, InvoiceStep
<1>18. CASE ExecuteBuyback(c)
  BY <1>1, <1>18, InnerStep DEF ExecuteBuyback
<1>19. CASE PersistResult(c)
  BY <1>19, EndStep DEF PersistResult
<1>20. QED
  BY <1>2, <1>3, <1>4, <1>5, <1>6, <1>7, <1>8, <1>9, <1>10, <1>11, <1>12,
     <1>13, <1>14, <1>15, <1>16, <1>17, <1>18, <1>19 DEF Handler

(* Every step of the cycles, the chain, the clock and the process is a     *)
(* step of the trader or none.                                             *)
LEMMA TraderStep ==
    ASSUME Known, [Next]_vars
    PROVE  [Engine!Next]_(Engine!vars)
<1>1. ASSUME NEW c \in Cycles, StartCycle(c) PROVE Engine!Next
  <2>1. /\ Go(c, "idle", "treasury") /\ now' = now /\ invoiced' = invoiced
        /\ recorded' = recorded
    BY <1>1 DEF StartCycle, books
  <2>2. Stage[c] = "idle" /\ Stage' = [Stage EXCEPT ![c] = "deciding"]
    BY <2>1, StageGoes, StageOfCall DEF Known
  <2>3. Opened' = Opened
    BY <2>1, OpenedKept DEF Known
  <2>4. Engine!Begin(c)
    BY <2>1, <2>2, <2>3 DEF Engine!Begin, Engine!Moves, Stage, Opened
  <2>5. QED
    BY <2>4 DEF Engine!Next
<1>2. ASSUME NEW c \in Cycles, Handler(c)
      PROVE  Engine!Next \/ UNCHANGED Engine!vars
  BY <1>2, HandlerStep DEF Engine!Next
<1>3. ASSUME NEW c \in Cycles, MineOpen(c) \/ MineClose(c)
      PROVE  UNCHANGED Engine!vars
  BY <1>3 DEF MineOpen, MineClose, chainOnly, books, Engine!vars
<1>4. ASSUME Tick PROVE Engine!Next
  <2>1. /\ now' > now /\ UNCHANGED <<pc, recorded, invoiced>>
    BY <1>4 DEF Tick, books, Known, TypeOK
  <2>2. Engine!Pass
    BY <2>1 DEF Engine!Pass
  <2>3. QED
    BY <2>2 DEF Engine!Next
<1>5. ASSUME Crash PROVE Engine!Next
  <2>1. /\ pc' = [c \in Cycles |-> IF pc[c] \in Active THEN "crashed" ELSE pc[c]]
        /\ recorded' = [c \in Cycles |-> NoTimes]
        /\ now' = now /\ invoiced' = invoiced
    BY <1>5 DEF Crash, books
  <2>2. \A c \in Cycles : Stage'[c] = IF Stage[c] = "idle" THEN "idle" ELSE "over"
    <3> SUFFICES ASSUME NEW c \in Cycles
                 PROVE  StageOf(pc'[c]) = IF StageOf(pc[c]) = "idle"
                                          THEN "idle" ELSE "over"
      BY <2>1 DEF Stage
    <3>1. pc[c] \in {"idle"} \cup Active \cup Ended
      BY DEF Known, TypeOK, Control
    <3>2. StageOf("crashed") = "over"
      BY StageOfCall DEF Ended
    <3>3. CASE pc[c] \in Active
      BY <2>1, <3>2, <3>3, StageOfCall DEF Active, Ended
    <3>4. CASE pc[c] \in {"idle"} \cup Ended
      BY <2>1, <3>4, StageOfCall DEF Active, Ended
    <3>5. QED
      BY <3>1, <3>3, <3>4
  <2>3. /\ Stage' = [c \in Cycles |-> IF Stage[c] = "idle" THEN "idle" ELSE "over"]
        /\ Opened' = [c \in Cycles |-> 0]
    BY <2>1, <2>2 DEF Stage, Opened, NoTimes
  <2>4. Engine!Restart
    BY <2>1, <2>3 DEF Engine!Restart, Stage, Opened
  <2>5. QED
    BY <2>4 DEF Engine!Next
<1>6. CASE UNCHANGED vars
  BY <1>6 DEF vars, books, Engine!vars
<1>7. QED
  BY <1>1, <1>2, <1>3, <1>4, <1>5, <1>6 DEF Next

(* The handler, the counter and the stamp of the engine implement Trader:  *)
(* every approval finds a free slot and a timelock that is over, whatever  *)
(* the interleaving, the failures and the crashes.                         *)
THEOREM TraderRefined == Spec => ImplementsTrader
<1>1. Init => Engine!Init
  BY DEF Init, Engine!Init, StageOf, NoTimes
<1>2. QED
  BY <1>1, TraderStep, KnownAlways, PTL DEF Spec, ImplementsTrader, Engine!Spec
=============================================================================
