------------------------- MODULE TradingSystemProofs -------------------------
(***************************************************************************)
(* Where the treasury of an approved trade comes from, and who it takes to *)
(* break the timelock and the limit of positions: for every number of      *)
(* cycles and agents, every life of a cache entry and every schedule.      *)
(***************************************************************************)
EXTENDS TradingSystem, FiniteSetTheorems, WellFoundedInduction, TLAPS

Committed == {"approved", "holding", "settling"}

(* Inductive.  A call of the chain belongs to a cycle that has no treasury *)
(* yet; the entry in the cache and every treasury in use are what a cycle  *)
(* read and kept; and no cycle is approved without one.                    *)
CacheInv ==
    /\ TypeOK
    /\ \A c \in Cycles :
          /\ got[c] <= now /\ caller[c].at <= now
          /\ stage[c] = "idle" => basis[c] = None /\ reading[c] = None
          /\ stage[c] \in Committed => basis[c] # None
          /\ reading[c] # None =>
                /\ basis[c] = None /\ reading[c].of = c
                /\ reading[c].at # 0 => reading[c].at \in caller[c].at .. now
          /\ basis[c] \notin {None, MadeUp} =>
                \E d \in Cycles : Fresh(basis[c], d, got[c])
    /\ cache.usd # None =>
          \E d \in Cycles : /\ Fresh(cache.usd, d, got[d])
                            /\ cache.until = got[d] + Ttl

LEMMA CacheInvImplies == CacheInv => CapIsRecentMoney
BY DEF CacheInv, CapIsRecentMoney, Committed

LEMMA CacheInit == SystemInit => CacheInv
BY DEF SystemInit, Init, CacheInv, TypeOK, Stages, Committed

(* A step that leaves the treasuries and their cycles alone.               *)
LEMMA QuietStep ==
    ASSUME CacheInv, UNCHANGED <<treasury, caller>>,
           now' \in Nat, now <= now', stage' \in [Cycles -> Stages],
           \A c \in Cycles : stage'[c] = "idle" => stage[c] = "idle",
           \A c \in Cycles : stage'[c] \in Committed => basis[c] # None
    PROVE  CacheInv'
<1>1. /\ cache' = cache /\ reading' = reading /\ basis' = basis
      /\ got' = got /\ caller' = caller
  BY DEF treasury
<1>2. TypeOK'
  BY <1>1 DEF CacheInv, TypeOK
<1>3. \A usd, d, t : Fresh(usd, d, t)' <=> Fresh(usd', d, t)
  BY <1>1 DEF Fresh
<1>4. \A c \in Cycles : /\ got[c] \in Nat /\ caller[c].at \in Nat
                        /\ reading[c] # None => reading[c].at \in Nat
  BY DEF CacheInv, TypeOK, Balance
<1>5. ASSUME NEW c \in Cycles
      PROVE  /\ got'[c] <= now' /\ caller'[c].at <= now'
             /\ reading'[c] # None /\ reading'[c].at # 0 =>
                   reading'[c].at \in caller'[c].at .. now'
  BY <1>1, <1>4 DEF CacheInv, TypeOK
<1>6. QED
  BY <1>1, <1>2, <1>5 DEF CacheInv, Fresh

(* A call that starts a cycle, or is not followed.                         *)
LEMMA StartStep ==
    ASSUME CacheInv, NEW by, NEW agent, Started(by, agent), UNCHANGED treasury
    PROVE  CacheInv'
<1>1. CASE UNCHANGED <<vars, caller>>
  BY <1>1, QuietStep DEF vars, CacheInv, TypeOK
<1>2. ASSUME NEW c \in Cycles, Begin(c),
             caller' = [caller EXCEPT ![c] = [by |-> by, agent |-> agent, at |-> now]]
      PROVE  CacheInv'
  <2>1. /\ cache' = cache /\ reading' = reading /\ basis' = basis /\ got' = got
        /\ now' = now
    BY <1>2 DEF treasury, Begin, Moves
  <2>2. /\ stage[c] = "idle" /\ basis[c] = None /\ reading[c] = None
        /\ stage' = [stage EXCEPT ![c] = "deciding"]
    BY <1>2 DEF Begin, Moves, CacheInv
  <2>3. /\ caller'[c].at = now /\ now \in Nat /\ DOMAIN caller' = Cycles
        /\ \A d \in Cycles \ {c} : caller'[d] = caller[d]
    BY <1>2 DEF CacheInv, TypeOK
  <2>4. TypeOK'
    BY <2>1, <2>2, <2>3 DEF CacheInv, TypeOK, Stages
  <2>5. ASSUME NEW d \in Cycles, NEW t, NEW usd, usd # None, Fresh(usd, d, t)
        PROVE  usd = basis'[d] /\ usd.of = d
               /\ usd.at \in caller'[d].at .. got'[d]
               /\ t \in got'[d] .. (got'[d] + Ttl)
    BY <2>1, <2>2, <2>3, <2>5 DEF Fresh
  <2>6. ASSUME NEW d \in Cycles
        PROVE  /\ got'[d] <= now' /\ caller'[d].at <= now'
               /\ stage'[d] = "idle" => basis'[d] = None /\ reading'[d] = None
               /\ stage'[d] \in Committed => basis'[d] # None
               /\ reading'[d] # None =>
                     /\ basis'[d] = None /\ reading'[d].of = d
                     /\ reading'[d].at # 0 =>
                           reading'[d].at \in caller'[d].at .. now'
    BY <2>1, <2>2, <2>3 DEF CacheInv, TypeOK, Committed
  <2>7. ASSUME NEW e \in Cycles, basis'[e] \notin {None, MadeUp}
        PROVE  \E d \in Cycles : Fresh(basis[e], d, got[e])'
    BY <2>1, <2>5, <2>7 DEF CacheInv, Fresh
  <2>8. cache'.usd # None =>
           \E d \in Cycles : /\ Fresh(cache.usd, d, got[d])'
                             /\ cache'.until = got'[d] + Ttl
    BY <2>1, <2>5 DEF CacheInv, Fresh
  <2>9. QED
    BY <2>4, <2>6, <2>7, <2>8 DEF CacheInv
<1>3. QED
  BY <1>1, <1>2 DEF Started

-----------------------------------------------------------------------------
(* The answers.                                                            *)

(* usd is the answer of the chain that cycle c has waited for.             *)
OwnReading(c, usd) ==
    usd \in Balance /\ usd.of = c /\ usd.at \in caller[c].at .. now

(* What another cycle kept stays kept when c gets an answer.               *)
LEMMA AnswerKeeps ==
    ASSUME CacheInv, NEW c \in Cycles, NEW usd, Asks(c), Answer(c, usd),
           NEW d \in Cycles, NEW x, NEW t, x # None, Fresh(x, d, t)
    PROVE  d # c /\ got'[d] = got[d] /\ caller' = caller
           /\ x = basis'[d] /\ x.of = d
           /\ x.at \in caller'[d].at .. got'[d]
           /\ t \in got'[d] .. (got'[d] + Ttl)
BY DEF Fresh, Asks, Answer, CacheInv, TypeOK

(* Cycle c goes on with what it was made up, found or read.                *)
LEMMA AnswerStep ==
    ASSUME CacheInv, NEW c \in Cycles, NEW usd, Asks(c), Answer(c, usd),
           usd \in Balance \cup {MadeUp},
           usd # MadeUp =>
              OwnReading(c, usd) \/ \E d \in Cycles : Fresh(usd, d, now),
           \/ cache' = cache
           \/ OwnReading(c, usd) /\ cache' = [usd |-> usd, until |-> now + Ttl]
    PROVE  CacheInv'
<1>1. /\ basis' = [basis EXCEPT ![c] = usd] /\ got' = [got EXCEPT ![c] = now]
      /\ reading' = [reading EXCEPT ![c] = None]
      /\ stage' = stage /\ now' = now /\ caller' = caller
  BY DEF Answer, vars
<1>2. /\ now \in Nat /\ Ttl \in Nat /\ usd # None
      /\ stage[c] = "deciding" /\ basis[c] = None
  BY TradingSystemAssumption DEF CacheInv, TypeOK, Asks
<1>3. /\ basis'[c] = usd /\ got'[c] = now /\ reading'[c] = None
      /\ \A d \in Cycles \ {c} : /\ basis'[d] = basis[d] /\ got'[d] = got[d]
                                 /\ reading'[d] = reading[d]
  BY <1>1 DEF CacheInv, TypeOK
<1>4. TypeOK'
  <2>1. now + Ttl \in Nat
    BY <1>2
  <2>2. cache' \in [usd : Balance \cup {None}, until : Nat]
    BY <2>1 DEF CacheInv, TypeOK, OwnReading
  <2>3. QED
    BY <1>1, <1>2, <2>2 DEF CacheInv, TypeOK
<1>5. OwnReading(c, usd) => /\ usd = basis'[c] /\ usd.of = c
                            /\ usd.at \in caller'[c].at .. got'[c]
                            /\ now \in got'[c] .. (got'[c] + Ttl)
  BY <1>1, <1>2, <1>3 DEF OwnReading
<1>6. ASSUME NEW e \in Cycles, basis'[e] \notin {None, MadeUp}
      PROVE  \E d \in Cycles : Fresh(basis[e], d, got[e])'
  <2>1. CASE e = c
    BY <1>3, <1>5, <1>6, <2>1, <1>2, AnswerKeeps DEF Fresh
  <2>2. CASE e # c
    BY <1>3, <1>6, <2>2, AnswerKeeps DEF Fresh, CacheInv
  <2>3. QED
    BY <2>1, <2>2
<1>7. cache'.usd # None =>
         \E d \in Cycles : /\ Fresh(cache.usd, d, got[d])'
                           /\ cache'.until = got'[d] + Ttl
  <2>1. CASE cache' = cache
    BY <2>1, AnswerKeeps DEF Fresh, CacheInv
  <2>2. CASE OwnReading(c, usd) /\ cache' = [usd |-> usd, until |-> now + Ttl]
    BY <1>3, <1>5, <2>2 DEF Fresh
  <2>3. QED
    BY <2>1, <2>2
<1>8. ASSUME NEW d \in Cycles
      PROVE  /\ got'[d] <= now' /\ caller'[d].at <= now'
             /\ stage'[d] = "idle" => basis'[d] = None /\ reading'[d] = None
             /\ stage'[d] \in Committed => basis'[d] # None
             /\ reading'[d] # None =>
                   /\ basis'[d] = None /\ reading'[d].of = d
                   /\ reading'[d].at # 0 =>
                         reading'[d].at \in caller'[d].at .. now'
  BY <1>1, <1>2, <1>3 DEF CacheInv, TypeOK
<1>9. QED
  BY <1>4, <1>6, <1>7, <1>8 DEF CacheInv

(* A step of cycle c's call of the chain: asked, or answered at now.       *)
LEMMA ReadingStep ==
    ASSUME CacheInv, NEW c \in Cycles, NEW t \in {0, now}, Asks(c),
           reading' = [reading EXCEPT ![c] = [of |-> c, at |-> t]],
           UNCHANGED <<vars, caller, cache, basis, got>>
    PROVE  CacheInv'
<1>1. /\ stage' = stage /\ now' = now /\ now \in Nat
      /\ stage[c] = "deciding" /\ basis[c] = None
  BY DEF vars, CacheInv, TypeOK, Asks
<1>2. [of |-> c, at |-> t] \in Balance
  BY <1>1 DEF Balance
<1>3. TypeOK'
  BY <1>1, <1>2 DEF CacheInv, TypeOK
<1>4. /\ reading'[c] = [of |-> c, at |-> t]
      /\ \A d \in Cycles \ {c} : reading'[d] = reading[d]
  BY DEF CacheInv, TypeOK
<1>5. QED
  BY <1>1, <1>3, <1>4 DEF CacheInv, TypeOK, Fresh

LEMMA TreasuryStep ==
    ASSUME CacheInv, NEW c \in Cycles, GetTreasuryState(c)
    PROVE  CacheInv'
<1>1. CASE FindTreasury(c)
  <2>1. cache.usd \in Balance /\ now <= cache.until /\ now \in Nat
    BY <1>1 DEF FindTreasury, Cached, CacheInv, TypeOK
  <2>2. cache.usd # None
    BY <1>1 DEF FindTreasury, Cached
  <2>3. PICK d \in Cycles : Fresh(cache.usd, d, got[d])
                            /\ cache.until = got[d] + Ttl
    BY <2>2 DEF CacheInv
  <2>4. Fresh(cache.usd, d, now)
    BY <2>1, <2>3, TradingSystemAssumption DEF Fresh, CacheInv, TypeOK
  <2>5. QED
    BY <1>1, <2>1, <2>4, AnswerStep DEF FindTreasury
<1>2. CASE AskChain(c)
  BY <1>2, ReadingStep DEF AskChain
<1>3. CASE ReadBalance(c)
  BY <1>3, ReadingStep DEF ReadBalance, Waits
<1>4. CASE KeepTreasury(c)
  <2>1. reading[c] \in Balance /\ reading[c].of = c
    BY <1>4 DEF KeepTreasury, CacheInv, TypeOK
  <2>2. reading[c].at # 0
    BY <1>4, <2>1 DEF KeepTreasury, Balance
  <2>3. OwnReading(c, reading[c])
    BY <1>4, <2>1, <2>2 DEF KeepTreasury, CacheInv, OwnReading
  <2>4. QED
    BY <1>4, <2>1, <2>3, AnswerStep DEF KeepTreasury
<1>5. CASE MakeUpTreasury(c)
  BY <1>5, AnswerStep DEF MakeUpTreasury, Waits
<1>6. QED
  BY <1>1, <1>2, <1>3, <1>4, <1>5 DEF GetTreasuryState

-----------------------------------------------------------------------------
(* The other steps.                                                        *)

LEMMA RestStep ==
    ASSUME CacheInv, NEW c \in Cycles, RestOfCycle(c)
    PROVE  CacheInv'
<1> DEFINE Goes(from, to) ==
              /\ stage[c] = from /\ stage' = [stage EXCEPT ![c] = to]
              /\ to \in Committed => from \in Committed \cup {"deciding"}
<1>1. \E from, to \in Stages \ {"idle"} : Goes(from, to)
  <2> USE DEF Moves, Stages, Committed
  <2>1. CASE Approve(c)
    <3>1. Goes("deciding", "approved")
      BY <2>1 DEF Approve
    <3>2. QED
      BY <3>1
  <2>2. CASE Open(c)
    <3>1. Goes("approved", "holding")
      BY <2>2 DEF Open
    <3>2. QED
      BY <3>1
  <2>3. CASE Close(c)
    <3>1. Goes("holding", "settling")
      BY <2>3 DEF Close
    <3>2. QED
      BY <3>1
  <2>4. CASE Invoice(c)
    <3>1. Goes("settling", "settling")
      BY <2>4 DEF Invoice, CacheInv, TypeOK
    <3>2. QED
      BY <3>1
  <2>5. CASE End(c)
    <3>1. PICK from \in Stages \ {"idle", "over"} : Moves(c, from, "over")
      BY <2>5 DEF End
    <3>2. Goes(from, "over")
      BY <3>1
    <3>3. QED
      BY <3>1, <3>2
  <2>6. QED
    BY <2>1, <2>2, <2>3, <2>4, <2>5 DEF RestOfCycle
<1>2. PICK from, to \in Stages \ {"idle"} : Goes(from, to)
  BY <1>1
<1>3. basis[c] = None => from \notin Committed \cup {"deciding"}
  BY <1>2 DEF RestOfCycle, Asks, CacheInv
<1>4. now' = now /\ now \in Nat
  BY DEF RestOfCycle, Approve, Open, Close, Invoice, End, Moves, CacheInv, TypeOK
<1>5. stage' \in [Cycles -> Stages]
  BY <1>2 DEF CacheInv, TypeOK
<1>6. QED
  BY <1>2, <1>3, <1>4, <1>5, QuietStep DEF RestOfCycle, CacheInv, TypeOK

LEMMA SystemStep ==
    ASSUME CacheInv, [SystemNext]_systemVars
    PROVE  CacheInv'
<1>1. ASSUME NEW t, RunCycle(t) PROVE CacheInv'
  BY <1>1, StartStep DEF RunCycle
<1>2. ASSUME NEW a \in Agents, TradeRequest(a) PROVE CacheInv'
  BY <1>2, StartStep DEF TradeRequest
<1>3. ASSUME UNCHANGED <<vars, treasury, caller>> PROVE CacheInv'
  BY <1>3, QuietStep DEF vars, CacheInv, TypeOK
<1>4. ASSUME NEW a \in Agents, FailAgent(a) PROVE CacheInv'
  <2>1. CASE Restart
    BY <1>4, <2>1, QuietStep
       DEF FailAgent, Restart, CacheInv, TypeOK, Stages, Committed
  <2>2. QED
    BY <1>3, <1>4, <2>1 DEF FailAgent
<1>5. ASSUME NEW c \in Cycles, GetTreasuryState(c) \/ RestOfCycle(c)
      PROVE  CacheInv'
  BY <1>5, TreasuryStep, RestStep
<1>6. ASSUME SystemTick PROVE CacheInv'
  BY <1>6, QuietStep DEF SystemTick, Pass, CacheInv, TypeOK
<1>7. CASE UNCHANGED systemVars
  BY <1>3, <1>7 DEF systemVars
<1>8. QED
  BY <1>1, <1>2, <1>3, <1>4, <1>5, <1>6, <1>7
     DEF SystemNext, ManageAgent, ManageProcess

(* The cap of every approved trade is a share of a balance that was true   *)
(* while some cycle was at its read, no longer than an entry lives before  *)
(* this one asked, or of the made-up treasury.                             *)
THEOREM CapTheorem == SystemSpec => []CapIsRecentMoney
BY CacheInit, SystemStep, CacheInvImplies, PTL DEF SystemSpec

-----------------------------------------------------------------------------
(* The limits.                                                             *)

TimerRecord == [left : Nat, repeats : BOOLEAN, live : BOOLEAN]

(* A timer that started cycle c cannot be due again before a whole         *)
(* interval has gone by, and one that does not repeat never is.            *)
TimerOf(c) ==
    LET t == caller[c].by IN
    t # 0 => /\ t \in DOMAIN timers
             /\ timers[t].live =>
                   /\ timers[t].repeats
                   /\ timers[t].left + (now - caller[c].at) >= Interval

(* Hence the cycles of one timer are an interval apart.                    *)
Apart(c, d) ==
    c # d /\ caller[c].by = caller[d].by /\ caller[c].by # 0 =>
        \/ caller[c].at + Interval <= caller[d].at
        \/ caller[d].at + Interval <= caller[c].at

Schedule ==
    /\ timers \in Seq(TimerRecord)
    /\ \A c \in Cycles : TimerOf(c)
    /\ \A c, d \in Cycles : Apart(c, d)

Begun == {c \in Cycles : stage[c] # "idle"}

Openings ==
    /\ now > 0
    /\ opened \in [Cycles -> Nat]
    /\ IsFiniteSet(Begun)
    /\ \A c \in Cycles :
          /\ stage[c] = "idle" => caller[c].by = 0
          /\ stage[c] \in {"idle", "deciding", "approved"} => opened[c] = 0
          /\ opened[c] > 0 => opened[c] \in caller[c].at .. now
          /\ stage[c] = "holding" => opened[c] > 0

(* A position opened before d was called has held d's approval back ...    *)
Waited(c, d) ==
    opened[c] > 0 /\ opened[c] < caller[d].at =>
        /\ stage[d] = "approved" => now >= opened[c] + Timelock
        /\ opened[d] > 0 => opened[d] >= opened[c] + Timelock

(* ... and of those still held, one slot was left for d.                   *)
Older(d) == {c \in Holders : opened[c] < caller[d].at}

SlotLeft(d) ==
    stage[d] \in {"approved", "holding"} => Cardinality(Older(d)) < MaxOpenPositions

(* Inductive, beside CacheInv.                                             *)
LimitInv ==
    /\ CacheInv
    /\ Schedule
    /\ Openings
    /\ \A c, d \in Cycles : Waited(c, d)
    /\ \A d \in Cycles : SlotLeft(d)

(* What LimitInv says of the numbers.                                      *)
LEMMA LimitTypes ==
    ASSUME LimitInv
    PROVE  /\ {Timelock, MaxOpenPositions, Interval, FirstDelay} \subseteq Nat
           /\ now \in Nat \ {0}
           /\ stage \in [Cycles -> Stages] /\ opened \in [Cycles -> Nat]
           /\ DOMAIN caller = Cycles
           /\ \A c \in Cycles : caller[c].at \in Nat /\ caller[c].at <= now
           /\ IsFiniteSet(Holders)
           /\ \A d \in Cycles : IsFiniteSet(Older(d)) /\ Cardinality(Older(d)) \in Nat
<1>1. Holders \subseteq Begun
  BY DEF Holders, Begun
<1>2. IsFiniteSet(Holders)
  BY <1>1, FS_Subset DEF LimitInv, Openings
<1>3. \A d \in Cycles : IsFiniteSet(Older(d)) /\ Cardinality(Older(d)) \in Nat
  BY <1>2, FS_Subset, FS_CardinalityType DEF Older
<1>4. QED
  BY <1>2, <1>3, TradingSystemAssumption DEF LimitInv, CacheInv, TypeOK, Openings

(* Fewer positions leave more slots.                                       *)
LEMMA SlotLeftFewer ==
    ASSUME LimitInv, NEW d \in Cycles, NEW S \in SUBSET Older(d),
           stage[d] \in {"approved", "holding"}
    PROVE  Cardinality(S) < MaxOpenPositions
<1>1. IsFiniteSet(Older(d)) /\ Cardinality(Older(d)) \in Nat /\ MaxOpenPositions \in Nat
  BY LimitTypes
<1>2. /\ Cardinality(S) \in Nat
      /\ Cardinality(S) <= Cardinality(Older(d))
  BY <1>1, FS_Subset, FS_CardinalityType
<1>3. Cardinality(Older(d)) < MaxOpenPositions
  BY DEF LimitInv, SlotLeft
<1>4. QED
  BY <1>1, <1>2, <1>3

(* Two positions opened sooner than the timelock: one timer that started   *)
(* both, well apart, had let the first open before it called the second.   *)
LEMMA TimelockNeedsTwo ==
    ASSUME LimitInv, NEW c \in Cycles, NEW d \in Cycles, c # d, opened[c] > 0,
           opened[d] \in opened[c] .. (opened[c] + Timelock - 1)
    PROVE  SideBySide(c, d)
<1>1. SUFFICES ASSUME caller[c].by = caller[d].by, caller[c].by # 0,
                      opened[c] < caller[c].at + Interval,
                      opened[d] < caller[d].at + Interval
               PROVE  FALSE
  BY LimitTypes DEF SideBySide
<1>2. Apart(c, d) /\ Waited(c, d)
  BY DEF LimitInv, Schedule
<1>3. opened[c] >= caller[c].at /\ opened[d] >= caller[d].at /\ opened[d] > 0
  BY LimitTypes DEF LimitInv, Openings
<1>4. QED
  BY <1>1, <1>2, <1>3, LimitTypes DEF Apart, Waited

(* More positions than slots: of cycles of one timer that were quick, the  *)
(* last one was approved with all the others in sight.                     *)
LEMMA SlotsNeedTwo ==
    ASSUME LimitInv, Cardinality(Holders) > MaxOpenPositions
    PROVE  \E c, d \in Holders : c # d /\ SideBySide(c, d)
<1>1. SUFFICES ASSUME \A c, d \in Holders : c # d => ~SideBySide(c, d)
               PROVE  FALSE
  OBVIOUS
<1>2. /\ IsFiniteSet(Holders) /\ Cardinality(Holders) \in Nat
      /\ Holders \subseteq Cycles /\ MaxOpenPositions \in Nat
  BY LimitTypes, FS_CardinalityType DEF Holders
<1>3. \A c, d \in Holders : c # d =>
         /\ caller[c].by = caller[d].by /\ caller[c].by # 0
         /\ opened[c] < caller[c].at + Interval
         /\ opened[d] < caller[d].at + Interval
  BY <1>1, <1>2, LimitTypes DEF SideBySide
<1>4. PICK d \in Holders : \A c \in Holders : caller[c].at <= caller[d].at
  <2> DEFINE Ages == {now - caller[c].at : c \in Holders}
  <2>1. Ages \subseteq Nat /\ Ages # {}
    <3>1. Holders # {}
      BY <1>2, FS_EmptySet
    <3>2. QED
      BY <1>2, <3>1, LimitTypes
  <2>2. PICK a \in Ages : \A b \in Ages : ~(<<b, a>> \in OpToRel(<, Nat))
    <3> HIDE DEF Ages
    <3>1. QED
      BY <2>1, NatLessThanWellFounded, WFMin
  <2>3. ASSUME NEW b \in Ages PROVE ~(b < a)
    <3> HIDE DEF Ages
    <3>1. <<b, a>> \in Nat \X Nat
      BY <2>1
    <3>2. QED
      BY <2>2, <3>1 DEF OpToRel
  <2>4. PICK d \in Holders : a = now - caller[d].at
    OBVIOUS
  <2>5. ASSUME NEW c \in Holders PROVE caller[c].at <= caller[d].at
    <3>1. ~(now - caller[c].at < now - caller[d].at)
      BY <2>3, <2>4
    <3>2. QED
      BY <1>2, <3>1, LimitTypes
  <2>6. QED
    BY <2>5
<1>5. Holders \ {d} \subseteq Older(d)
  <2>1. ASSUME NEW c \in Holders \ {d} PROVE opened[c] < caller[d].at
    <3>1. /\ caller[c].at \in Nat /\ caller[d].at \in Nat
          /\ opened[c] \in Nat /\ Interval \in Nat
          /\ c \in Cycles /\ d \in Cycles /\ c # d
      BY <1>2, LimitTypes
    <3>2. Apart(c, d) /\ (opened[d] > 0 => opened[d] >= caller[d].at)
      BY <3>1 DEF LimitInv, Schedule, Openings
    <3>3. caller[c].at <= caller[d].at /\ opened[c] < caller[c].at + Interval
      BY <1>3, <1>4, <3>1
    <3>4. opened[c] > 0 /\ opened[c] >= caller[c].at
      BY <3>1 DEF LimitInv, Openings, Holders
    <3>5. \/ caller[c].at + Interval <= caller[d].at
          \/ caller[d].at + Interval <= caller[c].at
      BY <1>3, <3>1, <3>2 DEF Apart
    <3>6. QED
      BY <3>1, <3>3, <3>4, <3>5
  <2>2. QED
    BY <2>1 DEF Older
<1>6. Cardinality(Holders \ {d}) < MaxOpenPositions
  BY <1>2, <1>5, SlotLeftFewer DEF Holders
<1>7. Cardinality(Holders \ {d}) = Cardinality(Holders) - 1
  BY <1>2, FS_RemoveElement
<1>8. QED
  BY <1>2, <1>6, <1>7

-----------------------------------------------------------------------------
(* The steps of the limits.                                                *)

(* Nothing but the timers changes, where a start may add two.              *)
LEMMA LimitQuiet ==
    ASSUME LimitInv, CacheInv', UNCHANGED <<vars, caller>>,
           timers' = timers \/ timers' = Timers!ArmTimers
    PROVE  LimitInv'
<1>1. /\ now' = now /\ stage' = stage /\ opened' = opened /\ caller' = caller
  BY DEF vars
<1>2. Openings' /\ (\A c, d \in Cycles : Waited(c, d)') /\ \A d \in Cycles : SlotLeft(d)'
  BY <1>1 DEF LimitInv, Openings, Begun, Waited, SlotLeft, Older, Holders
<1>3. /\ timers' \in Seq(TimerRecord)
      /\ DOMAIN timers \subseteq DOMAIN timers'
      /\ \A t \in DOMAIN timers : timers'[t] = timers[t]
  <2>1. timers \in Seq(TimerRecord)
    BY DEF LimitInv, Schedule
  <2>2. CASE timers' = Timers!ArmTimers
    <3> DEFINE first == [left |-> FirstDelay, repeats |-> FALSE, live |-> TRUE]
               other == [left |-> Interval, repeats |-> TRUE, live |-> TRUE]
    <3>1. first \in TimerRecord /\ other \in TimerRecord
      BY LimitTypes DEF TimerRecord
    <3>2. timers' = Append(Append(timers, first), other)
      BY <2>2 DEF Timers!ArmTimers
    <3> HIDE DEF first, other
    <3>3. QED
      BY <2>1, <3>1, <3>2
  <2>3. QED
    BY <2>1, <2>2
<1>4. Schedule'
  BY <1>1, <1>3 DEF LimitInv, Schedule, TimerOf, Apart
<1>5. QED
  BY <1>2, <1>4 DEF LimitInv

(* Time passes for the timers too.                                         *)
LEMMA LimitTick ==
    ASSUME LimitInv, CacheInv', SystemTick
    PROVE  LimitInv'
<1> DEFINE Live == {t \in DOMAIN timers : timers[t].live}
<1>1. /\ now' = now + 1 /\ now \in Nat
      /\ stage' = stage /\ opened' = opened /\ caller' = caller
  BY LimitTypes DEF SystemTick, Pass
<1>2. /\ timers \in Seq(TimerRecord) /\ timers' \in Seq(TimerRecord)
      /\ DOMAIN timers' = DOMAIN timers
      /\ \A t \in DOMAIN timers : timers'[t].live =>
            /\ timers[t].live /\ timers'[t].repeats = timers[t].repeats
            /\ timers'[t].left = timers[t].left - 1 /\ timers[t].left \in Nat
  <2>1. timers \in Seq(TimerRecord)
    BY DEF LimitInv, Schedule
  <2>2. \A t \in DOMAIN timers : timers[t] \in TimerRecord
    BY <2>1
  <2>3. CASE Timers!Tick
    <3>1. /\ \A t \in Live : timers[t].left > 0
          /\ timers' = [t \in DOMAIN timers |->
                           IF t \in Live THEN [timers[t] EXCEPT !.left = @ - 1]
                                         ELSE timers[t]]
      BY <2>3 DEF Timers!Tick, Timers!Live
    <3>2. \A t \in DOMAIN timers : timers'[t] \in TimerRecord
      BY <2>2, <3>1 DEF TimerRecord
    <3>3. timers' \in Seq(TimerRecord)
      <4>1. PICK n \in Nat : DOMAIN timers = 1 .. n
        BY <2>1
      <4>2. DOMAIN timers' = 1 .. n
        BY <3>1, <4>1
      <4>3. timers' \in [1 .. n -> TimerRecord]
        BY <3>1, <3>2, <4>1, <4>2
      <4>4. QED
        BY <4>3
    <3>4. QED
      BY <2>1, <2>2, <3>1, <3>3 DEF TimerRecord
  <2>4. CASE Timers!Live = {} /\ UNCHANGED timerVars
    BY <2>1, <2>4 DEF Timers!Live, timerVars
  <2>5. QED
    BY <2>3, <2>4 DEF SystemTick
<1>3. ASSUME NEW c \in Cycles PROVE TimerOf(c)'
  <2> DEFINE t == caller[c].by
  <2>1. TimerOf(c)
    BY DEF LimitInv, Schedule
  <2>2. caller[c].at \in Nat /\ Interval \in Nat
    BY LimitTypes
  <2>3. CASE t # 0 /\ timers'[t].live
    <3>1. /\ t \in DOMAIN timers /\ timers[t].repeats
          /\ timers[t].left + (now - caller[c].at) >= Interval
      BY <1>2, <2>1, <2>3 DEF TimerOf
    <3>2. /\ timers'[t].repeats /\ timers[t].left \in Nat
          /\ timers'[t].left = timers[t].left - 1
      BY <1>2, <2>3, <3>1
    <3>3. timers'[t].left + ((now + 1) - caller[c].at) >= Interval
      BY <1>1, <2>2, <3>1, <3>2
    <3>4. QED
      BY <1>1, <1>2, <3>1, <3>2, <3>3 DEF TimerOf
  <2>4. CASE t = 0 \/ ~timers'[t].live
    BY <1>1, <1>2, <2>1, <2>4 DEF TimerOf
  <2>5. QED
    BY <2>3, <2>4
<1>4. Schedule'
  BY <1>1, <1>2, <1>3 DEF LimitInv, Schedule, Apart
<1>5. Openings'
  BY <1>1, LimitTypes DEF LimitInv, Openings, Begun
<1>6. \A c, d \in Cycles : Waited(c, d)'
  BY <1>1, LimitTypes DEF LimitInv, Waited
<1>7. \A d \in Cycles : SlotLeft(d)'
  BY <1>1 DEF LimitInv, SlotLeft, Older, Holders
<1>8. QED
  BY <1>4, <1>5, <1>6, <1>7 DEF LimitInv

(* A cycle that is called sees every opening in the past.                  *)
LEMMA LimitBegin ==
    ASSUME LimitInv, NEW c \in Cycles, NEW by, NEW agent, Begin(c),
           caller' = [caller EXCEPT ![c] = [by |-> by, agent |-> agent, at |-> now]]
    PROVE  /\ stage[c] = "idle" /\ now' = now
           /\ caller'[c].by = by /\ caller'[c].at = now
           /\ \A d \in Cycles \ {c} : caller'[d] = caller[d]
           /\ Openings'
           /\ \A d, e \in Cycles : Waited(d, e)'
           /\ \A d \in Cycles : SlotLeft(d)'
<1>1. /\ stage[c] = "idle" /\ stage' = [stage EXCEPT ![c] = "deciding"]
      /\ now' = now /\ opened' = opened
  BY DEF Begin, Moves
<1>2. /\ caller'[c].by = by /\ caller'[c].at = now
      /\ \A d \in Cycles \ {c} : caller'[d] = caller[d]
  BY LimitTypes
<1>3. /\ stage'[c] = "deciding" /\ opened[c] = 0
      /\ \A d \in Cycles \ {c} : stage'[d] = stage[d]
      /\ opened \in [Cycles -> Nat] /\ now \in Nat \ {0}
  BY <1>1, LimitTypes DEF LimitInv, Openings
<1>4. Openings'
  <2>1. Begun' = Begun \cup {c}
    BY <1>3 DEF Begun
  <2>2. IsFiniteSet(Begun')
    BY <2>1, FS_AddElement DEF LimitInv, Openings
  <2>3. QED
    BY <1>1, <1>2, <1>3, <2>2 DEF LimitInv, Openings
<1>5. ASSUME NEW d \in Cycles, NEW e \in Cycles PROVE Waited(d, e)'
  BY <1>1, <1>2, <1>3 DEF LimitInv, Waited
<1>6. ASSUME NEW d \in Cycles PROVE SlotLeft(d)'
  <2>1. CASE d = c
    BY <1>3, <2>1 DEF SlotLeft
  <2>2. CASE d # c
    <3>1. Older(d)' = Older(d)
      BY <1>1, <1>2, <1>3, <2>2 DEF Older, Holders
    <3>2. QED
      BY <1>3, <2>2, <3>1 DEF LimitInv, SlotLeft
  <2>3. QED
    BY <2>1, <2>2
<1>7. QED
  BY <1>1, <1>2, <1>4, <1>5, <1>6

LEMMA LimitRun ==
    ASSUME LimitInv, CacheInv', NEW t, RunCycle(t)
    PROVE  LimitInv'
<1>1. /\ t \in DOMAIN timers /\ timers[t].live /\ timers[t].left = 0
      /\ timers' = [timers EXCEPT ![t] =
                       IF @.repeats THEN [@ EXCEPT !.left = Interval]
                                    ELSE [@ EXCEPT !.live = FALSE]]
      /\ Started(t, runtime)
  BY DEF RunCycle, Timers!Fire, Timers!Due
<1>2. /\ timers \in Seq(TimerRecord) /\ timers[t] \in TimerRecord
      /\ Interval \in Nat /\ now \in Nat /\ t # 0
      /\ \A c \in Cycles : caller[c].at \in Nat /\ caller[c].at <= now
  BY <1>1, LimitTypes DEF LimitInv, Schedule
<1>3. /\ timers' \in Seq(TimerRecord) /\ DOMAIN timers' = DOMAIN timers
      /\ \A u \in DOMAIN timers \ {t} : timers'[u] = timers[u]
      /\ timers'[t].live => timers'[t].repeats /\ timers'[t].left = Interval
      /\ timers[t].repeats \/ ~timers'[t].live
  <2>1. timers'[t] = IF timers[t].repeats THEN [timers[t] EXCEPT !.left = Interval]
                                          ELSE [timers[t] EXCEPT !.live = FALSE]
    BY <1>1
  <2>2. timers'[t] \in TimerRecord
    BY <1>2, <2>1 DEF TimerRecord
  <2>3. timers' = [timers EXCEPT ![t] = timers'[t]]
    BY <1>1, <2>1
  <2>4. timers' \in Seq(TimerRecord) /\ DOMAIN timers' = DOMAIN timers
    BY <1>1, <1>2, <2>2, <2>3
  <2>5. QED
    BY <1>1, <1>2, <2>1, <2>4 DEF TimerRecord
<1>4. ASSUME NEW d \in Cycles, caller[d].by = t
      PROVE  caller[d].at + Interval <= now
  <2>1. TimerOf(d)
    BY DEF LimitInv, Schedule
  <2>2. QED
    BY <1>1, <1>2, <1>4, <2>1 DEF TimerOf
<1>5. ASSUME NEW d \in Cycles, caller' = caller \/ caller'[d] = caller[d], now' = now
      PROVE  TimerOf(d)'
  <2>1. TimerOf(d) /\ caller'[d] = caller[d]
    BY <1>5 DEF LimitInv, Schedule
  <2>2. CASE caller[d].by = t
    BY <1>1, <1>2, <1>3, <1>5, <2>1, <2>2 DEF TimerOf
  <2>3. CASE caller[d].by # t
    BY <1>3, <1>5, <2>1, <2>3 DEF TimerOf
  <2>4. QED
    BY <2>2, <2>3
<1>6. ASSUME UNCHANGED <<vars, caller>> PROVE LimitInv'
  <2>1. now' = now /\ stage' = stage /\ opened' = opened /\ caller' = caller
    BY <1>6 DEF vars
  <2>2. Openings' /\ (\A c, d \in Cycles : Waited(c, d)') /\ \A d \in Cycles : SlotLeft(d)'
    BY <2>1 DEF LimitInv, Openings, Begun, Waited, SlotLeft, Older, Holders
  <2>3. Schedule'
    BY <1>3, <1>5, <2>1 DEF LimitInv, Schedule, Apart
  <2>4. QED
    BY <2>2, <2>3 DEF LimitInv
<1>7. ASSUME NEW c \in Cycles, Begin(c),
             caller' = [caller EXCEPT ![c] = [by |-> t, agent |-> runtime, at |-> now]]
      PROVE  LimitInv'
  <2>1. /\ stage[c] = "idle" /\ now' = now
        /\ caller'[c].by = t /\ caller'[c].at = now
        /\ \A d \in Cycles \ {c} : caller'[d] = caller[d]
        /\ Openings'
        /\ \A d, e \in Cycles : Waited(d, e)'
        /\ \A d \in Cycles : SlotLeft(d)'
    BY <1>7, LimitBegin
  <2>2. TimerOf(c)'
    BY <1>1, <1>2, <1>3, <2>1 DEF TimerOf
  <2>3. \A d \in Cycles : TimerOf(d)'
    BY <1>5, <2>1, <2>2
  <2>4. ASSUME NEW d \in Cycles, NEW e \in Cycles PROVE Apart(d, e)'
    BY <1>2, <1>4, <2>1 DEF LimitInv, Schedule, Apart
  <2>5. QED
    BY <1>3, <2>1, <2>3, <2>4 DEF LimitInv, Schedule
<1>8. QED
  BY <1>1, <1>6, <1>7 DEF Started

LEMMA LimitRequest ==
    ASSUME LimitInv, CacheInv', NEW a \in Agents, TradeRequest(a)
    PROVE  LimitInv'
<1>1. timers' = timers /\ Started(0, a)
  BY DEF TradeRequest, Timers!Dashboard, Timers!serviceVars
<1>2. ASSUME NEW c \in Cycles, Begin(c),
             caller' = [caller EXCEPT ![c] = [by |-> 0, agent |-> a, at |-> now]]
      PROVE  LimitInv'
  <2>1. /\ stage[c] = "idle" /\ now' = now
        /\ caller'[c].by = 0 /\ caller'[c].at = now
        /\ \A d \in Cycles \ {c} : caller'[d] = caller[d]
        /\ Openings'
        /\ \A d, e \in Cycles : Waited(d, e)'
        /\ \A d \in Cycles : SlotLeft(d)'
    BY <1>2, LimitBegin
  <2>2. Schedule'
    BY <1>1, <2>1 DEF LimitInv, Schedule, TimerOf, Apart
  <2>3. QED
    BY <2>1, <2>2 DEF LimitInv
<1>3. QED
  BY <1>1, <1>2, LimitQuiet DEF Started

(* The steps of a cycle: an approval finds a free slot and the timelock    *)
(* over, and what is opened is opened now.                                 *)
LEMMA LimitRest ==
    ASSUME LimitInv, CacheInv', NEW c \in Cycles, RestOfCycle(c)
    PROVE  LimitInv'
<1>1. /\ now' = now /\ caller' = caller /\ timers' = timers
      /\ now \in Nat \ {0} /\ stage \in [Cycles -> Stages]
      /\ opened \in [Cycles -> Nat] /\ {Timelock, MaxOpenPositions} \subseteq Nat
      /\ \A d \in Cycles : caller[d].at \in Nat /\ caller[d].at <= now
  BY LimitTypes DEF RestOfCycle, timerVars, Approve, Open, Close, Invoice, End, Moves
<1>2. Schedule'
  BY <1>1 DEF LimitInv, Schedule, TimerOf, Apart
<1>3. ASSUME NEW from \in Stages \ {"idle"}, NEW to \in Stages \ {"idle"},
             stage[c] = from, stage' = [stage EXCEPT ![c] = to],
             opened' = opened \/ (to = "holding" /\ opened' = [opened EXCEPT ![c] = now]),
             to \in {"deciding", "approved"} => from \in {"deciding", "approved"},
             to = "holding" => opened'[c] > 0
      PROVE  Openings'
  <2>1. Begun' = Begun
    BY <1>1, <1>3 DEF Begun
  <2>2. \A d \in Cycles \ {c} : stage'[d] = stage[d] /\ opened'[d] = opened[d]
    BY <1>1, <1>3
  <2>3. stage'[c] = to /\ (opened'[c] = opened[c] \/ (opened'[c] = now /\ to = "holding"))
    BY <1>1, <1>3
  <2>4. opened' \in [Cycles -> Nat]
    BY <1>1, <1>3
  <2>5. ASSUME NEW d \in Cycles
        PROVE  /\ stage'[d] = "idle" => caller'[d].by = 0
               /\ stage'[d] \in {"idle", "deciding", "approved"} => opened'[d] = 0
               /\ opened'[d] > 0 => opened'[d] \in caller'[d].at .. now'
               /\ stage'[d] = "holding" => opened'[d] > 0
    <3>1. CASE d = c
      BY <1>1, <1>3, <2>3, <3>1 DEF LimitInv, Openings
    <3>2. CASE d # c
      BY <1>1, <2>2, <3>2 DEF LimitInv, Openings
    <3>3. QED
      BY <3>1, <3>2
  <2>6. QED
    BY <1>1, <2>1, <2>4, <2>5 DEF LimitInv, Openings
<1>4. ASSUME NEW to \in {"settling", "over", stage[c]}, opened' = opened,
             stage' = [stage EXCEPT ![c] = to]
      PROVE  /\ \A d, e \in Cycles : Waited(d, e)'
             /\ \A d \in Cycles : SlotLeft(d)'
  <2>1. \A d \in Cycles : stage'[d] = stage[d] \/ stage'[d] \in {"settling", "over"}
    BY <1>1, <1>4
  <2>2. \A d, e \in Cycles : Waited(d, e)'
    BY <1>1, <1>4, <2>1 DEF LimitInv, Waited
  <2>3. ASSUME NEW d \in Cycles PROVE SlotLeft(d)'
    <3>1. Older(d)' \subseteq Older(d)
      BY <1>1, <1>4, <2>1 DEF Older, Holders
    <3>2. QED
      BY <2>1, <3>1, SlotLeftFewer DEF SlotLeft
  <2>4. QED
    BY <2>2, <2>3
<1>5. CASE Approve(c)
  <2>1. /\ stage[c] = "deciding" /\ stage' = [stage EXCEPT ![c] = "approved"]
        /\ opened' = opened /\ SlotFree /\ TimelockOver
    BY <1>5 DEF Approve, Moves
  <2>2. /\ stage'[c] = "approved" /\ opened[c] = 0
        /\ \A d \in Cycles \ {c} : stage'[d] = stage[d]
    BY <1>1, <2>1 DEF LimitInv, Openings
  <2>3. Openings'
    BY <1>3, <2>1 DEF Stages
  <2>4. ASSUME NEW d \in Cycles, NEW e \in Cycles PROVE Waited(d, e)'
    <3>1. CASE e = c
      BY <1>1, <2>1, <2>2, <3>1 DEF Waited, TimelockOver
    <3>2. CASE e # c
      BY <1>1, <2>1, <2>2, <3>2 DEF LimitInv, Waited
    <3>3. QED
      BY <3>1, <3>2
  <2>5. Holders' = Holders
    BY <2>1, <2>2 DEF Holders
  <2>6. ASSUME NEW d \in Cycles PROVE SlotLeft(d)'
    <3>1. Older(d)' = Older(d)
      BY <1>1, <2>1, <2>5 DEF Older
    <3>2. CASE d = c
      <4>1. /\ Cardinality(Older(d)) <= Cardinality(Holders)
            /\ Cardinality(Older(d)) \in Nat /\ Cardinality(Holders) \in Nat
        BY LimitTypes, FS_Subset, FS_CardinalityType DEF Older
      <4>2. QED
        BY <1>1, <2>1, <3>1, <4>1 DEF SlotLeft, SlotFree
    <3>3. CASE d # c
      BY <2>2, <3>1, <3>3 DEF LimitInv, SlotLeft
    <3>4. QED
      BY <3>2, <3>3
  <2>7. QED
    BY <1>2, <2>3, <2>4, <2>6 DEF LimitInv
<1>6. CASE Open(c)
  <2>1. /\ stage[c] = "approved" /\ stage' = [stage EXCEPT ![c] = "holding"]
        /\ opened' = [opened EXCEPT ![c] = now]
    BY <1>6 DEF Open, Moves
  <2>2. /\ stage'[c] = "holding" /\ opened'[c] = now
        /\ \A d \in Cycles \ {c} : stage'[d] = stage[d] /\ opened'[d] = opened[d]
    BY <1>1, <2>1
  <2>3. Openings'
    <3>1. {"approved", "holding"} \subseteq Stages \ {"idle"} /\ opened'[c] > 0
      BY <1>1, <2>2 DEF Stages
    <3>2. QED
      BY <1>3, <2>1, <3>1
  <2>4. ASSUME NEW d \in Cycles, NEW e \in Cycles PROVE Waited(d, e)'
    <3>1. CASE d = c
      BY <1>1, <2>2, <3>1 DEF Waited
    <3>2. CASE d # c
      BY <1>1, <2>1, <2>2, <3>2 DEF LimitInv, Waited
    <3>3. QED
      BY <3>1, <3>2
  <2>5. ASSUME NEW d \in Cycles PROVE SlotLeft(d)'
    <3>1. Older(d)' \subseteq Older(d)
      BY <1>1, <2>1, <2>2 DEF Older, Holders
    <3>2. stage'[d] \in {"approved", "holding"} => stage[d] \in {"approved", "holding"}
      BY <2>1, <2>2
    <3>3. QED
      BY <3>1, <3>2, SlotLeftFewer DEF SlotLeft
  <2>6. QED
    BY <1>2, <2>3, <2>4, <2>5 DEF LimitInv
<1>7. CASE Close(c)
  <2>1. /\ stage[c] = "holding" /\ stage' = [stage EXCEPT ![c] = "settling"]
        /\ opened' = opened /\ {"holding", "settling"} \subseteq Stages \ {"idle"}
    BY <1>7 DEF Close, Moves, Stages
  <2>2. Openings'
    BY <1>3, <2>1
  <2>3. QED
    BY <1>2, <1>4, <2>1, <2>2 DEF LimitInv
<1>8. CASE Invoice(c)
  <2>1. stage[c] = "settling" /\ stage' = stage /\ opened' = opened
    BY <1>8 DEF Invoice
  <2>2. Openings' /\ (\A d, e \in Cycles : Waited(d, e)') /\ \A d \in Cycles : SlotLeft(d)'
    BY <1>1, <2>1 DEF LimitInv, Openings, Begun, Waited, SlotLeft, Older, Holders
  <2>3. QED
    BY <1>2, <2>2 DEF LimitInv
<1>9. CASE End(c)
  <2>1. /\ stage[c] \in Stages \ {"idle"} /\ stage' = [stage EXCEPT ![c] = "over"]
        /\ opened' = opened
    BY <1>9 DEF End, Moves
  <2>2. Openings'
    BY <1>3, <2>1 DEF Stages
  <2>3. QED
    BY <1>2, <1>4, <2>1, <2>2 DEF LimitInv
<1>10. QED
  BY <1>5, <1>6, <1>7, <1>8, <1>9 DEF RestOfCycle

(* The end of the process forgets every opening.                           *)
LEMMA LimitDeath ==
    ASSUME LimitInv, CacheInv', NEW a \in Agents, FailAgent(a)
    PROVE  LimitInv'
<1>1. timers' = timers /\ caller' = caller
  BY DEF FailAgent, Timers!StartFails, Timers!serviceVars
<1>2. CASE Restart
  <2>1. /\ now' = now /\ stage \in [Cycles -> Stages]
        /\ stage' = [c \in Cycles |-> IF stage[c] = "idle" THEN "idle" ELSE "over"]
        /\ opened' = [c \in Cycles |-> 0]
    BY <1>2, LimitTypes DEF Restart
  <2>2. Schedule'
    BY <1>1, <2>1 DEF LimitInv, Schedule, TimerOf, Apart
  <2>3. Begun' = Begun
    BY <2>1 DEF Begun
  <2>4. Openings'
    BY <1>1, <2>1, <2>3 DEF LimitInv, Openings
  <2>5. QED
    BY <2>1, <2>2, <2>4 DEF LimitInv, Waited, SlotLeft
<1>3. CASE UNCHANGED vars
  BY <1>1, <1>3, LimitQuiet
<1>4. QED
  BY <1>2, <1>3 DEF FailAgent

LEMMA LimitStep ==
    ASSUME LimitInv, [SystemNext]_systemVars
    PROVE  LimitInv'
<1>1. CacheInv'
  BY SystemStep DEF LimitInv
<1>2. ASSUME NEW a \in Agents, ManageAgent(a) PROVE LimitInv'
  <2>1. timers' = timers \/ timers' = Timers!ArmTimers
    BY <1>2 DEF ManageAgent, Timers!StartAgent, Timers!InitializeService,
       Timers!ServiceInitialized, Timers!InitializePlugin, Timers!PluginInitialized,
       Timers!RegisterAgent, Timers!StopAgent, Timers!EndInitialize,
       Timers!serviceVars
  <2>2. QED
    BY <1>1, <1>2, <2>1, LimitQuiet DEF ManageAgent
<1>3. CASE ManageProcess
  BY <1>1, <1>3, LimitQuiet DEF ManageProcess, Timers!BootEnds, Timers!serviceVars
<1>4. ASSUME NEW c \in Cycles, GetTreasuryState(c) PROVE LimitInv'
  <2>1. UNCHANGED <<vars, timerVars, caller>>
    BY <1>4 DEF GetTreasuryState, FindTreasury, AskChain, ReadBalance, KeepTreasury,
       MakeUpTreasury, Answer
  <2>2. QED
    BY <1>1, <2>1, LimitQuiet DEF timerVars
<1>5. CASE UNCHANGED systemVars
  BY <1>1, <1>5, LimitQuiet DEF systemVars, timerVars
<1>6. QED
  BY <1>1, <1>2, <1>3, <1>4, <1>5, LimitRun, LimitRequest, LimitRest, LimitDeath,
     LimitTick DEF SystemNext

(* One timer alone keeps the timelock and the limit of positions, however  *)
(* many agents start, stop and fail and however long the reads take, as    *)
(* long as its cycles open within an interval: what breaks a limit is two  *)
(* timers, the dashboard, or a cycle that was slow to open.                *)
THEOREM LimitTheorem == SystemSpec => []LimitsNeedOneCaller
<1>1. SystemInit => LimitInv
  <2> SUFFICES ASSUME SystemInit PROVE LimitInv
    OBVIOUS
  <2>1. /\ now = 1 /\ timers = <<>> /\ stage = [c \in Cycles |-> "idle"]
        /\ opened = [c \in Cycles |-> 0]
        /\ \A c \in Cycles : caller[c].by = 0 /\ caller[c].at = 0
    BY DEF SystemInit, Init, Timers!SchedulerInit
  <2>2. Begun = {}
    BY <2>1 DEF Begun
  <2>3. Openings
    BY <2>1, <2>2, FS_EmptySet DEF Openings
  <2>4. QED
    BY <2>1, <2>3, CacheInit DEF LimitInv, Schedule, TimerOf, Apart, Waited, SlotLeft
<1>2. LimitInv => LimitsNeedOneCaller
  BY TimelockNeedsTwo, SlotsNeedTwo DEF LimitsNeedOneCaller
<1>3. QED
  BY <1>1, <1>2, LimitStep, PTL DEF SystemSpec
=============================================================================
