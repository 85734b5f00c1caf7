---------------------------- MODULE TradingSystem ----------------------------
(***************************************************************************)
(* The trader as it is deployed: the timers of Scheduler and the dashboard *)
(* start the cycles, which find their treasury through the cache of        *)
(* getTreasuryState (src/providers/treasury.ts of the plugin).  A cycle is *)
(* here what Trader says of it; TradeCycle implements that.                *)
(*                                                                         *)
(* The cache is one object of the module with one key: the agents of the   *)
(* process share it, whatever their wallets.  A failed read yields a       *)
(* made-up treasury, which is not cached.  A balance stands here for its   *)
(* wallet and the moment at which it was true: what a wallet holds may be  *)
(* another amount at every moment.  A process that dies is not followed    *)
(* any further.                                                            *)
(***************************************************************************)
EXTENDS Trader, Sequences

CONSTANTS
    Agents, None, Characters, Interval, FirstDelay, MaxStarts, MaxStops,
    MadeUp,     \* the treasury of getMockTreasury
    Ttl,        \* how long NodeCache keeps an entry
    Horizon     \* bound: the last moment of the clock

VARIABLES process, phase, runtime, timers, handle, served, starts, stops

Timers == INSTANCE Scheduler

(* The balance that the call of a cycle returned at a time.                *)
Balance == [of : Cycles, at : Nat]

ASSUME TradingSystemAssumption ==
    /\ {Timelock, MaxOpenPositions, Interval, FirstDelay, Ttl, Horizon}
          \subseteq Nat
    /\ None \notin Agents \cup Balance /\ MadeUp \notin Balance \cup {None}

VARIABLES
    cache,    \* the balance under "treasury_state", and when it expires
    reading,  \* reading[c]: the balance that c's call of the chain returned
              \* (at 0: it has not yet)
    basis,    \* basis[c]: the treasury that c goes by
    caller,   \* who started cycle c, for which agent, and when
    got       \* history: when c got its treasury (0: not yet)

timerVars == <<process, phase, runtime, timers, handle, served, starts, stops>>
treasury == <<cache, reading, basis, got>>
systemVars == <<vars, timerVars, treasury, caller>>

TypeOK ==
    /\ now \in Nat
    /\ stage \in [Cycles -> Stages]
    /\ cache \in [usd : Balance \cup {None}, until : Nat]
    /\ reading \in [Cycles -> Balance \cup {None}]
    /\ basis \in [Cycles -> Balance \cup {None, MadeUp}]
    /\ DOMAIN caller = Cycles /\ \A c \in Cycles : caller[c].at \in Nat
    /\ got \in [Cycles -> Nat]

SystemInit ==
    /\ Init /\ Timers!SchedulerInit
    /\ cache = [usd |-> None, until |-> 0]
    /\ reading = [c \in Cycles |-> None]
    /\ basis = [c \in Cycles |-> None]
    /\ caller = [c \in Cycles |-> [by |-> 0, agent |-> None, at |-> 0]]
    /\ got = [c \in Cycles |-> 0]

-----------------------------------------------------------------------------
(* The start of a cycle.  The model follows some of the calls, as many as  *)
(* it has cycles; another one is a cycle that is denied and leaves nothing *)
(* behind.                                                                 *)
Started(by, agent) ==
    \/ \E c \in Cycles :
          /\ Begin(c)
          /\ caller' = [caller EXCEPT ![c] =
                           [by |-> by, agent |-> agent, at |-> now]]
    \/ UNCHANGED <<vars, caller>>

RunCycle(t) ==
    /\ Timers!Fire(t) /\ Started(t, runtime)
    /\ UNCHANGED treasury

TradeRequest(a) ==
    /\ Timers!Dashboard(a) /\ Started(0, a)
    /\ UNCHANGED treasury

-----------------------------------------------------------------------------
(* getTreasuryState.                                                       *)

(* Wrong form: the entry never expires.                                    *)
CachedForEver == cache.usd # None

Cached == cache.usd # None /\ now <= cache.until

(* Cycle c has asked and has no answer yet.                                *)
Asks(c) == stage[c] = "deciding" /\ basis[c] = None

(* It goes on with usd.                                                    *)
Answer(c, usd) ==
    /\ basis' = [basis EXCEPT ![c] = usd]
    /\ got' = [got EXCEPT ![c] = now]
    /\ reading' = [reading EXCEPT ![c] = None]
    /\ UNCHANGED <<vars, timerVars, caller>>

FindTreasury(c) ==
    /\ Asks(c) /\ reading[c] = None /\ Cached
    /\ Answer(c, cache.usd) /\ UNCHANGED cache

(* The call of balanceOf, and its answer for the agent's own wallet.       *)
AskChain(c) ==
    /\ Asks(c) /\ reading[c] = None /\ ~Cached
    /\ reading' = [reading EXCEPT ![c] = [of |-> c, at |-> 0]]
    /\ UNCHANGED <<vars, timerVars, caller, cache, basis, got>>

Waits(c) == Asks(c) /\ reading[c] = [of |-> c, at |-> 0]

ReadBalance(c) ==
    /\ Waits(c)
    /\ reading' = [reading EXCEPT ![c] = [of |-> c, at |-> now]]
    /\ UNCHANGED <<vars, timerVars, caller, cache, basis, got>>

(* After the price of $AURA, whose failure is caught, the cache is set,    *)
(* over a newer entry too.                                                 *)
KeepTreasury(c) ==
    /\ Asks(c) /\ reading[c] \notin {None, [of |-> c, at |-> 0]}
    /\ Answer(c, reading[c])
    /\ cache' = [usd |-> reading[c], until |-> now + Ttl]

(* No wallet, no token, or the chain cannot be read.                       *)
MakeUpTreasury(c) ==
    /\ Waits(c) \/ (Asks(c) /\ reading[c] = None /\ ~Cached)
    /\ Answer(c, MadeUp) /\ UNCHANGED cache

GetTreasuryState(c) ==
    \/ FindTreasury(c) \/ AskChain(c) \/ ReadBalance(c)
    \/ KeepTreasury(c) \/ MakeUpTreasury(c)

-----------------------------------------------------------------------------
(* The other steps of a cycle, of the agents and the clock.  Nothing calls *)
(* the service's own stop.                                                 *)
RestOfCycle(c) ==
    /\ ~Asks(c)
    /\ Approve(c) \/ Open(c) \/ Close(c) \/ Invoice(c) \/ End(c)
    /\ UNCHANGED <<timerVars, treasury, caller>>

ManageAgent(a) ==
    /\ \/ Timers!StartAgent(a) \/ Timers!InitializeService(a)
       \/ Timers!ServiceInitialized(a) \/ Timers!InitializePlugin(a)
       \/ Timers!PluginInitialized(a) \/ Timers!RegisterAgent(a)
       \/ Timers!StopAgent(a)
    /\ UNCHANGED <<vars, treasury, caller>>

FailAgent(a) ==
    /\ Timers!StartFails(a)
    /\ IF process' = "dead" THEN Restart ELSE UNCHANGED vars
    /\ UNCHANGED <<treasury, caller>>

ManageProcess == Timers!BootEnds /\ UNCHANGED <<vars, treasury, caller>>

(* One clock for the handlers and the timers.                              *)
SystemTick ==
    /\ now < Horizon /\ now' = now + 1 /\ Pass
    /\ Timers!Tick \/ (Timers!Live = {} /\ UNCHANGED timerVars)
    /\ UNCHANGED <<treasury, caller>>

SystemNext ==
    \/ \E t \in DOMAIN timers : RunCycle(t)
    \/ \E a \in Agents : TradeRequest(a) \/ ManageAgent(a) \/ FailAgent(a)
    \/ \E c \in Cycles : GetTreasuryState(c) \/ RestOfCycle(c)
    \/ ManageProcess
    \/ SystemTick

SystemSpec == SystemInit /\ [][SystemNext]_systemVars

-----------------------------------------------------------------------------
(* What holds of the whole.                                                *)

(* usd is what cycle d read while it asked, and at time t no more than the *)
(* life of an entry has gone by since d put it into the cache.             *)
Fresh(usd, d, t) ==
    /\ usd = basis[d] /\ usd.of = d
    /\ usd.at \in caller[d].at .. got[d]
    /\ t \in got[d] .. (got[d] + Ttl)

(* The treasury that caps an approved trade is made up, because the cycle  *)
(* could not read the chain, or it is a balance that the wallet of some    *)
(* cycle's agent had while that cycle was at its read, and that cycle put  *)
(* it into the cache no longer ago than an entry lives: however long the   *)
(* reads took and whichever overwrote the other, nothing older is used.    *)
CapIsRecentMoney ==
    \A c \in Cycles : stage[c] \in {"approved", "holding", "settling"} =>
        basis[c] = MadeUp \/ \E d \in Cycles : Fresh(basis[c], d, got[c])

(* One interval cannot have started two cycles side by side, unless one of *)
(* them took an interval or longer to open its position.                   *)
SideBySide(c, d) ==
    \/ caller[c].by # caller[d].by \/ caller[c].by = 0
    \/ \E e \in {c, d} : opened[e] >= caller[e].at + Interval

(* The timelock and the limit of positions are only ever broken by two     *)
(* callers, the dashboard, or a cycle slower than the interval: one timer  *)
(* with cycles that are quick enough keeps both, whatever fails, and       *)
(* whatever starts and stops.                                              *)
LimitsNeedOneCaller ==
    /\ \A c, d \in Cycles :
          /\ c # d /\ opened[c] > 0
          /\ opened[d] \in opened[c] .. (opened[c] + Timelock - 1)
          => SideBySide(c, d)
    /\ Cardinality(Holders) > MaxOpenPositions =>
          \E c, d \in Holders : c # d /\ SideBySide(c, d)

=============================================================================
