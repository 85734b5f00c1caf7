------------------------------ MODULE Scheduler ------------------------------
(***************************************************************************)
(* The autonomous scheduler (src/actions/scheduler.ts of the plugin) in    *)
(* the process that starts and stops agents: the runtime of                *)
(* packages/core/src/runtime.ts, agent/src/index.ts and the REST routes of *)
(* packages/client-direct/src.                                             *)
(*                                                                         *)
(* The plugin's array of services holds one AuraLensSchedulerService, made *)
(* when the module is loaded, so every agent of the process shares it.  A  *)
(* start of an agent initializes it twice: as a registered service and as  *)
(* a service of the plugin.  A timer counts the units of time it has left. *)
(* What a cycle does is the business of TradeCycle.                        *)
(***************************************************************************)
EXTENDS Naturals, Sequences, FiniteSets

CONSTANTS
    Agents,     \* the agents that may be started
    None,       \* the service before the first of them
    Characters, \* those the process starts with, in order
    Interval,   \* TRADE_CYCLE_INTERVAL_MS
    FirstDelay, \* the ten seconds before the first cycle
    MaxStarts,  \* bound: starts of agents that reach the service
    MaxStops    \* bound: calls of the service's stop

ASSUME SchedulerAssumption ==
    /\ IsFiniteSet(Agents) /\ None \notin Agents
    /\ {Interval, FirstDelay} \subseteq Nat \ {0}
    /\ Characters \in Seq(Agents)
    /\ {MaxStarts, MaxStops} \subseteq Nat

VARIABLES
    process,    \* the Node process
    phase,      \* how far the start of each agent has got
    runtime,    \* this.runtime of the service
    timers,     \* the timers it has set, in order
    handle,     \* this.intervalHandle: a timer, 0 for null
    served,     \* history: the agents that a cycle was started for
    starts,     \* how many starts have reached the service
    stops       \* history: calls of stop

agentVars == <<process, phase, starts>>
serviceVars == <<runtime, timers, handle, stops>>
schedulerVars == <<agentVars, serviceVars, served>>

(* "opening": the database, the runtime and the services before this one;  *)
(* "service" and "plugin": in its first and its second initialize;         *)
(* "services": in those of others between them; "rest": the knowledge and  *)
(* the clients.                                                            *)
Phases == {"down", "opening", "service", "services", "plugin", "rest", "up",
           "failed", "stopped"}

Timer == [left : 0 .. (Interval + FirstDelay), repeats : BOOLEAN, live : BOOLEAN]

SchedulerTypeOK ==
    /\ process \in {"booting", "serving", "dead"}
    /\ phase \in [Agents -> Phases]
    /\ runtime \in Agents \cup {None}
    /\ timers \in Seq(Timer)
    /\ handle \in 0 .. Len(timers)
    /\ served \subseteq Agents
    /\ starts \in 0 .. MaxStarts
    /\ stops \in 0 .. MaxStops

SchedulerInit ==
    /\ process = "booting"
    /\ phase = [a \in Agents |-> "down"]
    /\ runtime = None
    /\ timers = <<>>
    /\ handle = 0
    /\ served = {}
    /\ starts = 0 /\ stops = 0

-----------------------------------------------------------------------------
(* Wrong form: the runtime is not kept.                                    *)
BeginInitializeForgets(a) == runtime' = runtime

(* initialize: the runtime is kept, then the skill is registered; the      *)
(* timers are set when that call has returned, well or badly.              *)
BeginInitialize(a) == runtime' = a

ArmTimers ==
    Append(Append(timers, [left |-> FirstDelay, repeats |-> FALSE, live |-> TRUE]),
           [left |-> Interval, repeats |-> TRUE, live |-> TRUE])

(* Wrong form: one timer runs the first cycle and no other.                *)
EndInitializeOnce ==
    /\ timers' = Append(timers, [left |-> FirstDelay, repeats |-> FALSE,
                                 live |-> TRUE])
    /\ handle' = Len(timers')

EndInitialize ==
    /\ timers' = ArmTimers
    /\ handle' = Len(timers')

(* startAgents starts one character after the other; then requests start   *)
(* agents side by side.                                                    *)
IsNext(a) ==
    \E n \in DOMAIN Characters :
        Characters[n] = a /\ \A m \in 1 .. (n - 1) : phase[Characters[m]] = "up"

StartAgent(a) ==
    /\ process = "serving" \/ (process = "booting" /\ IsNext(a))
    /\ phase[a] \in {"down", "failed", "stopped"}
    /\ starts + Cardinality({x \in Agents : phase[x] = "opening"}) < MaxStarts
    /\ phase' = [phase EXCEPT ![a] = "opening"]
    /\ UNCHANGED <<process, starts, serviceVars, served>>

BootEnds ==
    /\ process = "booting"
    /\ \A n \in DOMAIN Characters : phase[Characters[n]] = "up"
    /\ process' = "serving"
    /\ UNCHANGED <<phase, starts, serviceVars, served>>

Goes(a, from, to) ==
    /\ process # "dead" /\ phase[a] = from
    /\ phase' = [phase EXCEPT ![a] = to]
    /\ UNCHANGED <<process, served, stops>>

(* The registered service is initialized, and then the plugin's, which is  *)
(* the same one.                                                           *)
InitializeService(a) ==
    /\ Goes(a, "opening", "service") /\ BeginInitialize(a)
    /\ starts' = starts + 1 /\ UNCHANGED <<timers, handle>>

ServiceInitialized(a) ==
    Goes(a, "service", "services") /\ EndInitialize /\ UNCHANGED <<runtime, starts>>

InitializePlugin(a) ==
    /\ Goes(a, "services", "plugin") /\ BeginInitialize(a)
    /\ UNCHANGED <<timers, handle, starts>>

PluginInitialized(a) ==
    Goes(a, "plugin", "rest") /\ EndInitialize /\ UNCHANGED <<runtime, starts>>

RegisterAgent(a) == Goes(a, "rest", "up") /\ UNCHANGED <<serviceVars, starts>>

(* The database, another service, the knowledge or a client throws.  The   *)
(* loop ends, its error is caught and the server is started; the route     *)
(* catches nothing, and Node ends the process for the unhandled rejection. *)
StartFails(a) ==
    /\ process # "dead" /\ phase[a] \in {"opening", "services", "rest"}
    /\ phase' = [phase EXCEPT ![a] = "failed"]
    /\ process' = IF process = "booting" THEN "serving" ELSE "dead"
    /\ UNCHANGED <<starts, serviceVars, served>>

(* POST /agents/:agentId/set: agent.stop() stops the clients, and no       *)
(* service; the route then starts another agent or refuses the character.  *)
StopAgent(a) ==
    /\ process = "serving" /\ phase[a] = "up"
    /\ phase' = [phase EXCEPT ![a] = "stopped"]
    /\ UNCHANGED <<process, starts, serviceVars, served>>

-----------------------------------------------------------------------------
(* runCycle starts the handler and whatever becomes of that, the timer     *)
(* goes on.                                                                *)
Due(t) == timers[t].live /\ timers[t].left = 0

Fire(t) ==
    /\ process # "dead" /\ t \in DOMAIN timers /\ Due(t)
    /\ timers' = [timers EXCEPT ![t] =
                     IF @.repeats THEN [@ EXCEPT !.left = Interval]
                                  ELSE [@ EXCEPT !.live = FALSE]]
    /\ served' = served \cup {runtime}
    /\ UNCHANGED <<agentVars, runtime, handle, stops>>

(* POST /api/:agentId/auralens/trade, for an agent that is registered.     *)
Dashboard(a) ==
    /\ process = "serving" /\ phase[a] = "up"
    /\ served' = served \cup {a}
    /\ UNCHANGED <<agentVars, serviceVars>>

Cleared == [timers EXCEPT ![handle].live = FALSE]

(* The service's own stop, which nothing in the repository calls.          *)
Stop ==
    /\ process # "dead" /\ stops < MaxStops
    /\ timers' = IF handle # 0 THEN Cleared ELSE timers
    /\ handle' = 0
    /\ stops' = stops + 1
    /\ UNCHANGED <<agentVars, runtime, served>>

(* Time passes when no timer is due.                                       *)
Live == {t \in DOMAIN timers : timers[t].live}

Tick ==
    /\ process # "dead"
    /\ Live # {} /\ \A t \in Live : timers[t].left > 0
    /\ timers' = [t \in DOMAIN timers |->
                     IF t \in Live THEN [timers[t] EXCEPT !.left = @ - 1]
                                   ELSE timers[t]]
    /\ UNCHANGED <<agentVars, runtime, handle, served, stops>>

-----------------------------------------------------------------------------
Starting(a) ==
    \/ InitializeService(a) \/ ServiceInitialized(a)
    \/ InitializePlugin(a) \/ PluginInitialized(a)
    \/ RegisterAgent(a) \/ StartFails(a)

FireAny == \E t \in DOMAIN timers : Fire(t)

SchedulerNext ==
    \/ \E a \in Agents :
          StartAgent(a) \/ Starting(a) \/ StopAgent(a) \/ Dashboard(a)
    \/ BootEnds
    \/ FireAny
    \/ Stop
    \/ Tick

(* Time passes, timers that are due fire, and a start comes to an end: the *)
(* registration of the skill is one request whose failure is caught.       *)
SchedulerFairness ==
    /\ WF_schedulerVars(Tick)
    /\ WF_schedulerVars(FireAny)
    /\ \A a \in Agents : WF_schedulerVars(Starting(a))

SchedulerSpec == SchedulerInit /\ [][SchedulerNext]_schedulerVars /\ SchedulerFairness

-----------------------------------------------------------------------------
(* What holds.                                                             *)

(* "Runs the trade cycle on a configurable interval without human          *)
(* intervention" (scheduler.ts): once an agent has come up, cycles are     *)
(* started for ever, whichever starts fail and whichever agents come and   *)
(* go, unless a start that was requested fails and takes the process down: *)
(* a stopped agent keeps its timers, and one call of the service's stop    *)
(* clears one of the two intervals that each start sets.                   *)
KeepsTrading ==
    <>(\E a \in Agents : phase[a] = "up") =>
        <>(process = "dead") \/ []<><<FireAny>>_schedulerVars

(* "Registered as a Service so it starts with the agent runtime"           *)
(* (scheduler.ts), yet the service knows one runtime: an agent that is up  *)
(* gets a cycle, unless it is stopped, the process ends, or another agent  *)
(* was ever started beside it, which takes the timers of the first.        *)
AloneIsServed ==
    \A a \in Agents :
        phase[a] = "up" ~>
            \/ a \in served \/ phase[a] = "stopped" \/ process = "dead"
            \/ \E b \in Agents \ {a} : phase[b] # "down"

=============================================================================
