------------------------------ MODULE Knowledge ------------------------------
(***************************************************************************)
(* How agents are started and what they store of their characters'         *)
(* knowledge: startAgents and startAgent (agent/src/index.ts), the route   *)
(* that sets a character (client-direct/src/api.ts), the runtime's         *)
(* processCharacterKnowledge, knowledge.set and MemoryManager              *)
(* (packages/core/src), on the memories table of the PostgreSQL or the     *)
(* SQLite adapter.                                                         *)
(*                                                                         *)
(* An item of knowledge becomes one row for the document and one for each  *)
(* of its fragments.  The ids of the rows are made of the item's text and  *)
(* of nothing else: agents with the same item want the same rows.  Row 0   *)
(* of an item is the document.  The table outlives the process.            *)
(***************************************************************************)
EXTENDS Naturals, Sequences

CONSTANTS
    Agents, Items,
    None,        \* no agent: the owner of a row that is not stored
    Knowledge,   \* character.knowledge of each agent
    Fragments,   \* how many fragments an item is split into
    Characters,  \* the characters the process is given, in order
    Slots        \* bound: starts that run at a time

ASSUME KnowledgeAssumption ==
    /\ None \notin Agents
    /\ Knowledge \in [Agents -> Seq(Items)]
    /\ Fragments \in [Items -> Nat]
    /\ Characters \in Seq(Agents)

VARIABLES
    adapter,     \* which database POSTGRES_URL selects
    rows,        \* the agentId of each row, None while it is not stored
    process,     \* the Node process
    nextCharacter, \* startAgents: the character its loop is at
    starts,      \* the calls of startAgent in progress
    agents,      \* directClient.agents: those that are up
    interrupted  \* history: items some start failed or died on

vars == <<adapter, rows, process, nextCharacter, starts, agents, interrupted>>

-----------------------------------------------------------------------------
Rows == UNION {{i} \X (0 .. Fragments[i]) : i \in Items}

Known(a) == {Knowledge[a][k] : k \in DOMAIN Knowledge[a]}
Owners(i) == {a \in Agents : i \in Known(a)}

(* "opening": the database, the runtime and its services; "look": before   *)
(* the k-th item, "read" and "insert": at its row number `row'; "clients": *)
(* the knowledge is done.                                                  *)
Start == [agent : Agents \cup {None}, k : Nat, row : Nat,
          at : {"idle", "opening", "look", "read", "insert", "clients"}]

Idle == [agent |-> None, k |-> 0, row |-> 0, at |-> "idle"]

Busy(s) == starts[s].at # "idle"

TypeOK ==
    /\ adapter \in {"postgres", "sqlite"}
    /\ rows \in [Rows -> Agents \cup {None}]
    /\ process \in {"booting", "serving", "dead"}
    /\ nextCharacter \in 1 .. (Len(Characters) + 1)
    /\ starts \in [Slots -> Start]
    /\ \A s \in Slots :
          /\ Busy(s) => starts[s].agent \in Agents /\ starts[s].k > 0
          /\ starts[s].at \in {"read", "insert"} =>
                /\ starts[s].k \in DOMAIN Knowledge[starts[s].agent]
                /\ starts[s].row <= Fragments[Knowledge[starts[s].agent][starts[s].k]]
    /\ agents \subseteq Agents
    /\ interrupted \subseteq Items

Init ==
    /\ adapter \in {"postgres", "sqlite"}
    /\ rows = [r \in Rows |-> None]
    /\ process = "booting"
    /\ nextCharacter = 1
    /\ starts = [s \in Slots |-> Idle]
    /\ agents = {}
    /\ interrupted = {}

-----------------------------------------------------------------------------
(* A start.                                                                *)
Self(s) == starts[s].agent
Item(s) == Knowledge[Self(s)][starts[s].k]
WorksOn(s, i) == starts[s].at \in {"read", "insert"} /\ Item(s) = i

Goes(s, at, k, row) ==
    starts' = [starts EXCEPT ![s] = [agent |-> Self(s), at |-> at, k |-> k, row |-> row]]

Begins(s, a) ==
    starts' = [starts EXCEPT ![s] = [agent |-> a, at |-> "opening", k |-> 1, row |-> 0]]

Settled == UNCHANGED <<adapter, process, nextCharacter, agents, interrupted>>

(* initializeDatabase, createAgent and the services of initialize.         *)
Opened(s) ==
    /\ starts[s].at = "opening"
    /\ Goes(s, "look", 1, 0)
    /\ Settled /\ UNCHANGED rows

(* Wrong form: the fragments are stored, and their document is not.        *)
LookUpNoDocument(s) ==
    /\ starts[s].at = "look" /\ starts[s].k \in DOMAIN Knowledge[Self(s)]
    /\ IF rows[<<Item(s), 0>>] = Self(s)
       THEN Goes(s, "look", starts[s].k + 1, 0)
       ELSE Goes(s, "read", starts[s].k, 1)
    /\ Settled /\ UNCHANGED rows

(* documentsManager.getMemoryById: a document of another agent counts as   *)
(* none; one of this agent ends the item.                                  *)
LookUp(s) ==
    /\ starts[s].at = "look" /\ starts[s].k \in DOMAIN Knowledge[Self(s)]
    /\ IF rows[<<Item(s), 0>>] = Self(s)
       THEN Goes(s, "look", starts[s].k + 1, 0)
       ELSE Goes(s, "read", starts[s].k, 0)
    /\ Settled /\ UNCHANGED rows

KnowledgeDone(s) ==
    /\ starts[s].at = "look" /\ starts[s].k \notin DOMAIN Knowledge[Self(s)]
    /\ Goes(s, "clients", starts[s].k, 0)
    /\ Settled /\ UNCHANGED rows

(* Wrong form: the last fragment is left out.                              *)
RowIsDoneEarly(s) ==
    IF starts[s].row + 1 < Fragments[Item(s)]
    THEN Goes(s, "read", starts[s].k, starts[s].row + 1)
    ELSE Goes(s, "look", starts[s].k + 1, 0)

(* knowledge.set: the document, then fragment after fragment.              *)
RowIsDone(s) ==
    IF starts[s].row < Fragments[Item(s)]
    THEN Goes(s, "read", starts[s].k, starts[s].row + 1)
    ELSE Goes(s, "look", starts[s].k + 1, 0)

(* MemoryManager.createMemory reads the row first, whoever owns it ...     *)
ReadRow(s) ==
    /\ starts[s].at = "read"
    /\ IF rows[<<Item(s), starts[s].row>>] # None
       THEN RowIsDone(s)
       ELSE Goes(s, "insert", starts[s].k, starts[s].row)
    /\ Settled /\ UNCHANGED rows

(* ... and inserts it after the answer.  Where the row exists by then,     *)
(* SQLite replaces it; PostgreSQL refuses the id, at every retry, and what *)
(* is left to the start is to fail.                                        *)
InsertRow(s) ==
    /\ starts[s].at = "insert"
    /\ adapter = "sqlite" \/ rows[<<Item(s), starts[s].row>>] = None
    /\ rows' = [rows EXCEPT ![<<Item(s), starts[s].row>>] = Self(s)]
    /\ RowIsDone(s)
    /\ Settled

(* The clients are started and the agent is registered.                    *)
RegisterAgent(s) ==
    /\ starts[s].at = "clients"
    /\ agents' = agents \cup {Self(s)}
    /\ starts' = [starts EXCEPT ![s] = Idle]
    /\ UNCHANGED <<adapter, rows, process, nextCharacter, interrupted>>

-----------------------------------------------------------------------------
(* The process.                                                            *)
Quiet == \A s \in Slots : ~Busy(s)

(* Wrong form: startAgent is called and not awaited.                       *)
BootStartsAtOnce(s) ==
    /\ process = "booting" /\ nextCharacter <= Len(Characters) /\ ~Busy(s)
    /\ Begins(s, Characters[nextCharacter])
    /\ nextCharacter' = nextCharacter + 1
    /\ UNCHANGED <<adapter, rows, process, agents, interrupted>>

(* startAgents starts one character after the other.                       *)
BootStarts(s) ==
    /\ process = "booting" /\ nextCharacter <= Len(Characters) /\ Quiet
    /\ Begins(s, Characters[nextCharacter])
    /\ nextCharacter' = nextCharacter + 1
    /\ UNCHANGED <<adapter, rows, process, agents, interrupted>>

BootEnds ==
    /\ process = "booting" /\ nextCharacter > Len(Characters) /\ Quiet
    /\ process' = "serving"
    /\ UNCHANGED <<adapter, rows, nextCharacter, starts, agents, interrupted>>

(* A start fails wherever it is: the database, the embedding, a client.    *)
(* The loop ends, its error is caught and the server is started.           *)
BootFails(s) ==
    /\ process = "booting" /\ Busy(s)
    /\ process' = "serving"
    /\ starts' = [starts EXCEPT ![s] = Idle]
    /\ interrupted' = interrupted \cup {i \in Items : WorksOn(s, i)}
    /\ UNCHANGED <<adapter, rows, nextCharacter, agents>>

(* POST /agents/:agentId/set stops the agent it names and starts the       *)
(* character of its body, or refuses it.                                   *)
SetCharacter(s, gone, a) ==
    /\ process = "serving" /\ ~Busy(s)
    /\ agents' = agents \ {gone}
    /\ Begins(s, a)
    /\ UNCHANGED <<adapter, rows, process, nextCharacter, interrupted>>

RefuseCharacter(gone) ==
    /\ process = "serving"
    /\ agents' = agents \ {gone}
    /\ UNCHANGED <<adapter, rows, process, nextCharacter, starts, interrupted>>

Dies ==
    /\ process' = "dead"
    /\ starts' = [s \in Slots |-> Idle]
    /\ agents' = {}
    /\ interrupted' = interrupted \cup {i \in Items : \E s \in Slots : WorksOn(s, i)}
    /\ UNCHANGED <<adapter, rows, nextCharacter>>

(* The route does not catch what startAgent throws: Node ends the process  *)
(* for the unhandled rejection, and every agent with it.                   *)
RequestFails(s) == process = "serving" /\ Busy(s) /\ Dies

Crash == process # "dead" /\ Dies

Restart ==
    /\ process = "dead"
    /\ process' = "booting" /\ nextCharacter' = 1
    /\ UNCHANGED <<adapter, rows, starts, agents, interrupted>>

Proceeds(s) ==
    \/ Opened(s) \/ LookUp(s) \/ ReadRow(s) \/ InsertRow(s)
    \/ KnowledgeDone(s) \/ RegisterAgent(s)

Next ==
    \/ \E s \in Slots :
          \/ Proceeds(s) \/ BootStarts(s) \/ BootFails(s) \/ RequestFails(s)
          \/ \E gone \in Agents \cup {None}, a \in Agents : SetCharacter(s, gone, a)
    \/ \E gone \in Agents : RefuseCharacter(gone)
    \/ BootEnds \/ Crash \/ Restart

Spec == Init /\ [][Next]_vars

-----------------------------------------------------------------------------
(* What holds.                                                             *)

(* Whoever stores them, and wherever starts fail, race and begin again,    *)
(* the rows of an item are a document and its first fragments: none is     *)
(* stored without those before it, and no fragment names a source that is  *)
(* not there (knowledge.get looks the source up).                          *)
RowsFollowInOrder ==
    \A r \in Rows : \A n \in 0 .. r[2] :
        n < r[2] /\ rows[r] # None => rows[<<r[1], n>>] # None

(* "creates a document memory for each item if it doesn't exist, then      *)
(* chunks the content into fragments, embeds each fragment, and creates    *)
(* fragment memories" (runtime.ts): for an agent that is up every row of   *)
(* an item is stored, by an agent that has the item too (itself, if it is  *)
(* the only one), unless a start was interrupted at the item or is at it.  *)
KnowledgeIsWhole ==
    \A a \in agents : \A i \in Known(a) :
        \/ i \in interrupted
        \/ \E s \in Slots : WorksOn(s, i)
        \/ \A n \in 0 .. Fragments[i] : rows[<<i, n>>] \in Owners(i)

(* While startAgents runs its loop, the row that createMemory did not find *)
(* is still missing when it is inserted, even where earlier processes left *)
(* half of an item behind: a boot never fails for a row's id.              *)
BootNeverConflicts ==
    process = "booting" =>
        \A s \in Slots : starts[s].at = "insert" =>
            rows[<<Item(s), starts[s].row>>] = None

=============================================================================
