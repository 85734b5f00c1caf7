--------------------------- MODULE KnowledgeProofs ---------------------------
(***************************************************************************)
(* Proofs about Knowledge: the store keeps its order, an agent that is up  *)
(* finds its items whole, and a boot never meets a row that is there.      *)
(***************************************************************************)
EXTENDS Knowledge, TLAPS

(* The k-th item of an agent is an item that it knows.                     *)
LEMMA ItemIsKnown ==
    ASSUME NEW a \in Agents, NEW k \in DOMAIN Knowledge[a]
    PROVE  /\ Knowledge[a][k] \in Items
           /\ Knowledge[a][k] \in Known(a)
           /\ a \in Owners(Knowledge[a][k])
  BY KnowledgeAssumption DEF Known, Owners

(* The rows of an item are its document and its fragments.                 *)
LEMMA RowsOfItem ==
    /\ \A i \in Items : \A n \in 0 .. Fragments[i] : <<i, n>> \in Rows
    /\ \A i \in Items : Fragments[i] \in Nat /\ <<i, 0>> \in Rows
    /\ \A r \in Rows :
          r[1] \in Items /\ r[2] \in 0 .. Fragments[r[1]] /\ r = <<r[1], r[2]>>
  BY KnowledgeAssumption DEF Rows

-----------------------------------------------------------------------------
(* Types.                                                                  *)
LEMMA InitTypeOK == Init => TypeOK
  BY KnowledgeAssumption DEF Init, TypeOK, Idle, Start, Busy

(* The part of the type that is about the starts.                          *)
StartsOK ==
    /\ starts \in [Slots -> Start]
    /\ \A s \in Slots :
          /\ Busy(s) => starts[s].agent \in Agents /\ starts[s].k > 0
          /\ starts[s].at \in {"read", "insert"} =>
                /\ starts[s].k \in DOMAIN Knowledge[starts[s].agent]
                /\ starts[s].row <= Fragments[Knowledge[starts[s].agent][starts[s].k]]

(* Moving a busy start to a place that is well formed keeps them so.       *)
LEMMA GoesStartsOK ==
    ASSUME TypeOK, NEW s \in Slots, Busy(s),
           NEW at \in {"opening", "look", "read", "insert", "clients"},
           NEW k \in Nat \ {0}, NEW row \in Nat, Goes(s, at, k, row),
           at \in {"read", "insert"} =>
              /\ k \in DOMAIN Knowledge[Self(s)]
              /\ row <= Fragments[Knowledge[Self(s)][k]]
    PROVE  StartsOK'
  <1>1. starts' \in [Slots -> Start]
    BY DEF TypeOK, Busy, Goes, Self, Start
  <1>2. ASSUME NEW t \in Slots
        PROVE  /\ Busy(t)' => starts'[t].agent \in Agents /\ starts'[t].k > 0
               /\ starts'[t].at \in {"read", "insert"} =>
                     /\ starts'[t].k \in DOMAIN Knowledge[starts'[t].agent]
                     /\ starts'[t].row
                           <= Fragments[Knowledge[starts'[t].agent][starts'[t].k]]
    <2>1. CASE t = s
      BY <2>1 DEF TypeOK, Busy, Goes, Self
    <2>2. CASE t # s
      BY <2>2 DEF TypeOK, Busy, Goes
    <2>3. QED
      BY <2>1, <2>2
  <1>3. QED
    BY <1>1, <1>2 DEF StartsOK

(* The item a start works on.                                              *)
LEMMA WorkedOn ==
    ASSUME TypeOK, NEW s \in Slots, starts[s].at \in {"read", "insert"}
    PROVE  /\ Busy(s) /\ Self(s) \in Agents
           /\ starts[s].k \in DOMAIN Knowledge[Self(s)] /\ starts[s].k \in Nat \ {0}
           /\ Item(s) \in Items /\ Item(s) \in Known(Self(s))
           /\ starts[s].row \in Nat /\ starts[s].row \in 0 .. Fragments[Item(s)]
           /\ Fragments[Item(s)] \in Nat
           /\ <<Item(s), starts[s].row>> \in Rows
  <1>1. /\ Busy(s) /\ Self(s) \in Agents
        /\ starts[s].k \in DOMAIN Knowledge[Self(s)] /\ starts[s].k \in Nat \ {0}
        /\ starts[s].row \in Nat /\ starts[s].row <= Fragments[Item(s)]
    BY DEF TypeOK, Start, Busy, Self, Item
  <1>2. Item(s) \in Items /\ Item(s) \in Known(Self(s))
    BY <1>1, ItemIsKnown DEF Item
  <1>3. Fragments[Item(s)] \in Nat
    BY <1>2, RowsOfItem
  <1>4. starts[s].row \in 0 .. Fragments[Item(s)]
    BY <1>1, <1>3
  <1>5. QED
    BY <1>1, <1>2, <1>3, <1>4, RowsOfItem

(* What becomes of a start whose row is done.                              *)
LEMMA RowIsDoneStartsOK ==
    ASSUME TypeOK, NEW s \in Slots, starts[s].at \in {"read", "insert"}, RowIsDone(s)
    PROVE  StartsOK'
  <1>1. CASE starts[s].row < Fragments[Item(s)]
    <2>1. Goes(s, "read", starts[s].k, starts[s].row + 1)
      BY <1>1 DEF RowIsDone
    <2>2. starts[s].row \in Nat /\ Fragments[Item(s)] \in Nat
      BY WorkedOn
    <2>3. starts[s].row + 1 \in Nat /\ starts[s].row + 1 <= Fragments[Item(s)]
      BY <1>1, <2>2
    <2>4. /\ starts[s].row + 1 \in Nat
          /\ starts[s].row + 1 <= Fragments[Knowledge[Self(s)][starts[s].k]]
      BY <2>3 DEF Item
    <2>5. QED
      BY <2>1, <2>4, WorkedOn, GoesStartsOK
  <1>2. CASE ~(starts[s].row < Fragments[Item(s)])
    <2>1. Goes(s, "look", starts[s].k + 1, 0)
      BY <1>2 DEF RowIsDone
    <2>2. starts[s].k \in Nat
      BY WorkedOn
    <2>3. starts[s].k + 1 \in Nat \ {0}
      BY <2>2
    <2>4. QED
      BY <2>1, <2>3, WorkedOn, GoesStartsOK
  <1>3. QED
    BY <1>1, <1>2

LEMMA NextTypeOK == TypeOK /\ [Next]_vars => TypeOK'
  <1> SUFFICES ASSUME TypeOK, [Next]_vars PROVE TypeOK'
    OBVIOUS
  <1> USE DEF TypeOK, Start, Busy
  <1>1. CASE UNCHANGED vars
    BY <1>1 DEF vars
  <1>2. ASSUME NEW s \in Slots, Opened(s) PROVE TypeOK'
    BY <1>2 DEF Opened, Goes, Settled, Self
  <1>3. ASSUME NEW s \in Slots, LookUp(s) PROVE TypeOK'
    <2>1. /\ Busy(s) /\ Self(s) \in Agents
          /\ starts[s].k \in DOMAIN Knowledge[Self(s)] /\ starts[s].k \in Nat
      BY <1>3 DEF LookUp, Self
    <2>2. Fragments[Knowledge[Self(s)][starts[s].k]] \in Nat
      BY <2>1, ItemIsKnown, RowsOfItem
    <2>3. /\ starts[s].k \in Nat \ {0} /\ starts[s].k + 1 \in Nat \ {0}
          /\ 0 <= Fragments[Knowledge[Self(s)][starts[s].k]]
      BY <2>1, <2>2 DEF Self
    <2>4. StartsOK'
      <3>1. CASE rows[<<Item(s), 0>>] = Self(s)
        <4>1. Goes(s, "look", starts[s].k + 1, 0)
          BY <1>3, <3>1 DEF LookUp
        <4>2. QED
          BY <4>1, <2>1, <2>3, GoesStartsOK
      <3>2. CASE rows[<<Item(s), 0>>] # Self(s)
        <4>1. Goes(s, "read", starts[s].k, 0)
          BY <1>3, <3>2 DEF LookUp
        <4>2. QED
          BY <4>1, <2>1, <2>3, GoesStartsOK
      <3>3. QED
        BY <3>1, <3>2
    <2>5. QED
      BY <1>3, <2>4 DEF LookUp, Settled, StartsOK
  <1>4. ASSUME NEW s \in Slots, KnowledgeDone(s) PROVE TypeOK'
    BY <1>4 DEF KnowledgeDone, Goes, Settled, Self
  <1>5. ASSUME NEW s \in Slots, ReadRow(s) PROVE TypeOK'
    <2>1. StartsOK'
      <3>1. CASE RowIsDone(s)
        BY <1>5, <3>1, RowIsDoneStartsOK DEF ReadRow
      <3>2. CASE Goes(s, "insert", starts[s].k, starts[s].row)
        <4>1. starts[s].row <= Fragments[Knowledge[Self(s)][starts[s].k]]
          BY <1>5, WorkedOn DEF ReadRow, Item
        <4>2. QED
          BY <1>5, <3>2, <4>1, WorkedOn, GoesStartsOK DEF ReadRow
      <3>3. QED
        BY <1>5, <3>1, <3>2 DEF ReadRow
    <2>2. QED
      BY <1>5, <2>1 DEF ReadRow, Settled, StartsOK
  <1>6. ASSUME NEW s \in Slots, InsertRow(s) PROVE TypeOK'
    <2>1. rows' \in [Rows -> Agents \cup {None}]
      BY <1>6, WorkedOn DEF InsertRow
    <2>2. StartsOK'
      BY <1>6, RowIsDoneStartsOK DEF InsertRow
    <2>3. QED
      BY <1>6, <2>1, <2>2 DEF InsertRow, Settled, StartsOK
  <1>7. ASSUME NEW s \in Slots, RegisterAgent(s) PROVE TypeOK'
    BY <1>7 DEF RegisterAgent, Self, Idle
  <1>8. ASSUME NEW s \in Slots, BootStarts(s) PROVE TypeOK'
    BY <1>8, KnowledgeAssumption DEF BootStarts, Begins
  <1>9. ASSUME NEW s \in Slots, BootFails(s) PROVE TypeOK'
    BY <1>9 DEF BootFails, Idle
  <1>10. ASSUME NEW s \in Slots, NEW gone, NEW a \in Agents, SetCharacter(s, gone, a)
         PROVE  TypeOK'
    BY <1>10 DEF SetCharacter, Begins
  <1>11. ASSUME NEW gone, RefuseCharacter(gone) PROVE TypeOK'
    BY <1>11 DEF RefuseCharacter
  <1>12. CASE BootEnds
    BY <1>12 DEF BootEnds
  <1>13. CASE Dies
    BY <1>13 DEF Dies, Idle
  <1>14. CASE Restart
    BY <1>14, KnowledgeAssumption DEF Restart
  <1>15. QED
    BY <1>1, <1>2, <1>3, <1>4, <1>5, <1>6, <1>7, <1>8, <1>9, <1>10, <1>11,
       <1>12, <1>13, <1>14 DEF Next, Proceeds, RequestFails, Crash

-----------------------------------------------------------------------------
(* The invariant of the store.                                             *)
Stored(i, n) == rows[<<i, n>>] # None
Complete(i) == \A n \in 0 .. Fragments[i] : Stored(i, n)

(* A stored row belongs to an agent that knows the item.                   *)
OwnersHaveIt ==
    \A i \in Items : \A n \in 0 .. Fragments[i] :
        Stored(i, n) => rows[<<i, n>>] \in Owners(i)

(* A start at a row has seen or stored the rows before it.                 *)
EarlierStored ==
    \A s \in Slots : starts[s].at \in {"read", "insert"} =>
        \A n \in 0 .. Fragments[Item(s)] : n < starts[s].row => Stored(Item(s), n)

(* The documents of the items a start is past were there or were stored.   *)
PastStored ==
    \A s \in Slots : Busy(s) =>
        \A m \in DOMAIN Knowledge[Self(s)] :
            m < starts[s].k \/ starts[s].at = "clients"
                => Stored(Knowledge[Self(s)][m], 0)

UpStored == \A a \in agents : \A i \in Known(a) : Stored(i, 0)

(* A document without all of its fragments is one that a start works on or *)
(* was interrupted at.                                                     *)
HalfHasCause ==
    \A i \in Items : Stored(i, 0) =>
        i \in interrupted \/ (\E s \in Slots : WorksOn(s, i)) \/ Complete(i)

InOrder ==
    \A i \in Items : \A n \in 0 .. Fragments[i] : \A m \in 0 .. n :
        Stored(i, n) => Stored(i, m)

StoreInv ==
    /\ TypeOK /\ OwnersHaveIt /\ InOrder /\ EarlierStored
    /\ PastStored /\ UpStored /\ HalfHasCause

-----------------------------------------------------------------------------
(* What a step does to one start.                                          *)
Moves(t) ==
    \/ starts'[t] = starts[t]
    \/ starts'[t] = Idle /\ \A i \in Items : WorksOn(t, i) => i \in interrupted'
    \/ ~Busy(t) /\ starts'[t].at = "opening" /\ starts'[t].k = 1
    \/ Opened(t) \/ LookUp(t) \/ KnowledgeDone(t) \/ ReadRow(t) \/ InsertRow(t)

LEMMA StepMoves ==
    ASSUME TypeOK, [Next]_vars
    PROVE  \A t \in Slots : Moves(t)
  <1> USE DEF TypeOK, Moves
  <1>1. CASE UNCHANGED vars
    BY <1>1 DEF vars
  <1>2. ASSUME NEW s \in Slots, Proceeds(s) PROVE \A t \in Slots : Moves(t)
    <2>1. ASSUME NEW t \in Slots, t # s PROVE starts'[t] = starts[t]
      BY <1>2, <2>1 DEF Proceeds, Opened, LookUp, KnowledgeDone, ReadRow, InsertRow,
                        RegisterAgent, RowIsDone, Goes
    <2>2. RegisterAgent(s) => Moves(s)
      BY DEF RegisterAgent, WorksOn
    <2>3. Moves(s)
      BY <1>2, <2>2 DEF Proceeds
    <2>4. QED
      BY <2>1, <2>3
  <1>3. ASSUME NEW s \in Slots, BootStarts(s) PROVE \A t \in Slots : Moves(t)
    BY <1>3 DEF BootStarts, Begins, Quiet
  <1>4. ASSUME NEW s \in Slots, BootFails(s) PROVE \A t \in Slots : Moves(t)
    BY <1>4 DEF BootFails
  <1>5. ASSUME NEW s \in Slots, NEW gone, NEW a \in Agents, SetCharacter(s, gone, a)
        PROVE  \A t \in Slots : Moves(t)
    BY <1>5 DEF SetCharacter, Begins
  <1>6. CASE (\E gone \in Agents : RefuseCharacter(gone)) \/ BootEnds \/ Restart
    BY <1>6 DEF RefuseCharacter, BootEnds, Restart
  <1>7. CASE Dies
    BY <1>7 DEF Dies
  <1>8. QED
    BY <1>1, <1>2, <1>3, <1>4, <1>5, <1>6, <1>7 DEF Next, RequestFails, Crash

(* The table: rows are only written by insertions.                         *)
LEMMA RowsChange ==
    [Next]_vars => UNCHANGED rows \/ \E s \in Slots : InsertRow(s)
  BY DEF Next, vars, Proceeds, Opened, LookUp, KnowledgeDone, ReadRow, RegisterAgent,
         Settled, BootStarts, BootFails, RequestFails, SetCharacter, RefuseCharacter,
         BootEnds, Crash, Dies, Restart

LEMMA RowsGrow ==
    ASSUME TypeOK, [Next]_vars, NEW i \in Items, NEW n \in 0 .. Fragments[i],
           Stored(i, n)
    PROVE  Stored(i, n)'
  <1>1. CASE UNCHANGED rows
    BY <1>1 DEF Stored
  <1>2. ASSUME NEW s \in Slots, InsertRow(s) PROVE Stored(i, n)'
    <2>1. Self(s) \in Agents /\ <<i, n>> \in Rows
      BY <1>2, WorkedOn, RowsOfItem DEF InsertRow
    <2>2. rows' = [rows EXCEPT ![<<Item(s), starts[s].row>>] = Self(s)]
      BY <1>2 DEF InsertRow
    <2>3. QED
      BY <2>1, <2>2, KnowledgeAssumption DEF Stored, TypeOK
  <1>3. QED
    BY <1>1, <1>2, RowsChange

(* An insertion stores its row, for an agent that knows the item.          *)
LEMMA Inserted ==
    ASSUME TypeOK, NEW s \in Slots, InsertRow(s)
    PROVE  /\ rows'[<<Item(s), starts[s].row>>] = Self(s)
           /\ Self(s) # None
           /\ Self(s) \in Owners(Item(s))
           /\ \A i \in Items : \A n \in 0 .. Fragments[i] :
                 i # Item(s) \/ n # starts[s].row => rows'[<<i, n>>] = rows[<<i, n>>]
  <1>1. /\ starts[s].at \in {"read", "insert"}
        /\ rows' = [rows EXCEPT ![<<Item(s), starts[s].row>>] = Self(s)]
    BY DEF InsertRow
  <1>2. /\ Self(s) \in Agents /\ <<Item(s), starts[s].row>> \in Rows
        /\ Item(s) \in Known(Self(s))
    BY <1>1, WorkedOn
  <1>3. rows'[<<Item(s), starts[s].row>>] = Self(s)
    BY <1>1, <1>2 DEF TypeOK
  <1>4. Self(s) \in Owners(Item(s))
    BY <1>2 DEF Owners
  <1>5. ASSUME NEW i \in Items, NEW n \in 0 .. Fragments[i],
               i # Item(s) \/ n # starts[s].row
        PROVE  rows'[<<i, n>>] = rows[<<i, n>>]
    BY <1>1, <1>5, RowsOfItem DEF TypeOK
  <1>6. Self(s) # None
    BY <1>2, KnowledgeAssumption
  <1>7. QED
    BY <1>3, <1>4, <1>5, <1>6

-----------------------------------------------------------------------------
(* Each part of the invariant is kept.                                     *)
LEMMA OwnersStep == StoreInv /\ [Next]_vars => OwnersHaveIt'
  <1> SUFFICES ASSUME StoreInv, [Next]_vars, NEW i \in Items,
                      NEW n \in 0 .. Fragments[i], Stored(i, n)'
               PROVE  rows'[<<i, n>>] \in Owners(i)
    BY DEF OwnersHaveIt
  <1>1. TypeOK /\ OwnersHaveIt
    BY DEF StoreInv
  <1>2. CASE UNCHANGED rows
    BY <1>1, <1>2 DEF OwnersHaveIt, Stored
  <1>3. ASSUME NEW s \in Slots, InsertRow(s) PROVE rows'[<<i, n>>] \in Owners(i)
    <2>1. CASE i = Item(s) /\ n = starts[s].row
      BY <1>1, <1>3, <2>1, Inserted
    <2>2. CASE i # Item(s) \/ n # starts[s].row
      BY <1>1, <1>3, <2>2, Inserted DEF OwnersHaveIt, Stored
    <2>3. QED
      BY <2>1, <2>2
  <1>4. QED
    BY <1>2, <1>3, RowsChange

LEMMA OrderStep == StoreInv /\ [Next]_vars => InOrder'
  <1> SUFFICES ASSUME StoreInv, [Next]_vars, NEW i \in Items,
                      NEW n \in 0 .. Fragments[i], NEW m \in 0 .. n, Stored(i, n)'
               PROVE  Stored(i, m)'
    BY DEF InOrder
  <1>1. TypeOK /\ InOrder /\ EarlierStored
    BY DEF StoreInv
  <1>2. Fragments[i] \in Nat /\ m \in 0 .. Fragments[i] /\ m \in Nat /\ n \in Nat
    <2>1. Fragments[i] \in Nat
      BY RowsOfItem
    <2>2. QED
      BY <2>1
  <1>3. CASE Stored(i, n)
    BY <1>1, <1>2, <1>3, RowsGrow DEF InOrder
  <1>4. CASE m = n
    BY <1>4
  <1>5. CASE ~Stored(i, n) /\ m # n
    <2>1. PICK s \in Slots : InsertRow(s)
      BY <1>5, RowsChange DEF Stored
    <2>2. i = Item(s) /\ n = starts[s].row
      BY <1>1, <1>5, <2>1, Inserted DEF Stored
    <2>3. m < n
      BY <1>2, <1>5
    <2>4. Stored(i, m)
      BY <1>1, <1>2, <2>1, <2>2, <2>3 DEF EarlierStored, InsertRow
    <2>5. QED
      BY <1>1, <1>2, <2>4, RowsGrow
  <1>6. QED
    BY <1>3, <1>4, <1>5

(* A start whose row is stored goes on to the next row of the item, all    *)
(* earlier ones being stored, or the item is complete and it goes past it. *)
LEMMA AfterRow ==
    ASSUME StoreInv, [Next]_vars, NEW s \in Slots,
           starts[s].at \in {"read", "insert"}, RowIsDone(s),
           rows'[<<Item(s), starts[s].row>>] # None
    PROVE  /\ \A n \in 0 .. Fragments[Item(s)] :
                 n <= starts[s].row => rows'[<<Item(s), n>>] # None
           /\ \/ starts'[s] = [agent |-> Self(s), at |-> "read", k |-> starts[s].k,
                               row |-> starts[s].row + 1]
              \/ /\ starts'[s] = [agent |-> Self(s), at |-> "look",
                                  k |-> starts[s].k + 1, row |-> 0]
                 /\ \A n \in 0 .. Fragments[Item(s)] : rows'[<<Item(s), n>>] # None
  <1>1. TypeOK /\ EarlierStored /\ Item(s) \in Items
        /\ starts[s].row \in Nat /\ Fragments[Item(s)] \in Nat
    BY WorkedOn DEF StoreInv
  <1>2. ASSUME NEW n \in 0 .. Fragments[Item(s)], n <= starts[s].row
        PROVE  rows'[<<Item(s), n>>] # None
    <2>1. CASE n = starts[s].row
      BY <2>1
    <2>2. CASE n # starts[s].row
      <3>1. n < starts[s].row
        BY <1>1, <1>2, <2>2
      <3>2. rows[<<Item(s), n>>] # None
        BY <1>1, <3>1 DEF EarlierStored, Stored
      <3>3. \A i \in Items : i = Item(s) => rows'[<<i, n>>] # None
        BY <1>1, <3>2, RowsGrow DEF Stored
      <3>4. QED
        BY <1>1, <3>3
    <2>3. QED
      BY <2>1, <2>2
  <1>3. CASE starts[s].row < Fragments[Item(s)]
    BY <1>1, <1>2, <1>3 DEF RowIsDone, Goes, TypeOK
  <1>4. CASE ~(starts[s].row < Fragments[Item(s)])
    <2>1. \A n \in 0 .. Fragments[Item(s)] : n <= starts[s].row
      BY <1>1, <1>4
    <2>2. QED
      BY <1>1, <1>2, <1>4, <2>1 DEF RowIsDone, Goes, TypeOK
  <1>5. QED
    BY <1>3, <1>4

(* A row that a step by s is done with: it was found, or it was inserted.  *)
LEMMA RowDone ==
    ASSUME StoreInv, [Next]_vars, NEW s \in Slots, ReadRow(s) \/ InsertRow(s)
    PROVE  \/ starts' = [starts EXCEPT ![s] = [agent |-> Self(s), at |-> "insert",
                                      k |-> starts[s].k, row |-> starts[s].row]]
           \/ RowIsDone(s) /\ rows'[<<Item(s), starts[s].row>>] # None
  <1>1. TypeOK /\ starts[s].at \in {"read", "insert"}
    BY DEF StoreInv, ReadRow, InsertRow
  <1>2. CASE ReadRow(s)
    BY <1>2 DEF ReadRow, Goes, Settled
  <1>3. CASE InsertRow(s)
    BY <1>1, <1>3, Inserted DEF InsertRow
  <1>4. QED
    BY <1>2, <1>3

LEMMA EarlierStep == StoreInv /\ [Next]_vars => EarlierStored'
  <1> SUFFICES ASSUME StoreInv, [Next]_vars, NEW t \in Slots,
                      starts'[t].at \in {"read", "insert"}
               PROVE  \A n \in 0 .. Fragments[Item(t)'] :
                         n < starts'[t].row => rows'[<<Item(t)', n>>] # None
    BY DEF EarlierStored, Stored
  <1>1. TypeOK /\ EarlierStored /\ Moves(t)
    BY StepMoves DEF StoreInv
  <1>2. ASSUME starts[t].at \in {"read", "insert"}, Item(t)' = Item(t),
               starts'[t].row = starts[t].row
        PROVE  \A n \in 0 .. Fragments[Item(t)'] :
                  n < starts'[t].row => rows'[<<Item(t)', n>>] # None
    <2>1. Item(t) \in Items
      BY <1>1, <1>2, WorkedOn
    <2>2. \A i \in Items : \A n \in 0 .. Fragments[i] :
             rows[<<i, n>>] # None => rows'[<<i, n>>] # None
      BY <1>1, RowsGrow DEF Stored
    <2>3. QED
      BY <1>1, <1>2, <2>1, <2>2 DEF EarlierStored, Stored
  <1>3. CASE starts'[t] = starts[t]
    BY <1>2, <1>3 DEF Item, Self
  <1>4. CASE starts'[t] = Idle \/ starts'[t].at = "opening"
    BY <1>4 DEF Idle
  <1>5. CASE Opened(t) \/ KnowledgeDone(t)
    BY <1>1, <1>5 DEF Opened, KnowledgeDone, Goes, TypeOK
  <1>6. CASE LookUp(t)
    <2>1. starts'[t].row = 0
      BY <1>1, <1>6 DEF LookUp, Goes, TypeOK
    <2>2. QED
      BY <2>1
  <1>7. CASE ReadRow(t) \/ InsertRow(t)
    <2>1. starts[t].at \in {"read", "insert"}
      BY <1>7 DEF ReadRow, InsertRow
    <2>2. CASE starts' = [starts EXCEPT ![t] = [agent |-> Self(t), at |-> "insert",
                                      k |-> starts[t].k, row |-> starts[t].row]]
      <3>1. Item(t)' = Item(t) /\ starts'[t].row = starts[t].row
        BY <1>1, <2>2 DEF TypeOK, Item, Self
      <3>2. QED
        BY <1>2, <2>1, <3>1
    <2>3. CASE RowIsDone(t) /\ rows'[<<Item(t), starts[t].row>>] # None
      <3>1. /\ starts'[t] = [agent |-> Self(t), at |-> "read", k |-> starts[t].k,
                             row |-> starts[t].row + 1]
            /\ \A n \in 0 .. Fragments[Item(t)] :
                  n <= starts[t].row => rows'[<<Item(t), n>>] # None
        <4>1. /\ \A n \in 0 .. Fragments[Item(t)] :
                    n <= starts[t].row => rows'[<<Item(t), n>>] # None
              /\ \/ starts'[t] = [agent |-> Self(t), at |-> "read", k |-> starts[t].k,
                                  row |-> starts[t].row + 1]
                 \/ starts'[t] = [agent |-> Self(t), at |-> "look",
                                  k |-> starts[t].k + 1, row |-> 0]
          BY <2>1, <2>3, AfterRow
        <4>2. QED
          BY <4>1
      <3>2. Item(t)' = Item(t) /\ starts'[t].row = starts[t].row + 1
        BY <3>1 DEF Item, Self
      <3>3. starts[t].row \in Nat /\ Fragments[Item(t)] \in Nat
        BY <1>1, <2>1, WorkedOn
      <3>4. \A n \in 0 .. Fragments[Item(t)] : n < starts[t].row + 1 => n <= starts[t].row
        BY <3>3
      <3>5. QED
        BY <3>1, <3>2, <3>4
    <2>4. QED
      BY <1>7, <2>2, <2>3, RowDone
  <1>8. QED
    BY <1>1, <1>3, <1>4, <1>5, <1>6, <1>7 DEF Moves

LEMMA PastStep == StoreInv /\ [Next]_vars => PastStored'
  <1> SUFFICES ASSUME StoreInv, [Next]_vars, NEW t \in Slots, Busy(t)',
                      NEW m \in DOMAIN Knowledge[Self(t)'],
                      m < starts'[t].k \/ starts'[t].at = "clients"
               PROVE  rows'[<<Knowledge[Self(t)'][m], 0>>] # None
    BY DEF PastStored, Stored
  <1>1. TypeOK /\ PastStored /\ Moves(t) /\ TypeOK'
    BY StepMoves, NextTypeOK DEF StoreInv
  <1>2. Self(t)' \in Agents /\ Knowledge[Self(t)'][m] \in Items
    BY <1>1, ItemIsKnown DEF TypeOK, Self
  <1>3. rows[<<Knowledge[Self(t)'][m], 0>>] # None
           => rows'[<<Knowledge[Self(t)'][m], 0>>] # None
    <2>1. 0 \in 0 .. Fragments[Knowledge[Self(t)'][m]]
      BY <1>2, RowsOfItem
    <2>2. \A i \in Items : 0 \in 0 .. Fragments[i] /\ rows[<<i, 0>>] # None
                                => rows'[<<i, 0>>] # None
      BY <1>1, RowsGrow DEF Stored
    <2>3. QED
      BY <1>2, <2>1, <2>2
  <1>4. ASSUME Busy(t), Self(t)' = Self(t),
               m < starts[t].k \/ starts[t].at = "clients"
        PROVE  rows'[<<Knowledge[Self(t)'][m], 0>>] # None
    BY <1>1, <1>3, <1>4 DEF PastStored, Stored
  <1>5. m \in Nat /\ m >= 1
    BY <1>2, KnowledgeAssumption
  <1>6. CASE starts'[t] = starts[t]
    BY <1>4, <1>6 DEF Busy, Self
  <1>7. CASE starts'[t] = Idle
    BY <1>7 DEF Busy, Idle
  <1>8. CASE starts'[t].at = "opening" /\ starts'[t].k = 1
    BY <1>5, <1>8
  <1>9. CASE Opened(t)
    <2>1. starts'[t].k = 1 /\ starts'[t].at = "look"
      BY <1>1, <1>9 DEF Opened, Goes, TypeOK
    <2>2. QED
      BY <1>5, <2>1
  <1>10. CASE LookUp(t)
    <2>1. /\ Busy(t) /\ Self(t)' = Self(t) /\ starts'[t].at \in {"look", "read"}
          /\ starts[t].k \in Nat
      BY <1>1, <1>10 DEF LookUp, Goes, TypeOK, Busy, Self, Start
    <2>2. CASE rows[<<Item(t), 0>>] = Self(t)
      <3>1. starts'[t].k = starts[t].k + 1
        BY <1>1, <1>10, <2>2 DEF LookUp, Goes, TypeOK
      <3>2. m < starts[t].k \/ m = starts[t].k
        BY <1>5, <2>1, <3>1
      <3>3. CASE m = starts[t].k
        <4>1. Self(t) # None
          BY <1>2, <2>1, KnowledgeAssumption
        <4>2. QED
          BY <1>3, <2>1, <2>2, <3>3, <4>1 DEF Item
      <3>4. QED
        BY <1>4, <2>1, <3>2, <3>3
    <2>3. CASE rows[<<Item(t), 0>>] # Self(t)
      <3>1. starts'[t].k = starts[t].k
        BY <1>1, <1>10, <2>3 DEF LookUp, Goes, TypeOK
      <3>2. QED
        BY <1>4, <2>1, <3>1
    <2>4. QED
      BY <2>2, <2>3
  <1>11. CASE KnowledgeDone(t)
    <2>1. /\ Busy(t) /\ Self(t)' = Self(t) /\ starts[t].k \in Nat /\ starts[t].k > 0
          /\ starts[t].k \notin DOMAIN Knowledge[Self(t)]
      BY <1>1, <1>11 DEF KnowledgeDone, Goes, TypeOK, Busy, Self, Start
    <2>2. DOMAIN Knowledge[Self(t)] = 1 .. Len(Knowledge[Self(t)])
          /\ Len(Knowledge[Self(t)]) \in Nat
      BY <1>2, <2>1, KnowledgeAssumption
    <2>3. m < starts[t].k
      BY <2>1, <2>2
    <2>4. QED
      BY <1>4, <2>1, <2>3
  <1>12. CASE ReadRow(t) \/ InsertRow(t)
    <2>1. /\ starts[t].at \in {"read", "insert"} /\ Busy(t) /\ starts[t].k \in Nat
      BY <1>1, <1>12, WorkedOn DEF ReadRow, InsertRow
    <2>2. CASE starts' = [starts EXCEPT ![t] = [agent |-> Self(t), at |-> "insert",
                                      k |-> starts[t].k, row |-> starts[t].row]]
      BY <1>1, <1>4, <2>1, <2>2 DEF TypeOK, Self
    <2>3. CASE RowIsDone(t) /\ rows'[<<Item(t), starts[t].row>>] # None
      <3>1. CASE starts'[t] = [agent |-> Self(t), at |-> "read", k |-> starts[t].k,
                               row |-> starts[t].row + 1]
        BY <1>4, <2>1, <3>1 DEF Self
      <3>2. CASE /\ starts'[t] = [agent |-> Self(t), at |-> "look",
                                  k |-> starts[t].k + 1, row |-> 0]
                 /\ \A n \in 0 .. Fragments[Item(t)] : rows'[<<Item(t), n>>] # None
        <4>1. Self(t)' = Self(t) /\ (m < starts[t].k \/ m = starts[t].k)
          BY <1>5, <2>1, <3>2 DEF Self
        <4>2. CASE m = starts[t].k
          <5>1. Fragments[Item(t)] \in Nat
            BY <1>1, <2>1, WorkedOn
          <5>2. 0 \in 0 .. Fragments[Item(t)]
            BY <5>1
          <5>3. QED
            BY <3>2, <4>1, <4>2, <5>2 DEF Item
        <4>3. QED
          BY <1>4, <2>1, <4>1, <4>2
      <3>3. QED
        BY <2>1, <2>3, <3>1, <3>2, AfterRow
    <2>4. QED
      BY <1>12, <2>2, <2>3, RowDone
  <1>13. QED
    BY <1>1, <1>6, <1>7, <1>8, <1>9, <1>10, <1>11, <1>12 DEF Moves

LEMMA UpStep == StoreInv /\ [Next]_vars => UpStored'
  <1> SUFFICES ASSUME StoreInv, [Next]_vars, NEW a \in agents', NEW i \in Known(a)
               PROVE  rows'[<<i, 0>>] # None
    BY DEF UpStored, Stored
  <1>1. TypeOK /\ TypeOK' /\ UpStored /\ PastStored
    BY NextTypeOK DEF StoreInv
  <1>2. PICK m \in DOMAIN Knowledge[a] : i = Knowledge[a][m]
    BY DEF Known
  <1>3. a \in Agents /\ i \in Items
    BY <1>1, <1>2, ItemIsKnown DEF TypeOK
  <1>4. rows[<<i, 0>>] # None => rows'[<<i, 0>>] # None
    <2>1. Fragments[i] \in Nat
      BY <1>3, RowsOfItem
    <2>2. 0 \in 0 .. Fragments[i]
      BY <2>1
    <2>3. QED
      BY <1>1, <1>3, <2>2, RowsGrow DEF Stored
  <1>5. CASE a \in agents
    BY <1>1, <1>4, <1>5 DEF UpStored, Stored
  <1>6. CASE a \notin agents
    <2>1. PICK s \in Slots : RegisterAgent(s) /\ a = Self(s)
      BY <1>6 DEF Next, vars, Proceeds, Opened, LookUp, KnowledgeDone, ReadRow,
            InsertRow, RegisterAgent, Settled, BootStarts, BootFails, RequestFails,
            SetCharacter, RefuseCharacter, BootEnds, Crash, Dies, Restart
    <2>2. starts[s].at = "clients" /\ Busy(s)
      BY <2>1 DEF RegisterAgent, Busy
    <2>3. rows[<<i, 0>>] # None
      BY <1>1, <1>2, <2>1, <2>2 DEF PastStored, Stored
    <2>4. QED
      BY <1>4, <2>3
  <1>7. QED
    BY <1>5, <1>6

(* What was interrupted stays on the record.                               *)
LEMMA InterruptedGrows == [Next]_vars => interrupted \subseteq interrupted'
  BY DEF Next, vars, Proceeds, Opened, LookUp, KnowledgeDone, ReadRow, InsertRow,
         RegisterAgent, Settled, BootStarts, BootFails, RequestFails, SetCharacter,
         RefuseCharacter, BootEnds, Crash, Dies, Restart

(* A start that works on an item goes on with it, completes it, or is      *)
(* interrupted.                                                            *)
LEMMA WorkStep ==
    ASSUME StoreInv, [Next]_vars, NEW t \in Slots, NEW i \in Items, WorksOn(t, i)
    PROVE  i \in interrupted' \/ WorksOn(t, i)' \/ Complete(i)'
  <1>1. TypeOK /\ Moves(t) /\ starts[t].at \in {"read", "insert"} /\ Item(t) = i
    BY StepMoves DEF StoreInv, WorksOn
  <1>2. CASE starts'[t] = starts[t]
    BY <1>1, <1>2 DEF WorksOn, Item, Self
  <1>3. CASE starts'[t] = Idle /\ \A j \in Items : WorksOn(t, j) => j \in interrupted'
    BY <1>3
  <1>4. CASE ReadRow(t) \/ InsertRow(t)
    <2>1. CASE starts' = [starts EXCEPT ![t] = [agent |-> Self(t), at |-> "insert",
                                      k |-> starts[t].k, row |-> starts[t].row]]
      BY <1>1, <2>1 DEF TypeOK, WorksOn, Item, Self
    <2>2. CASE RowIsDone(t) /\ rows'[<<Item(t), starts[t].row>>] # None
      <3>1. CASE starts'[t] = [agent |-> Self(t), at |-> "read", k |-> starts[t].k,
                               row |-> starts[t].row + 1]
        BY <1>1, <3>1 DEF WorksOn, Item, Self
      <3>2. CASE \A n \in 0 .. Fragments[Item(t)] : rows'[<<Item(t), n>>] # None
        BY <1>1, <3>2 DEF Complete, Stored
      <3>3. QED
        BY <1>1, <2>2, <3>1, <3>2, AfterRow
    <2>3. QED
      BY <1>4, <2>1, <2>2, RowDone
  <1>5. ~(~Busy(t) \/ Opened(t) \/ LookUp(t) \/ KnowledgeDone(t))
    BY <1>1 DEF Busy, Opened, LookUp, KnowledgeDone
  <1>6. QED
    BY <1>1, <1>2, <1>3, <1>4, <1>5 DEF Moves

LEMMA HalfStep == StoreInv /\ [Next]_vars => HalfHasCause'
  <1> SUFFICES ASSUME StoreInv, [Next]_vars, NEW i \in Items, Stored(i, 0)'
               PROVE  i \in interrupted' \/ (\E s \in Slots : WorksOn(s, i)')
                         \/ Complete(i)'
    BY DEF HalfHasCause
  <1>1. TypeOK /\ HalfHasCause
    BY DEF StoreInv
  <1>2. Complete(i) => Complete(i)'
    BY <1>1, RowsGrow DEF Complete
  <1>3. CASE Stored(i, 0)
    BY <1>1, <1>2, <1>3, InterruptedGrows, WorkStep DEF HalfHasCause
  <1>4. CASE ~Stored(i, 0)
    <2>1. PICK s \in Slots : InsertRow(s)
      BY <1>4, RowsChange DEF Stored
    <2>2. Fragments[i] \in Nat
      BY RowsOfItem
    <2>3. 0 \in 0 .. Fragments[i]
      BY <2>2
    <2>4. i = Item(s)
      BY <1>1, <1>4, <2>1, <2>3, Inserted DEF Stored
    <2>5. WorksOn(s, i)
      BY <2>1, <2>4 DEF WorksOn, InsertRow
    <2>6. QED
      BY <2>5, WorkStep
  <1>5. QED
    BY <1>3, <1>4

-----------------------------------------------------------------------------
(* The store, for any agents, items, fragments and starts.                 *)
LEMMA InitStoreInv == Init => StoreInv
  <1> SUFFICES ASSUME Init PROVE StoreInv
    OBVIOUS
  <1>1. TypeOK
    BY InitTypeOK
  <1>2. \A i \in Items : \A n \in 0 .. Fragments[i] : ~Stored(i, n)
    BY RowsOfItem DEF Init, Stored
  <1>3. OwnersHaveIt
    BY <1>2 DEF OwnersHaveIt
  <1>4. InOrder
    BY <1>2 DEF InOrder
  <1>5. EarlierStored /\ PastStored /\ UpStored
    BY DEF Init, Idle, Busy, EarlierStored, PastStored, UpStored
  <1>6. HalfHasCause
    <2>1. ASSUME NEW i \in Items PROVE ~Stored(i, 0)
      <3>1. Fragments[i] \in Nat
        BY RowsOfItem
      <3>2. QED
        BY <1>2, <3>1
    <2>2. QED
      BY <2>1 DEF HalfHasCause
  <1>7. QED
    BY <1>1, <1>3, <1>4, <1>5, <1>6 DEF StoreInv

LEMMA StoreInvariant == Spec => []StoreInv
  <1>1. StoreInv /\ [Next]_vars => StoreInv'
    <2> SUFFICES ASSUME StoreInv, [Next]_vars PROVE StoreInv'
      OBVIOUS
    <2>1. TypeOK'
      BY NextTypeOK DEF StoreInv
    <2>2. QED
      BY <2>1, OwnersStep, OrderStep, EarlierStep, PastStep, UpStep, HalfStep DEF StoreInv
  <1>2. QED
    BY InitStoreInv, <1>1, PTL DEF Spec

(* Every variable keeps its type, and a start its place in the knowledge   *)
(* of its agent.                                                           *)
THEOREM TypeTheorem == Spec => []TypeOK
  <1>1. StoreInv => TypeOK
    BY DEF StoreInv
  <1>2. QED
    BY <1>1, StoreInvariant, PTL

(* No row is stored without those before it: whatever fails, races or dies *)
(* leaves a document with its first fragments.                             *)
THEOREM OrderTheorem == Spec => []RowsFollowInOrder
  <1>1. StoreInv => RowsFollowInOrder
    <2> SUFFICES ASSUME StoreInv, NEW r \in Rows, NEW n \in 0 .. r[2],
                        rows[r] # None
                 PROVE  rows[<<r[1], n>>] # None
      BY DEF RowsFollowInOrder
    <2>1. r[1] \in Items /\ r[2] \in 0 .. Fragments[r[1]] /\ r = <<r[1], r[2]>>
      BY RowsOfItem
    <2>2. Stored(r[1], r[2])
      BY <2>1 DEF Stored
    <2>3. QED
      BY <2>1, <2>2 DEF StoreInv, InOrder, Stored
  <1>2. QED
    BY <1>1, StoreInvariant, PTL

(* What processCharacterKnowledge promises, with its exceptions: an item   *)
(* of an agent that is up is stored whole by agents that have it, unless a *)
(* start was interrupted at it or is working on it.                        *)
THEOREM WholeTheorem == Spec => []KnowledgeIsWhole
  <1>1. StoreInv => KnowledgeIsWhole
    <2> SUFFICES ASSUME StoreInv, NEW a \in agents, NEW i \in Known(a),
                        i \notin interrupted, ~\E s \in Slots : WorksOn(s, i),
                        NEW n \in 0 .. Fragments[i]
                 PROVE  rows[<<i, n>>] \in Owners(i)
      BY DEF KnowledgeIsWhole
    <2>1. i \in Items
      BY ItemIsKnown DEF StoreInv, TypeOK, Known
    <2>2. Complete(i)
      BY <2>1 DEF StoreInv, UpStored, HalfHasCause
    <2>3. QED
      BY <2>1, <2>2 DEF StoreInv, OwnersHaveIt, Complete
  <1>2. QED
    BY <1>1, StoreInvariant, PTL

-----------------------------------------------------------------------------
(* The boot.  One start runs at a time, and a dead process has none.       *)
OneAtATime ==
    /\ process = "booting" => \A s, t \in Slots : Busy(s) /\ Busy(t) => s = t
    /\ process = "dead" => Quiet

BootInv == TypeOK /\ OneAtATime /\ BootNeverConflicts

LEMMA OneStep == BootInv /\ [Next]_vars => OneAtATime'
  <1> SUFFICES ASSUME BootInv, [Next]_vars PROVE OneAtATime'
    OBVIOUS
  <1> USE DEF BootInv, TypeOK, OneAtATime, Quiet, Busy
  <1>1. CASE UNCHANGED vars
    BY <1>1 DEF vars
  <1>2. ASSUME NEW s \in Slots, Proceeds(s) PROVE OneAtATime'
    <2>1. Busy(s) /\ UNCHANGED process
      BY <1>2 DEF Proceeds, Opened, LookUp, KnowledgeDone, ReadRow, InsertRow,
                  RegisterAgent, Settled
    <2>2. ASSUME NEW t \in Slots, t # s PROVE starts'[t] = starts[t]
      BY <1>2, <2>2 DEF Proceeds, Opened, LookUp, KnowledgeDone, ReadRow, InsertRow,
                        RegisterAgent, RowIsDone, Goes
    <2>3. QED
      BY <2>1, <2>2
  <1>3. ASSUME NEW s \in Slots, BootStarts(s) PROVE OneAtATime'
    BY <1>3 DEF BootStarts, Begins
  <1>4. ASSUME NEW s \in Slots, BootFails(s) PROVE OneAtATime'
    BY <1>4 DEF BootFails
  <1>5. ASSUME NEW s \in Slots, NEW gone, NEW a \in Agents, SetCharacter(s, gone, a)
        PROVE  OneAtATime'
    BY <1>5 DEF SetCharacter
  <1>6. CASE (\E gone \in Agents : RefuseCharacter(gone)) \/ BootEnds \/ Restart
    BY <1>6 DEF RefuseCharacter, BootEnds, Restart
  <1>7. CASE Dies
    BY <1>7 DEF Dies, Idle
  <1>8. QED
    BY <1>1, <1>2, <1>3, <1>4, <1>5, <1>6, <1>7 DEF Next, RequestFails, Crash

(* While it boots, a step of the start that runs finds the row missing     *)
(* before it goes to insert it, and no other start can write.              *)
LEMMA ConflictStep == BootInv /\ [Next]_vars => BootNeverConflicts'
  <1> SUFFICES ASSUME BootInv, [Next]_vars, process' = "booting",
                      NEW t \in Slots, starts'[t].at = "insert"
               PROVE  rows'[<<Item(t)', starts'[t].row>>] = None
    BY DEF BootNeverConflicts
  <1>1. TypeOK /\ OneAtATime /\ BootNeverConflicts /\ Moves(t)
    BY StepMoves DEF BootInv
  <1>2. CASE starts'[t] = starts[t]
    <2>1. process = "booting"
      BY <1>1, <1>2 DEF Next, vars, Proceeds, Opened, LookUp, KnowledgeDone, ReadRow,
            InsertRow, RegisterAgent, Settled, BootStarts, BootFails, RequestFails,
            SetCharacter, RefuseCharacter, BootEnds, Crash, Dies, Restart,
            OneAtATime, Quiet, Busy
    <2>2. Busy(t)
      BY <1>2 DEF Busy
    <2>3. UNCHANGED rows
      <3>1. ASSUME NEW s \in Slots, InsertRow(s) PROVE FALSE
        <4>1. s = t
          BY <1>1, <2>1, <2>2, <3>1 DEF OneAtATime, InsertRow, Busy
        <4>2. starts'[s].at # "insert"
          BY <1>1, <3>1 DEF InsertRow, RowIsDone, Goes, TypeOK
        <4>3. QED
          BY <4>1, <4>2
      <3>2. QED
        BY <3>1, RowsChange
    <2>4. QED
      BY <1>1, <1>2, <2>1, <2>3 DEF BootNeverConflicts, Item, Self
  <1>3. CASE starts'[t] = Idle \/ starts'[t].at = "opening"
    BY <1>3 DEF Idle
  <1>4. CASE Opened(t) \/ LookUp(t) \/ KnowledgeDone(t) \/ InsertRow(t)
    BY <1>1, <1>4 DEF Opened, LookUp, KnowledgeDone, InsertRow, RowIsDone, Goes, TypeOK
  <1>5. CASE ReadRow(t)
    <2>1. ~RowIsDone(t)
      BY <1>1, <1>5 DEF ReadRow, RowIsDone, Goes, TypeOK
    <2>2. rows[<<Item(t), starts[t].row>>] = None /\ UNCHANGED rows
      BY <1>5, <2>1 DEF ReadRow
    <2>3. Item(t)' = Item(t) /\ starts'[t].row = starts[t].row
      BY <1>1, <1>5, <2>1 DEF ReadRow, Goes, TypeOK, Item, Self
    <2>4. QED
      BY <2>2, <2>3
  <1>6. QED
    BY <1>1, <1>2, <1>3, <1>4, <1>5 DEF Moves

(* startAgents starts one character after the other, and a row it did not  *)
(* find is missing until it inserts it.                                    *)
THEOREM BootTheorem == Spec => []BootNeverConflicts
  <1>1. Init => BootInv
    BY InitTypeOK DEF Init, BootInv, OneAtATime, BootNeverConflicts, Quiet, Busy, Idle
  <1>2. BootInv /\ [Next]_vars => BootInv'
    BY NextTypeOK, OneStep, ConflictStep DEF BootInv
  <1>3. BootInv => BootNeverConflicts
    BY DEF BootInv
  <1>4. QED
    BY <1>1, <1>2, <1>3, PTL DEF Spec

=============================================================================
