-------------------------- MODULE OrderChainProofs --------------------------
(***************************************************************************)
(* Why two workers process the updates in order, for every history size    *)
(* from four on, every ring size and every number of updates.              *)
(*                                                                         *)
(* The invariant IInv of TwoWorkers is inductive.  Its flags are addressed *)
(* by slot and its claims by update number, so each step that writes a     *)
(* flag first shows which update's flag that is (FlagWrite, from the facts *)
(* about helpers.h that come first); the steps that do not are covered by  *)
(* three frame lemmas.                                                     *)
(***************************************************************************)
EXTENDS TwoWorkers, NumberProofs

(* Update n owns slot n modulo the history size, wrapped counter or not.   *)
LEMMA OrderIndexMod ==
  ASSUME NEW n \in Int
  PROVE  OrderIndex(n) = n % HISTORY_SIZE
  BY SizesAssumption, WrapInvisible DEF OrderIndex, Unsigned

(* The C index of an update is a slot of the arrays.                       *)
LEMMA OrderIndexInSlots ==
  ASSUME NEW n \in Int
  PROVE  OrderIndex(n) \in Slots
  BY OrderIndexMod, DivMod, SizesAssumption DEF Slots

(* next_index and prev_index go to the neighbouring updates' slots, also   *)
(* across the end of the array and across the wrap of the counter.         *)
LEMMA NextIndexIsNext ==
  ASSUME NEW n \in Int
  PROVE  next_index(OrderIndex(n)) = OrderIndex(n + 1)
<1>1. OrderIndex(n) \in Int
  BY OrderIndexInSlots, SizesAssumption DEF Slots
<1>2. next_index(OrderIndex(n)) = (OrderIndex(n) + 1) % HISTORY_SIZE
  BY <1>1, SizesAssumption, WrapInvisible DEF next_index, Unsigned
<1>3. QED
  BY <1>2, OrderIndexMod, ModShift, SizesAssumption

LEMMA PrevIndexIsPrev ==
  ASSUME NEW n \in Int
  PROVE  prev_index(OrderIndex(n)) = OrderIndex(n - 1)
<1>1. OrderIndex(n) \in Int
  BY OrderIndexInSlots, SizesAssumption DEF Slots
<1>2. prev_index(OrderIndex(n)) = (OrderIndex(n) - 1) % HISTORY_SIZE
  BY <1>1, SizesAssumption, WrapInvisible DEF prev_index, Unsigned
<1> DEFINE e == -1
<1>3. e \in Int /\ (n % HISTORY_SIZE) + e = OrderIndex(n) - 1 /\ n + e = n - 1
  BY <1>1, OrderIndexMod
<1> HIDE DEF e
<1>4. ((n % HISTORY_SIZE) + e) % HISTORY_SIZE = (n + e) % HISTORY_SIZE
  BY <1>3, ModShift, SizesAssumption
<1>5. QED
  BY <1>2, <1>3, <1>4, OrderIndexMod

(* Fewer than HISTORY_SIZE updates apart means different slots.            *)
LEMMA OrderIndexDistinct ==
  ASSUME NEW m \in Int, NEW n \in Int, m < n, n < m + HISTORY_SIZE
  PROVE  OrderIndex(m) # OrderIndex(n)
<1> DEFINE d == HISTORY_SIZE
           q == m \div d
           p == n \div d
           r == m % d
<1>1. d \in Nat \ {0}
  BY SizesAssumption
<1>2. SUFFICES ASSUME n % d = r
               PROVE  FALSE
  BY OrderIndexMod
<1>3. q \in Int /\ p \in Int /\ r \in Int /\ m = d * q + r /\ n = d * p + r
  BY <1>1, <1>2, DivMod
<1> HIDE DEF q, p, r, d
<1>4. d * (p - q) > 0 /\ d * (p - q) < d
  BY <1>1, <1>3 DEF d
<1>5. QED
  BY <1>1, <1>3, <1>4
-----------------------------------------------------------------------------
(* The slot facts in the form the solver uses them; three updates apart is *)
(* as far as the invariant looks.                                          *)
LEMMA SlotFacts ==
  /\ \A n \in Int : OrderIndex(n) \in Slots
  /\ \A n \in Int : next_index(OrderIndex(n)) = OrderIndex(n + 1)
  /\ \A n \in Int : prev_index(OrderIndex(n)) = OrderIndex(n - 1)
  /\ \A m, n \in Int : m < n /\ n <= m + 3 => OrderIndex(m) # OrderIndex(n)
<1>1. ASSUME NEW m \in Int, NEW n \in Int, m < n, n <= m + 3
      PROVE  OrderIndex(m) # OrderIndex(n)
  <2>1. n < m + HISTORY_SIZE
    BY <1>1, TwoWorkersAssumption, SizesAssumption
  <2>2. QED
    BY <1>1, <2>1, OrderIndexDistinct
<1>2. QED
  BY <1>1, OrderIndexInSlots, NextIndexIsNext, PrevIndexIsPrev

(* Writing one update's flag leaves the flags of the updates near it.      *)
Written(f, g, n, value) == g = [f EXCEPT ![OrderIndex(n)] = value]

OnlyFlag(f, g, n, value) ==
  /\ g[OrderIndex(n)] = value
  /\ \A m \in Int : m # n /\ m >= n - 3 /\ m <= n + 3 =>
       g[OrderIndex(m)] = f[OrderIndex(m)]

(* Writing the flag of one update leaves the flags of the updates around   *)
(* it as they are: they are in other slots.                                *)
LEMMA FlagWrite ==
  ASSUME NEW f \in [Slots -> BOOLEAN], NEW g, NEW n \in Int, NEW value \in BOOLEAN,
         Written(f, g, n, value)
  PROVE  OnlyFlag(f, g, n, value)
<1>1. \A m \in Int : m # n /\ m >= n - 3 /\ m <= n + 3 =>
        OrderIndex(m) # OrderIndex(n)
  BY SlotFacts
<1>2. \A m \in Int : OrderIndex(m) \in Slots
  BY SlotFacts
<1>3. QED
  BY <1>1, <1>2 DEF Written, OnlyFlag

(* Every step keeps the types; this needs no assumption on the workers.    *)
LEMMA TypeOKInductive == TypeOK /\ [Next]_chainVars => TypeOK'
<1> SUFFICES ASSUME TypeOK, [Next]_chainVars
             PROVE  TypeOK'
  OBVIOUS
<1> USE DEF TypeOK, SyncTypeOK, syncVars, Goto
<1>1. CASE Update
  BY <1>1, ChainAssumption DEF Update, RingFull
<1>2. ASSUME NEW w \in Workers, Dequeue(w)
      PROVE  TypeOK'
  BY <1>2, ChainAssumption DEF Dequeue, RingEmpty, Stages
<1>3. ASSUME NEW w \in Workers, UnsetNextOrder(w) \/ UnsetNextSum(w)
      PROVE  TypeOK'
  BY <1>3 DEF UnsetNextOrder, UnsetNextSum, sync_unset_order, sync_unset_order_sum, Stages
<1>4. ASSUME NEW w \in Workers, 
         WaitOrder(w) \/ Insert(w) \/ Copy(w) \/ Load(w) \/ WaitSum(w) \/ Sum(w)
      PROVE  TypeOK'
  BY <1>4 DEF WaitOrder, Insert, Copy, Load, WaitSum, Sum, Stages
<1>5. ASSUME NEW w \in Workers, UnsetOwnOrder(w) \/ SetOrder(w) \/ UnsetOwnSum(w) \/ SetSum(w)
      PROVE  TypeOK'
  BY <1>5 DEF UnsetOwnOrder, SetOrder, UnsetOwnSum, SetSum, sync_unset_order,
              sync_set_order, sync_unset_order_sum, sync_set_order_sum, Stages
<1>6. CASE Drained \/ UNCHANGED chainVars
  BY <1>6 DEF chainVars, Drained
<1>7. QED
  BY <1>1, <1>2, <1>3, <1>4, <1>5, <1>6 DEF Next, Worker

(* Update numbers are integers: what the arithmetic of the leaves needs.   *)
LEMMA Values ==
  ASSUME TypeOK
  PROVE  /\ Taken \in Int
         /\ \A w \in Workers : local_data[w] \in Int
  BY ChainAssumption DEF TypeOK, Taken

(* What a step does that only moves worker w on within its current update. *)
Moved(w, from, to) ==
  /\ local_data' = local_data
  /\ Taken' = Taken
  /\ pc[w] = from /\ pc'[w] = to
  /\ \A v \in Workers : v # w => pc'[v] = pc[v]
  /\ \A v \in Workers, n \in Int : Holds(v, n)' <=> Holds(v, n)
  /\ \A n \in Int : IsSummed(n)' <=> IsSummed(n)

(* A step within one update moves only its worker; the ring and the window *)
(* of updates in hand stay, and so does what is inserted unless it leaves  *)
(* the insertion.                                                          *)
LEMMA MiddleStep ==
  ASSUME IInv, NEW w \in Workers,
         NEW from \in Stages \ {"dequeue"}, NEW to \in Stages \ {"dequeue"},
         Goto(w, from, to), UNCHANGED <<issued, ring, local_data>>
  PROVE  /\ Moved(w, from, to)
         /\ RingInOrder'
         /\ WindowOfTwo'
         /\ (from \in NotInserted <=> to \in NotInserted) =>
              \A n \in Int : IsInserted(n)' <=> IsInserted(n)
<1>1. /\ local_data' = local_data
      /\ Taken' = Taken
      /\ pc[w] = from /\ pc'[w] = to
      /\ \A v \in Workers : v # w => pc'[v] = pc[v]
  BY DEF Taken, Goto, IInv, TypeOK
<1>2. \A v \in Workers : pc'[v] # "dequeue" <=> pc[v] # "dequeue"
  BY <1>1
<1>3. \A v \in Workers, n \in Int : Holds(v, n)' <=> Holds(v, n)
  BY <1>1, <1>2 DEF Holds
<1>4. \A n \in Int : IsSummed(n)' <=> IsSummed(n)
  BY <1>1, <1>3 DEF IsSummed
<1>5. ASSUME from \in NotInserted <=> to \in NotInserted
      PROVE  \A n \in Int : IsInserted(n)' <=> IsInserted(n)
  BY <1>1, <1>3, <1>5 DEF IsInserted
<1>6. RingInOrder'
  BY <1>1 DEF RingInOrder, IInv
<1>7. WindowOfTwo'
  BY <1>1, <1>2, <1>3, Values DEF WindowOfTwo, IInv
<1>8. QED
  BY <1>1, <1>3, <1>4, <1>5, <1>6, <1>7 DEF Moved

(* What the invariant says of the flags, in the two halves that the two    *)
(* arrays of flags can disturb.                                            *)
OrderTruthful == OrderLocked /\ NextOrderLocked /\ OrderReleased /\ LastOrderReleased
SumTruthful == SumLocked /\ NextSumLocked /\ SumReleased /\ LastSumReleased

(* A step that leaves the order flags alone keeps what they say, unless it *)
(* crosses a boundary of the stages they speak of.                         *)
LEMMA OrderFrame ==
  ASSUME IInv, NEW w \in Workers, NEW from, NEW to, Moved(w, from, to),
         order' = order,
         from \in NotInserted <=> to \in NotInserted,
         from \in NextOrderStale <=> to \in NextOrderStale,
         to \in BeforeInsertCS => from \in BeforeInsertCS
  PROVE  OrderTruthful'
<1>1. \A v \in Workers : /\ pc'[v] \in NotInserted <=> pc[v] \in NotInserted
                         /\ pc'[v] \in NextOrderStale <=> pc[v] \in NextOrderStale
                         /\ pc'[v] \in BeforeInsertCS => pc[v] \in BeforeInsertCS
  BY DEF Moved
<1>2. \A n \in Int : IsInserted(n)' <=> IsInserted(n)
  BY <1>1 DEF Moved, IsInserted
<1>3. OrderLocked' /\ NextOrderLocked'
  BY <1>1, Values DEF Moved, OrderLocked, NextOrderLocked, FlagsTruthful, IInv, Own
<1>4. OrderReleased' /\ LastOrderReleased'
  BY <1>1, <1>2, Values DEF Moved, OrderReleased, LastOrderReleased, FlagsTruthful, IInv
<1>5. QED
  BY <1>3, <1>4 DEF OrderTruthful

(* The same for the order_sum flags.                                       *)
LEMMA SumFrame ==
  ASSUME IInv, NEW w \in Workers,
         NEW from \in Stages \ {"dequeue"}, NEW to \in Stages \ {"dequeue"},
         Moved(w, from, to),
         order_sum' = order_sum,
         from \in NextSumStale <=> to \in NextSumStale,
         from \in SumCS => to \in SumCS
  PROVE  SumTruthful'
<1>1. \A v \in Workers : /\ pc'[v] # "dequeue" <=> pc[v] # "dequeue"
                         /\ pc'[v] \in NextSumStale <=> pc[v] \in NextSumStale
                         /\ pc[v] \in SumCS => pc'[v] \in SumCS
  BY DEF Moved
<1>3. SumLocked' /\ NextSumLocked'
  BY <1>1, Values DEF Moved, SumLocked, NextSumLocked, FlagsTruthful, IInv, Own
<1>4. SumReleased' /\ LastSumReleased'
  BY <1>1, Values DEF Moved, SumReleased, LastSumReleased, FlagsTruthful, IInv
<1>5. QED
  BY <1>3, <1>4 DEF SumTruthful

(* A step that passes no gate keeps the gates.                             *)
LEMMA GatesFrame ==
  ASSUME IInv, NEW w \in Workers,
         NEW from \in Stages \ {"dequeue"}, NEW to \in Stages \ {"dequeue"},
         Moved(w, from, to),
         to \in NotInserted => from \in NotInserted,
         from \in BeforeInsertCS => to \in BeforeInsertCS,
         to \in SumCS => from \in SumCS
  PROVE  GatesHold'
  BY Values DEF Moved, GatesHold, IInv

(* The numbers in play are at most two apart.                              *)
LEMMA Near ==
  ASSUME IInv
  PROVE  /\ Taken \in Int
         /\ \A v \in Workers : local_data[v] \in Int
         /\ \A v \in Workers : pc[v] # "dequeue" =>
              local_data[v] \in {Taken - 1, Taken - 2}
  BY Values DEF IInv, WindowOfTwo

(* The steps that touch neither the flags nor a gate.                      *)
LEMMA ComputeKeeps ==
  ASSUME IInv, NEW w \in Workers, Insert(w) \/ Copy(w) \/ Load(w) \/ Sum(w)
  PROVE  IInv'
<1> USE DEF Stages, NotInserted, NextOrderStale, NextSumStale, BeforeInsertCS, SumCS
<1>1. PICK from \in Stages \ {"dequeue"}, to \in Stages \ {"dequeue"} :
        /\ Goto(w, from, to) /\ UNCHANGED <<issued, ring, local_data, syncVars>>
        /\ from \in NotInserted <=> to \in NotInserted
        /\ from \in NextOrderStale <=> to \in NextOrderStale
        /\ from \in NextSumStale <=> to \in NextSumStale
        /\ from \in BeforeInsertCS <=> to \in BeforeInsertCS
        /\ from \in SumCS <=> to \in SumCS
  BY DEF Insert, Copy, Load, Sum
<1> USE <1>1
<1>2. Moved(w, from, to) /\ RingInOrder' /\ WindowOfTwo'
  BY MiddleStep
<1>3. OrderTruthful' /\ SumTruthful' /\ GatesHold'
  BY <1>2, OrderFrame, SumFrame, GatesFrame DEF syncVars
<1>4. TypeOK'
  BY TypeOKInductive DEF IInv, Next, Worker
<1>5. QED
  BY <1>2, <1>3, <1>4 DEF IInv, FlagsTruthful, OrderTruthful, SumTruthful

(* The worker that waits for an insertion finds the flag unlocked only     *)
(* when the worker of the previous update has left the insertion.          *)
LEMMA WaitOrderKeeps ==
  ASSUME IInv, NEW w \in Workers, WaitOrder(w)
  PROVE  IInv'
<1>1. /\ Moved(w, "wait_order", "unset_own_order")
      /\ RingInOrder' /\ WindowOfTwo'
  BY MiddleStep DEF WaitOrder, Stages, NotInserted
<1>2. OrderTruthful' /\ SumTruthful'
  BY <1>1, OrderFrame, SumFrame
  DEF WaitOrder, syncVars, Stages, NotInserted, BeforeInsertCS, SumCS,
      NextOrderStale, NextSumStale
<1>3. TypeOK'
  BY TypeOKInductive DEF IInv, Next, Worker
<1>4. ~order[OrderIndex(local_data[w] - 1)]
  BY Near, SlotFacts DEF WaitOrder, Own, wait_until_set_order
<1>5. \A v \in Workers : Holds(v, local_data[w] - 1) => pc[v] \notin NotInserted
  BY <1>1, <1>4, Near DEF Moved, OrderLocked, FlagsTruthful, IInv, Own, Holds, NotInserted
<1>6. GatesHold'
  BY <1>1, <1>5, Near DEF Moved, GatesHold, IInv, NotInserted, BeforeInsertCS, SumCS
<1>7. QED
  BY <1>1, <1>2, <1>3, <1>6 DEF IInv, FlagsTruthful, OrderTruthful, SumTruthful

(* The same for the worker that waits for a sum.                           *)
LEMMA WaitSumKeeps ==
  ASSUME IInv, NEW w \in Workers, WaitSum(w)
  PROVE  IInv'
<1>1. /\ Moved(w, "wait_sum", "unset_own_sum")
      /\ RingInOrder' /\ WindowOfTwo'
  BY MiddleStep DEF WaitSum, Stages, NotInserted
<1>2. OrderTruthful' /\ SumTruthful'
  BY <1>1, OrderFrame, SumFrame
  DEF WaitSum, syncVars, Stages, NotInserted, BeforeInsertCS, SumCS,
      NextOrderStale, NextSumStale
<1>3. TypeOK'
  BY TypeOKInductive DEF IInv, Next, Worker
<1>4. ~order_sum[OrderIndex(local_data[w] - 1)]
  BY Near, SlotFacts DEF WaitSum, Own, wait_until_set_order_sum
<1>5. \A v \in Workers : ~Holds(v, local_data[w] - 1)
  BY <1>1, <1>4, Near DEF Moved, SumLocked, FlagsTruthful, IInv, Own, Holds
<1>6. GatesHold'
  BY <1>1, <1>5, Near DEF Moved, GatesHold, IInv, NotInserted, BeforeInsertCS, SumCS
<1>7. QED
  BY <1>1, <1>2, <1>3, <1>6 DEF IInv, FlagsTruthful, OrderTruthful, SumTruthful

(* The worker of update m locks the flag of update m + 1.  If m is the     *)
(* older of two, the newer has not been inserted: it waits for m.          *)
LEMMA UnsetNextOrderKeeps ==
  ASSUME IInv, NEW w \in Workers, UnsetNextOrder(w)
  PROVE  IInv'
<1> DEFINE m == local_data[w]
<1>1. /\ Moved(w, "unset_next_order", "unset_next_sum")
      /\ RingInOrder' /\ WindowOfTwo'
      /\ \A n \in Int : IsInserted(n)' <=> IsInserted(n)
   BY MiddleStep DEF UnsetNextOrder, Stages, NotInserted
<1>2. GatesHold' /\ SumTruthful'
  BY <1>1, GatesFrame, SumFrame
  DEF UnsetNextOrder, Stages, NotInserted, BeforeInsertCS, SumCS, NextSumStale
<1>3. TypeOK'
  BY TypeOKInductive DEF IInv, Next, Worker
<1>4. OnlyFlag(order, order', m + 1, TRUE)
  <2>1. Written(order, order', m + 1, TRUE)
    BY Near, SlotFacts DEF UnsetNextOrder, Own, sync_unset_order, Written
  <2>2. order \in [Slots -> BOOLEAN] /\ m + 1 \in Int
    BY Near DEF IInv, TypeOK, SyncTypeOK
  <2>3. QED
    BY <2>1, <2>2, FlagWrite
<1>5. OrderLocked' /\ NextOrderLocked'
  BY <1>1, <1>4, Near
  DEF OnlyFlag, Moved, OrderLocked, NextOrderLocked, FlagsTruthful, IInv, Own, NotInserted, NextOrderStale, Holds
<1>6. OrderReleased'
  BY <1>1, <1>4, Near DEF OnlyFlag, Moved, OrderReleased, FlagsTruthful, IInv, BeforeInsertCS
<1>7. LastOrderReleased'
  <2>1. IsInserted(Taken - 1) => m # Taken - 2
    BY <1>1, Near DEF Moved, WindowOfTwo, GatesHold, IInv, IsInserted, Holds, NotInserted, BeforeInsertCS
  <2>2. QED
    BY <1>1, <1>4, <2>1, Near DEF OnlyFlag, Moved, LastOrderReleased, FlagsTruthful, IInv
<1>8. QED
  BY <1>1, <1>2, <1>3, <1>5, <1>6, <1>7 DEF IInv, FlagsTruthful, SumTruthful

(* The same for the order_sum flag.                                        *)
LEMMA UnsetNextSumKeeps ==
  ASSUME IInv, NEW w \in Workers, UnsetNextSum(w)
  PROVE  IInv'
<1> DEFINE m == local_data[w]
<1>1. /\ Moved(w, "unset_next_sum", "wait_order")
      /\ RingInOrder' /\ WindowOfTwo'
   BY MiddleStep DEF UnsetNextSum, Stages, NotInserted
<1>2. GatesHold' /\ OrderTruthful'
  BY <1>1, GatesFrame, OrderFrame
  DEF UnsetNextSum, Stages, NotInserted, BeforeInsertCS, SumCS, NextOrderStale
<1>3. TypeOK'
  BY TypeOKInductive DEF IInv, Next, Worker
<1>4. OnlyFlag(order_sum, order_sum', m + 1, TRUE)
  <2>1. Written(order_sum, order_sum', m + 1, TRUE)
    BY Near, SlotFacts DEF UnsetNextSum, Own, sync_unset_order_sum, Written
  <2>2. order_sum \in [Slots -> BOOLEAN] /\ m + 1 \in Int
    BY Near DEF IInv, TypeOK, SyncTypeOK
  <2>3. QED
    BY <2>1, <2>2, FlagWrite
<1>5. SumLocked' /\ NextSumLocked'
  BY <1>1, <1>4, Near
  DEF OnlyFlag, Moved, SumLocked, NextSumLocked, FlagsTruthful, IInv, Own, NextSumStale, Holds
<1>6. SumReleased'
  BY <1>1, <1>4, Near DEF OnlyFlag, Moved, SumReleased, FlagsTruthful, IInv, SumCS
<1>7. LastSumReleased'
  <2>1. IsSummed(Taken - 1) => m # Taken - 2
    BY <1>1, Near DEF Moved, WindowOfTwo, IInv, IsSummed, Holds
  <2>2. QED
    BY <1>1, <1>4, <2>1, Near DEF OnlyFlag, Moved, LastSumReleased, FlagsTruthful, IInv
<1>8. QED
  BY <1>1, <1>2, <1>3, <1>5, <1>6, <1>7 DEF IInv, FlagsTruthful, OrderTruthful

(* Locking the flag of an update in hand once more contradicts nothing:    *)
(* only the flags of finished updates have to be unlocked.                 *)
LEMMA UnsetOwnOrderKeeps ==
  ASSUME IInv, NEW w \in Workers, UnsetOwnOrder(w)
  PROVE  IInv'
<1> DEFINE m == local_data[w]
<1>1. /\ Moved(w, "unset_own_order", "insert")
      /\ RingInOrder' /\ WindowOfTwo'
      /\ \A n \in Int : IsInserted(n)' <=> IsInserted(n)
   BY MiddleStep DEF UnsetOwnOrder, Stages, NotInserted
<1>2. GatesHold' /\ SumTruthful'
  BY <1>1, GatesFrame, SumFrame
  DEF UnsetOwnOrder, Stages, NotInserted, BeforeInsertCS, SumCS, NextSumStale
<1>3. TypeOK'
  BY TypeOKInductive DEF IInv, Next, Worker
<1>4. OnlyFlag(order, order', m, TRUE)
  <2>1. Written(order, order', m, TRUE)
    BY DEF UnsetOwnOrder, Own, sync_unset_order, Written
  <2>2. order \in [Slots -> BOOLEAN] /\ m \in Int
    BY Near DEF IInv, TypeOK, SyncTypeOK
  <2>3. QED
    BY <2>1, <2>2, FlagWrite
<1>5. OrderLocked' /\ NextOrderLocked'
  BY <1>1, <1>4, Near
  DEF OnlyFlag, Moved, OrderLocked, NextOrderLocked, FlagsTruthful, IInv, Own, NotInserted, NextOrderStale, Holds
<1>6. ~IsInserted(m)
  BY <1>1 DEF Moved, IsInserted, Holds, NotInserted
<1>7. OrderReleased' /\ LastOrderReleased'
  BY <1>1, <1>4, <1>6, Near
  DEF OnlyFlag, Moved, OrderReleased, LastOrderReleased, FlagsTruthful, IInv, BeforeInsertCS
<1>8. QED
  BY <1>1, <1>2, <1>3, <1>5, <1>7 DEF IInv, FlagsTruthful, SumTruthful

(* The same for the order_sum flag.                                        *)
LEMMA UnsetOwnSumKeeps ==
  ASSUME IInv, NEW w \in Workers, UnsetOwnSum(w)
  PROVE  IInv'
<1> DEFINE m == local_data[w]
<1>1. /\ Moved(w, "unset_own_sum", "sum")
      /\ RingInOrder' /\ WindowOfTwo'
   BY MiddleStep DEF UnsetOwnSum, Stages, NotInserted
<1>2. GatesHold' /\ OrderTruthful'
  BY <1>1, GatesFrame, OrderFrame
  DEF UnsetOwnSum, Stages, NotInserted, BeforeInsertCS, SumCS, NextOrderStale
<1>3. TypeOK'
  BY TypeOKInductive DEF IInv, Next, Worker
<1>4. OnlyFlag(order_sum, order_sum', m, TRUE)
  <2>1. Written(order_sum, order_sum', m, TRUE)
    BY DEF UnsetOwnSum, Own, sync_unset_order_sum, Written
  <2>2. order_sum \in [Slots -> BOOLEAN] /\ m \in Int
    BY Near DEF IInv, TypeOK, SyncTypeOK
  <2>3. QED
    BY <2>1, <2>2, FlagWrite
<1>5. SumLocked' /\ NextSumLocked'
  BY <1>1, <1>4, Near
  DEF OnlyFlag, Moved, SumLocked, NextSumLocked, FlagsTruthful, IInv, Own, NextSumStale, Holds
<1>6. ~IsSummed(m)
  BY <1>1 DEF Moved, IsSummed, Holds
<1>7. SumReleased' /\ LastSumReleased'
  BY <1>1, <1>4, <1>6, Near
  DEF OnlyFlag, Moved, SumReleased, LastSumReleased, FlagsTruthful, IInv, SumCS
<1>8. QED
  BY <1>1, <1>2, <1>3, <1>5, <1>7 DEF IInv, FlagsTruthful, OrderTruthful

(* Leaving the insertion releases the update's own flag and no other.      *)
LEMMA SetOrderKeeps ==
  ASSUME IInv, NEW w \in Workers, SetOrder(w)
  PROVE  IInv'
<1> DEFINE m == local_data[w]
<1>1. /\ Moved(w, "set_order", "copy")
      /\ RingInOrder' /\ WindowOfTwo'
   BY MiddleStep DEF SetOrder, Stages, NotInserted
<1>2. GatesHold' /\ SumTruthful'
  BY <1>1, GatesFrame, SumFrame
  DEF SetOrder, Stages, NotInserted, BeforeInsertCS, SumCS, NextSumStale
<1>3. TypeOK'
  BY TypeOKInductive DEF IInv, Next, Worker
<1>4. OnlyFlag(order, order', m, FALSE)
  <2>1. Written(order, order', m, FALSE)
    BY DEF SetOrder, Own, sync_set_order, Written
  <2>2. order \in [Slots -> BOOLEAN] /\ m \in Int
    BY Near DEF IInv, TypeOK, SyncTypeOK
  <2>3. QED
    BY <2>1, <2>2, FlagWrite
<1>5. OrderLocked' /\ NextOrderLocked'
  <2>1. \A v \in Workers : v # w /\ pc[v] # "dequeue" => local_data[v] # m
    BY <1>1 DEF Moved, WindowOfTwo, IInv, Holds
  <2>2. QED
    BY <1>1, <1>4, <2>1, Near
    DEF OnlyFlag, Moved, OrderLocked, NextOrderLocked, FlagsTruthful, IInv, Own, NotInserted, NextOrderStale, Holds
<1>6. \A n \in Int : n # m => (IsInserted(n)' <=> IsInserted(n))
  BY <1>1 DEF Moved, IsInserted, Holds
<1>7. OrderReleased' /\ LastOrderReleased'
  BY <1>1, <1>4, <1>6, Near
  DEF OnlyFlag, Moved, OrderReleased, LastOrderReleased, FlagsTruthful, IInv, BeforeInsertCS
<1>8. QED
  BY <1>1, <1>2, <1>3, <1>5, <1>7 DEF IInv, FlagsTruthful, SumTruthful

(* A worker that stores its sum is done with the update: it releases the   *)
(* flag and becomes idle.  The update was the older one, or the only one.  *)
LEMMA SetSumKeeps ==
  ASSUME IInv, NEW w \in Workers, SetSum(w)
  PROVE  IInv'
<1> DEFINE m == local_data[w]
<1>1. /\ pc[w] = "set_sum" /\ pc'[w] = "dequeue"
      /\ \A v \in Workers : v # w => pc'[v] = pc[v]
      /\ local_data' = local_data /\ Taken' = Taken
      /\ ring' = ring /\ order' = order
  BY DEF SetSum, Goto, Taken, IInv, TypeOK
<1>2. \A v \in Workers, n \in Int : Holds(v, n)' <=> Holds(v, n) /\ v # w
  BY <1>1 DEF Holds
<1>3. TypeOK' /\ RingInOrder'
  BY <1>1, TypeOKInductive DEF IInv, Next, Worker, RingInOrder
<1>4. WindowOfTwo' /\ GatesHold'
  <2>1. \A v \in Workers : ~Holds(v, m - 1)
    BY <1>1 DEF IInv, GatesHold, SumCS
  <2>2. WindowOfTwo'
    BY <1>1, <1>2, <2>1, Near DEF IInv, WindowOfTwo, Holds
  <2>3. GatesHold'
    BY <1>1, <1>2, Near DEF IInv, GatesHold
  <2>4. QED
    BY <2>2, <2>3
<1>5. OrderTruthful'
  <2>1. \A n \in Int : IsInserted(n)' <=> IsInserted(n)
    BY <1>1, <1>2 DEF IsInserted, NotInserted
  <2>2. OrderLocked' /\ NextOrderLocked'
    BY <1>1, <1>2, Near
    DEF OrderLocked, NextOrderLocked, FlagsTruthful, IInv, Own, NotInserted, NextOrderStale
  <2>3. OrderReleased' /\ LastOrderReleased'
    BY <1>1, <2>1, Near
    DEF OrderReleased, LastOrderReleased, FlagsTruthful, IInv, BeforeInsertCS
  <2>4. QED
    BY <2>2, <2>3 DEF OrderTruthful
<1>6. OnlyFlag(order_sum, order_sum', m, FALSE)
  <2>1. Written(order_sum, order_sum', m, FALSE)
    BY DEF SetSum, Own, sync_set_order_sum, Written
  <2>2. order_sum \in [Slots -> BOOLEAN] /\ m \in Int
    BY Near DEF IInv, TypeOK, SyncTypeOK
  <2>3. QED
    BY <2>1, <2>2, FlagWrite
<1>7. SumLocked' /\ NextSumLocked'
  <2>1. \A v \in Workers : v # w /\ pc[v] # "dequeue" => local_data[v] # m
    BY <1>1 DEF WindowOfTwo, IInv, Holds
  <2>2. QED
    BY <1>1, <1>2, <1>6, <2>1, Near
    DEF OnlyFlag, SumLocked, NextSumLocked, FlagsTruthful, IInv, Own, NextSumStale
<1>8. SumReleased' /\ LastSumReleased'
  <2>1. \A n \in Int : n # m => (IsSummed(n)' <=> IsSummed(n))
    BY <1>1, <1>2 DEF IsSummed, Holds
  <2>2. QED
    BY <1>1, <1>6, <2>1, Near
    DEF OnlyFlag, SumReleased, LastSumReleased, FlagsTruthful, IInv
<1>9. QED
  BY <1>3, <1>4, <1>5, <1>7, <1>8 DEF IInv, FlagsTruthful, OrderTruthful

(* A worker takes the next update only when at most one other is in hand,  *)
(* and then the one before it: a third worker would be needed otherwise.   *)
LEMMA DequeueKeeps ==
  ASSUME IInv, NEW w \in Workers, Dequeue(w)
  PROVE  IInv'
<1>1. /\ pc[w] = "dequeue" /\ pc'[w] = "unset_next_order"
      /\ \A v \in Workers : v # w => pc'[v] = pc[v] /\ local_data'[v] = local_data[v]
      /\ order' = order /\ order_sum' = order_sum
  BY DEF Dequeue, Goto, syncVars, IInv, TypeOK
<1>2. /\ Taken' = Taken + 1 /\ local_data'[w] = Taken
      /\ Taken \in Nat
      /\ RingInOrder'
  <2>1. /\ ring \in Seq(Int) /\ ring # << >> /\ issued \in Int
        /\ ring' = Tail(ring) /\ issued' = issued
        /\ local_data'[w] = ring[1]
    BY ChainAssumption DEF Dequeue, RingEmpty, IInv, TypeOK
  <2>2. /\ Len(ring) \in Nat /\ Len(ring) >= 1
        /\ Len(ring') = Len(ring) - 1
        /\ \A j \in 1 .. Len(ring') : ring'[j] = ring[j + 1]
    BY <2>1
  <2>3. Taken' = Taken + 1 /\ Taken \in Int
    BY <2>1, <2>2 DEF Taken
  <2>4. ring[1] = Taken /\ Taken >= 0
    <3>1. ring[1] = Taken
      BY <2>2, <2>3 DEF IInv, RingInOrder
    <3>2. ring[1] \in Nat
      BY <2>2, ChainAssumption DEF IInv, TypeOK
    <3>3. QED
      BY <3>1, <3>2
  <2>5. RingInOrder'
    BY <2>2, <2>3 DEF IInv, RingInOrder
  <2>6. QED
    BY <2>1, <2>3, <2>4, <2>5
<1>3. \A n \in Int : /\ Holds(w, n)' <=> n = Taken
                     /\ ~Holds(w, n)
                     /\ \A v \in Workers : v # w => (Holds(v, n)' <=> Holds(v, n))
  BY <1>1, <1>2 DEF Holds
<1>4. \A v \in Workers : v # w /\ pc[v] # "dequeue" => local_data[v] = Taken - 1
  BY <1>1, TwoWorkersAssumption, Near DEF IInv, WindowOfTwo, Holds
<1>5. TypeOK'
  BY TypeOKInductive DEF IInv, Next, Worker
<1>6. WindowOfTwo'
  <2>1. \A v \in Workers : pc'[v] # "dequeue" =>
          /\ local_data'[v] >= 0
          /\ local_data'[v] \in {Taken, Taken - 1}
    BY <1>1, <1>2, <1>4, Near DEF WindowOfTwo, IInv
  <2>2. \A u, v \in Workers :
          u # v /\ pc'[u] # "dequeue" => ~(pc'[v] # "dequeue" /\ local_data'[v] = local_data'[u])
    BY <1>1, <1>2, <1>4, TwoWorkersAssumption
  <2>3. pc'[w] # "dequeue" /\ local_data'[w] = Taken' - 1
    BY <1>1, <1>2
  <2>4. QED
    BY <1>2, <2>1, <2>2, <2>3 DEF WindowOfTwo, Holds
<1>7. GatesHold'
  <2> SUFFICES ASSUME NEW v \in Workers, NEW u \in Workers,
                      pc'[u] # "dequeue", pc'[v] # "dequeue",
                      local_data'[v] = local_data'[u] - 1
               PROVE  /\ pc'[v] \in NotInserted => pc'[u] \in BeforeInsertCS
                      /\ pc'[u] \notin SumCS
    BY DEF GatesHold, Holds
  <2>1. u = w
    BY <1>1, <1>2, <1>4
  <2>2. QED
    BY <1>1, <2>1 DEF BeforeInsertCS, SumCS
<1>8. \A n \in Int : n < Taken =>
        (IsInserted(n)' <=> IsInserted(n)) /\ (IsSummed(n)' <=> IsSummed(n))
  BY <1>1, <1>2, <1>3 DEF IsInserted, IsSummed
<1>9. \A n \in Int : n = Taken => ~IsInserted(n)' /\ ~IsSummed(n)'
  BY <1>1, <1>2 DEF IsInserted, IsSummed, Holds, NotInserted
<1>10. OrderLocked' /\ NextOrderLocked' /\ SumLocked' /\ NextSumLocked'
  <2>1. OrderLocked'
    BY <1>1, <1>2, <1>3, <1>4, Near
    DEF FlagsTruthful, IInv, OrderLocked, NextOrderLocked, Own, NextOrderStale
  <2>2. SumLocked'
    BY <1>1, <1>2, <1>3, <1>4, Near
    DEF FlagsTruthful, IInv, SumLocked, NextSumLocked, Own, NextSumStale
  <2>3. NextOrderLocked' /\ NextSumLocked'
    BY <1>1, <1>2, <1>3 DEF NextOrderLocked, NextSumLocked, NextOrderStale, NextSumStale
  <2>4. QED
    BY <2>1, <2>2, <2>3
<1>11. OrderReleased' /\ LastOrderReleased' /\ SumReleased' /\ LastSumReleased'
  <2>1. OrderReleased'
    <3> SUFFICES ASSUME NEW v \in Workers, pc'[v] \in BeforeInsertCS,
                        NEW n \in Int, n = local_data'[v] - 1, IsInserted(n)'
                 PROVE  ~order'[OrderIndex(n)]
      BY <1>1, <1>2, Near DEF OrderReleased
    <3>1. CASE v = w
      BY <1>1, <1>2, <1>8, <3>1 DEF FlagsTruthful, IInv, LastOrderReleased
    <3>2. CASE v # w
      BY <1>1, <1>2, <1>4, <1>8, <3>2, Near
      DEF FlagsTruthful, IInv, OrderReleased, BeforeInsertCS
    <3>3. QED
      BY <3>1, <3>2
  <2>2. SumReleased'
    BY <1>1, <1>2, <1>4, <1>8 DEF FlagsTruthful, IInv, SumReleased, LastSumReleased
  <2>3. LastOrderReleased' /\ LastSumReleased'
    <3>1. Taken' - 1 = Taken /\ Taken \in Int
      BY <1>2
    <3>2. QED
      BY <1>9, <3>1 DEF LastOrderReleased, LastSumReleased
  <2>4. QED
    BY <2>1, <2>2, <2>3
<1>12. QED
  BY <1>2, <1>5, <1>6, <1>7, <1>10, <1>11 DEF IInv, FlagsTruthful

(* The producer only appends to the ring.                                  *)
LEMMA UpdateKeeps ==
  ASSUME IInv, Update
  PROVE  IInv'
<1>1. /\ pc' = pc /\ local_data' = local_data /\ order' = order /\ order_sum' = order_sum
      /\ ring' = Append(ring, issued) /\ issued' = issued + 1
      /\ ring \in Seq(Int) /\ issued \in Int
  BY ChainAssumption DEF Update, syncVars, IInv, TypeOK
<1>2. /\ Len(ring) \in Nat /\ Len(ring') = Len(ring) + 1
      /\ ring'[Len(ring) + 1] = issued
      /\ \A j \in 1 .. Len(ring) : ring'[j] = ring[j]
  BY <1>1
<1>3. Taken' = Taken
  BY <1>1, <1>2 DEF Taken
<1>4. RingInOrder'
  BY <1>1, <1>2, <1>3 DEF RingInOrder, IInv, Taken
<1>5. TypeOK'
  BY TypeOKInductive DEF IInv, Next
<1>6. \A n : (IsInserted(n)' <=> IsInserted(n)) /\ (IsSummed(n)' <=> IsSummed(n))
  BY <1>1, <1>3 DEF IsInserted, IsSummed, Holds
<1>7. WindowOfTwo' /\ GatesHold'
  BY <1>1, <1>3 DEF WindowOfTwo, GatesHold, Holds, IInv
<1>8. OrderLocked' /\ NextOrderLocked' /\ SumLocked' /\ NextSumLocked'
  BY <1>1, <1>3
  DEF OrderLocked, NextOrderLocked, SumLocked, NextSumLocked, Holds, Own, FlagsTruthful, IInv
<1>9. OrderReleased' /\ LastOrderReleased' /\ SumReleased' /\ LastSumReleased'
  BY <1>1, <1>3, <1>6
  DEF OrderReleased, LastOrderReleased, SumReleased, LastSumReleased, FlagsTruthful, IInv
<1>10. QED
  BY <1>4, <1>5, <1>7, <1>8, <1>9 DEF IInv, FlagsTruthful

(* The start barrier opens on flags that tell the truth: the only one that *)
(* is unlocked is that of the update before the first.                     *)
LEMMA InitEstablishes ==
  ASSUME Init
  PROVE  IInv
<1>1. /\ issued = 0 /\ Len(ring) = 0 /\ Taken = 0
      /\ \A w \in Workers : pc[w] = "dequeue"
  <2>1. issued = 0 /\ ring = << >>
    BY DEF Init
  <2>2. \A w \in Workers : pc[w] = "dequeue"
    BY DEF Init
  <2>3. Len(ring) = 0
    BY <2>1
  <2>4. Taken = 0
    <3>1. Taken = 0 - 0
      BY <2>1, <2>3, Zenon DEF Taken
    <3>2. QED
      BY <3>1
  <2>5. QED
    BY <2>1, <2>2, <2>3, <2>4
<1>2. TypeOK
  BY <1>1, SizesAssumption, ChainAssumption
  DEF Init, SyncInit, TypeOK, SyncTypeOK, Slots, Stages
<1>3. RingInOrder /\ WindowOfTwo /\ GatesHold
  BY <1>1 DEF RingInOrder, WindowOfTwo, GatesHold, Holds
<1>4. OrderIndex(0) = 0 /\ OrderIndex(-1) = HISTORY_SIZE - 1
  <2>1. HISTORY_SIZE \in Nat /\ HISTORY_SIZE >= 4
    BY SizesAssumption, TwoWorkersAssumption
  <2>2. 0 % HISTORY_SIZE = 0 /\ (-1) % HISTORY_SIZE = HISTORY_SIZE - 1
    BY <2>1, ModUnique
  <2>3. QED
    BY <2>2, OrderIndexMod
<1>5. order[0] /\ order_sum[0] /\ ~order[HISTORY_SIZE - 1] /\ ~order_sum[HISTORY_SIZE - 1]
  <2>1. HISTORY_SIZE \in Nat /\ HISTORY_SIZE >= 4
    BY SizesAssumption, TwoWorkersAssumption
  <2>2. 0 \in Slots /\ HISTORY_SIZE - 1 \in Slots /\ 0 # HISTORY_SIZE - 1
    BY <2>1 DEF Slots
  <2>3. QED
    BY <2>2 DEF Init, SyncInit
<1>6. FlagsTruthful
  BY <1>1, <1>4, <1>5
  DEF FlagsTruthful, OrderLocked, NextOrderLocked, SumLocked, NextSumLocked,
      OrderReleased, LastOrderReleased, SumReleased, LastSumReleased,
      NotInserted, BeforeInsertCS
<1>7. QED
  BY <1>2, <1>3, <1>6 DEF IInv

(* The invariant is inductive: one lemma per action above.                 *)
LEMMA StepKeeps ==
  ASSUME IInv, [Next]_chainVars
  PROVE  IInv'
<1>1. CASE Update
  BY <1>1, UpdateKeeps
<1>2. ASSUME NEW w \in Workers, Worker(w)
      PROVE  IInv'
  <2>1. CASE Dequeue(w)
    BY <2>1, DequeueKeeps
  <2>2. CASE UnsetNextOrder(w)
    BY <2>2, UnsetNextOrderKeeps
  <2>3. CASE UnsetNextSum(w)
    BY <2>3, UnsetNextSumKeeps
  <2>4. CASE WaitOrder(w)
    BY <2>4, WaitOrderKeeps
  <2>5. CASE UnsetOwnOrder(w)
    BY <2>5, UnsetOwnOrderKeeps
  <2>6. CASE SetOrder(w)
    BY <2>6, SetOrderKeeps
  <2>7. CASE WaitSum(w)
    BY <2>7, WaitSumKeeps
  <2>8. CASE UnsetOwnSum(w)
    BY <2>8, UnsetOwnSumKeeps
  <2>9. CASE SetSum(w)
    BY <2>9, SetSumKeeps
  <2>10. CASE Insert(w) \/ Copy(w) \/ Load(w) \/ Sum(w)
    BY <2>10, ComputeKeeps
  <2>11. QED
    BY <1>2, <2>1, <2>2, <2>3, <2>4, <2>5, <2>6, <2>7, <2>8, <2>9, <2>10 DEF Worker
<1>3. CASE UNCHANGED chainVars
  <2>1. /\ RingInOrder' /\ WindowOfTwo' /\ GatesHold'
    BY <1>3 DEF chainVars, IInv, RingInOrder, WindowOfTwo, GatesHold, Holds, Taken
  <2>2. /\ OrderLocked' /\ NextOrderLocked' /\ SumLocked' /\ NextSumLocked'
        /\ OrderReleased' /\ LastOrderReleased' /\ SumReleased' /\ LastSumReleased'
    BY <1>3
    DEF chainVars, IInv, FlagsTruthful, OrderLocked, NextOrderLocked, SumLocked, NextSumLocked,
        OrderReleased, LastOrderReleased, SumReleased, LastSumReleased,
        IsInserted, IsSummed, Holds, Taken, Own
  <2>3. TypeOK'
    BY TypeOKInductive DEF IInv
  <2>4. QED
    BY <2>1, <2>2, <2>3 DEF IInv, FlagsTruthful
<1>4. CASE Drained
  BY <1>3, <1>4 DEF Drained
<1>5. QED
  BY <1>1, <1>2, <1>3, <1>4 DEF Next
-----------------------------------------------------------------------------
(* With at most two workers and at least four slots, the flags tell the    *)
(* truth in every reachable state: the inductive invariant of the flags    *)
(* (worker.cc:209-218, table.h:31-92, sync.h).                             *)
THEOREM FlagsAreTruthful == Spec => []IInv
<1>1. Init => IInv
  BY InitEstablishes
<1>2. IInv /\ [Next]_chainVars => IInv'
  BY StepKeeps
<1>3. QED
  BY <1>1, <1>2, PTL DEF Spec

(* The types of the state, for any number of workers and any sizes.        *)
THEOREM TypeCorrect == Spec => []TypeOK
<1>1. Init => TypeOK
  BY SizesAssumption, ChainAssumption
  DEF Init, SyncInit, TypeOK, SyncTypeOK, Slots, Stages
<1>2. TypeOK /\ [Next]_chainVars => TypeOK'
  BY TypeOKInductive
<1>3. QED
  BY <1>1, <1>2, PTL DEF Spec

(* Two workers insert the updates into the books in the order of the calls *)
(* of Update(): "Wait until previous data is inserted" (table.h:19).       *)
THEOREM InsertionOrder == Spec => []InsertionInOrder
<1>1. IInv => InsertionInOrder
  <2> SUFFICES ASSUME IInv, NEW w \in Workers, pc[w] \in InsertCS,
                      NEW n \in 0 .. local_data[w] - 1
               PROVE  IsInserted(n)
    BY DEF InsertionInOrder
  <2>1. /\ pc[w] # "dequeue" /\ pc[w] \notin BeforeInsertCS
        /\ local_data[w] \in {Taken - 1, Taken - 2}
        /\ Taken \in Int /\ n \in Int /\ n < Taken
    BY Near DEF InsertCS, BeforeInsertCS
  <2>2. SUFFICES ASSUME NEW v \in Workers, Holds(v, n)
                 PROVE  pc[v] \notin NotInserted
    BY <2>1 DEF IsInserted
  <2>3. n = local_data[w] - 1
    BY <2>1, <2>2, Near DEF Holds
  <2>4. QED
    BY <2>1, <2>2, <2>3 DEF IInv, GatesHold
<1>2. QED
  BY <1>1, FlagsAreTruthful, PTL

(* And they change the running sum in that order: "Wait until previous     *)
(* threads store their sums" (worker.cc:134).                              *)
THEOREM SumOrder == Spec => []SumInOrder
<1>1. IInv => SumInOrder
  <2> SUFFICES ASSUME IInv, NEW w \in Workers, pc[w] \in SumCS,
                      NEW n \in 0 .. local_data[w] - 1
               PROVE  IsSummed(n)
    BY DEF SumInOrder
  <2>1. /\ pc[w] # "dequeue"
        /\ local_data[w] \in {Taken - 1, Taken - 2}
        /\ Taken \in Int /\ n \in Int /\ n < Taken
    BY Near DEF SumCS
  <2>2. SUFFICES ASSUME NEW v \in Workers, Holds(v, n)
                 PROVE  FALSE
    BY <2>1 DEF IsSummed
  <2>3. n = local_data[w] - 1
    BY <2>1, <2>2, Near DEF Holds
  <2>4. QED
    BY <2>1, <2>2, <2>3 DEF IInv, GatesHold
<1>2. QED
  BY <1>1, FlagsAreTruthful, PTL

(* A worker that spins on a flag finds it unlocked as soon as the previous *)
(* update is done: no release is overwritten before it was seen.           *)
THEOREM ReleaseIsSeen == Spec => []NoLostRelease
<1>1. IInv => NoLostRelease
  <2> SUFFICES ASSUME IInv, NEW w \in Workers
               PROVE  /\ pc[w] = "wait_order" /\ IsInserted(local_data[w] - 1)
                            => wait_until_set_order(prev_index(Own(w)))
                      /\ pc[w] = "wait_sum" /\ IsSummed(local_data[w] - 1)
                            => wait_until_set_order_sum(prev_index(Own(w)))
    BY DEF NoLostRelease
  <2>1. prev_index(Own(w)) = OrderIndex(local_data[w] - 1)
    BY Near, SlotFacts DEF Own
  <2>2. QED
    BY <2>1 DEF IInv, FlagsTruthful, OrderReleased, SumReleased, BeforeInsertCS, SumCS,
                wait_until_set_order, wait_until_set_order_sum
<1>2. QED
  BY <1>1, FlagsAreTruthful, PTL
-----------------------------------------------------------------------------
(***************************************************************************)
(* The chain of flags implements the two-stage pipeline: whatever the      *)
(* threads do between two flag accesses, what is visible of them are the   *)
(* steps of Pipeline.                                                      *)
(***************************************************************************)
Inserted == {n \in 0 .. issued - 1 : IsInserted(n)}
Summed == {n \in 0 .. issued - 1 : IsSummed(n)}

(* What an observer of the pipeline sees is left alone.                    *)
Invisible ==
  /\ issued' = issued
  /\ Inserted' = Inserted
  /\ Summed' = Summed

(* An update number in range is an integer; only taken updates count.      *)
LEMMA VisibleUpdates ==
  ASSUME IInv
  PROVE  /\ issued \in Nat /\ Taken \in Int /\ Taken <= issued
         /\ Inserted = {n \in 0 .. Taken - 1 : IsInserted(n)}
         /\ Summed = {n \in 0 .. Taken - 1 : IsSummed(n)}
         /\ Summed \subseteq Inserted
<1>1. issued \in Nat /\ Taken \in Int /\ Taken <= issued
  <2>1. ring \in Seq(0 .. Count - 1) /\ issued \in Nat
    BY ChainAssumption DEF IInv, TypeOK
  <2>2. Len(ring) \in Nat
    BY <2>1
  <2>3. QED
    BY <2>1, <2>2 DEF Taken
<1>2. \A n \in Int : /\ IsInserted(n) => n < Taken
                     /\ IsSummed(n) => n < Taken /\ IsInserted(n)
  BY DEF IsInserted, IsSummed, NotInserted
<1>3. QED
  BY <1>1, <1>2 DEF Inserted, Summed

(* The steps within one update that neither end its insertion nor its sum. *)
LEMMA MiddleInvisible ==
  ASSUME IInv, NEW w \in Workers,
         \/ UnsetNextOrder(w) \/ UnsetNextSum(w) \/ WaitOrder(w) \/ UnsetOwnOrder(w)
         \/ Insert(w) \/ Copy(w) \/ Load(w)
         \/ WaitSum(w) \/ UnsetOwnSum(w) \/ Sum(w)
  PROVE  Invisible
<1>1. PICK from \in Stages \ {"dequeue"}, to \in Stages \ {"dequeue"} :
        /\ Goto(w, from, to) /\ UNCHANGED <<issued, ring, local_data>>
        /\ from \in NotInserted <=> to \in NotInserted
  BY DEF UnsetNextOrder, UnsetNextSum, WaitOrder, UnsetOwnOrder, Insert, Copy, Load,
         WaitSum, UnsetOwnSum, Sum, Stages, NotInserted, syncVars
<1>2. /\ \A n \in Int : IsInserted(n)' <=> IsInserted(n)
      /\ \A n \in Int : IsSummed(n)' <=> IsSummed(n)
  BY <1>1, MiddleStep DEF Moved
<1>3. issued' = issued /\ issued \in Nat
  BY <1>1, VisibleUpdates
<1>4. QED
  BY <1>2, <1>3 DEF Invisible, Inserted, Summed

(* Taking an update out of the ring shows nothing: it is neither inserted  *)
(* nor summed yet.                                                         *)
LEMMA DequeueInvisible ==
  ASSUME IInv, NEW w \in Workers, Dequeue(w)
  PROVE  Invisible
<1>1. /\ pc[w] = "dequeue" /\ pc'[w] = "unset_next_order"
      /\ \A v \in Workers : v # w => pc'[v] = pc[v] /\ local_data'[v] = local_data[v]
      /\ issued' = issued /\ issued \in Nat
  BY VisibleUpdates DEF Dequeue, Goto, IInv, TypeOK
<1>2. Taken' = Taken + 1 /\ local_data'[w] = Taken /\ Taken \in Int
  <2>1. /\ ring \in Seq(Int) /\ ring # << >> /\ ring' = Tail(ring)
        /\ local_data'[w] = ring[1]
    BY ChainAssumption DEF Dequeue, RingEmpty, IInv, TypeOK
  <2>2. Len(ring) \in Nat /\ Len(ring) >= 1 /\ Len(ring') = Len(ring) - 1
    BY <2>1
  <2>3. Taken' = Taken + 1 /\ Taken \in Int
    BY <1>1, <2>2 DEF Taken
  <2>4. QED
    BY <2>1, <2>2, <2>3 DEF IInv, RingInOrder
<1>3. \A n \in Int : (IsInserted(n)' <=> IsInserted(n)) /\ (IsSummed(n)' <=> IsSummed(n))
  <2> SUFFICES ASSUME NEW n \in Int
               PROVE  (IsInserted(n)' <=> IsInserted(n)) /\ (IsSummed(n)' <=> IsSummed(n))
    OBVIOUS
  <2>1. CASE n < Taken
    BY <1>1, <1>2, <2>1 DEF IsInserted, IsSummed, Holds
  <2>2. CASE n = Taken
    BY <1>1, <1>2, <2>2 DEF IsInserted, IsSummed, Holds, NotInserted
  <2>3. CASE n > Taken
    BY <1>2, <2>3 DEF IsInserted, IsSummed
  <2>4. QED
    BY <1>2, <2>1, <2>2, <2>3
<1>4. QED
  BY <1>1, <1>3 DEF Invisible, Inserted, Summed
-----------------------------------------------------------------------------
(* Releasing the flag of the insertion is the step that makes an update    *)
(* visible in its book: it is the next one of all.                         *)
LEMMA SetOrderInserts ==
  ASSUME IInv, NEW w \in Workers, SetOrder(w)
  PROVE  \E n \in 0 .. issued - 1 : PipelineOf!Insert(n)
<1> DEFINE n == local_data[w]
<1>1. /\ Moved(w, "set_order", "copy")
      /\ issued' = issued
  BY MiddleStep DEF SetOrder, Stages
<1>2. /\ n \in Int /\ n >= 0 /\ n < Taken /\ Taken \in Int /\ Taken <= issued /\ issued \in Nat
      /\ pc[w] = "set_order"
  BY <1>1, Near, VisibleUpdates DEF Moved, IInv, WindowOfTwo
<1>3. Holds(w, n) /\ ~IsInserted(n)
  BY <1>2 DEF IsInserted, Holds, NotInserted
<1>4. \A m \in Int : m = n => IsInserted(m)'
  <2>1. \A v \in Workers : v # w => ~Holds(v, n)
    BY <1>2 DEF IInv, WindowOfTwo
  <2>2. \A v \in Workers, m \in Int : m = n /\ Holds(v, m)' => v = w
    BY <1>1, <1>2, <2>1 DEF Moved
  <2>3. n < Taken'
    BY <1>1, <1>2 DEF Moved
  <2>4. pc'[w] \notin NotInserted
    BY <1>1 DEF Moved, NotInserted
  <2>5. QED
    BY <2>2, <2>3, <2>4 DEF IsInserted
<1>5. \A m \in Int : m # n => (IsInserted(m)' <=> IsInserted(m))
  <2>1. \A m \in Int, v \in Workers : m # n /\ Holds(v, m) => v # w
    BY DEF Holds
  <2>2. \A m \in Int, v \in Workers : v # w => pc'[v] = pc[v]
    BY <1>1 DEF Moved
  <2>3. QED
    BY <1>1, <2>1, <2>2 DEF IsInserted, Moved
<1>6. \A m \in Int : IsSummed(m)' <=> IsSummed(m)
  BY <1>1 DEF Moved
<1>7. \A m \in 0 .. n - 1 : IsInserted(m)
  <2> SUFFICES ASSUME NEW m \in 0 .. n - 1, NEW v \in Workers, Holds(v, m)
               PROVE  pc[v] \notin NotInserted
    BY <1>2 DEF IsInserted
  <2>1. m = n - 1
    BY <1>2, Near DEF Holds
  <2>2. QED
    BY <1>2, <2>1 DEF IInv, GatesHold, BeforeInsertCS
<1> HIDE DEF n
<1>8. Inserted' = Inserted \cup {n}
  BY <1>1, <1>2, <1>4, <1>5 DEF Inserted
<1>9. Summed' = Summed
  BY <1>1, <1>2, <1>6 DEF Summed
<1>10. n \notin Inserted /\ 0 .. n - 1 \subseteq Inserted /\ n \in 0 .. issued - 1
  BY <1>2, <1>3, <1>7 DEF Inserted
<1>11. PipelineOf!Insert(n)
  BY <1>1, <1>8, <1>9, <1>10 DEF PipelineOf!Insert, Inserted, Summed
<1>12. QED
  BY <1>10, <1>11

(* Releasing the flag of the sum makes the sum visible, in turn as well.   *)
LEMMA SetSumSums ==
  ASSUME IInv, NEW w \in Workers, SetSum(w)
  PROVE  \E n \in 0 .. issued - 1 : PipelineOf!Sum(n)
<1> DEFINE n == local_data[w]
<1>1. /\ pc[w] = "set_sum" /\ pc'[w] = "dequeue"
      /\ \A v \in Workers : v # w => pc'[v] = pc[v]
      /\ local_data' = local_data /\ issued' = issued /\ Taken' = Taken
  BY DEF SetSum, Goto, IInv, TypeOK, Taken
<1>2. /\ n \in Int /\ n >= 0 /\ n < Taken /\ Taken \in Int /\ Taken <= issued /\ issued \in Nat
  BY <1>1, Near, VisibleUpdates DEF IInv, WindowOfTwo
<1>3. \A m \in Int, v \in Workers : Holds(v, m)' <=> v # w /\ Holds(v, m)
  BY <1>1 DEF Holds
<1>4. Holds(w, n) /\ \A v \in Workers : v # w => ~Holds(v, n)
  BY <1>1 DEF Holds, IInv, WindowOfTwo
<1>5. IsInserted(n) /\ ~IsSummed(n)
  BY <1>1, <1>2, <1>4 DEF IsInserted, IsSummed, NotInserted
<1>6. \A m \in Int : m = n => IsSummed(m)'
  BY <1>1, <1>2, <1>3, <1>4 DEF IsSummed
<1>7. \A m \in Int : m # n => (IsSummed(m)' <=> IsSummed(m))
  <2>1. \A m \in Int : m # n => ~Holds(w, m)
    BY DEF Holds
  <2>2. QED
    BY <1>1, <1>3, <2>1 DEF IsSummed
<1>8. \A m \in Int : IsInserted(m)' <=> IsInserted(m)
  <2>1. pc[w] \notin NotInserted
    BY <1>1 DEF NotInserted
  <2>2. \A v \in Workers : v # w => pc'[v] = pc[v]
    BY <1>1
  <2>3. QED
    BY <1>1, <1>3, <2>1, <2>2 DEF IsInserted
<1>9. \A m \in 0 .. n - 1 : IsSummed(m)
  <2> SUFFICES ASSUME NEW m \in 0 .. n - 1, NEW v \in Workers, Holds(v, m)
               PROVE  FALSE
    BY <1>2 DEF IsSummed
  <2>1. m = n - 1
    BY <1>1, <1>2, Near DEF Holds
  <2>2. QED
    BY <1>1, <2>1 DEF IInv, GatesHold, SumCS
<1> HIDE DEF n
<1>10. Summed' = Summed \cup {n}
  BY <1>1, <1>2, <1>6, <1>7 DEF Summed
<1>11. Inserted' = Inserted
  BY <1>1, <1>2, <1>8 DEF Inserted
<1>12. n \in Inserted \ Summed /\ 0 .. n - 1 \subseteq Summed /\ n \in 0 .. issued - 1
  BY <1>2, <1>5, <1>9 DEF Summed, Inserted
<1>13. PipelineOf!Sum(n)
  BY <1>1, <1>10, <1>11, <1>12 DEF PipelineOf!Sum, Inserted, Summed
<1>14. QED
  BY <1>12, <1>13
-----------------------------------------------------------------------------
(* One worker or two.                                                      *)
LEMMA WorkerCount ==
  \/ Cardinality(Workers) = 1 /\ \A v, w \in Workers : v = w
  \/ Cardinality(Workers) = 2
<1>1. PICK a \in Workers : TRUE
  BY ChainAssumption
<1>2. CASE Workers = {a}
  <2>1. Cardinality({a}) = 1
    BY FS_Singleton
  <2>2. QED
    BY <1>2, <2>1
<1>3. CASE Workers # {a}
  <2>1. PICK b \in Workers : b # a
    BY <1>1, <1>3
  <2>2. Workers = {a} \cup {b}
    BY <2>1, TwoWorkersAssumption
  <2>3. IsFiniteSet({a}) /\ Cardinality({a}) = 1
    BY FS_Singleton
  <2>4. Cardinality({a} \cup {b}) = 1 + 1
    BY <2>1, <2>3, FS_AddElement
  <2>5. QED
    BY <2>2, <2>4
<1>4. QED
  BY <1>2, <1>3

(* The summed updates are the first k ones, and k falls short of the calls *)
(* by no more than the ring and the workers can hold.                      *)
LEMMA SummedIsPrefix ==
  ASSUME IInv
  PROVE  \E k \in 0 .. issued :
           /\ \A n \in 0 .. issued - 1 : IsSummed(n) <=> n < k
           /\ issued - k <= BUFFER_SIZE - 1 + Cardinality(Workers)
<1> DEFINE C == Cardinality(Workers)
<1>1. /\ issued \in Nat /\ Taken \in Int /\ BUFFER_SIZE \in Nat /\ C \in {1, 2}
  BY VisibleUpdates, WorkerCount, ChainAssumption
<1>2. Taken >= issued - (BUFFER_SIZE - 1) /\ Taken <= issued
  <2>1. Len(ring) \in Nat /\ Len(ring) <= BUFFER_SIZE - 1
    <3>1. ring \in Seq(0 .. Count - 1)
      BY DEF IInv, TypeOK
    <3>2. QED
      BY <3>1 DEF IInv, TypeOK
  <2>2. QED
    BY <1>1, <2>1 DEF Taken
<1>3. Taken >= 0
  <2>1. CASE ring = << >>
    BY <1>1, <2>1 DEF Taken
  <2>2. CASE ring # << >>
    <3>1. ring \in Seq(Nat)
      BY ChainAssumption DEF IInv, TypeOK
    <3>2. Len(ring) \in Nat /\ Len(ring) >= 1 /\ ring[1] \in Nat
      BY <2>2, <3>1
    <3>3. ring[1] = Taken
      BY <1>1, <3>2 DEF IInv, RingInOrder
    <3>4. QED
      BY <3>2, <3>3
  <2>3. QED
    BY <2>1, <2>2
<1> HIDE DEF C
<1>4. CASE \E w \in Workers : Holds(w, Taken - 2)
  <2>1. PICK w \in Workers : Holds(w, Taken - 2)
    BY <1>4
  <2>2. PICK v \in Workers : Holds(v, Taken - 1)
    BY <2>1 DEF IInv, WindowOfTwo
  <2>3. v # w
    BY <1>1, <2>1, <2>2 DEF Holds
  <2>4. C = 2
    BY <2>3, WorkerCount DEF C
  <2>5. Taken - 2 >= 0
    BY <1>1, <2>1 DEF Holds, IInv, WindowOfTwo
  <2>6. \A n \in 0 .. issued - 1 : IsSummed(n) <=> n < Taken - 2
    BY <1>1, <2>1, <2>2, Near DEF IsSummed, Holds
  <2>7. QED
    BY <1>1, <1>2, <2>4, <2>5, <2>6 DEF C
<1>5. CASE ~(\E w \in Workers : Holds(w, Taken - 2)) /\ \E w \in Workers : Holds(w, Taken - 1)
  <2>1. PICK w \in Workers : Holds(w, Taken - 1)
    BY <1>5
  <2>2. Taken - 1 >= 0
    BY <1>1, <2>1 DEF Holds, IInv, WindowOfTwo
  <2>3. \A n \in 0 .. issued - 1 : IsSummed(n) <=> n < Taken - 1
    BY <1>1, <1>5, <2>1, Near DEF IsSummed, Holds
  <2>4. QED
    BY <1>1, <1>2, <2>2, <2>3 DEF C
<1>6. CASE \A w \in Workers : ~Holds(w, Taken - 2) /\ ~Holds(w, Taken - 1)
  <2>1. \A n \in 0 .. issued - 1 : IsSummed(n) <=> n < Taken
    BY <1>1, <1>6, Near DEF IsSummed, Holds
  <2>2. QED
    BY <1>1, <1>2, <1>3, <2>1 DEF C
<1>7. QED
  BY <1>4, <1>5, <1>6

(* A call of Update() returns only when the update as far back as the ring *)
(* and the workers together can hold has its sum stored.                   *)
LEMMA UpdateIssues ==
  ASSUME IInv, Update
  PROVE  PipelineOf!Issue
<1> DEFINE C == Cardinality(Workers)
           Depth == BUFFER_SIZE - 1 + C
           n == issued - Depth
<1>1. /\ issued \in Nat /\ Taken \in Int /\ BUFFER_SIZE \in Nat /\ C \in {1, 2}
      /\ issued < Count /\ issued' = issued + 1
      /\ pc' = pc /\ local_data' = local_data
  BY VisibleUpdates, WorkerCount, ChainAssumption DEF Update
<1>2. Taken' = Taken /\ Taken > issued - (BUFFER_SIZE - 1)
  <2>1. ring \in Seq(Int) /\ ring' = Append(ring, issued) /\ issued \in Int
    BY ChainAssumption DEF Update, IInv, TypeOK
  <2>2. Len(ring) \in Nat /\ Len(ring') = Len(ring) + 1
    BY <2>1
  <2>3. Len(ring) < BUFFER_SIZE - 1
    BY <1>1, <2>2 DEF Update, RingFull
  <2>4. QED
    BY <1>1, <2>2, <2>3 DEF Taken
<1>3. n < Taken - C
  BY <1>1, <1>2
<1>4. n \in Int /\ (issued >= Depth => n \in 0 .. issued - 1)
  BY <1>1, ChainAssumption
<1> HIDE DEF n, C
<1>5. ASSUME NEW w \in Workers, Holds(w, n)
      PROVE  FALSE
  <2>1. pc[w] # "dequeue" /\ n = Taken - 2 /\ C = 1
    BY <1>1, <1>3, <1>4, <1>5, Near DEF Holds
  <2>2. PICK v \in Workers : Holds(v, Taken - 1)
    BY <1>5, <2>1 DEF IInv, WindowOfTwo
  <2>3. v = w
    BY <2>1, WorkerCount DEF C
  <2>4. QED
    BY <1>1, <1>5, <2>1, <2>2, <2>3 DEF Holds
<1>6. IsSummed(n)
  BY <1>1, <1>3, <1>4, <1>5 DEF IsSummed
<1>7. issued < Depth \/ n \in Summed
  BY <1>1, <1>4, <1>6, ChainAssumption DEF Summed
<1>8. \A m : (IsInserted(m)' <=> IsInserted(m)) /\ (IsSummed(m)' <=> IsSummed(m))
  BY <1>1, <1>2 DEF IsInserted, IsSummed, Holds
<1>9. Inserted' = Inserted /\ Summed' = Summed
  <2>1. ~IsInserted(issued) /\ ~IsSummed(issued)
    BY VisibleUpdates DEF IsInserted, IsSummed
  <2>2. QED
    BY <1>1, <1>8, <2>1 DEF Inserted, Summed
<1>10. QED
  BY <1>1, <1>7, <1>9 DEF PipelineOf!Issue, Inserted, Summed, n, C
-----------------------------------------------------------------------------
(* The locks implement the pipeline: the updates become visible in the     *)
(* books and in the sums in the order of the calls of Update(), each after *)
(* all the earlier ones, with a bounded backlog (worker.cc, table.h,       *)
(* sync.h).                                                                *)
THEOREM ChainImplementsPipeline == Spec => ImplementsPipeline
<1>1. Init => PipelineOf!Init
  <2> SUFFICES ASSUME Init
               PROVE  PipelineOf!Init
    OBVIOUS
  <2>1. issued = 0 /\ \A n : n \notin 0 .. issued - 1
    BY DEF Init
  <2>2. QED
    BY <2>1 DEF PipelineOf!Init
<1>2. IInv /\ [Next]_chainVars => [PipelineOf!Next]_(PipelineOf!vars)
  <2> SUFFICES ASSUME IInv, [Next]_chainVars
               PROVE  [PipelineOf!Next]_(PipelineOf!vars)
    OBVIOUS
  <2>1. Invisible => UNCHANGED PipelineOf!vars
    BY DEF Invisible, PipelineOf!vars, Inserted, Summed
  <2>2. CASE Update
    BY <2>2, UpdateIssues DEF PipelineOf!Next
  <2>3. ASSUME NEW w \in Workers, Worker(w)
        PROVE  [PipelineOf!Next]_(PipelineOf!vars)
    <3>1. CASE SetOrder(w)
      BY <3>1, SetOrderInserts DEF PipelineOf!Next
    <3>2. CASE SetSum(w)
      BY <3>2, SetSumSums DEF PipelineOf!Next
    <3>3. CASE Dequeue(w)
      BY <2>1, <3>3, DequeueInvisible
    <3>4. CASE \/ UnsetNextOrder(w) \/ UnsetNextSum(w) \/ WaitOrder(w) \/ UnsetOwnOrder(w)
               \/ Insert(w) \/ Copy(w) \/ Load(w)
               \/ WaitSum(w) \/ UnsetOwnSum(w) \/ Sum(w)
      BY <2>1, <3>4, MiddleInvisible
    <3>5. QED
      BY <2>3, <3>1, <3>2, <3>3, <3>4 DEF Worker
  <2>4. CASE Drained \/ UNCHANGED chainVars
    BY <2>1, <2>4
    DEF Drained, chainVars, Invisible, Inserted, Summed, IsInserted, IsSummed, Holds, Taken
  <2>5. QED
    BY <2>2, <2>3, <2>4 DEF Next
<1>3. QED
  BY <1>1, <1>2, FlagsAreTruthful, PTL DEF Spec, ImplementsPipeline, PipelineOf!Spec
=============================================================================
