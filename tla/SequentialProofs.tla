-------------------------- MODULE SequentialProofs --------------------------
(***************************************************************************)
(* What the processor computes, for every set of instruments, prices and   *)
(* volumes, every size of ring and histories and every number of updates:  *)
(*  - the running sum is the ledger of the values behind the results, so   *)
(*    every share is more than 0 and at most 1, whatever prices were read; *)
(*  - unless two workers are at work on successive calls for one           *)
(*    instrument, the histories show what the calls made of the books, and *)
(*    the results are those of the sequential processor;                   *)
(*  - a single worker implements the sequential processor.                 *)
(* The inductive invariants are those of Histories.                        *)
(***************************************************************************)
EXTENDS Histories, ProcessorProofs, SequenceTheorems

(* The calls recorded so far stay as they are.                             *)
LEMMA DataGrows ==
  ASSUME ProcTypeOK, [ProcNext]_vars
  PROVE  /\ issued \in Nat /\ issued' \in Nat /\ issued <= issued'
         /\ \A m \in 1 .. issued : data'[m] = data[m]
<1> DEFINE R == [input : Inputs, specific_index : SpecificSlots]
<1>1. data \in Seq(R) /\ issued = Len(data)
  BY DEF ProcTypeOK
<1>2. data' = data \/ \E r : data' = Append(data, r)
  BY DEF ProcNext, ProcUpdate, ProcDrained, vars, ProcWorker, Synchronise, ReadKeptPrice,
     InsertBid, InsertAsk, CopyAsk, CopyBidPrice, CopyBidVolume, ProcLoad,
     compute_return_fp_i, history_shift
<1>3. data' \in Seq(R) /\ issued' = Len(data')
  BY DataKept DEF DataOK
<1> HIDE DEF R
<1>4. /\ Len(data) <= Len(data') /\ Len(data) \in Nat /\ Len(data') \in Nat
      /\ \A m \in 1 .. Len(data) : data'[m] = data[m]
  BY <1>1, <1>2, <1>3
<1>5. QED
  BY <1>1, <1>3, <1>4

(* What is recorded of a call.                                             *)
LEMMA CallFacts ==
  ASSUME ProcTypeOK, NEW m \in 1 .. issued
  PROVE  /\ Calls[m] = data[m].input
         /\ data[m].input.instrument \in Instruments
         /\ data[m].input.side \in {"bid", "ask"}
         /\ data[m].specific_index \in SpecificSlots
<1> DEFINE R == [input : Inputs, specific_index : SpecificSlots]
<1>1. data \in Seq(R) /\ m \in 1 .. Len(data)
  BY DEF ProcTypeOK
<1>2. Calls[m] = data[m].input
  BY <1>1 DEF Calls
<1> HIDE DEF R
<1>3. data[m] \in R
  BY <1>1
<1>4. data[m].input \in Inputs /\ data[m].specific_index \in SpecificSlots
  BY <1>3 DEF R
<1>5. QED
  BY <1>2, <1>4, InputsAssumption

(* The last of some calls is one of them.                                  *)
LEMMA LastOfCalls ==
  ASSUME NEW n \in Nat, NEW i, CallsOf(n, i) # {}
  PROVE  /\ Max(CallsOf(n, i)) \in CallsOf(n, i)
         /\ \A m \in CallsOf(n, i) : m <= Max(CallsOf(n, i))
<1> DEFINE S == CallsOf(n, i)
<1>1. S \in SUBSET (0 .. n) /\ S # {} /\ S \subseteq Int
  BY DEF CallsOf
<1> HIDE DEF S
<1>2. Max(S) \in S /\ \A y \in S : Max(S) >= y
  BY <1>1, GreatestIsMax
<1>3. QED
  BY <1>1, <1>2 DEF S

(* A further call leaves what is said of the earlier ones alone.           *)
LEMMA EarlierSlots ==
  ASSUME NEW n \in Nat, \A m \in 1 .. n : data'[m] = data[m], NEW i
  PROVE  /\ CallsOf(n, i)' = CallsOf(n, i)
         /\ NextSlot(n, i)' = NextSlot(n, i)
         /\ LastSlot(n, i)' = LastSlot(n, i)
<1>1. CallsOf(n, i)' = CallsOf(n, i)
  BY DEF CallsOf
<1>2. CallsOf(n, i) # {} => data'[Max(CallsOf(n, i))] = data[Max(CallsOf(n, i))]
  BY LastOfCalls DEF CallsOf
<1>3. NextSlot(n, i)' = NextSlot(n, i)
  BY <1>1, <1>2 DEF NextSlot
<1>4. QED
  BY <1>1, <1>3 DEF LastSlot

(* The next call is its instrument's last one, and no other's.             *)
NextCallIs(n, i) ==
  IF data[n + 1].input.instrument = i
  THEN /\ CallsOf(n + 1, i) = CallsOf(n, i) \cup {n + 1}
       /\ Max(CallsOf(n + 1, i)) = n + 1
       /\ NextSlot(n + 1, i) = (data[n + 1].specific_index + 1) % SPECIFIC_HISTORY_SIZE
  ELSE /\ CallsOf(n + 1, i) = CallsOf(n, i)
       /\ NextSlot(n + 1, i) = NextSlot(n, i)

LEMMA NextCall == \A n \in Nat : \A i : NextCallIs(n, i)
<1> SUFFICES ASSUME NEW n \in Nat, NEW i
             PROVE  NextCallIs(n, i)
  OBVIOUS
<1>1. 1 .. n + 1 = (1 .. n) \cup {n + 1}
  OBVIOUS
<1>2. CASE data[n + 1].input.instrument = i
  <2>1. CallsOf(n + 1, i) = CallsOf(n, i) \cup {n + 1}
    BY <1>1, <1>2 DEF CallsOf
  <2>2. CallsOf(n, i) \subseteq 1 .. n
    BY DEF CallsOf
  <2>3. Max(CallsOf(n + 1, i)) = n + 1
    <3> HIDE DEF CallsOf
    <3>1. \A m \in CallsOf(n + 1, i) : m \in Int /\ n + 1 >= m
      BY <2>1, <2>2
    <3>2. n + 1 \in CallsOf(n + 1, i)
      BY <2>1
    <3>3. QED
      BY <3>1, <3>2 DEF Max
  <2>4. QED
    BY <1>2, <2>1, <2>3 DEF NextSlot, NextCallIs
<1>3. CASE data[n + 1].input.instrument # i
  <2>1. CallsOf(n + 1, i) = CallsOf(n, i)
    BY <1>1, <1>3 DEF CallsOf
  <2>2. QED
    BY <1>3, <2>1 DEF NextSlot, NextCallIs
<1>4. QED
  BY <1>2, <1>3

LEMMA NextCallAfter == \A n \in Nat : \A i : NextCallIs(n, i)'
<1>1. (\A n \in Nat : \A i : NextCallIs(n, i))'
  BY NextCall, PTL
<1>2. QED
  BY <1>1

(* The slots of an instrument are given out in turn.                       *)
LEMMA SlotsInTurnKept ==
  ASSUME ProcTypeOK, SlotsInTurn, [ProcNext]_vars
  PROVE  SlotsInTurn'
<1>1. /\ issued \in Nat /\ issued' \in Nat /\ issued <= issued'
      /\ \A m \in 1 .. issued : data'[m] = data[m]
  BY DataGrows
<1>2. \A n \in 0 .. issued : \A i : NextSlot(n, i)' = NextSlot(n, i)
  <2> SUFFICES ASSUME NEW n \in 0 .. issued, NEW i
               PROVE  NextSlot(n, i)' = NextSlot(n, i)
    OBVIOUS
  <2>1. n \in Nat /\ \A m \in 1 .. n : data'[m] = data[m]
    BY <1>1
  <2>2. QED
    BY <2>1, EarlierSlots
<1>3. ASSUME NEW m \in 1 .. issued
      PROVE  data'[m].specific_index = NextSlot(m - 1, data[m].input.instrument)'
  <2>1. m - 1 \in 0 .. issued /\ data'[m] = data[m]
    BY <1>1
  <2>2. data[m].specific_index = NextSlot(m - 1, data[m].input.instrument)
    BY DEF SlotsInTurn
  <2>3. QED
    BY <1>2, <2>1, <2>2
<1>4. CASE ProcUpdate
  <2>1. PICK input \in Inputs :
          /\ data' = Append(data, [input |-> input, specific_index |->
                 order_indices_bid[input.instrument] % SPECIFIC_HISTORY_SIZE])
          /\ order_indices_bid' = [order_indices_bid EXCEPT ![input.instrument] = Unsigned(@ + 1)]
    BY <1>4 DEF ProcUpdate
  <2>2. PICK i \in Instruments, c \in Int, n \in Nat :
          i = input.instrument /\ c = order_indices_bid[i] /\ n = issued
    BY <1>1, InputsAssumption, SizesAssumption DEF ProcTypeOK
  <2> DEFINE S == SPECIFIC_HISTORY_SIZE
             k == c % S
  <2>3. issued' = n + 1 /\ n = Len(data)
    BY <1>4, <2>2 DEF ProcUpdate, Update, ProcTypeOK
  <2>4. data'[n + 1] = [input |-> input, specific_index |-> k]
    <3> DEFINE R == [input : Inputs, specific_index : SpecificSlots]
               r == [input |-> input, specific_index |-> k]
    <3>1. data \in Seq(R) /\ data' = Append(data, r)
      BY <2>1, <2>2 DEF ProcTypeOK
    <3> HIDE DEF r, R
    <3>2. data'[Len(data) + 1] = r
      BY <3>1
    <3>3. QED
      BY <2>3, <3>2 DEF r
  <2>5. k = NextSlot(n, i) /\ \A j : NextSlot(n, j)' = NextSlot(n, j)
    BY <1>1, <1>2, <2>2 DEF SlotsInTurn
  <2>6. ASSUME NEW j \in Instruments
        PROVE  order_indices_bid'[j] % S = NextSlot(n + 1, j)'
    <3>1. NextCallIs(n, j)'
      BY NextCallAfter
    <3>2. CASE j = i
      <4>1. NextSlot(n + 1, j)' = (k + 1) % S
        BY <2>2, <2>4, <3>1, <3>2 DEF NextCallIs
      <4>2. order_indices_bid'[j] = (c + 1) % UINT_RANGE
        BY <2>1, <2>2, <3>2 DEF Unsigned, ProcTypeOK
      <4>3. ((c + 1) % UINT_RANGE) % S = (c + 1) % S
        <5>1. c + 1 \in Int
          BY <2>2
        <5>2. QED
          BY <5>1, WrapInvisible, SizesAssumption
      <4>4. (k + 1) % S = (c + 1) % S
        <5>1. PICK e \in Int : e = 1
          OBVIOUS
        <5>2. ((c % S) + e) % S = (c + e) % S
          BY <2>2, <5>1, ModShift, SizesAssumption
        <5>3. QED
          BY <5>1, <5>2
      <4>5. QED
        BY <4>1, <4>2, <4>3, <4>4
    <3>3. CASE j # i
      <4>1. NextSlot(n + 1, j)' = NextSlot(n, j)'
        BY <2>2, <2>4, <3>1, <3>3 DEF NextCallIs
      <4>2. order_indices_bid'[j] = order_indices_bid[j]
        BY <2>1, <2>2, <3>3 DEF ProcTypeOK
      <4>3. QED
        BY <2>2, <2>5, <4>1, <4>2 DEF SlotsInTurn
    <3>4. QED
      BY <3>2, <3>3
  <2>7. ASSUME NEW m \in 1 .. n + 1
        PROVE  data'[m].specific_index = NextSlot(m - 1, data[m].input.instrument)'
    <3>1. CASE m \in 1 .. n
      BY <1>3, <2>2, <3>1
    <3>2. CASE m = n + 1
      <4>1. m - 1 = n
        BY <3>2
      <4>2. NextSlot(m - 1, data[m].input.instrument)' = NextSlot(n, i)'
        BY <2>2, <2>4, <3>2, <4>1
      <4>3. QED
        BY <2>4, <2>5, <3>2, <4>2
    <3>3. QED
      BY <3>1, <3>2
  <2>8. QED
    BY <2>3, <2>6, <2>7 DEF SlotsInTurn
<1>5. ASSUME NEW w \in Workers, ProcWorker(w)
      PROVE  UNCHANGED <<order_indices_bid, issued>>
  BY <1>5 DEF ProcWorker, Synchronise, ReadKeptPrice, InsertBid, InsertAsk,
     CopyAsk, CopyBidPrice, CopyBidVolume, ProcLoad, compute_return_fp_i, history_shift,
     Dequeue, UnsetNextOrder, UnsetNextSum, WaitOrder, UnsetOwnOrder, Insert, SetOrder,
     Copy, Load, WaitSum, UnsetOwnSum, Sum, SetSum, chainVars
<1>6. CASE UNCHANGED <<order_indices_bid, issued>>
  <2>1. \A i \in Instruments : NextSlot(issued, i)' = NextSlot(issued, i)
    BY <1>1, <1>2, <1>6
  <2>2. \A i \in Instruments : order_indices_bid'[i] % SPECIFIC_HISTORY_SIZE = NextSlot(issued, i)'
    BY <1>6, <2>1 DEF SlotsInTurn
  <2>3. QED
    BY <1>3, <1>6, <2>2 DEF SlotsInTurn
<1>7. QED
  BY <1>4, <1>5, <1>6 DEF ProcNext, ProcDrained, vars
-----------------------------------------------------------------------------
(* The updates in hand whose sum is not stored yet.                        *)
Unsummed == {w \in Workers : pc[w] \notin {"dequeue", "set_sum"}}

LEMMA UnsummedCount ==
  ASSUME TypeOK
  PROVE  /\ SumsStored = Taken - Cardinality(Unsummed)
         /\ IsFiniteSet(Unsummed) /\ Cardinality(Unsummed) \in Nat
         /\ SumsStored \in Int /\ SumsStored <= Taken /\ SumsStored <= issued
<1>1. SumsStored = Taken - Cardinality(Unsummed)
  BY DEF SumsStored, Unsummed
<1>2. IsFiniteSet(Unsummed) /\ Cardinality(Unsummed) \in Nat
  BY WorkersFinite, FS_Subset, FS_CardinalityType DEF Unsummed
<1>3. QED
  BY <1>1, <1>2, TakenFacts

(* A worker that has the running sum to itself has the oldest update whose *)
(* sum is not stored, or has just stored it.                               *)
LEMMA StoredInTurn ==
  ASSUME IInv, NEW w \in Workers, pc[w] \in SumCS
  PROVE  local_data[w] = IF pc[w] = "set_sum" THEN SumsStored - 1 ELSE SumsStored
<1>1. /\ Taken \in Int /\ \A v \in Workers : local_data[v] \in Int
      /\ \A v \in Workers : pc[v] # "dequeue" => local_data[v] \in {Taken - 1, Taken - 2}
      /\ TypeOK /\ pc[w] # "dequeue"
  BY Near DEF IInv, SumCS
<1> DEFINE Others == Unsummed \ {w}
<1>2. IsFiniteSet(Others)
  BY <1>1, UnsummedCount, FS_Subset
<1>3. ASSUME local_data[w] = Taken - 1
      PROVE  Cardinality(Others) = 0
  <2>1. ASSUME NEW v \in Others
        PROVE  FALSE
    <3>1. v \in Workers /\ v # w /\ pc[v] # "dequeue" /\ local_data[v] = Taken - 2
      BY <1>1, <1>3, <2>1 DEF IInv, WindowOfTwo, Holds, Unsummed
    <3>2. Holds(v, local_data[w] - 1)
      BY <1>1, <1>3, <3>1 DEF Holds
    <3>3. QED
      BY <1>1, <3>1, <3>2 DEF IInv, GatesHold
  <2>2. Others = {}
    BY <2>1
  <2>3. QED
    BY <2>2, FS_EmptySet
<1>4. ASSUME local_data[w] = Taken - 2
      PROVE  Cardinality(Others) = 1
  <2>1. PICK v \in Workers : Holds(v, Taken - 1)
    BY <1>1, <1>4 DEF IInv, WindowOfTwo, Holds
  <2>2. v # w /\ pc[v] # "dequeue" /\ local_data[v] = Taken - 1
    BY <1>1, <1>4, <2>1 DEF Holds
  <2>3. Holds(w, local_data[v] - 1)
    BY <1>1, <1>4, <2>2 DEF Holds
  <2>4. pc[v] \notin SumCS
    BY <2>2, <2>3 DEF IInv, GatesHold
  <2>5. Others = {v}
    BY <2>2, <2>4, TwoWorkersAssumption DEF Unsummed, SumCS
  <2>6. QED
    BY <2>5, FS_Singleton
<1>5. Cardinality(Others) = Taken - 1 - local_data[w]
  BY <1>1, <1>3, <1>4
<1>6. CASE pc[w] = "set_sum"
  <2>1. Unsummed = Others
    BY <1>6 DEF Unsummed
  <2>2. QED
    BY <1>1, <1>5, <1>6, <2>1, UnsummedCount
<1>7. CASE pc[w] # "set_sum"
  <2>1. w \in Unsummed
    BY <1>1, <1>7 DEF Unsummed
  <2>2. Cardinality(Others) = Cardinality(Unsummed) - 1
    BY <1>1, <2>1, UnsummedCount, FS_RemoveElement
  <2>3. QED
    BY <1>1, <1>5, <1>7, <2>2, UnsummedCount
<1>8. QED
  BY <1>6, <1>7

LEMMA StoredUnlessSummed ==
  ASSUME TypeOK, [Next]_chainVars, \A w \in Workers : ~Sum(w)
  PROVE  SumsStored' = SumsStored
<1>1. ASSUME Taken' = Taken, Unsummed' = Unsummed
      PROVE  SumsStored' = SumsStored
  BY <1>1 DEF SumsStored, Unsummed
<1>2. CASE Update
  <2>1. pc' = pc /\ issued' = issued + 1 /\ ring' = Append(ring, issued)
    BY <1>2 DEF Update
  <2>2. Len(ring') = Len(ring) + 1
    BY <2>1 DEF TypeOK
  <2>3. Taken' = Taken
    BY <2>1, <2>2, TakenFacts DEF Taken
  <2>4. QED
    BY <1>1, <2>1, <2>3 DEF Unsummed
<1>3. ASSUME NEW w \in Workers, Dequeue(w)
      PROVE  SumsStored' = SumsStored
  <2>1. /\ pc[w] = "dequeue" /\ pc'[w] = "unset_next_order"
        /\ \A v \in Workers : v # w => pc'[v] = pc[v]
        /\ issued' = issued
        /\ ring \in Seq(Int) /\ ring # << >> /\ ring' = Tail(ring)
    BY <1>3, ChainAssumption DEF Dequeue, Goto, RingEmpty, TypeOK
  <2>2. Len(ring') = Len(ring) - 1
    BY <2>1
  <2>3. Taken' = Taken + 1
    BY <2>1, <2>2, TakenFacts DEF Taken
  <2>4. Unsummed' = Unsummed \cup {w} /\ w \notin Unsummed
    BY <2>1 DEF Unsummed
  <2>5. Cardinality(Unsummed') = Cardinality(Unsummed) + 1
    BY <2>4, UnsummedCount, FS_AddElement
  <2>6. SumsStored' = Taken' - Cardinality(Unsummed')
    BY DEF SumsStored, Unsummed
  <2>7. QED
    BY <2>3, <2>5, <2>6, UnsummedCount, TakenFacts
<1>4. ASSUME NEW w \in Workers, Worker(w), ~Dequeue(w)
      PROVE  SumsStored' = SumsStored
  <2>1. PICK to : /\ pc' = [pc EXCEPT ![w] = to]
                  /\ UNCHANGED <<issued, ring>>
                  /\ pc[w] \in {"dequeue", "set_sum"} <=> to \in {"dequeue", "set_sum"}
    BY <1>4 DEF Worker, UnsetNextOrder, UnsetNextSum, WaitOrder, UnsetOwnOrder, Insert, SetOrder,
       Copy, Load, WaitSum, UnsetOwnSum, SetSum, Goto
  <2>2. Unsummed' = Unsummed /\ Taken' = Taken
    BY <2>1 DEF Unsummed, Taken, TypeOK
  <2>3. QED
    BY <1>1, <2>2
<1>5. CASE UNCHANGED chainVars
  BY <1>1, <1>5 DEF chainVars, Unsummed, Taken
<1>6. QED
  BY <1>2, <1>3, <1>4, <1>5 DEF Next, Drained

(* A step that changes the sums is that of the oldest update whose sum is  *)
(* not stored yet.                                                         *)
LEMMA StoredBySum ==
  ASSUME IInv, NEW w \in Workers, Sum(w)
  PROVE  /\ pc[w] = "sum" /\ pc'[w] = "set_sum"
         /\ \A v \in Workers : v # w => pc'[v] = pc[v]
         /\ UNCHANGED <<issued, ring, local_data>>
         /\ local_data[w] = SumsStored
         /\ SumsStored' = SumsStored + 1
<1>1. /\ pc[w] = "sum" /\ pc'[w] = "set_sum"
      /\ \A v \in Workers : v # w => pc'[v] = pc[v]
      /\ UNCHANGED <<issued, ring, local_data>>
      /\ TypeOK
  BY DEF Sum, Goto, IInv, TypeOK
<1>2. local_data[w] = SumsStored
  BY <1>1, StoredInTurn DEF SumCS
<1>3. Unsummed' = Unsummed \ {w} /\ w \in Unsummed /\ Taken' = Taken
  BY <1>1 DEF Unsummed, Taken
<1>4. Cardinality(Unsummed') = Cardinality(Unsummed) - 1
  BY <1>1, <1>3, UnsummedCount, FS_RemoveElement
<1>5. SumsStored' = Taken' - Cardinality(Unsummed')
  BY DEF SumsStored, Unsummed
<1>6. QED
  BY <1>1, <1>2, <1>3, <1>4, <1>5, UnsummedCount, TakenFacts
-----------------------------------------------------------------------------
(* The neighbours of a slot: with four slots or more, three different ones.*)
LEMMA Neighbours ==
  ASSUME NEW k \in SpecificSlots
  PROVE  /\ prev_index_spec(k) \in SpecificSlots
         /\ (k + 1) % SPECIFIC_HISTORY_SIZE \in SpecificSlots
         /\ prev_index_spec((k + 1) % SPECIFIC_HISTORY_SIZE) = k
         /\ prev_index_spec(k) # k
         /\ (k + 1) % SPECIFIC_HISTORY_SIZE \notin {k, prev_index_spec(k)}
<1> DEFINE S == SPECIFIC_HISTORY_SIZE
<1>1. S \in Nat /\ S >= 4 /\ k \in Int /\ 0 <= k /\ k <= S - 1
  BY SizesAssumption, HistoriesAssumption, TwoWorkersAssumption DEF SpecificSlots
<1>2. \A j \in 0 .. S - 1 : (j + 1) % S = IF j = S - 1 THEN 0 ELSE j + 1
  <2> HIDE DEF S
  <2>1. \A j \in 0 .. S - 2 : (j + 1) % S = j + 1
    BY <1>1
  <2>2. S % S = 0
    BY <1>1
  <2>3. QED
    BY <1>1, <2>1, <2>2
<1>3. \A j \in 0 .. S - 1 : prev_index_spec((j + 1) % S) = j
  BY LastSlotIsOwn DEF SpecificSlots
<1>4. prev_index_spec(k) = IF k = 0 THEN S - 1 ELSE k - 1
  <2>1. CASE k = 0
    <3>1. S - 1 \in 0 .. S - 1 /\ ((S - 1) + 1) % S = 0
      BY <1>1, <1>2
    <3>2. QED
      BY <1>3, <2>1, <3>1
  <2>2. CASE k # 0
    <3>1. k - 1 \in 0 .. S - 1 /\ ((k - 1) + 1) % S = k
      <4>1. k - 1 \in 0 .. S - 1 /\ k - 1 # S - 1 /\ (k - 1) + 1 = k
        BY <1>1, <2>2
      <4>2. QED
        BY <1>2, <4>1
    <3>2. QED
      BY <1>3, <2>2, <3>1
  <2>3. QED
    BY <2>1, <2>2
<1>5. (k + 1) % S = IF k = S - 1 THEN 0 ELSE k + 1
  BY <1>1, <1>2
<1>6. /\ prev_index_spec(k) # k
      /\ (k + 1) % S \notin {k, prev_index_spec(k)}
  BY <1>1, <1>4, <1>5
<1>7. QED
  BY <1>6, LastSlotIsOwn

(* The last calls of all the instruments, call by call.                    *)
LEMMA LastCallsNext ==
  ASSUME ProcTypeOK, NEW n \in Nat, n + 1 <= issued
  PROVE  LET i == data[n + 1].input.instrument
             last == Max(CallsOf(n, i))
         IN /\ Ideal!LastCalls(n) \subseteq 1 .. n
            /\ n + 1 \notin Ideal!LastCalls(n)
            /\ IF CallsOf(n, i) = {}
               THEN Ideal!LastCalls(n + 1) = Ideal!LastCalls(n) \cup {n + 1}
               ELSE /\ last \in Ideal!LastCalls(n)
                    /\ Ideal!LastCalls(n + 1) =
                         (Ideal!LastCalls(n) \ {last}) \cup {n + 1}
<1> DEFINE i == data[n + 1].input.instrument
           last == Max(CallsOf(n, i))
           LC(m) == Ideal!LastCalls(m)
           inst(m) == data[m].input.instrument
<1>1. issued \in Nat /\ \A m \in 1 .. issued : Calls[m].instrument = inst(m)
  BY TakenFacts, CallFacts DEF ProcTypeOK
<1>2. \A m : m \in LC(n) <=> m \in 1 .. n /\ \A k \in m + 1 .. n : inst(k) # inst(m)
  BY <1>1 DEF Ideal!LastCalls
<1>3. \A m : m \in LC(n + 1) <=>
        m \in 1 .. n + 1 /\ \A k \in m + 1 .. n + 1 : inst(k) # inst(m)
  BY <1>1 DEF Ideal!LastCalls
<1>4. \A m : m \in CallsOf(n, i) <=> m \in 1 .. n /\ inst(m) = inst(n + 1)
  BY DEF CallsOf
<1> HIDE DEF LC, inst
<1>5. LC(n + 1) = {m \in LC(n) : inst(m) # inst(n + 1)} \cup {n + 1}
  BY <1>2, <1>3
<1>6. LC(n) \subseteq 1 .. n /\ n + 1 \notin LC(n)
  BY <1>2
<1>7. CASE CallsOf(n, i) = {}
  BY <1>2, <1>4, <1>5, <1>6, <1>7 DEF LC
<1>8. CASE CallsOf(n, i) # {}
  <2>1. last \in CallsOf(n, i) /\ \A m \in CallsOf(n, i) : m <= last
    BY <1>8, LastOfCalls
  <2> HIDE DEF last, i
  <2>2. last \in 1 .. n /\ inst(last) = inst(n + 1)
    BY <1>4, <2>1
  <2>3. last \in LC(n)
    BY <1>2, <1>4, <2>1, <2>2
  <2>4. ASSUME NEW m \in LC(n), inst(m) = inst(n + 1)
        PROVE  m = last
    BY <1>2, <1>4, <2>1, <2>2, <2>4
  <2>5. LC(n + 1) = (LC(n) \ {last}) \cup {n + 1}
    BY <1>5, <2>2, <2>3, <2>4
  <2>6. QED
    BY <1>6, <1>8, <2>3, <2>5 DEF LC, last, i
<1>9. QED
  BY <1>7, <1>8

(* A sum with one more term.                                               *)
LEMMA AddedTerm ==
  ASSUME NEW S, IsFiniteSet(S), NEW f, NEW g, \A x \in S : f[x] \in Int /\ g[x] = f[x],
         NEW y, y \notin S, g[y] \in Int
  PROVE  /\ SumFunctionOnSet(f, S) \in Int
         /\ SumFunctionOnSet(g, S \cup {y}) = g[y] + SumFunctionOnSet(f, S)
<1> DEFINE T == S \cup {y}
<1>1. IsFiniteSet(T) /\ T \ {y} = S /\ y \in T /\ \A x \in T : g[x] \in Int
  BY FS_AddElement
<1> HIDE DEF T
<1>2. SumFunctionOnSet(g, T) = g[y] + SumFunctionOnSet(g, T \ {y})
  BY <1>1, SumOfParts
<1>3. SumFunctionOnSet(g, S) = SumFunctionOnSet(f, S) /\ SumFunctionOnSet(f, S) \in Int
  BY SumOfSame, SumOfParts
<1>4. SumFunctionOnSet(g, T) = g[y] + SumFunctionOnSet(f, S)
  BY <1>1, <1>2, <1>3
<1>5. QED
  BY <1>3, <1>4 DEF T
-----------------------------------------------------------------------------
(* Results are only added.                                                 *)
LEMMA ResultsGrow ==
  ASSUME ProcIInv, [ProcNext]_vars
  PROVE  \A m \in DOMAIN results : m \in DOMAIN results' /\ results'[m] = results[m]
<1>1. ASSUME NEW w \in Workers, ProcLoad(w) \/ compute_return_fp_i(w)
      PROVE  \/ results' = results
             \/ pc[w] # "dequeue" /\ \E res : Reports(w, res)
  BY <1>1, LoadReports, SumReports DEF ProcIInv
<1>2. ASSUME NEW w \in Workers, pc[w] # "dequeue", NEW res, Reports(w, res)
      PROVE  \A m \in DOMAIN results : m \in DOMAIN results' /\ results'[m] = results[m]
  <2>1. /\ results' \in Seq(ResultType)
        /\ Len(results') = Len(results) + 1 /\ Len(results) \in Nat
        /\ \A m \in 1 .. Len(results) : results'[m] = results[m]
    BY <1>2, ReportKept DEF ProcIInv
  <2>2. DOMAIN results = 1 .. Len(results) /\ DOMAIN results' = 1 .. Len(results')
    BY <2>1 DEF ProcIInv, ProcTypeOK
  <2>3. QED
    BY <2>1, <2>2
<1>3. QED
  BY <1>1, <1>2, Zenon DEF ProcNext, ProcUpdate, ProcDrained, vars, ProcWorker, Synchronise,
     ReadKeptPrice, InsertBid, InsertAsk, CopyAsk, CopyBidPrice, CopyBidVolume, history_shift

(* The result of a call that has one stays the same.                       *)
LEMMA ValuesKept ==
  ASSUME ProcIInv, [ProcNext]_vars, NEW m \in Int, ResultsOf(m - 1) # {}
  PROVE  /\ ResultsOf(m - 1)' = ResultsOf(m - 1)
         /\ ValueOf(m)' = ValueOf(m)
         /\ ValueOf(m) \in Nat
         /\ \E r \in DOMAIN results : /\ results[r].update = m - 1
                                      /\ results'[r] = results[r]
                                      /\ ValueOf(m) = results[r].res.fp
<1>1. ResultsAreOwned'
  BY ProcStepKeeps DEF ProcIInv
<1>2. PICK r \in ResultsOf(m - 1) : TRUE
  OBVIOUS
<1>3. r \in DOMAIN results /\ results[r].update = m - 1
  BY <1>2 DEF ResultsOf
<1>4. r \in DOMAIN results' /\ results'[r] = results[r]
  BY <1>3, ResultsGrow
<1>5. ResultsOf(m - 1) = {r}
  BY <1>3 DEF ResultsOf, ProcIInv, ResultsAreOwned
<1>6. ResultsOf(m - 1)' = {r}
  BY <1>1, <1>3, <1>4 DEF ResultsOf, ResultsAreOwned
<1>7. (CHOOSE x \in {r} : TRUE) = r
  OBVIOUS
<1>8. ValueOf(m) = results[r].res.fp /\ ValueOf(m)' = results'[r].res.fp
  BY <1>5, <1>6, <1>7 DEF ValueOf
<1>9. results[r].res.fp \in Nat
  <2> DEFINE R == [update : 0 .. Count - 1, res : [fp : Nat, sum : Int]]
  <2>1. results \in Seq(R)
    BY DEF ProcIInv, ProcTypeOK
  <2> HIDE DEF R
  <2>2. results[r] \in R
    BY <1>3, <2>1
  <2>3. QED
    BY <2>2 DEF R
<1>10. QED
  BY <1>3, <1>4, <1>5, <1>6, <1>8, <1>9

(* What the two changes of the sums have in common.                        *)
Stores(w, value) ==
  LET i == Data(w).input.instrument
      k == Data(w).specific_index
      n == Own(w)
  IN /\ Sum(w)
     /\ fp_i_history' = [fp_i_history EXCEPT ![i][k] = value]
     /\ sum_history' = [sum_history EXCEPT ![n] =
          sum_history[prev_index(n)] - fp_i_history[i][prev_index_spec(k)] + value]
     /\ UNCHANGED <<data, prices>>

LEMMA SumsAreStored ==
  ASSUME ProcIInv, NEW w \in Workers, compute_return_fp_i(w) \/ history_shift(w)
  PROVE  LET p == prices[w] IN
         Stores(w, IF NotEnoughData(p) THEN 0
                   ELSE compute_fp_i(Equity(p.volbid, p.volask), p.pricebid))
<1>1. CASE compute_return_fp_i(w)
  BY <1>1 DEF compute_return_fp_i, Stores
<1>2. CASE history_shift(w)
  <2> DEFINE i == Data(w).input.instrument
             k == Data(w).specific_index
             n == Own(w)
             last == sum_history[prev_index(n)]
             former == fp_i_history[i][prev_index_spec(k)]
             shifted == [fp_i_history EXCEPT ![i][k] = 0]
  <2>1. Sum(w) /\ pc[w] = "sum" /\ NotEnoughData(prices[w]) /\ UNCHANGED <<data, prices>>
    BY <1>2 DEF history_shift, Sum, Goto
  <2>2. /\ i \in Instruments /\ k \in SpecificSlots
        /\ fp_i_history \in [Instruments -> [SpecificSlots -> Nat]]
    BY <2>1, DataFacts DEF ProcIInv, ProcTypeOK
  <2>3. last \in Int /\ former \in Nat
    BY <2>1, FormerValues DEF ProcIInv
  <2>4. prev_index_spec(k) # k /\ prev_index_spec(k) \in SpecificSlots
    BY <2>2, Neighbours
  <2>5. fp_i_history' = shifted
        /\ sum_history' = [sum_history EXCEPT ![n] = last - shifted[i][prev_index_spec(k)]]
    BY <1>2 DEF history_shift
  <2> HIDE DEF i, k, n, last
  <2>6. shifted[i][prev_index_spec(k)] = former
    BY <2>2, <2>4
  <2> HIDE DEF former
  <2>7. last - former = last - former + 0
    BY <2>3
  <2>8. sum_history' = [sum_history EXCEPT ![n] = last - former + 0]
    BY <2>5, <2>6, <2>7
  <2>9. QED
    BY <2>1, <2>5, <2>8 DEF Stores, i, k, n, last, former
<1>3. QED
  BY <1>1, <1>2
-----------------------------------------------------------------------------
(* The ledger.  The updates whose sum is stored all have a result.         *)
LEMMA StoredHaveValues ==
  ASSUME ProcIInv, IInv, [ProcNext]_vars, NEW m \in 1 .. SumsStored
  PROVE  ResultsOf(m - 1) # {} /\ ValueOf(m)' = ValueOf(m) /\ ValueOf(m) \in Nat
<1>1. m \in Int /\ m - 1 \in 0 .. issued - 1 /\ m - 1 < SumsStored
  BY UnsummedCount, TakenFacts DEF IInv
<1>2. ResultsOf(m - 1) # {}
  BY <1>1, StoredIsAnswered
<1>3. QED
  BY <1>1, <1>2, ValuesKept

(* The update of a worker that changes the sums.                           *)
LEMMA StoringFacts ==
  ASSUME ProcIInv, IInv, SlotsInTurn, NEW w \in Workers, Sum(w)
  PROVE  LET n == SumsStored IN
         /\ n \in Nat /\ n + 1 <= issued /\ local_data[w] = n
         /\ Own(w) = OrderIndex(n) /\ Data(w) = data[n + 1]
         /\ data[n + 1].input.instrument \in Instruments
         /\ data[n + 1].specific_index \in SpecificSlots
         /\ data[n + 1].specific_index = NextSlot(n, data[n + 1].input.instrument)
<1>1. PICK n \in Int : n = SumsStored
  BY UnsummedCount DEF IInv
<1>2. local_data[w] = n /\ pc[w] = "sum"
  BY <1>1, StoredBySum
<1>3. n \in 0 .. Taken - 1
  BY <1>2 DEF ProcIInv, HandsAreDistinct
<1>4. n + 1 \in 1 .. issued /\ n \in Nat /\ (n + 1) - 1 = n
  BY <1>3, TakenFacts DEF IInv
<1>5. /\ data[n + 1].input.instrument \in Instruments
      /\ data[n + 1].specific_index \in SpecificSlots
  BY <1>4, CallFacts DEF ProcIInv
<1>6. data[n + 1].specific_index = NextSlot(n, data[n + 1].input.instrument)
  BY <1>4 DEF SlotsInTurn
<1>7. QED
  BY <1>1, <1>2, <1>4, <1>5, <1>6 DEF Own, Data

LEMMA LedgerStored ==
  ASSUME ProcIInv, IInv, SlotsInTurn, LastValues, LastSum, [ProcNext]_vars,
         NEW w \in Workers, NEW value \in Nat, Stores(w, value),
         NEW n \in Nat, n = SumsStored, ValueOf(n + 1)' = value
  PROVE  LastValues' /\ LastSum'
<1> DEFINE i == data[n + 1].input.instrument
           k == data[n + 1].specific_index
           last == Max(CallsOf(n, i))
<1>2. /\ n + 1 <= issued /\ Own(w) = OrderIndex(n) /\ Data(w) = data[n + 1]
      /\ i \in Instruments /\ k \in SpecificSlots /\ k = NextSlot(n, i)
  BY StoringFacts DEF Stores
<1>3. SumsStored' = n + 1 /\ data' = data
  BY StoredBySum DEF Stores
<1>4. \A m \in 1 .. n : ValueOf(m)' = ValueOf(m) /\ ValueOf(m) \in Nat
  BY StoredHaveValues
<1>5. ValueOf(n + 1)' = value
  OBVIOUS
<1>6. \A j : CallsOf(n + 1, j)' = CallsOf(n + 1, j) /\ LastSlot(n + 1, j)' = LastSlot(n + 1, j)
  <2>1. n + 1 \in Nat /\ \A m \in 1 .. n + 1 : data'[m] = data[m]
    BY <1>3
  <2>2. QED
    BY <2>1, EarlierSlots
<1>7. /\ fp_i_history \in [Instruments -> [SpecificSlots -> Nat]]
      /\ fp_i_history' = [fp_i_history EXCEPT ![i][k] = value]
  BY <1>2 DEF ProcIInv, ProcTypeOK, Stores
<1>8. \A j \in Instruments : fp_i_history[j][LastSlot(n, j)] =
        IF CallsOf(n, j) = {} THEN 0 ELSE ValueOf(Max(CallsOf(n, j)))
  BY DEF LastValues
<1>9. LastValues'
  <2> SUFFICES ASSUME NEW j \in Instruments
               PROVE  fp_i_history'[j][LastSlot(n + 1, j)'] =
                        IF CallsOf(n + 1, j)' = {} THEN 0
                        ELSE ValueOf(Max(CallsOf(n + 1, j)))'
    BY <1>3 DEF LastValues
  <2>1. NextCallIs(n, j)
    BY NextCall
  <2>2. CASE j = i
    <3>1. /\ n + 1 \in CallsOf(n + 1, j) /\ Max(CallsOf(n + 1, j)) = n + 1
          /\ LastSlot(n + 1, j) = k
      BY <1>2, <2>1, <2>2, Neighbours DEF NextCallIs, LastSlot
    <3>2. Max(CallsOf(n + 1, j))' = n + 1
      BY <1>6, <3>1
    <3>3. fp_i_history'[j][k] = value
      BY <1>2, <1>7, <2>2
    <3>4. QED
      BY <1>5, <1>6, <3>1, <3>2, <3>3
  <2>3. CASE j # i
    <3>1. CallsOf(n + 1, j) = CallsOf(n, j) /\ LastSlot(n + 1, j) = LastSlot(n, j)
      BY <2>1, <2>3 DEF NextCallIs, LastSlot
    <3>2. fp_i_history'[j] = fp_i_history[j]
      BY <1>2, <1>7, <2>3
    <3>3. CallsOf(n, j) # {} => Max(CallsOf(n, j)) \in 1 .. n
      BY LastOfCalls DEF CallsOf
    <3>4. CallsOf(n, j) # {} => ValueOf(Max(CallsOf(n + 1, j)))' = ValueOf(Max(CallsOf(n, j)))
      <4> SUFFICES ASSUME CallsOf(n, j) # {}
                   PROVE  ValueOf(Max(CallsOf(n + 1, j)))' = ValueOf(Max(CallsOf(n, j)))
        OBVIOUS
      <4>1. PICK m \in 1 .. n : m = Max(CallsOf(n, j))
        BY <3>3
      <4>2. Max(CallsOf(n + 1, j))' = m
        BY <1>6, <3>1, <4>1
      <4>3. QED
        BY <1>4, <4>1, <4>2
    <3>5. QED
      BY <1>6, <1>8, <3>1, <3>2, <3>4
  <2>4. QED
    BY <2>2, <2>3
<1>10. LastSum'
  <2> DEFINE S == Ideal!LastCalls(n)
             T == Ideal!LastCalls(n + 1)
             f == [m \in S |-> ValueOf(m)]
             g == [m \in T |-> ValueOf(m)']
             former == fp_i_history[i][prev_index_spec(k)]
  <2>1. /\ S \subseteq 1 .. n /\ n + 1 \notin S
        /\ CallsOf(n, i) = {} => T = S \cup {n + 1}
        /\ CallsOf(n, i) # {} => last \in S /\ T = (S \ {last}) \cup {n + 1}
    BY <1>2, LastCallsNext DEF ProcIInv
  <2>2. former = IF CallsOf(n, i) = {} THEN 0 ELSE ValueOf(last)
    BY <1>2, <1>8 DEF LastSlot
  <2>3. SumFunctionOnSet(f, S) = sum_history[prev_index(OrderIndex(n))]
    BY DEF LastSum, SumFunction
  <2>4. IsFiniteSet(S)
    <3>1. IsFiniteSet(1 .. n)
      BY FS_Interval
    <3>2. QED
      BY <2>1, <3>1, FS_Subset
  <2>5. \A m \in S : f[m] \in Int
    BY <1>4, <2>1
  <2>6. n + 1 \in T /\ g[n + 1] = value
    BY <1>5, <2>1
  <2>7. PICK R : /\ R \subseteq S /\ T = R \cup {n + 1}
                 /\ SumFunctionOnSet(f, S) = former + SumFunctionOnSet(f, R)
    <3>1. SumFunctionOnSet(f, S) \in Int
          /\ \A x \in S : SumFunctionOnSet(f, S) = f[x] + SumFunctionOnSet(f, S \ {x})
      BY <2>4, <2>5, SumOfParts
    <3> HIDE DEF S, T
    <3>2. CASE CallsOf(n, i) = {}
      <4>1. T = S \cup {n + 1} /\ former = 0 /\ S \subseteq S
        BY <2>1, <2>2, <3>2
      <4>2. SumFunctionOnSet(f, S) = former + SumFunctionOnSet(f, S)
        BY <3>1, <4>1
      <4>3. QED
        BY <4>1, <4>2
    <3>3. CASE CallsOf(n, i) # {}
      <4>1. last \in S /\ T = (S \ {last}) \cup {n + 1} /\ former = f[last]
        BY <2>1, <2>2, <3>3
      <4>2. SumFunctionOnSet(f, S) = former + SumFunctionOnSet(f, S \ {last})
        BY <3>1, <4>1
      <4>3. S \ {last} \subseteq S
        OBVIOUS
      <4>4. QED
        BY <4>1, <4>2, <4>3
    <3>4. QED
      BY <3>2, <3>3
  <2>8. \A m \in R : f[m] \in Int /\ g[m] = f[m]
    BY <1>4, <2>1, <2>7
  <2>9. former \in Int
    BY <1>2, <1>7, Neighbours
  <2> HIDE DEF S, T, f, g, former
  <2>10. SumFunctionOnSet(g, T) = SumFunctionOnSet(f, S) - former + value
    <3>1. PICK e, h, y : e = f /\ h = g /\ y = n + 1
      OBVIOUS
    <3>2. y \notin R /\ h[y] \in Int /\ IsFiniteSet(R)
      BY <2>1, <2>4, <2>6, <2>7, <3>1, FS_Subset
    <3>3. \A m \in R : e[m] \in Int /\ h[m] = e[m]
      BY <2>8, <3>1
    <3>4. /\ SumFunctionOnSet(e, R) \in Int
          /\ SumFunctionOnSet(h, R \cup {y}) = h[y] + SumFunctionOnSet(e, R)
      BY <3>2, <3>3, AddedTerm
    <3>5. SumFunctionOnSet(g, T) = value + SumFunctionOnSet(f, R)
      BY <2>6, <2>7, <3>1, <3>4
    <3>6. SumFunctionOnSet(f, R) \in Int
      BY <3>1, <3>4
    <3>7. QED
      BY <2>7, <2>9, <3>5, <3>6
  <2>11. sum_history'[OrderIndex(n)]
           = sum_history[prev_index(OrderIndex(n))] - former + value
    <3>1. OrderIndex(n) \in Slots
      BY OrderIndexInSlots
    <3>2. sum_history \in [Slots -> Int]
      BY DEF ProcIInv, ProcTypeOK
    <3>3. sum_history' = [sum_history EXCEPT ![OrderIndex(n)] =
            sum_history[prev_index(OrderIndex(n))] - former + value]
      BY <1>2 DEF Stores, former
    <3>4. QED
      BY <3>1, <3>2, <3>3
  <2>12. sum_history'[OrderIndex(n)] = SumFunctionOnSet(g, T)
    BY <2>3, <2>10, <2>11
  <2>13. prev_index(OrderIndex(n + 1)) = OrderIndex(n)
    <3>1. n + 1 \in Int /\ (n + 1) - 1 = n
      OBVIOUS
    <3>2. QED
      BY <3>1, PrevIndexIsPrev
  <2>14. Ideal!LastCalls(n + 1)' = T
    <3>1. Calls' = Calls
      BY <1>3 DEF Calls
    <3>2. QED
      BY <3>1 DEF Ideal!LastCalls, T
  <2>15. SumFunction([m \in Ideal!LastCalls(n + 1) |-> ValueOf(m)])' = SumFunctionOnSet(g, T)
    <3>1. [m \in Ideal!LastCalls(n + 1) |-> ValueOf(m)]' = g
      BY <2>14 DEF g
    <3>2. DOMAIN g = T
      BY DEF g
    <3>3. QED
      BY <3>1, <3>2 DEF SumFunction
  <2>16. QED
    BY <1>3, <2>12, <2>13, <2>15 DEF LastSum
<1>11. QED
  BY <1>9, <1>10

(* The update in a worker's hands is one of the calls so far.              *)
LEMMA HandFacts ==
  ASSUME ProcIInv, NEW w \in Workers, pc[w] # "dequeue"
  PROVE  /\ local_data[w] \in Nat /\ local_data[w] < Taken /\ Taken \in Int
         /\ local_data[w] + 1 \in 1 .. issued
         /\ Data(w) = data[local_data[w] + 1]
         /\ Calls[local_data[w] + 1] = Data(w).input
<1>1. Taken \in Int /\ Taken <= issued /\ issued \in Nat
  BY TakenFacts DEF ProcIInv, ProcTypeOK
<1>2. local_data[w] \in 0 .. Taken - 1
  BY DEF ProcIInv, HandsAreDistinct
<1>3. local_data[w] + 1 \in 1 .. issued
  BY <1>1, <1>2
<1>4. Calls[local_data[w] + 1] = data[local_data[w] + 1].input
  BY <1>3, CallFacts DEF ProcIInv
<1>5. QED
  BY <1>1, <1>2, <1>3, <1>4 DEF Data

(* The calls so far stay the same.                                         *)
LEMMA CallsGrow ==
  ASSUME ProcTypeOK, [ProcNext]_vars
  PROVE  \A m \in 1 .. issued : Calls'[m] = Calls[m]
<1>1. /\ issued \in Nat /\ issued' \in Nat /\ issued <= issued'
      /\ \A m \in 1 .. issued : data'[m] = data[m]
  BY DataGrows
<1>2. Len(data) = issued /\ Len(data') = issued'
  BY DataKept DEF DataOK, ProcTypeOK
<1>3. QED
  BY <1>1, <1>2 DEF Calls

LEMMA EarlierLastCalls ==
  ASSUME NEW n \in Nat, \A m \in 1 .. n : Calls'[m] = Calls[m]
  PROVE  Ideal!LastCalls(n)' = Ideal!LastCalls(n)
<1>1. \A m \in 1 .. n : \A k \in m + 1 .. n : k \in 1 .. n
  OBVIOUS
<1>2. QED
  BY <1>1 DEF Ideal!LastCalls

LEMMA LedgerFrame ==
  ASSUME ProcIInv, IInv, [ProcNext]_vars, LastValues, LastSum,
         NEW n \in Nat, n = SumsStored, SumsStored' = n,
         UNCHANGED <<fp_i_history, sum_history>>
  PROVE  LastValues' /\ LastSum'
<1>1. issued \in Nat /\ n <= issued /\ \A m \in 1 .. n : m \in 1 .. issued
  BY UnsummedCount, TakenFacts DEF IInv
<1>2. \A m \in 1 .. n : data'[m] = data[m] /\ Calls'[m] = Calls[m]
  BY <1>1, DataGrows, CallsGrow DEF ProcIInv
<1>3. \A m \in 1 .. n : ValueOf(m)' = ValueOf(m)
  BY StoredHaveValues
<1>4. LastValues'
  <2> SUFFICES ASSUME NEW i \in Instruments
               PROVE  fp_i_history'[i][LastSlot(n, i)'] =
                        IF CallsOf(n, i)' = {} THEN 0 ELSE ValueOf(Max(CallsOf(n, i)))'
    BY DEF LastValues
  <2>1. CallsOf(n, i)' = CallsOf(n, i) /\ LastSlot(n, i)' = LastSlot(n, i)
    BY <1>2, EarlierSlots
  <2>2. fp_i_history[i][LastSlot(n, i)] =
          IF CallsOf(n, i) = {} THEN 0 ELSE ValueOf(Max(CallsOf(n, i)))
    BY DEF LastValues
  <2>3. CASE CallsOf(n, i) = {}
    BY <2>1, <2>2, <2>3
  <2>4. CASE CallsOf(n, i) # {}
    <3>1. PICK m \in 1 .. n : m = Max(CallsOf(n, i))
      BY <2>4, LastOfCalls DEF CallsOf
    <3>2. Max(CallsOf(n, i))' = m
      BY <2>1, <3>1
    <3>3. ValueOf(Max(CallsOf(n, i)))' = ValueOf(m)
      BY <1>3, <3>1, <3>2
    <3>4. QED
      BY <2>1, <2>2, <2>4, <3>1, <3>3
  <2>5. QED
    BY <2>3, <2>4
<1>5. LastSum'
  <2> DEFINE S == Ideal!LastCalls(n)
  <2>1. Ideal!LastCalls(n)' = S
    BY <1>2, EarlierLastCalls
  <2>2. S \subseteq 1 .. n
    BY DEF Ideal!LastCalls
  <2>3. [m \in Ideal!LastCalls(n) |-> ValueOf(m)]' = [m \in S |-> ValueOf(m)]
    BY <1>3, <2>1, <2>2
  <2>4. SumFunction([m \in Ideal!LastCalls(n) |-> ValueOf(m)])'
          = SumFunction([m \in S |-> ValueOf(m)])
    BY <2>3
  <2>5. QED
    BY <2>4 DEF LastSum
<1>6. QED
  BY <1>4, <1>5

(* The steps of the processor, as far as the sums go.                      *)
LEMMA SumSteps ==
  ASSUME ProcTypeOK, [ProcNext]_vars
  PROVE  \/ \E w \in Workers : compute_return_fp_i(w) \/ history_shift(w)
         \/ /\ UNCHANGED <<fp_i_history, sum_history>>
            /\ \A w \in Workers : ~Sum(w)
<1> SUFFICES ASSUME ~\E w \in Workers : compute_return_fp_i(w) \/ history_shift(w)
             PROVE  /\ UNCHANGED <<fp_i_history, sum_history>>
                    /\ \A w \in Workers : ~Sum(w)
  OBVIOUS
<1>1. UNCHANGED <<fp_i_history, sum_history>>
  BY Zenon DEF ProcNext, ProcUpdate, ProcDrained, vars, sumVars, ProcWorker,
     Synchronise, ReadKeptPrice, InsertBid, InsertAsk, CopyAsk, CopyBidPrice, CopyBidVolume, ProcLoad
<1>2. ASSUME NEW v \in Workers, ProcWorker(v)
      PROVE  pc' = pc \/ \E to : pc[v] # "sum" /\ pc' = [pc EXCEPT ![v] = to]
  BY <1>2 DEF ProcWorker, Synchronise, ReadKeptPrice, InsertBid, InsertAsk, CopyAsk,
     CopyBidPrice, CopyBidVolume, ProcLoad, Dequeue, UnsetNextOrder, UnsetNextSum,
     WaitOrder, UnsetOwnOrder, Insert, SetOrder, Copy, Load, WaitSum, UnsetOwnSum, SetSum,
     chainVars, Goto
<1>3. ASSUME NEW w \in Workers, Sum(w)
      PROVE  FALSE
  <2>1. pc[w] = "sum" /\ pc'[w] = "set_sum" /\ pc \in [Workers -> Stages]
    BY <1>3 DEF Sum, Goto, ProcTypeOK, TypeOK
  <2>2. PICK v \in Workers : ProcWorker(v)
    BY <2>1 DEF ProcNext, ProcUpdate, Update, ProcDrained, vars
  <2>3. PICK to : pc[v] # "sum" /\ pc' = [pc EXCEPT ![v] = to]
    BY <1>2, <2>1, <2>2
  <2>4. QED
    BY <2>1, <2>3
<1>4. QED
  BY <1>1, <1>3

(* A worker about to release the sums has stored them before.              *)
LEMMA SetSumSteps ==
  ASSUME ProcIInv, [ProcNext]_vars, NEW w \in Workers, pc'[w] = "set_sum", ~Sum(w)
  PROVE  /\ pc[w] = "set_sum" /\ local_data'[w] = local_data[w]
         /\ prices'[w] = prices[w] /\ Data(w)' = Data(w)
<1>1. ASSUME NEW v \in Workers, ProcWorker(v)
      PROVE  /\ \/ pc' = pc
                \/ \E to \in Stages : /\ pc' = [pc EXCEPT ![v] = to]
                                      /\ to = "set_sum" => Sum(v)
             /\ \/ local_data' = local_data
                \/ pc'[v] = "unset_next_order" /\ \E n : local_data' = [local_data EXCEPT ![v] = n]
             /\ \/ prices' = prices
                \/ pc'[v] = "wait_sum" /\ \E p : prices' = [prices EXCEPT ![v] = p]
  BY <1>1 DEF ProcWorker, Synchronise, ReadKeptPrice, InsertBid, InsertAsk, CopyAsk,
     CopyBidPrice, CopyBidVolume, ProcLoad, compute_return_fp_i, history_shift,
     Dequeue, UnsetNextOrder, UnsetNextSum,
     WaitOrder, UnsetOwnOrder, Insert, SetOrder, Copy, Load, WaitSum, UnsetOwnSum, Sum, SetSum,
     chainVars, Goto, Stages, ProcIInv, ProcTypeOK, TypeOK
<1>2. /\ pc \in [Workers -> Stages] /\ prices = [v \in Workers |-> prices[v]]
      /\ local_data = [v \in Workers |-> local_data[v]]
  BY DEF ProcIInv, ProcTypeOK, TypeOK
<1>3. pc[w] = "set_sum" /\ local_data'[w] = local_data[w] /\ prices'[w] = prices[w]
  <2>1. CASE UNCHANGED <<pc, local_data, prices>>
    BY <2>1
  <2>2. ASSUME NEW v \in Workers, ProcWorker(v)
        PROVE  pc[w] = "set_sum" /\ local_data'[w] = local_data[w] /\ prices'[w] = prices[w]
    BY <1>1, <1>2, <2>2
  <2>3. QED
    BY <2>1, <2>2 DEF ProcNext, ProcUpdate, Update, ProcDrained, vars
<1>4. local_data[w] + 1 \in 1 .. issued
  BY <1>3, HandFacts
<1>5. QED
  BY <1>3, <1>4, DataGrows DEF Data, ProcIInv

LEMMA StoredStaysPositive ==
  ASSUME ProcIInv, IInv, SlotsInTurn, StoredIsPositive, [ProcNext]_vars
  PROVE  StoredIsPositive'
<1>1. SUFFICES ASSUME NEW w \in Workers, pc'[w] = "set_sum", ~NotEnoughData(prices[w])'
               PROVE  (fp_i_history[Data(w).input.instrument][Data(w).specific_index] > 0)'
  BY DEF StoredIsPositive
<1>2. fp_i_history \in [Instruments -> [SpecificSlots -> Nat]]
  BY DEF ProcIInv, ProcTypeOK
<1>3. ASSUME ~Sum(w)
      PROVE  /\ pc[w] = "set_sum" /\ local_data'[w] = local_data[w]
             /\ Data(w)' = Data(w)
             /\ fp_i_history[Data(w).input.instrument][Data(w).specific_index] > 0
  <2>1. /\ pc[w] = "set_sum" /\ local_data'[w] = local_data[w]
        /\ prices'[w] = prices[w] /\ Data(w)' = Data(w)
    BY <1>1, <1>3, SetSumSteps
  <2>2. ~NotEnoughData(prices[w])
    BY <1>1, <2>1 DEF NotEnoughData
  <2>3. QED
    BY <2>1, <2>2 DEF StoredIsPositive
<1>4. CASE UNCHANGED <<fp_i_history, sum_history>> /\ \A v \in Workers : ~Sum(v)
  BY <1>3, <1>4
<1>5. ASSUME NEW v \in Workers, compute_return_fp_i(v) \/ history_shift(v)
      PROVE  (fp_i_history[Data(w).input.instrument][Data(w).specific_index] > 0)'
  <2> DEFINE p == prices[v]
             fp_i == compute_fp_i(Equity(p.volbid, p.volask), p.pricebid)
             value == IF NotEnoughData(p) THEN 0 ELSE fp_i
             i == Data(v).input.instrument
             k == Data(v).specific_index
  <2>1. Stores(v, value)
    BY <1>5, SumsAreStored
  <2>2. /\ pc[v] = "sum" /\ pc'[v] = "set_sum"
        /\ \A u \in Workers : u # v => pc'[u] = pc[u]
        /\ local_data' = local_data /\ data' = data /\ prices' = prices
        /\ fp_i_history' = [fp_i_history EXCEPT ![i][k] = value]
        /\ Sum(v)
    BY <2>1, StoredBySum DEF Stores
  <2>3. i \in Instruments /\ k \in SpecificSlots
    BY <2>2, DataFacts DEF ProcIInv
  <2>4. ~NotEnoughData(p) => value > 0
    BY ValueIsPositive DEF ProcIInv, ProcTypeOK
  <2>5. prices'[w] = prices[w] /\ Data(w)' = Data(w)
    BY <2>2 DEF Data
  <2>6. CASE w = v
    <3>1. value > 0
      BY <1>1, <2>4, <2>5, <2>6 DEF NotEnoughData
    <3>2. fp_i_history'[i][k] = value
      BY <1>2, <2>2, <2>3
    <3>3. QED
      BY <2>5, <2>6, <3>1, <3>2
  <2>7. CASE w # v
    <3>1. pc[w] = "set_sum"
      BY <1>1, <2>2, <2>7
    <3>2. ~Sum(w)
      BY <3>1 DEF Sum, Goto
    <3> DEFINE j == Data(w).input.instrument
               kw == Data(w).specific_index
    <3>3. fp_i_history[j][kw] > 0
      BY <1>3, <3>2
    <3>4. PICK n \in Nat : n = SumsStored
      BY <2>2, StoringFacts
    <3>5. Data(v) = data[n + 1] /\ k = NextSlot(n, i)
      BY <2>2, <3>4, StoringFacts
    <3>6. local_data[w] = n - 1
      BY <3>1, <3>4, StoredInTurn DEF SumCS
    <3>7. n - 1 \in Nat /\ Data(w) = data[n] /\ j \in Instruments /\ kw \in SpecificSlots
      <4>1. local_data[w] \in Nat /\ j \in Instruments /\ kw \in SpecificSlots
        BY <3>1, HandFacts, DataFacts DEF ProcIInv
      <4>2. (n - 1) + 1 = n
        OBVIOUS
      <4>3. QED
        BY <3>6, <4>1, <4>2 DEF Data
    <3>8. j = i => k # kw
      <4>1. PICK m \in Nat : m = n - 1
        BY <3>7
      <4>2. NextCallIs(m, i) /\ m + 1 = n
        BY <4>1, NextCall
      <4>3. j = i => k = (kw + 1) % SPECIFIC_HISTORY_SIZE
        BY <3>5, <3>7, <4>2 DEF NextCallIs
      <4>4. (kw + 1) % SPECIFIC_HISTORY_SIZE # kw
        BY <3>7, Neighbours
      <4>5. QED
        BY <4>3, <4>4
    <3> HIDE DEF i, j, k, kw, value
    <3>9. fp_i_history'[j][kw] = fp_i_history[j][kw]
      BY <1>2, <2>2, <2>3, <3>7, <3>8
    <3>10. QED
      BY <2>5, <3>3, <3>9 DEF j, kw
  <2>8. QED
    BY <2>6, <2>7
<1>6. QED
  BY <1>4, <1>5, SumSteps DEF ProcIInv

(* The instrument's last value is part of the sum: taking it off leaves a  *)
(* sum that is not negative.                                               *)
LEMMA FormerInSum ==
  ASSUME ProcIInv, IInv, SlotsInTurn, LastValues, LastSum, [ProcNext]_vars,
         NEW w \in Workers, Sum(w)
  PROVE  LET d == Data(w)
             former == fp_i_history[d.input.instrument][prev_index_spec(d.specific_index)]
             sum == sum_history[prev_index(Own(w))]
         IN former \in Nat /\ sum \in Nat /\ former <= sum
<1>1. PICK n \in Nat : n = SumsStored
  BY StoringFacts
<1> DEFINE i == data[n + 1].input.instrument
           k == data[n + 1].specific_index
           last == Max(CallsOf(n, i))
           S == Ideal!LastCalls(n)
           f == [m \in S |-> ValueOf(m)]
           former == fp_i_history[i][prev_index_spec(k)]
           sum == sum_history[prev_index(OrderIndex(n))]
<1>2. /\ n + 1 <= issued /\ Own(w) = OrderIndex(n) /\ Data(w) = data[n + 1]
      /\ i \in Instruments /\ k \in SpecificSlots /\ k = NextSlot(n, i)
  BY <1>1, StoringFacts
<1>3. \A m \in 1 .. n : ValueOf(m) \in Nat
  BY <1>1, StoredHaveValues
<1>4. S \subseteq 1 .. n /\ (CallsOf(n, i) # {} => last \in S)
  BY <1>2, LastCallsNext DEF ProcIInv
<1>5. former = IF CallsOf(n, i) = {} THEN 0 ELSE ValueOf(last)
  BY <1>1, <1>2 DEF LastValues, LastSlot
<1>6. sum = SumFunctionOnSet(f, S)
  BY <1>1 DEF LastSum, SumFunction
<1>7. IsFiniteSet(S)
  BY <1>4, FS_Interval, FS_Subset
<1>8. \A m \in S : f[m] \in Nat
  BY <1>3, <1>4
<1>9. SumFunctionOnSet(f, S) \in Nat /\ \A m \in S : f[m] <= SumFunctionOnSet(f, S)
  <2> HIDE DEF S, f
  <2>1. QED
    BY <1>7, <1>8, SumOfNaturals
<1>10. former \in Nat /\ former <= sum
  <2>1. CASE CallsOf(n, i) = {}
    BY <1>5, <1>6, <1>9, <2>1
  <2>2. CASE CallsOf(n, i) # {}
    <3>1. last \in S /\ former = f[last]
      BY <1>4, <1>5, <2>2
    <3>2. QED
      BY <1>6, <1>8, <1>9, <3>1
  <2>3. QED
    BY <2>1, <2>2
<1>11. QED
  BY <1>2, <1>6, <1>9, <1>10

(* What is stored for an update is the value that its result is a share of.*)
LEMMA StoredIsReported ==
  ASSUME ProcIInv, IInv, SlotsInTurn, LastValues, LastSum, [ProcNext]_vars,
         NEW w \in Workers, compute_return_fp_i(w) \/ history_shift(w),
         NEW n \in Nat, n = SumsStored
  PROVE  LET p == prices[w] IN
         ValueOf(n + 1)' = IF NotEnoughData(p) THEN 0
                           ELSE compute_fp_i(Equity(p.volbid, p.volask), p.pricebid)
<1> DEFINE p == prices[w]
           fp_i == compute_fp_i(Equity(p.volbid, p.volask), p.pricebid)
           d == Data(w)
           former == fp_i_history[d.input.instrument][prev_index_spec(d.specific_index)]
           last == sum_history[prev_index(Own(w))]
           sum == last - former + fp_i
<1>1. Sum(w) /\ pc[w] = "sum" /\ local_data[w] = n
  BY StoredBySum DEF compute_return_fp_i, history_shift
<1>2. (n + 1) - 1 = n /\ n + 1 \in Int
  OBVIOUS
<1>3. CASE compute_return_fp_i(w)
  <2>1. ~NotEnoughData(p) /\ Report(w, Return(fp_i, sum))
    BY <1>3 DEF compute_return_fp_i
  <2>2. former \in Nat /\ last \in Nat /\ former <= last
    BY <1>1, FormerInSum
  <2>3. fp_i \in Nat /\ fp_i > 0
    BY <2>1, ValueIsPositive DEF ProcIInv, ProcTypeOK
  <2>4. sum # 0 /\ sum \in Int
    <3> HIDE DEF former, last, fp_i
    <3>1. QED
      BY <2>2, <2>3
  <2>5. Return(fp_i, sum) = [fp |-> fp_i, sum |-> sum]
    BY <2>4 DEF Return
  <2> HIDE DEF fp_i, sum
  <2>6. PICK res : Reports(w, res) /\ res.fp = fp_i
    <3>1. [fp |-> fp_i, sum |-> sum] \in [fp : Nat, sum : Int]
      BY <2>3, <2>4
    <3>2. QED
      BY <2>1, <2>5, <3>1 DEF Report, Reports
  <2> DEFINE r == Len(results) + 1
  <2>7. /\ results' \in Seq(ResultType)
        /\ Len(results') = r /\ Len(results) \in Nat
        /\ results'[r] = [update |-> local_data[w], res |-> res]
    BY <1>1, <2>6, ReportKept DEF ProcIInv
  <2>8. r \in DOMAIN results' /\ results'[r].update = n /\ results'[r].res.fp = fp_i
    BY <1>1, <2>6, <2>7
  <2> HIDE DEF r
  <2>9. ResultsOf(n)' = {r}
    <3>1. ResultsAreOwned'
      BY ProcStepKeeps DEF ProcIInv
    <3>2. QED
      BY <2>8, <3>1 DEF ResultsOf, ResultsAreOwned
  <2>10. (CHOOSE x \in {r} : TRUE) = r
    OBVIOUS
  <2>11. ValueOf(n + 1)' = results'[r].res.fp
    BY <1>2, <2>9, <2>10 DEF ValueOf
  <2>12. QED
    BY <2>1, <2>8, <2>11 DEF fp_i
<1>4. CASE history_shift(w)
  <2>1. NotEnoughData(p)
    BY <1>4 DEF history_shift
  <2>2. ResultsOf(n) # {} /\ \A m \in ResultsOf(n) : results[m].res = ZeroReturn
    BY <1>1, <2>1 DEF ProcIInv, ResultsAreOwned, Answered, BeforeSum
  <2>3. PICK m \in Int : m = n + 1
    OBVIOUS
  <2>4. m - 1 = n
    BY <2>3
  <2>5. /\ ValueOf(m)' = ValueOf(m)
        /\ \E r \in DOMAIN results : results[r].update = n /\ ValueOf(m) = results[r].res.fp
    BY <2>2, <2>4, ValuesKept
  <2>6. ValueOf(m)' = 0
    BY <2>2, <2>5 DEF ResultsOf, ZeroReturn
  <2>7. QED
    BY <2>1, <2>3, <2>6
<1>5. QED
  BY <1>3, <1>4

(* The ledger is kept.                                                     *)
Ledger == SumsStored \in Nat /\ LedgerIInv

LEMMA LedgerKept ==
  ASSUME ProcIInv, IInv, Ledger, [ProcNext]_vars
  PROVE  Ledger'
<1>1. SlotsInTurn /\ LastValues /\ LastSum /\ StoredIsPositive
  BY DEF Ledger, LedgerIInv
<1>2. PICK n \in Nat : n = SumsStored
  BY DEF Ledger
<1>3. SlotsInTurn' /\ StoredIsPositive'
  BY <1>1, SlotsInTurnKept, StoredStaysPositive DEF ProcIInv
<1>4. SumsStored' \in Nat /\ LastValues' /\ LastSum'
  <2>1. ASSUME NEW w \in Workers, compute_return_fp_i(w) \/ history_shift(w)
        PROVE  SumsStored' \in Nat /\ LastValues' /\ LastSum'
    <3>1. PICK value : /\ Stores(w, value) /\ ValueOf(n + 1)' = value
                       /\ value = IF NotEnoughData(prices[w]) THEN 0
                                  ELSE compute_fp_i(Equity(prices[w].volbid, prices[w].volask),
                                                    prices[w].pricebid)
      BY <1>1, <1>2, <2>1, SumsAreStored, StoredIsReported
    <3>2. value \in Nat
      BY <3>1, ValueIsPositive DEF ProcIInv, ProcTypeOK
    <3>3. LastValues' /\ LastSum'
      BY <1>1, <1>2, <3>1, <3>2, LedgerStored
    <3>4. SumsStored' = n + 1
      BY <1>2, <3>1, StoredBySum DEF Stores
    <3>5. QED
      BY <3>3, <3>4
  <2>2. ASSUME UNCHANGED <<fp_i_history, sum_history>>, \A w \in Workers : ~Sum(w)
        PROVE  SumsStored' \in Nat /\ LastValues' /\ LastSum'
    <3>1. SumsStored' = n
      BY <1>2, <2>2, StepOfChain, StoredUnlessSummed DEF IInv
    <3>2. LastValues' /\ LastSum'
      BY <1>1, <1>2, <2>2, <3>1, LedgerFrame
    <3>3. QED
      BY <3>1, <3>2
  <2>3. QED
    BY <2>1, <2>2, SumSteps DEF ProcIInv
<1>5. QED
  BY <1>3, <1>4 DEF Ledger, LedgerIInv

(* The value behind a call's result.                                       *)
LEMMA ValueReported ==
  ASSUME ProcIInv, NEW m \in Int, ResultsOf(m - 1) # {}
  PROVE  /\ ValueOf(m) \in Nat
         /\ \E r \in DOMAIN results : /\ results[r].update = m - 1
                                      /\ ValueOf(m) = results[r].res.fp
<1> DEFINE R == [update : 0 .. Count - 1, res : [fp : Nat, sum : Int]]
<1>1. PICK r \in ResultsOf(m - 1) : ValueOf(m) = results[r].res.fp
  BY DEF ValueOf
<1>2. r \in DOMAIN results /\ results[r].update = m - 1
  BY <1>1 DEF ResultsOf
<1>3. results \in Seq(R)
  BY DEF ProcIInv, ProcTypeOK
<1> HIDE DEF R
<1>4. results[r] \in R
  BY <1>2, <1>3
<1>5. results[r].res.fp \in Nat
  BY <1>4 DEF R
<1>6. QED
  BY <1>1, <1>2, <1>5

LEMMA LedgerInit ==
  ASSUME EqualSizes, ProcInit
  PROVE  Ledger
<1>1. /\ issued = 0 /\ ring = << >> /\ data = << >> /\ \A w \in Workers : pc[w] = "dequeue"
      /\ ProcIInv /\ TypeOK
  BY ProcInitEstablishes DEF ProcInit, Init, ProcIInv, ProcTypeOK
<1>2. SumsStored = 0
  <2>1. Len(ring) = 0 /\ Unsummed = {}
    BY <1>1 DEF Unsummed
  <2>2. Taken = 0
    <3>1. issued = 0
      BY <1>1
    <3>2. QED
      BY <2>1, <3>1 DEF Taken
  <2>3. QED
    BY <1>1, <2>1, <2>2, FS_EmptySet, UnsummedCount
<1>3. \A i : CallsOf(0, i) = {} /\ NextSlot(0, i) = 0
  BY DEF CallsOf, NextSlot
<1>4. SPECIFIC_HISTORY_SIZE \in Nat \ {0} /\ 0 \in SpecificSlots
  BY SizesAssumption DEF SpecificSlots
<1>5. SlotsInTurn
  <2>1. \A i \in Instruments : order_indices_bid[i] % SPECIFIC_HISTORY_SIZE = 0
    BY <1>4 DEF ProcInit
  <2>2. QED
    BY <1>1, <1>3, <2>1 DEF SlotsInTurn
<1>6. LastValues
  <2>1. PICK left \in Leftovers :
          fp_i_history = [i \in Instruments |-> [k \in SpecificSlots |-> IF Cleared(k) THEN 0 ELSE left]]
    BY DEF ProcInit
  <2>2. prev_index_spec(0) \in SpecificSlots
    BY <1>4, Neighbours
  <2>3. Cleared(prev_index_spec(0))
    BY <1>4, <2>2 DEF Cleared, SpecificSlots, EqualSizes
  <2>4. \A i \in Instruments : fp_i_history[i][prev_index_spec(0)] = 0
    BY <2>1, <2>2, <2>3
  <2>5. QED
    BY <1>2, <1>3, <2>4 DEF LastValues, LastSlot
<1>7. LastSum
  <2>1. OrderIndex(0) \in Slots /\ prev_index(OrderIndex(0)) \in Slots
    <3>1. 0 \in Int /\ 0 - 1 \in Int
      OBVIOUS
    <3>2. QED
      BY <3>1, OrderIndexInSlots, PrevIndexIsPrev
  <2>2. sum_history[prev_index(OrderIndex(0))] = 0
    BY <2>1 DEF ProcInit
  <2> DEFINE S == Ideal!LastCalls(0)
             f == [m \in S |-> ValueOf(m)]
  <2>3. S = {}
    BY DEF Ideal!LastCalls
  <2>4. SumFunctionOnSet(f, {}) = 0
    <3>1. IsFiniteSet({})
      BY FS_EmptySet
    <3>2. PICK g : g = f
      OBVIOUS
    <3>3. PICK E : E = {}
      OBVIOUS
    <3>4. SumFunctionOnSet(g, E) = 0
      BY <3>1, <3>3, SumUnfold
    <3>5. QED
      BY <3>2, <3>3, <3>4
  <2>5. SumFunction(f) = 0
    BY <2>3, <2>4 DEF SumFunction
  <2>6. QED
    BY <1>2, <2>2, <2>5 DEF LastSum
<1>8. StoredIsPositive
  BY <1>1 DEF StoredIsPositive
<1>9. QED
  BY <1>2, <1>5, <1>6, <1>7, <1>8 DEF Ledger, LedgerIInv

(* The sums add up, whatever prices the workers read.                      *)
LEMMA LedgerInvariant ==
  ASSUME EqualSizes
  PROVE  ProcSpec => []Ledger
<1>1. ProcInit => Ledger
  BY LedgerInit
<1>2. ProcIInv /\ IInv /\ Ledger /\ [ProcNext]_vars => Ledger'
  BY LedgerKept
<1>3. QED
  BY <1>1, <1>2, ProcInvariant, ProcFlagsAreTruthful, PTL DEF ProcSpec

(* The denominators add up (worker.cc:134-150): the sum a result was       *)
(* divided by is the total of the values of all the instruments, whatever  *)
(* prices the workers read and in whatever order they worked.              *)
THEOREM LedgerAddsUp ==
  ASSUME EqualSizes
  PROVE  ProcSpec => []SumIsLedger
<1>1. IInv /\ Ledger => SumIsLedger
  <2> SUFFICES ASSUME Ledger
               PROVE  SumIsLedger
    OBVIOUS
  <2>1. PICK n \in Nat : n = SumsStored
    BY DEF Ledger
  <2>2. prev_index(OrderIndex(n)) = OrderIndex(n - 1)
    BY PrevIndexIsPrev
  <2>3. QED
    BY <2>1, <2>2 DEF Ledger, LedgerIInv, LastSum, SumIsLedger
<1>2. QED
  BY <1>1, LedgerInvariant, ProcFlagsAreTruthful, PTL

(* A share is more than 0 and at most 1 (worker.cc:146-156): the sum never *)
(* falls below the value just added, so it is never 0 when it divides.     *)
THEOREM SharesInRange ==
  ASSUME EqualSizes
  PROVE  ProcSpec => []ShareInRange
<1>1. ProcIInv /\ IInv /\ Ledger => ShareInRange
  <2> SUFFICES ASSUME ProcIInv, IInv, Ledger, NEW w \in Workers,
                      pc[w] = "set_sum", ~NotEnoughData(prices[w])
               PROVE  LET f == fp_i_history[Data(w).input.instrument][Data(w).specific_index]
                      IN 0 < f /\ f <= sum_history[Own(w)]
    BY DEF ShareInRange
  <2> DEFINE i == Data(w).input.instrument
             k == Data(w).specific_index
  <2>1. SlotsInTurn /\ LastValues /\ LastSum /\ StoredIsPositive
    BY DEF Ledger, LedgerIInv
  <2>2. PICK n \in Nat : n = local_data[w]
    BY HandFacts
  <2>3. SumsStored = n + 1
    <3>1. SumsStored \in Int /\ local_data[w] = SumsStored - 1
      BY StoredInTurn, UnsummedCount DEF SumCS, IInv
    <3>2. QED
      BY <2>2, <3>1
  <2>4. /\ n + 1 \in 1 .. issued /\ Data(w) = data[n + 1] /\ i \in Instruments
        /\ k \in SpecificSlots
    BY <2>2, HandFacts, DataFacts DEF ProcIInv
  <2>5. /\ n + 1 \in CallsOf(n + 1, i) /\ Max(CallsOf(n + 1, i)) = n + 1
        /\ LastSlot(n + 1, i) = k
    <3>1. NextCallIs(n, i)
      BY NextCall
    <3>2. QED
      BY <2>4, <3>1, Neighbours DEF NextCallIs, LastSlot
  <2>6. fp_i_history[i][k] = ValueOf(n + 1)
    BY <2>1, <2>3, <2>4, <2>5 DEF LastValues
  <2>7. Own(w) = prev_index(OrderIndex(n + 1))
    <3>1. n + 1 \in Int /\ (n + 1) - 1 = n
      OBVIOUS
    <3>2. QED
      BY <2>2, <3>1, PrevIndexIsPrev DEF Own
  <2> DEFINE S == Ideal!LastCalls(n + 1)
             f == [m \in S |-> ValueOf(m)]
  <2>8. sum_history[Own(w)] = SumFunctionOnSet(f, S)
    BY <2>1, <2>3, <2>7 DEF LastSum, SumFunction
  <2>9. S \subseteq 1 .. n + 1 /\ n + 1 \in S
    <3>1. n + 1 \in 1 .. n + 1 /\ \A m : m \notin (n + 1) + 1 .. n + 1
      OBVIOUS
    <3>2. QED
      BY <3>1 DEF Ideal!LastCalls
  <2>10. \A m \in 1 .. n + 1 : ValueOf(m) \in Nat
    <3> SUFFICES ASSUME NEW m \in 1 .. n + 1
                 PROVE  ValueOf(m) \in Nat
      OBVIOUS
    <3>1. m \in Int /\ m - 1 \in 0 .. issued - 1 /\ m - 1 < SumsStored
      BY <2>3, UnsummedCount, TakenFacts DEF IInv
    <3>2. QED
      BY <3>1, StoredIsAnswered, ValueReported
  <2>11. IsFiniteSet(S) /\ \A m \in S : f[m] \in Nat
    <3>1. IsFiniteSet(1 .. n + 1)
      BY FS_Interval
    <3>2. IsFiniteSet(S)
      BY <2>9, <3>1, FS_Subset
    <3>3. QED
      BY <2>9, <2>10, <3>2
  <2>12. f[n + 1] <= SumFunctionOnSet(f, S)
    <3>1. PICK y : y = n + 1
      OBVIOUS
    <3> HIDE DEF S, f
    <3>2. f[y] <= SumFunctionOnSet(f, S)
      BY <2>9, <2>11, <3>1, SumOfNaturals
    <3>3. QED
      BY <3>1, <3>2
  <2>13. f[n + 1] = ValueOf(n + 1)
    BY <2>9
  <2>14. fp_i_history[i][k] > 0
    BY <2>1 DEF StoredIsPositive
  <2>15. 0 < fp_i_history[i][k]
    BY <2>6, <2>10, <2>14
  <2>16. QED
    BY <2>6, <2>8, <2>12, <2>13, <2>15
<1>2. QED
  BY <1>1, LedgerInvariant, ProcInvariant, ProcFlagsAreTruthful, PTL
-----------------------------------------------------------------------------
(* The sequential processor, call by call.  A call changes the prices of   *)
(* its own instrument and side alone.                                      *)
LEMMA PricesStep ==
  ASSUME NEW n \in Nat, NEW i
  PROVE  /\ Calls[n + 1].instrument # i =>
              Ideal!Prices(n + 1, i) = Ideal!Prices(n, i)
         /\ Calls[n + 1].side = "bid" =>
              Ideal!Prices(n + 1, i).volask = Ideal!Prices(n, i).volask
         /\ Calls[n + 1].side = "ask" =>
              /\ Ideal!Prices(n + 1, i).pricebid = Ideal!Prices(n, i).pricebid
              /\ Ideal!Prices(n + 1, i).volbid = Ideal!Prices(n, i).volbid
<1> DEFINE Vol(m, s, p) == Ideal!Volume(m, i, s, p)
           Off(m, s) == Ideal!Offered(m, i, s)
<1>1. ASSUME NEW s, Calls[n + 1].instrument # i \/ Calls[n + 1].side # s
      PROVE  /\ \A p : Vol(n + 1, s, p) = Vol(n, s, p)
             /\ Off(n + 1, s) = Off(n, s)
  <2>1. \A p : Vol(n + 1, s, p) = Vol(n, s, p)
    BY <1>1, VolumeStep
  <2>2. \A p : /\ p \in Off(n, s) <=> Vol(n, s, p) # 0
               /\ p \in Off(n + 1, s) <=> Vol(n + 1, s, p) # 0
    <3>1. n + 1 \in Nat
      OBVIOUS
    <3>2. QED
      BY <3>1, OfferedHaveVolumes
  <2>3. \A p : p \in Off(n + 1, s) <=> p \in Off(n, s)
    BY <2>1, <2>2
  <2>4. Off(n + 1, s) \subseteq Off(n, s) /\ Off(n, s) \subseteq Off(n + 1, s)
    <3> HIDE DEF Off
    <3>1. QED
      BY <2>3
  <2>5. QED
    BY <2>1, <2>4
<1>2. Calls[n + 1].instrument # i \/ Calls[n + 1].side = "ask" =>
        /\ Ideal!Prices(n + 1, i).pricebid = Ideal!Prices(n, i).pricebid
        /\ Ideal!Prices(n + 1, i).volbid = Ideal!Prices(n, i).volbid
  BY <1>1 DEF Ideal!Prices
<1>3. Calls[n + 1].instrument # i \/ Calls[n + 1].side = "bid" =>
        Ideal!Prices(n + 1, i).volask = Ideal!Prices(n, i).volask
  BY <1>1 DEF Ideal!Prices
<1>4. Calls[n + 1].instrument # i => Ideal!Prices(n + 1, i) = Ideal!Prices(n, i)
  BY <1>2, <1>3 DEF Ideal!Prices
<1>5. QED
  BY <1>2, <1>3, <1>4

(* A further call leaves what the earlier ones made alone.                 *)
LEMMA EarlierPrices ==
  ASSUME NEW n \in Nat, \A m \in 1 .. n : Calls'[m] = Calls[m], NEW i
  PROVE  Ideal!Prices(n, i)' = Ideal!Prices(n, i)
<1> DEFINE Vol(s, p) == Ideal!Volume(n, i, s, p)
           Off(s) == Ideal!Offered(n, i, s)
<1>1. \A s : Off(s)' = Off(s) /\ \A p : Vol(s, p)' = Vol(s, p)
  BY BookOfEarlierCalls
<1>2. Off("bid")' = Off("bid") /\ Off("ask")' = Off("ask")
  BY <1>1
<1>3. \A p : Vol("bid", p)' = Vol("bid", p) /\ Vol("ask", p)' = Vol("ask", p)
  BY <1>1
<1>4. PICK high : high = Ideal!Max(Off("bid"))
  OBVIOUS
<1>5. PICK low : low = Ideal!Min(Off("ask"))
  OBVIOUS
<1>6. Ideal!Max(Off("bid"))' = high /\ Ideal!Min(Off("ask"))' = low
  BY <1>2, <1>4, <1>5 DEF Ideal!Max, Ideal!Min
<1>7. /\ Vol("bid", Ideal!Max(Off("bid")))' = Vol("bid", high)
      /\ Vol("ask", Ideal!Min(Off("ask")))' = Vol("ask", low)
  BY <1>3, <1>6
<1>8. QED
  BY <1>2, <1>4, <1>5, <1>7 DEF Ideal!Prices

LEMMA EarlierValues ==
  ASSUME NEW n \in Nat \ {0}, \A m \in 1 .. n : Calls'[m] = Calls[m]
  PROVE  Ideal!Value(n)' = Ideal!Value(n)
<1>1. PICK i : i = Calls[n].instrument
  OBVIOUS
<1>2. Calls'[n].instrument = i
  BY <1>1
<1>3. Ideal!Prices(n, Calls[n].instrument)' = Ideal!Prices(n, i)
  <2>1. Ideal!Prices(n, i)' = Ideal!Prices(n, i)
    BY EarlierPrices
  <2>2. QED
    BY <1>2, <2>1
<1>4. QED
  BY <1>1, <1>3 DEF Ideal!Value

LEMMA EarlierAnswers ==
  ASSUME NEW n \in Nat \ {0}, \A m \in 1 .. n : Calls'[m] = Calls[m]
  PROVE  Ideal!Value(n)' = Ideal!Value(n) /\ Ideal!Answer(n)' = Ideal!Answer(n)
<1>1. ASSUME NEW m \in 1 .. n
      PROVE  Ideal!Value(m)' = Ideal!Value(m)
  <2>1. m \in Nat \ {0} /\ \A k \in 1 .. m : Calls'[k] = Calls[k]
    OBVIOUS
  <2>2. QED
    BY <2>1, EarlierValues
<1> DEFINE S == Ideal!LastCalls(n)
<1>2. Ideal!LastCalls(n)' = S
  BY EarlierLastCalls
<1>3. S \subseteq 1 .. n
  BY DEF Ideal!LastCalls
<1>4. [m \in Ideal!LastCalls(n) |-> Ideal!Value(m)]' = [m \in S |-> Ideal!Value(m)]
  BY <1>1, <1>2, <1>3
<1>5. Ideal!SumFunction([m \in Ideal!LastCalls(n) |-> Ideal!Value(m)])'
        = Ideal!SumFunction([m \in S |-> Ideal!Value(m)])
  BY <1>4
<1>6. Ideal!Total(n)' = Ideal!Total(n)
  BY <1>5 DEF Ideal!Total
<1>7. Ideal!Value(n)' = Ideal!Value(n)
  BY <1>1
<1>8. Ideal!Prices(n, Calls[n].instrument)' = Ideal!Prices(n, Calls[n].instrument)
  <2>1. PICK i : i = Calls[n].instrument
    OBVIOUS
  <2>2. Calls'[n].instrument = i
    BY <2>1
  <2>3. Ideal!Prices(n, i)' = Ideal!Prices(n, i)
    BY EarlierPrices
  <2>4. QED
    BY <2>1, <2>2, <2>3
<1>9. QED
  BY <1>6, <1>7, <1>8 DEF Ideal!Answer

(* Once disturbed, disturbed: two successive calls for one instrument stay *)
(* among the calls.                                                        *)
LEMMA DisturbedFacts ==
  ASSUME NEW n \in Nat
  PROVE  /\ Disturbed(n) => Disturbed(n + 1)
         /\ \A v, w \in Workers :
              /\ v # w /\ n # 0
              /\ Calls[n].instrument = Calls[n + 1].instrument
              => Disturbed(n + 1)
         /\ (\A m \in 1 .. n : Calls'[m] = Calls[m]) => (Disturbed(n)' <=> Disturbed(n))
<1>1. 1 .. n - 1 \subseteq 1 .. (n + 1) - 1 /\ (n # 0 => n \in 1 .. (n + 1) - 1)
  OBVIOUS
<1>2. Disturbed(n) => Disturbed(n + 1)
  BY <1>1 DEF Disturbed, BackToBack
<1>3. ASSUME NEW v \in Workers, NEW w \in Workers, v # w, n # 0,
             Calls[n].instrument = Calls[n + 1].instrument
      PROVE  Disturbed(n + 1)
  BY <1>1, <1>3 DEF Disturbed, BackToBack
<1>4. ASSUME \A m \in 1 .. n : Calls'[m] = Calls[m]
      PROVE  Disturbed(n)' <=> Disturbed(n)
  <2>1. \A m \in 1 .. n - 1 : m \in 1 .. n /\ m + 1 \in 1 .. n
    OBVIOUS
  <2>2. QED
    BY <1>4, <2>1 DEF Disturbed, BackToBack
<1>5. QED
  BY <1>2, <1>3, <1>4

LEMMA TotalIsSum ==
  ASSUME NEW n
  PROVE  Ideal!Total(n) = SumFunction([m \in Ideal!LastCalls(n) |-> Ideal!Value(m)])
  BY DEF Ideal!Total, Ideal!SumFunction, Ideal!SumFunctionOnSet, Ideal!FoldFunctionOnSet,
         Ideal!MapThenFoldSet, SumFunction, SumFunctionOnSet, FoldFunctionOnSet, MapThenFoldSet
-----------------------------------------------------------------------------
(* The slots of the histories.  The steps that write one write the slot of *)
(* the worker's own update.                                                *)
Elsewhere(w) ==
  \A j \in Instruments : \A s \in SpecificSlots :
    j # Data(w).input.instrument \/ s # Data(w).specific_index =>
      Shown(j, s)' = Shown(j, s)

(* An insertion shows the new best offer, if what a worker carries over is *)
(* the best offer of the call before.                                      *)
LEMMA BidInsertShows ==
  ASSUME ProcIInv, NEW w \in Workers, InsertBid(w)
  PROVE  LET i == Data(w).input.instrument
             k == Data(w).specific_index
             before == Shown(i, prev_index_spec(k))
         IN /\ Elsewhere(w)
            /\ (half[w] # NoHalf => half[w] = bids[i].price_bid) /\ before.volbid = bids[i].vol_bid
                 => Shown(i, k)'.pricebid = bids'[i].price_bid /\ Shown(i, k)'.volbid = bids'[i].vol_bid
<1> DEFINE d == Data(w).input
           i == d.instrument
           k == Data(w).specific_index
           book == bids[i]
           last == [price_bid |-> half[w], vol_bid |-> book.history[prev_index_spec(k)].vol_bid]
           after == bids_insert(book, k, d.volume, d.price, last)
<1>1. /\ pc[w] = "insert" /\ asks' = asks
      /\ BidKept(book, d.volume, d.price) => half[w] # NoHalf
      /\ bids' = [bids EXCEPT ![i] = after]
  BY DEF InsertBid, Insert, Goto
<1>2. /\ i \in Instruments /\ d.price \in PriceSet /\ d.volume \in VolumeSet
      /\ k \in SpecificSlots
  BY <1>1, DataFacts DEF ProcIInv
<1>3. /\ book \in BidBooks(Volumes) /\ CachedBid(book) = HighestBid(book.tree)
      /\ bids \in [Instruments -> BidBooks(Volumes)]
  BY <1>2 DEF ProcIInv, ProcTypeOK, BestIsCached
<1>4. /\ bids'[i] = after /\ \A j \in Instruments : j # i => bids'[j] = bids[j]
  BY <1>1, <1>2, <1>3
<1>5. \A s \in SpecificSlots : s # k => after.history[s] = book.history[s]
  BY <1>2, <1>3 DEF bids_insert, BidBooks
<1>6. Elsewhere(w)
  <2> HIDE DEF after
  <2>1. QED
    BY <1>1, <1>4, <1>5 DEF Elsewhere, Shown
<1>7. ASSUME half[w] # NoHalf => half[w] = book.price_bid,
             book.history[prev_index_spec(k)].vol_bid = book.vol_bid
      PROVE  after.history[k] = CachedBid(after)
  <2>1. after = bids_insert(book, k, d.volume, d.price, CachedBid(book))
    <3>1. CASE BidKept(book, d.volume, d.price)
      <4>1. last = CachedBid(book)
        BY <1>1, <1>7, <3>1 DEF CachedBid
      <4>2. QED
        BY <4>1
    <3>2. CASE ~BidKept(book, d.volume, d.price)
      BY <3>2 DEF bids_insert
    <3>3. QED
      BY <3>1, <3>2
  <2> HIDE DEF after
  <2>2. CachedBid(book) \in [price_bid : 0 .. INT_MAX, vol_bid : Volumes]
    BY <1>3, VolumeFacts DEF CachedBid, BidBooks
  <2> HIDE DEF d, k
  <2>3. QED
    BY <1>2, <1>3, <2>1, <2>2, BidsInsert, VolumeFacts
<1> HIDE DEF after
<1>8. Data(w)' = Data(w)
  BY DEF InsertBid, Insert, Data
<1>9. QED
  BY <1>4, <1>6, <1>7, <1>8 DEF Shown, CachedBid

LEMMA AskInsertShows ==
  ASSUME EqualSizes, ProcIInv, NEW w \in Workers, InsertAsk(w)
  PROVE  LET i == Data(w).input.instrument
             k == Data(w).specific_index
         IN /\ Elsewhere(w)
            /\ Shown(i, prev_index_spec(k)).volask = asks[i].vol_ask
                 => Shown(i, k)'.volask = asks'[i].vol_ask
<1> DEFINE d == Data(w).input
           i == d.instrument
           k == Data(w).specific_index
           book == asks[i]
           after == asks_insert(book, k, d.volume, d.price)
<1>1. /\ pc[w] = "insert" /\ bids' = bids
  BY DEF InsertAsk, Insert, Goto
<1>2. /\ i \in Instruments /\ d.price \in PriceSet /\ d.volume \in VolumeSet
      /\ k \in SpecificSlots
  BY <1>1, DataFacts DEF ProcIInv
<1>3. /\ book \in AskBooks(Volumes) /\ CachedAsk(book) = LowestAsk(book.tree)
      /\ asks \in [Instruments -> AskBooks(Volumes)]
  BY <1>2 DEF ProcIInv, ProcTypeOK, BestIsCached
<1>4. asks' = [asks EXCEPT ![i] = after]
  BY <1>2, <1>3 DEF InsertAsk
<1>5. /\ asks'[i] = after /\ \A j \in Instruments : j # i => asks'[j] = asks[j]
  BY <1>2, <1>3, <1>4
<1>6. \A s \in SpecificSlots : s # k => after.history[s] = book.history[s]
  BY <1>2, <1>3 DEF asks_insert, AskBooks
<1> HIDE DEF after
<1>7. Elsewhere(w)
  BY <1>1, <1>5, <1>6 DEF Elsewhere, Shown
<1>8. book.history[prev_index_spec(k)] = book.vol_ask => after.history[k] = after.vol_ask
  <2> HIDE DEF d, k
  <2>1. QED
    BY <1>2, <1>3, AsksInsert, VolumeFacts, HistoriesAssumption DEF EqualSizes, after
<1>9. Data(w)' = Data(w)
  BY DEF InsertAsk, Insert, Data
<1>10. QED
  BY <1>5, <1>7, <1>8, <1>9 DEF Shown

(* The copies take what they show from the slot before.                    *)
LEMMA CopiesShow ==
  ASSUME ProcIInv, NEW w \in Workers, Copies(w)
  PROVE  LET i == Data(w).input.instrument
             k == Data(w).specific_index
             before == Shown(i, prev_index_spec(k))
             own == Shown(i, k)
         IN /\ Elsewhere(w)
            /\ CopyAsk(w) =>
                 own' = [pricebid |-> own.pricebid, volbid |-> own.volbid, volask |-> before.volask]
            /\ CopyBidPrice(w) =>
                 own' = [pricebid |-> before.pricebid, volbid |-> own.volbid, volask |-> own.volask]
            /\ CopyBidVolume(w) =>
                 own' = [pricebid |-> own.pricebid, volbid |-> before.volbid, volask |-> own.volask]
<1> DEFINE d == Data(w).input
           i == d.instrument
           k == Data(w).specific_index
           prev == prev_index_spec(k)
           own == Shown(i, k)
           before == Shown(i, prev)
<1>1. pc[w] = "copy"
  BY DEF Copies, CopyAsk, CopyBidPrice, CopyBidVolume, Copy, Goto
<1>2. i \in Instruments /\ k \in SpecificSlots
  BY <1>1, DataFacts DEF ProcIInv
<1>3. /\ bids \in [Instruments -> BidBooks(Volumes)] /\ asks \in [Instruments -> AskBooks(Volumes)]
  BY DEF ProcIInv, ProcTypeOK
<1>4. \A j \in Instruments :
        /\ bids[j].history \in [SpecificSlots -> [price_bid : 0 .. INT_MAX, vol_bid : Volumes]]
        /\ asks[j].history \in [SpecificSlots -> Volumes]
  BY <1>3 DEF BidBooks, AskBooks
<1>5. Data(w)' = Data(w)
  BY DEF Copies, CopyAsk, CopyBidPrice, CopyBidVolume, Copy, chainVars, Data
<1>6. ASSUME CopyAsk(w)
      PROVE  /\ Elsewhere(w)
             /\ own' = [pricebid |-> own.pricebid, volbid |-> own.volbid, volask |-> before.volask]
  <2>1. bids' = bids /\ asks' = [asks EXCEPT ![i].history[k] = asks[i].history[prev]]
    BY <1>6 DEF CopyAsk
  <2>2. /\ \A j \in Instruments : j # i => asks'[j] = asks[j]
        /\ asks'[i].history[k] = asks[i].history[prev]
        /\ \A s \in SpecificSlots : s # k => asks'[i].history[s] = asks[i].history[s]
    <3> HIDE DEF i, k, prev
    <3>1. QED
      BY <1>2, <1>3, <1>4, <2>1 DEF AskBooks
  <2>3. Elsewhere(w)
    BY <2>1, <2>2 DEF Elsewhere, Shown
  <2>4. QED
    BY <1>5, <2>1, <2>2, <2>3 DEF Shown
<1>7. ASSUME NEW shown \in [price_bid : 0 .. INT_MAX, vol_bid : Volumes],
             bids' = [bids EXCEPT ![i].history[k] = shown], asks' = asks
      PROVE  /\ Elsewhere(w)
             /\ own' = [pricebid |-> shown.price_bid, volbid |-> shown.vol_bid, volask |-> own.volask]
  <2>1. /\ \A j \in Instruments : j # i => bids'[j] = bids[j]
        /\ bids'[i].history[k] = shown
        /\ \A s \in SpecificSlots : s # k => bids'[i].history[s] = bids[i].history[s]
    <3> HIDE DEF i, k
    <3>1. QED
      BY <1>2, <1>3, <1>4, <1>7 DEF BidBooks
  <2>2. Elsewhere(w)
    BY <1>7, <2>1 DEF Elsewhere, Shown
  <2>3. QED
    BY <1>5, <1>7, <2>1, <2>2 DEF Shown
<1>8. /\ bids[i].history[k] \in [price_bid : 0 .. INT_MAX, vol_bid : Volumes]
      /\ bids[i].history[prev] \in [price_bid : 0 .. INT_MAX, vol_bid : Volumes]
  BY <1>2, <1>4, LastSlotIsOwn
<1>9. ASSUME CopyBidPrice(w)
      PROVE  /\ Elsewhere(w)
             /\ own' = [pricebid |-> before.pricebid, volbid |-> own.volbid, volask |-> own.volask]
  <2> DEFINE shown == [bids[i].history[k] EXCEPT !.price_bid = bids[i].history[prev].price_bid]
  <2>1. asks' = asks /\ bids' = [bids EXCEPT ![i].history[k] = shown]
    BY <1>9 DEF CopyBidPrice
  <2>2. /\ shown \in [price_bid : 0 .. INT_MAX, vol_bid : Volumes]
        /\ shown.price_bid = before.pricebid /\ shown.vol_bid = own.volbid
    BY <1>8 DEF Shown
  <2> HIDE DEF shown
  <2>3. QED
    BY <1>7, <2>1, <2>2
<1>10. ASSUME CopyBidVolume(w)
       PROVE  /\ Elsewhere(w)
              /\ own' = [pricebid |-> own.pricebid, volbid |-> before.volbid, volask |-> own.volask]
  <2> DEFINE shown == [bids[i].history[k] EXCEPT !.vol_bid = bids[i].history[prev].vol_bid]
  <2>1. asks' = asks /\ bids' = [bids EXCEPT ![i].history[k] = shown]
    BY <1>10 DEF CopyBidVolume
  <2>2. /\ shown \in [price_bid : 0 .. INT_MAX, vol_bid : Volumes]
        /\ shown.price_bid = own.pricebid /\ shown.vol_bid = before.volbid
    BY <1>8 DEF Shown
  <2> HIDE DEF shown
  <2>3. QED
    BY <1>7, <2>1, <2>2
<1>11. QED
  BY <1>6, <1>9, <1>10 DEF Copies

(* A worker's step within its update.                                      *)
WorksOn(w) ==
  /\ pc[w] # "dequeue"
  /\ \A v \in Workers : v # w =>
       pc'[v] = pc[v] /\ half'[v] = half[v] /\ prices'[v] = prices[v]
  /\ UNCHANGED <<issued, ring, local_data, data>>
  /\ Elsewhere(w)

(* One that leaves the books and the prices alone.                         *)
Passes(w) ==
  /\ UNCHANGED <<half, prices, bids, asks>>
  /\ pc[w] \notin {"dequeue", "insert", "copy", "load"} /\ pc'[w] # "load"
  /\ pc'[w] \in BeforeLoad <=> pc[w] \in BeforeLoad
  /\ pc'[w] \in InsertDone <=> pc[w] \in InsertDone
  /\ pc'[w] \in BeforeSum \cup {"set_sum"} => pc[w] \in BeforeSum \cup {"set_sum"}

LEMMA WorkSteps ==
  ASSUME EqualSizes, ProcIInv, NEW w \in Workers, ProcWorker(w), ~Dequeue(w)
  PROVE  /\ WorksOn(w)
         /\ \/ Passes(w)
            \/ ReadKeptPrice(w) \/ InsertBid(w) \/ InsertAsk(w) \/ Copies(w) \/ ProcLoad(w)
<1>1. /\ pc \in [Workers -> Stages] /\ half = [v \in Workers |-> half[v]]
      /\ prices = [v \in Workers |-> prices[v]]
  BY DEF ProcIInv, ProcTypeOK, TypeOK
<1>2. ASSUME UNCHANGED <<bids, asks>>
      PROVE  Elsewhere(w)
  BY <1>2 DEF Elsewhere, Shown
<1>3. CASE Synchronise(w)
  <2>1. UNCHANGED <<data, bids, asks, half, prices>>
    BY <1>3 DEF Synchronise, bookVars
  <2>2. PICK to : /\ pc[w] # "dequeue" /\ pc' = [pc EXCEPT ![w] = to]
                  /\ UNCHANGED <<issued, ring, local_data>>
    BY <1>3 DEF Synchronise, UnsetNextOrder, UnsetNextSum, WaitOrder, UnsetOwnOrder, SetOrder,
       WaitSum, UnsetOwnSum, SetSum, Goto
  <2>3. Passes(w)
    BY <1>1, <1>3, <2>1 DEF Synchronise, UnsetNextOrder, UnsetNextSum, WaitOrder, UnsetOwnOrder,
       SetOrder, WaitSum, UnsetOwnSum, SetSum, Goto, Passes, BeforeLoad, NotInserted, InsertDone,
       BeforeSum
  <2>4. QED
    BY <1>1, <1>2, <2>1, <2>2, <2>3 DEF WorksOn
<1>4. CASE compute_return_fp_i(w) \/ history_shift(w)
  <2>1. /\ pc[w] = "sum" /\ pc' = [pc EXCEPT ![w] = "set_sum"]
        /\ UNCHANGED <<data, bids, asks, half, prices, issued, ring, local_data>>
    BY <1>4 DEF compute_return_fp_i, history_shift, Sum, Goto, bookVars
  <2>2. Passes(w)
    BY <1>1, <2>1 DEF Passes, BeforeLoad, NotInserted, InsertDone, BeforeSum
  <2>3. QED
    BY <1>1, <1>2, <2>1, <2>2 DEF WorksOn
<1>5. CASE ReadKeptPrice(w)
  <2>1. /\ pc[w] = "insert" /\ pc' = pc
        /\ UNCHANGED <<data, bids, asks, prices, issued, ring, local_data>>
        /\ \E h : half' = [half EXCEPT ![w] = h]
    BY <1>5 DEF ReadKeptPrice, chainVars, bookVars
  <2>2. QED
    BY <1>1, <1>2, <1>5, <2>1 DEF WorksOn
<1>6. CASE InsertBid(w)
  <2>1. /\ pc[w] = "insert" /\ pc' = [pc EXCEPT ![w] = "set_order"]
        /\ UNCHANGED <<data, prices, issued, ring, local_data>>
        /\ half' = [half EXCEPT ![w] = NoHalf]
    BY <1>6 DEF InsertBid, Insert, Goto
  <2>2. QED
    BY <1>1, <1>6, <2>1, BidInsertShows DEF WorksOn
<1>7. CASE InsertAsk(w)
  <2>1. /\ pc[w] = "insert" /\ pc' = [pc EXCEPT ![w] = "set_order"]
        /\ UNCHANGED <<data, half, prices, issued, ring, local_data>>
    BY <1>7 DEF InsertAsk, Insert, Goto
  <2>2. QED
    BY <1>1, <1>7, <2>1, AskInsertShows DEF WorksOn
<1>8. CASE Copies(w)
  <2>1. /\ pc[w] = "copy"
        /\ UNCHANGED <<data, prices, issued, ring, local_data>>
    BY <1>8 DEF Copies, CopyAsk, CopyBidPrice, CopyBidVolume, Copy, Goto, chainVars
  <2>2. \A v \in Workers : v # w => pc'[v] = pc[v] /\ half'[v] = half[v]
    <3>1. ASSUME CopyAsk(w) PROVE half' = half /\ pc' = [pc EXCEPT ![w] = "load"]
      BY <3>1 DEF CopyAsk, Copy, Goto
    <3>2. ASSUME CopyBidPrice(w)
          PROVE  pc' = pc /\ \E h : half' = [half EXCEPT ![w] = h]
      BY <3>2 DEF CopyBidPrice, chainVars
    <3>3. ASSUME CopyBidVolume(w)
          PROVE  pc' = [pc EXCEPT ![w] = "load"] /\ half' = [half EXCEPT ![w] = NoHalf]
      BY <3>3 DEF CopyBidVolume, Copy, Goto
    <3>4. QED
      BY <1>1, <1>8, <3>1, <3>2, <3>3 DEF Copies
  <2>3. QED
    BY <1>8, <2>1, <2>2, CopiesShow DEF WorksOn
<1>9. CASE ProcLoad(w)
  <2>1. /\ pc[w] = "load" /\ pc' = [pc EXCEPT ![w] = "wait_sum"]
        /\ UNCHANGED <<data, bids, asks, half, issued, ring, local_data>>
        /\ \E p : prices' = [prices EXCEPT ![w] = p]
    BY <1>9 DEF ProcLoad, Load, Goto, bookVars
  <2>2. QED
    BY <1>1, <1>2, <1>9, <2>1 DEF WorksOn
<1>10. QED
  BY <1>3, <1>4, <1>5, <1>6, <1>7, <1>8, <1>9 DEF ProcWorker, Copies

(* The step of a worker leaves what another one has in its slots alone: if *)
(* the two are at work on one instrument, the other's slots are earlier or *)
(* the calls are successive ones.                                          *)
LEMMA HandKept ==
  ASSUME ProcIInv, [ProcNext]_vars, NEW v \in Workers, pc[v] # "dequeue",
         local_data'[v] = local_data[v]
  PROVE  Data(v)' = Data(v)
<1>1. local_data[v] + 1 \in 1 .. issued
  BY HandFacts
<1>2. QED
  BY <1>1, DataGrows DEF Data, ProcIInv

(* The other steps: a worker takes its next update, or no worker moves.    *)
Starts(w) == Dequeue(w) /\ UNCHANGED <<data, bids, asks, half, prices, results>>
Rests ==
  /\ UNCHANGED <<pc, local_data, bids, asks, half, prices, results>>
  /\ Taken' = Taken

LEMMA StepKinds ==
  ASSUME EqualSizes, ProcIInv, [ProcNext]_vars
  PROVE  \/ Rests
         \/ \E w \in Workers : Starts(w)
         \/ \E w \in Workers : ProcWorker(w) /\ WorksOn(w)
<1>1. CASE ProcUpdate
  <2>1. Taken' = Taken
    BY <1>1 DEF ProcUpdate, Update, Taken, ProcIInv, ProcTypeOK, TypeOK
  <2>2. QED
    BY <1>1, <2>1 DEF ProcUpdate, Update, bookVars, Rests
<1>2. ASSUME NEW w \in Workers, ProcWorker(w)
      PROVE  Starts(w) \/ WorksOn(w)
  <2>1. CASE Dequeue(w)
    <3>1. pc[w] = "dequeue"
      BY <2>1 DEF Dequeue, Goto
    <3>2. Synchronise(w)
      BY <1>2, <3>1 DEF ProcWorker, ReadKeptPrice, InsertBid, InsertAsk, CopyAsk, CopyBidPrice,
         CopyBidVolume, ProcLoad, compute_return_fp_i, history_shift, Insert, Copy, Load, Sum, Goto
    <3>3. QED
      BY <2>1, <3>2 DEF Starts, Synchronise, bookVars
  <2>2. CASE ~Dequeue(w)
    BY <1>2, <2>2, WorkSteps
  <2>3. QED
    BY <2>1, <2>2
<1>3. CASE UNCHANGED vars
  BY <1>3 DEF vars, Rests, Taken
<1>4. QED
  BY <1>1, <1>2, <1>3 DEF ProcNext, ProcDrained

LEMMA HalvesKept ==
  ASSUME EqualSizes, ProcIInv, HalvesInside, [ProcNext]_vars
  PROVE  HalvesInside'
<1> USE DEF HalvesInside
<1>1. \A v \in Workers : pc[v] # "dequeue" /\ local_data'[v] = local_data[v] => Data(v)' = Data(v)
  BY HandKept
<1>2. CASE Rests
  BY <1>1, <1>2 DEF Rests
<1>3. ASSUME NEW w \in Workers, Starts(w)
      PROVE  HalvesInside'
  <2>1. /\ half' = half /\ pc[w] = "dequeue"
        /\ \A v \in Workers : v # w => pc'[v] = pc[v] /\ local_data'[v] = local_data[v]
    BY <1>3 DEF Starts, Dequeue, Goto, ProcIInv, ProcTypeOK, TypeOK
  <2>2. QED
    BY <1>1, <2>1
<1>4. ASSUME NEW w \in Workers, ProcWorker(w), WorksOn(w)
      PROVE  HalvesInside'
  <2>1. /\ \A v \in Workers : pc[v] # "dequeue" => Data(v)' = Data(v)
        /\ \A v \in Workers : v # w => pc'[v] = pc[v] /\ half'[v] = half[v]
        /\ pc[w] # "dequeue"
    BY <1>1, <1>4 DEF WorksOn
  <2>2. half'[w] # NoHalf =>
          \/ pc'[w] = "insert" /\ Data(w).input.side = "bid"
          \/ pc'[w] = "copy" /\ Data(w).input.side = "ask"
    <3>1. pc \in [Workers -> Stages] /\ half \in [Workers -> {NoHalf} \cup 0 .. INT_MAX]
      BY DEF ProcIInv, ProcTypeOK, TypeOK
    <3>2. CASE Passes(w)
      BY <3>2 DEF Passes
    <3>3. CASE ReadKeptPrice(w)
      BY <3>3 DEF ReadKeptPrice, chainVars
    <3>4. CASE InsertBid(w)
      BY <3>1, <3>4 DEF InsertBid
    <3>5. CASE InsertAsk(w)
      BY <3>5 DEF InsertAsk, Insert, Goto
    <3>6. CASE CopyAsk(w)
      BY <3>6 DEF CopyAsk, Copy, Goto
    <3>7. CASE CopyBidPrice(w)
      BY <3>7 DEF CopyBidPrice, chainVars
    <3>8. CASE CopyBidVolume(w)
      BY <3>1, <3>8 DEF CopyBidVolume
    <3>9. CASE ProcLoad(w)
      BY <3>9 DEF ProcLoad, Load, Goto
    <3>10. ~Dequeue(w)
      BY <2>1 DEF Dequeue, Goto
    <3>11. QED
      BY <1>4, <3>2, <3>3, <3>4, <3>5, <3>6, <3>7, <3>8, <3>9, <3>10, WorkSteps DEF Copies
  <2>3. QED
    BY <2>1, <2>2
<1>5. QED
  BY <1>2, <1>3, <1>4, StepKinds

(* The best offers in the books are those of the calls inserted so far.    *)
BestOffersShown ==
  ProcIInv /\ BooksFollow =>
    \A n : n = BooksChanged =>
      \A i \in Instruments :
        /\ bids[i].price_bid = Ideal!Prices(n, i).pricebid
        /\ bids[i].vol_bid = Ideal!Prices(n, i).volbid
        /\ asks[i].vol_ask = Ideal!Prices(n, i).volask

LEMMA BooksShow == BestOffersShown
  BY BooksInOrder DEF BestOffersShown, BooksSequential

LEMMA BooksShowAfter == BestOffersShown'
  BY BooksShow, PTL

LEMMA InsertionsShow ==
  ASSUME ProcIInv, IInv, BooksFollow, [ProcNext]_vars, NEW w \in Workers,
         InsertBid(w) \/ InsertAsk(w), NEW n \in Nat, n = local_data[w]
  PROVE  \A i \in Instruments :
           /\ bids[i].price_bid = Ideal!Prices(n, i).pricebid
           /\ bids[i].vol_bid = Ideal!Prices(n, i).volbid
           /\ asks[i].vol_ask = Ideal!Prices(n, i).volask
           /\ bids'[i].price_bid = Ideal!Prices(n + 1, i)'.pricebid
           /\ bids'[i].vol_bid = Ideal!Prices(n + 1, i)'.volbid
           /\ asks'[i].vol_ask = Ideal!Prices(n + 1, i)'.volask
<1>1. n = BooksChanged /\ n + 1 = BooksChanged'
  BY PlacedByInsert DEF InsertBid, InsertAsk
<1>2. ProcIInv' /\ BooksFollow'
  BY ProcStepKeeps, BooksFollowKept
<1>3. \A i \in Instruments :
        /\ bids[i].price_bid = Ideal!Prices(n, i).pricebid
        /\ bids[i].vol_bid = Ideal!Prices(n, i).volbid
        /\ asks[i].vol_ask = Ideal!Prices(n, i).volask
  BY <1>1, BooksShow DEF BestOffersShown
<1>4. \A m : m = BooksChanged' =>
        \A i \in Instruments :
          /\ bids'[i].price_bid = Ideal!Prices(m, i)'.pricebid
          /\ bids'[i].vol_bid = Ideal!Prices(m, i)'.volbid
          /\ asks'[i].vol_ask = Ideal!Prices(m, i)'.volask
  BY <1>2, BooksShowAfter DEF BestOffersShown
<1>5. PICK m : m = n + 1
  OBVIOUS
<1>6. m = BooksChanged'
  BY <1>1, <1>5
<1>7. \A i \in Instruments :
        /\ bids'[i].price_bid = Ideal!Prices(m, i)'.pricebid
        /\ bids'[i].vol_bid = Ideal!Prices(m, i)'.volbid
        /\ asks'[i].vol_ask = Ideal!Prices(m, i)'.volask
  BY <1>4, <1>6
<1>8. QED
  BY <1>3, <1>5, <1>7

(* The prices of the sequential processor around the update in a worker's  *)
(* hands stay the same, and so do its record and its two slots if nothing  *)
(* is written there.                                                       *)
LEMMA HandPrices ==
  ASSUME ProcIInv, [ProcNext]_vars, NEW w \in Workers, pc[w] # "dequeue",
         NEW n \in Nat, n = local_data[w], NEW i
  PROVE  /\ Ideal!Prices(n, i)' = Ideal!Prices(n, i)
         /\ Ideal!Prices(n + 1, i)' = Ideal!Prices(n + 1, i)
         /\ Calls[n + 1] = Data(w).input
<1>1. n + 1 \in 1 .. issued /\ Calls[n + 1] = Data(w).input
  BY HandFacts
<1>2. issued \in Nat
  BY DataGrows DEF ProcIInv
<1>3. \A m \in 1 .. n + 1 : Calls'[m] = Calls[m]
  BY <1>1, <1>2, CallsGrow DEF ProcIInv
<1>4. \A m \in 1 .. n : Calls'[m] = Calls[m]
  BY <1>3
<1>5. n + 1 \in Nat
  OBVIOUS
<1>6. Ideal!Prices(n, i)' = Ideal!Prices(n, i)
  BY <1>4, EarlierPrices
<1>7. Ideal!Prices(n + 1, i)' = Ideal!Prices(n + 1, i)
  <2>1. PICK m \in Nat : m = n + 1
    BY <1>5
  <2>2. \A j \in 1 .. m : Calls'[j] = Calls[j]
    BY <1>3, <2>1
  <2>3. Ideal!Prices(m, i)' = Ideal!Prices(m, i)
    BY <2>2, EarlierPrices
  <2>4. QED
    BY <2>1, <2>3
<1>8. QED
  BY <1>1, <1>6, <1>7

LEMMA HandShows ==
  ASSUME ProcIInv, [ProcNext]_vars, NEW v \in Workers, pc[v] # "dequeue",
         local_data'[v] = local_data[v], pc'[v] = pc[v], half'[v] = half[v],
         prices'[v] = prices[v],
         NEW i, i = Data(v).input.instrument, NEW k, k = Data(v).specific_index,
         NEW prev, prev = prev_index_spec(k),
         Shown(i, k)' = Shown(i, k), Shown(i, prev)' = Shown(i, prev),
         OwnSlotShows(v)
  PROVE  OwnSlotShows(v)'
<1>1. PICK n \in Nat : n = local_data[v]
  BY HandFacts
<1>2. /\ Ideal!Prices(n, i)' = Ideal!Prices(n, i)
      /\ Ideal!Prices(n + 1, i)' = Ideal!Prices(n + 1, i)
  BY <1>1, HandPrices
<1>3. Data(v)' = Data(v)
  BY HandKept
<1>4. SlotShows(pc[v], Data(v).input.side, half[v], prices[v],
                Shown(i, prev), Shown(i, k), Ideal!Prices(n, i), Ideal!Prices(n + 1, i))
  BY <1>1 DEF OwnSlotShows
<1>5. PICK side : side = Data(v).input.side
  OBVIOUS
<1>6. SlotShows(pc[v], side, half[v], prices[v],
                Shown(i, prev), Shown(i, k), Ideal!Prices(n, i), Ideal!Prices(n + 1, i))'
  BY <1>2, <1>4, <1>5 DEF SlotShows
<1>7. n = local_data'[v] /\ Data(v)'.input.instrument = i /\ Data(v)'.specific_index = k
      /\ Data(v)'.input.side = side
  BY <1>1, <1>3, <1>5
<1>8. QED
  BY <1>6, <1>7 DEF OwnSlotShows

(* The step of a worker keeps what is said of its own slot.                *)
LEMMA OwnKept ==
  ASSUME EqualSizes, ProcIInv, IInv, BooksFollow, HalvesInside, [ProcNext]_vars,
         NEW w \in Workers, ProcWorker(w), WorksOn(w), OwnSlotShows(w)
  PROVE  OwnSlotShows(w)'
<1>1. /\ pc[w] # "dequeue" /\ pc \in [Workers -> Stages]
      /\ half \in [Workers -> {NoHalf} \cup 0 .. INT_MAX]
      /\ prices = [v \in Workers |-> prices[v]]
  BY DEF WorksOn, ProcIInv, ProcTypeOK, TypeOK
<1>2. PICK n \in Nat : n = local_data[w]
  BY <1>1, HandFacts
<1>3. PICK i, k, prev, side :
        /\ i = Data(w).input.instrument /\ k = Data(w).specific_index
        /\ prev = prev_index_spec(k) /\ side = Data(w).input.side
  OBVIOUS
<1>4. i \in Instruments /\ k \in SpecificSlots /\ side \in {"bid", "ask"}
  BY <1>1, <1>3, DataFacts DEF ProcIInv
<1>5. prev \in SpecificSlots /\ prev # k
  BY <1>3, <1>4, Neighbours
<1>6. Data(w)' = Data(w)
  BY <1>1, HandKept DEF WorksOn
<1>7. Shown(i, prev)' = Shown(i, prev)
  BY <1>3, <1>4, <1>5 DEF WorksOn, Elsewhere
<1>8. /\ Ideal!Prices(n, i)' = Ideal!Prices(n, i)
      /\ Ideal!Prices(n + 1, i)' = Ideal!Prices(n + 1, i)
      /\ Calls[n + 1].side = side
  BY <1>1, <1>2, <1>3, HandPrices
<1>9. PICK before, last, best :
        /\ before = Shown(i, prev) /\ last = Ideal!Prices(n, i) /\ best = Ideal!Prices(n + 1, i)
  OBVIOUS
<1>10. /\ side = "bid" => best.volask = last.volask
       /\ side = "ask" => best.pricebid = last.pricebid /\ best.volbid = last.volbid
  BY <1>8, <1>9, PricesStep
<1>11. best = [pricebid |-> best.pricebid, volbid |-> best.volbid, volask |-> best.volask]
  BY <1>9 DEF Ideal!Prices
<1>12. SlotShows(pc[w], side, half[w], prices[w], before, Shown(i, k), last, best)
  BY <1>2, <1>3, <1>9 DEF OwnSlotShows
<1>13. PICK own, after : own = Shown(i, k) /\ after = Shown(i, k)'
  OBVIOUS
<1>14. Data(w)'.specific_index = k /\ Data(w)'.input.instrument = i /\ Data(w)'.input.side = side
  BY <1>3, <1>6
<1>15. SUFFICES SlotShows(pc'[w], side, half'[w], prices'[w], before, after, last, best)
  <2>1. n = local_data'[w]
    BY <1>2 DEF WorksOn
  <2>2. /\ before = Shown(i, prev)' /\ last = Ideal!Prices(n, i)' /\ best = Ideal!Prices(n + 1, i)'
    BY <1>7, <1>8, <1>9
  <2>3. SlotShows(pc[w], side, half[w], prices[w], Shown(i, prev), Shown(i, k),
                  Ideal!Prices(n, i), Ideal!Prices(n + 1, i))'
    BY <1>13, <1>15, <2>2 DEF SlotShows
  <2>4. QED
    BY <1>3, <1>14, <2>1, <2>3 DEF OwnSlotShows
<1>16. SlotShows(pc[w], side, half[w], prices[w], before, own, last, best)
  BY <1>12, <1>13
<1>17. half[w] # NoHalf => \/ pc[w] = "insert" /\ side = "bid"
                           \/ pc[w] = "copy" /\ side = "ask"
  BY <1>3 DEF HalvesInside
<1> USE DEF BeforeLoad, NotInserted, InsertDone, BeforeSum
<1>18. ASSUME InsertBid(w) \/ InsertAsk(w)
       PROVE  /\ bids[i].price_bid = last.pricebid
              /\ bids[i].vol_bid = last.volbid
              /\ asks[i].vol_ask = last.volask
              /\ bids'[i].price_bid = best.pricebid
              /\ bids'[i].vol_bid = best.volbid
              /\ asks'[i].vol_ask = best.volask
  BY <1>2, <1>4, <1>8, <1>9, <1>18, InsertionsShow
<1>19. CASE Passes(w)
  <2>1. after = own
    BY <1>13, <1>19 DEF Passes, Shown
  <2>2. half[w] = NoHalf
    BY <1>17, <1>19 DEF Passes
  <2>3. QED
    BY <1>16, <1>19, <2>1, <2>2 DEF Passes, SlotShows
<1>20. CASE ReadKeptPrice(w)
  <2>1. /\ pc[w] = "insert" /\ pc' = pc /\ UNCHANGED <<bids, asks, prices>>
        /\ half'[w] = bids[i].history[prev].price_bid
    BY <1>1, <1>3, <1>20 DEF ReadKeptPrice, chainVars, bookVars
  <2>2. after = own /\ half'[w] = before.pricebid
    BY <1>9, <1>13, <2>1 DEF Shown
  <2>3. QED
    BY <1>16, <2>1, <2>2 DEF SlotShows
<1>21. CASE InsertBid(w)
  <2>1. /\ pc[w] = "insert" /\ pc'[w] = "set_order" /\ prices' = prices /\ half'[w] = NoHalf
        /\ side = "bid"
    BY <1>1, <1>3, <1>21 DEF InsertBid, Insert, Goto
  <2>2. before = last /\ (half[w] # NoHalf => half[w] = before.pricebid)
    BY <1>16, <2>1 DEF SlotShows
  <2>3. after.pricebid = best.pricebid /\ after.volbid = best.volbid
    <3>1. (half[w] # NoHalf => half[w] = bids[i].price_bid) /\ Shown(i, prev).volbid = bids[i].vol_bid
             => Shown(i, k)'.pricebid = bids'[i].price_bid /\ Shown(i, k)'.volbid = bids'[i].vol_bid
      BY <1>3, <1>14, <1>21, BidInsertShows
    <3>2. QED
      BY <1>9, <1>13, <1>18, <1>21, <2>2, <3>1
  <2>4. QED
    BY <2>1, <2>2, <2>3 DEF SlotShows
<1>22. CASE InsertAsk(w)
  <2>1. /\ pc[w] = "insert" /\ pc'[w] = "set_order" /\ prices' = prices /\ side = "ask"
    BY <1>1, <1>3, <1>22 DEF InsertAsk, Insert, Goto
  <2>2. before = last
    BY <1>16, <2>1 DEF SlotShows
  <2>3. after.volask = best.volask
    <3>1. Shown(i, prev).volask = asks[i].vol_ask => Shown(i, k)'.volask = asks'[i].vol_ask
      BY <1>3, <1>14, <1>22, AskInsertShows
    <3>2. QED
      BY <1>9, <1>13, <1>18, <1>22, <2>2, <3>1
  <2>4. QED
    BY <2>1, <2>2, <2>3 DEF SlotShows
<1>23. /\ CopyAsk(w) =>
            after = [pricebid |-> own.pricebid, volbid |-> own.volbid, volask |-> before.volask]
       /\ CopyBidPrice(w) =>
            after = [pricebid |-> before.pricebid, volbid |-> own.volbid, volask |-> own.volask]
       /\ CopyBidVolume(w) =>
            after = [pricebid |-> own.pricebid, volbid |-> before.volbid, volask |-> own.volask]
  BY <1>3, <1>9, <1>13, <1>14, CopiesShow DEF Copies
<1>24. CASE CopyAsk(w)
  <2>1. pc[w] = "copy" /\ pc'[w] = "load" /\ side = "bid" /\ half' = half
    BY <1>1, <1>3, <1>24 DEF CopyAsk, Copy, Goto
  <2>2. after = best
    BY <1>10, <1>11, <1>16, <1>23, <1>24, <2>1 DEF SlotShows
  <2>3. QED
    BY <2>1, <2>2 DEF SlotShows
<1>25. CASE CopyBidPrice(w)
  <2>1. /\ pc[w] = "copy" /\ pc' = pc /\ side = "ask"
    BY <1>3, <1>25 DEF CopyBidPrice, chainVars
  <2>2. before = last /\ own.volask = best.volask
    BY <1>16, <2>1 DEF SlotShows
  <2>3. after.pricebid = best.pricebid /\ after.volask = best.volask
    BY <1>10, <1>23, <1>25, <2>1, <2>2
  <2>4. QED
    BY <2>1, <2>2, <2>3 DEF SlotShows
<1>26. CASE CopyBidVolume(w)
  <2>1. pc[w] = "copy" /\ pc'[w] = "load" /\ side = "ask" /\ half[w] # NoHalf
    BY <1>1, <1>3, <1>26 DEF CopyBidVolume, Copy, Goto
  <2>2. after = best
    BY <1>10, <1>11, <1>16, <1>23, <1>26, <2>1 DEF SlotShows
  <2>3. QED
    BY <2>1, <2>2 DEF SlotShows
<1>27. CASE ProcLoad(w)
  <2>1. pc[w] = "load" /\ pc'[w] = "wait_sum" /\ UNCHANGED <<bids, asks>>
    BY <1>1, <1>27 DEF ProcLoad, Load, Goto, bookVars
  <2>2. prices'[w] = own
    BY <1>1, <1>3, <1>13, <1>27 DEF ProcLoad, Shown
  <2>3. own = best
    BY <1>16, <2>1 DEF SlotShows
  <2>4. QED
    BY <2>1, <2>2, <2>3 DEF SlotShows
<1>28. ~Dequeue(w)
  BY <1>1 DEF Dequeue, Goto
<1>29. QED
  BY <1>19, <1>20, <1>21, <1>22, <1>24, <1>25, <1>26, <1>27, <1>28, WorkSteps DEF Copies

(* The step of a worker leaves what another one has in its slots alone: if *)
(* the two are at work on one instrument, the other's slots are earlier or *)
(* the calls are successive ones.                                          *)
LEMMA OthersKept ==
  ASSUME ProcIInv, IInv, SlotsInTurn, [ProcNext]_vars,
         NEW w \in Workers, WorksOn(w), NEW v \in Workers, v # w, pc[v] # "dequeue",
         ~Disturbed(local_data[v] + 1), OwnSlotShows(v)
  PROVE  OwnSlotShows(v)'
<1>1. PICK m \in Nat : m = local_data[v]
  BY HandFacts
<1>2. PICK n \in Nat : n = local_data[w]
  BY HandFacts DEF WorksOn
<1>3. PICK i, k, prev :
        /\ i = Data(v).input.instrument /\ k = Data(v).specific_index
        /\ prev = prev_index_spec(k)
  OBVIOUS
<1>4. i \in Instruments /\ k \in SpecificSlots
  BY <1>3, DataFacts DEF ProcIInv
<1>5. prev \in SpecificSlots
  BY <1>3, <1>4, Neighbours
<1>6. /\ Calls[m + 1] = Data(v).input /\ Data(v) = data[m + 1]
      /\ Calls[n + 1] = Data(w).input /\ Data(w) = data[n + 1]
      /\ m + 1 \in 1 .. issued /\ n + 1 \in 1 .. issued
  BY <1>1, <1>2, HandFacts DEF WorksOn
<1>7. Data(w).input.instrument # i \/ Data(w).specific_index \notin {k, prev}
  <2>1. SUFFICES ASSUME Data(w).input.instrument = i
                 PROVE  Data(w).specific_index \notin {k, prev}
    OBVIOUS
  <2>2. m = n + 1 \/ n = m + 1
    <3>1. Taken \in Int
      BY TakenFacts DEF IInv
    <3>2. /\ m \in {Taken - 1, Taken - 2} /\ n \in {Taken - 1, Taken - 2}
          /\ ~Holds(w, m)
      BY <1>1, <1>2 DEF IInv, WindowOfTwo, WorksOn
    <3>3. m # n
      BY <1>2, <3>2 DEF Holds, WorksOn
    <3>4. QED
      BY <3>1, <3>2, <3>3
  <2>3. CASE m = n + 1
    <3>1. m # 0 /\ Calls[m].instrument = Calls[m + 1].instrument
      BY <1>3, <1>6, <2>1, <2>3
    <3>2. Disturbed(m + 1)
      BY <1>1, <3>1, DisturbedFacts
    <3>3. QED
      BY <1>1, <3>2
  <2>4. CASE n = m + 1
    <3>1. Data(w).specific_index = NextSlot(n, i)
      <4>1. data[n + 1].specific_index = NextSlot(n + 1 - 1, data[n + 1].input.instrument)
        BY <1>6 DEF SlotsInTurn
      <4>2. n + 1 - 1 = n
        OBVIOUS
      <4>3. QED
        BY <1>6, <2>1, <4>1, <4>2
    <3>2. NextSlot(m + 1, i) = (k + 1) % SPECIFIC_HISTORY_SIZE
      BY <1>3, <1>6, NextCall DEF NextCallIs
    <3>3. QED
      BY <1>3, <1>4, <2>4, <3>1, <3>2, Neighbours
  <2>5. QED
    BY <2>2, <2>3, <2>4
<1>8. Shown(i, k)' = Shown(i, k) /\ Shown(i, prev)' = Shown(i, prev)
  BY <1>4, <1>5, <1>7 DEF WorksOn, Elsewhere
<1>9. /\ pc'[v] = pc[v] /\ half'[v] = half[v] /\ prices'[v] = prices[v]
      /\ local_data'[v] = local_data[v]
  BY DEF WorksOn
<1>10. QED
  BY <1>3, <1>8, <1>9, HandShows

(* Being disturbed lasts, for the calls so far.                            *)
LEMMA DisturbedStays ==
  ASSUME ProcIInv, [ProcNext]_vars, NEW n \in 0 .. issued
  PROVE  Disturbed(n)' <=> Disturbed(n)
<1>1. issued \in Nat /\ \A m \in 1 .. issued : Calls'[m] = Calls[m]
  BY CallsGrow, DataGrows DEF ProcIInv
<1>2. n \in Nat /\ \A m \in 1 .. n : Calls'[m] = Calls[m]
  BY <1>1
<1>3. QED
  BY <1>2, DisturbedFacts

(* A worker that takes an update finds its instrument's best offers in the *)
(* slot used last.                                                         *)
LEMMA StartShows ==
  ASSUME ProcIInv, IInv, SlotsInTurn, LastSlotsShow, HalvesInside, [ProcNext]_vars,
         NEW w \in Workers, Starts(w)
  PROVE  /\ Taken \in Nat /\ Taken' = Taken + 1 /\ Taken + 1 <= issued
         /\ local_data'[w] = Taken /\ Data(w)' = data[Taken + 1]
         /\ pc[w] = "dequeue" /\ pc'[w] = "unset_next_order"
         /\ \A v \in Workers : v # w =>
              pc'[v] = pc[v] /\ local_data'[v] = local_data[v]
         /\ Disturbed(Taken + 1) \/ OwnSlotShows(w)'
<1>1. /\ Dequeue(w) /\ UNCHANGED <<data, bids, asks, half, prices>>
      /\ pc[w] = "dequeue" /\ pc'[w] = "unset_next_order"
      /\ \A v \in Workers : v # w => pc'[v] = pc[v] /\ local_data'[v] = local_data[v]
  BY DEF Starts, Dequeue, Goto, ProcIInv, ProcTypeOK, TypeOK
<1>2. /\ Len(ring) \in Nat /\ issued \in Nat /\ Taken = issued - Len(ring)
      /\ ring \in Seq(0 .. Count - 1)
  BY TakenFacts DEF IInv, TypeOK, Taken
<1>3. Len(ring) # 0 /\ ring # << >>
  BY <1>1, <1>2 DEF Dequeue, RingEmpty
<1>4. ring[1] = Taken + 1 - 1 /\ Head(ring) = ring[1]
  BY <1>2, <1>3 DEF IInv, RingInOrder
<1>5. local_data'[w] = Taken /\ Taken \in Int
  BY <1>1, <1>2, <1>4 DEF Dequeue, ProcIInv, ProcTypeOK, TypeOK
<1>6. Taken' = Taken + 1
  BY <1>1, <1>2, <1>3 DEF Dequeue, Taken
<1>7. Taken \in Nat
  <2>1. local_data'[w] \in 0 .. Taken' - 1
    BY <1>1, ProcStepKeeps DEF ProcIInv, HandsAreDistinct
  <2>2. QED
    BY <1>5, <2>1
<1>8. PICK n \in Nat : n = Taken
  BY <1>7
<1>9. n + 1 \in 1 .. issued
  BY <1>2, <1>3, <1>8
<1>10. Data(w)' = data[n + 1]
  BY <1>1, <1>5, <1>8 DEF Data
<1>11. PICK i, k, prev, side :
         /\ i = data[n + 1].input.instrument /\ k = data[n + 1].specific_index
         /\ prev = prev_index_spec(k) /\ side = data[n + 1].input.side
  OBVIOUS
<1>12. k = NextSlot(n, i)
  <2>1. data[n + 1].specific_index = NextSlot(n + 1 - 1, data[n + 1].input.instrument)
    BY <1>9 DEF SlotsInTurn
  <2>2. n + 1 - 1 = n
    OBVIOUS
  <2>3. QED
    BY <1>11, <2>1, <2>2
<1>13. prev = LastSlot(n, i)
  BY <1>11, <1>12 DEF LastSlot
<1>14. i \in Instruments /\ Calls[n + 1].instrument = i
  BY <1>9, <1>11, CallFacts DEF ProcIInv
<1>15. Disturbed(n + 1) \/ Shown(i, prev) = Ideal!Prices(n, i)
  <2>1. CASE Disturbed(n)
    BY <2>1, DisturbedFacts
  <2>2. ASSUME NEW v \in Workers, pc[v] \in BeforeLoad, Data(v).input.instrument = i
        PROVE  Disturbed(n + 1)
    <3>1. pc[v] # "dequeue" /\ v # w
      BY <1>1, <2>2 DEF BeforeLoad, NotInserted
    <3>2. PICK m \in Nat : m = local_data[v] /\ Calls[m + 1] = Data(v).input
      BY <3>1, HandFacts
    <3>3. m = n - 1
      <4>1. m \in {n - 1, n - 2}
        BY <1>8, <3>1, <3>2 DEF IInv, WindowOfTwo
      <4>2. ASSUME m = n - 2
            PROVE  FALSE
        <5>1. Holds(v, n - 2)
          BY <3>1, <3>2, <4>2 DEF Holds
        <5>2. PICK u \in Workers : Holds(u, n - 1)
          BY <1>8, <5>1 DEF IInv, WindowOfTwo
        <5>3. pc[u] # "dequeue" /\ local_data[u] = n - 1
          BY <5>2 DEF Holds
        <5>4. u # w
          BY <1>1, <5>3
        <5>5. local_data[v] = n - 2 /\ n - 1 # n - 2
          BY <3>2, <4>2
        <5>6. u # v
          BY <5>3, <5>5
        <5>7. QED
          BY <3>1, <5>4, <5>6, TwoWorkersAssumption
      <4>3. QED
        BY <4>1, <4>2
    <3>4. n # 0 /\ m + 1 = n
      BY <3>3
    <3>5. Calls[n].instrument = Calls[n + 1].instrument
      BY <1>14, <2>2, <3>2, <3>4
    <3>6. QED
      BY <3>1, <3>4, <3>5, DisturbedFacts
  <2>3. CASE Shown(i, LastSlot(n, i)) = Ideal!Prices(n, i)
    BY <1>13, <2>3
  <2>4. QED
    BY <1>8, <1>14, <2>1, <2>2, <2>3 DEF LastSlotsShow
<1>16. ASSUME Shown(i, prev) = Ideal!Prices(n, i)
       PROVE  OwnSlotShows(w)'
  <2>1. \A m \in 1 .. n : Calls'[m] = Calls[m]
    BY <1>2, <1>9, CallsGrow DEF ProcIInv
  <2>2. Ideal!Prices(n, i)' = Ideal!Prices(n, i)
    BY <2>1, EarlierPrices
  <2>3. Shown(i, prev)' = Shown(i, prev)
    BY <1>1 DEF Shown
  <2>4. half'[w] = NoHalf
    BY <1>1 DEF HalvesInside
  <2>5. SlotShows(pc[w], side, half[w], prices[w], Shown(i, prev), Shown(i, k),
                  Ideal!Prices(n, i), Ideal!Prices(n + 1, i))'
    BY <1>1, <1>16, <2>2, <2>3, <2>4 DEF SlotShows, BeforeLoad, NotInserted, InsertDone, BeforeSum
  <2>6. /\ n = local_data'[w] /\ Data(w)'.input.instrument = i /\ Data(w)'.specific_index = k
        /\ Data(w)'.input.side = side
    BY <1>5, <1>8, <1>10, <1>11
  <2>7. QED
    BY <1>11, <2>5, <2>6 DEF OwnSlotShows
<1>17. Taken + 1 <= issued
  BY <1>2, <1>8, <1>9
<1>18. QED
  BY <1>1, <1>5, <1>6, <1>8, <1>10, <1>15, <1>16, <1>17

LEMMA OwnSlotsKept ==
  ASSUME EqualSizes, ProcIInv, IInv, BooksFollow, SlotsInTurn, HalvesInside, LastSlotsShow,
         OwnSlotsShow, [ProcNext]_vars
  PROVE  OwnSlotsShow'
<1>1. ASSUME NEW v \in Workers, pc[v] # "dequeue", local_data'[v] = local_data[v],
             ~Disturbed(local_data[v] + 1) => OwnSlotShows(v)'
      PROVE  Disturbed(local_data[v] + 1)' \/ OwnSlotShows(v)'
  <2>1. PICK n : n = local_data[v] + 1
    OBVIOUS
  <2>2. n \in 0 .. issued
    BY <1>1, <2>1, HandFacts
  <2>3. Disturbed(n)' <=> Disturbed(n)
    BY <2>2, DisturbedStays
  <2>4. n = local_data'[v] + 1
    BY <1>1, <2>1
  <2>5. QED
    BY <1>1, <2>1, <2>3, <2>4
<1>2. ASSUME NEW v \in Workers, pc[v] # "dequeue", ~Disturbed(local_data[v] + 1)
      PROVE  OwnSlotShows(v)
  BY <1>2 DEF OwnSlotsShow
<1>3. ASSUME NEW v \in Workers, pc[v] # "dequeue", UNCHANGED <<bids, asks>>,
             pc'[v] = pc[v], half'[v] = half[v], prices'[v] = prices[v],
             local_data'[v] = local_data[v]
      PROVE  Disturbed(local_data[v] + 1)' \/ OwnSlotShows(v)'
  <2>1. PICK i, k, prev :
          /\ i = Data(v).input.instrument /\ k = Data(v).specific_index
          /\ prev = prev_index_spec(k)
    OBVIOUS
  <2>2. Shown(i, k)' = Shown(i, k) /\ Shown(i, prev)' = Shown(i, prev)
    BY <1>3 DEF Shown
  <2>3. OwnSlotShows(v) => OwnSlotShows(v)'
    BY <1>3, <2>1, <2>2, HandShows
  <2>4. QED
    BY <1>1, <1>2, <1>3, <2>3
<1>4. CASE Rests
  BY <1>3, <1>4 DEF OwnSlotsShow, Rests
<1>5. ASSUME NEW w \in Workers, Starts(w)
      PROVE  OwnSlotsShow'
  <2>1. UNCHANGED <<bids, asks, half, prices>>
    BY <1>5 DEF Starts
  <2>2. /\ local_data'[w] = Taken
        /\ \A v \in Workers : v # w => pc'[v] = pc[v] /\ local_data'[v] = local_data[v]
        /\ Disturbed(Taken + 1) \/ OwnSlotShows(w)'
        /\ Taken \in Nat /\ Taken + 1 <= issued
    BY <1>5, StartShows
  <2>3. Disturbed(local_data[w] + 1)' \/ OwnSlotShows(w)'
    <3>1. PICK n : n = Taken + 1
      OBVIOUS
    <3>2. n \in 0 .. issued
      BY <2>2, <3>1, TakenFacts DEF IInv
    <3>3. Disturbed(n)' <=> Disturbed(n)
      BY <3>2, DisturbedStays
    <3>4. n = local_data'[w] + 1
      BY <2>2, <3>1
    <3>5. QED
      BY <2>2, <3>1, <3>3, <3>4
  <2>4. ASSUME NEW v \in Workers, v # w, pc'[v] # "dequeue"
        PROVE  Disturbed(local_data[v] + 1)' \/ OwnSlotShows(v)'
    BY <1>3, <2>1, <2>2, <2>4
  <2>5. QED
    BY <2>3, <2>4 DEF OwnSlotsShow
<1>6. ASSUME NEW w \in Workers, ProcWorker(w), WorksOn(w)
      PROVE  OwnSlotsShow'
  <2>1. pc[w] # "dequeue" /\ local_data' = local_data
    BY <1>6 DEF WorksOn
  <2>2. Disturbed(local_data[w] + 1)' \/ OwnSlotShows(w)'
    <3>1. ~Disturbed(local_data[w] + 1) => OwnSlotShows(w)'
      BY <1>2, <1>6, <2>1, OwnKept
    <3>2. QED
      BY <1>1, <2>1, <3>1
  <2>3. ASSUME NEW v \in Workers, v # w, pc'[v] # "dequeue"
        PROVE  Disturbed(local_data[v] + 1)' \/ OwnSlotShows(v)'
    <3>1. pc[v] # "dequeue"
      BY <1>6, <2>3 DEF WorksOn
    <3>2. ~Disturbed(local_data[v] + 1) => OwnSlotShows(v)'
      BY <1>2, <1>6, <2>3, <3>1, OthersKept
    <3>3. QED
      BY <1>1, <2>1, <3>1, <3>2
  <2>4. QED
    BY <2>2, <2>3 DEF OwnSlotsShow
<1>7. QED
  BY <1>4, <1>5, <1>6, StepKinds

(* A worker that has copied leaves its instrument at rest.                 *)
LEMMA CopyLeavesShown ==
  ASSUME EqualSizes, ProcIInv, IInv, BooksFollow, SlotsInTurn, HalvesInside, OwnSlotsShow,
         [ProcNext]_vars,
         NEW w \in Workers, ProcWorker(w), WorksOn(w), pc[w] \in BeforeLoad,
         pc'[w] \notin BeforeLoad,
         NEW n \in Nat, n = Taken, NEW i, i = Data(w).input.instrument
  PROVE  Disturbed(n) \/ Shown(i, LastSlot(n, i))' = Ideal!Prices(n, i)'
<1>1. pc[w] # "dequeue"
  BY DEF WorksOn
<1>2. PICK m \in Nat : m = local_data[w]
  BY <1>1, HandFacts
<1>3. PICK k : k = Data(w).specific_index
  OBVIOUS
<1>4. k \in SpecificSlots
  BY <1>1, <1>3, DataFacts DEF ProcIInv
<1>5. /\ m < n /\ m + 1 \in 1 .. issued /\ Data(w) = data[m + 1] /\ Calls[m + 1] = Data(w).input
  BY <1>1, <1>2, HandFacts
<1>6. m = n - 1 \/ m = n - 2
  BY <1>1, <1>2 DEF IInv, WindowOfTwo
<1>7. CASE Disturbed(m + 1)
  <2>1. m + 1 = n \/ m + 1 + 1 = n
    BY <1>6
  <2>2. Disturbed(m + 1 + 1)
    BY <1>7, DisturbedFacts
  <2>3. QED
    BY <1>7, <2>1, <2>2
<1>8. ASSUME ~Disturbed(m + 1)
      PROVE  Shown(i, k)' = Ideal!Prices(m + 1, i)'
  <2>1. OwnSlotShows(w)
    BY <1>1, <1>2, <1>8 DEF OwnSlotsShow
  <2>2. OwnSlotShows(w)'
    BY <2>1, OwnKept
  <2>3. pc'[w] = "load"
    <3>1. Copies(w) => pc'[w] \in {"copy", "load"}
      BY DEF Copies, CopyAsk, CopyBidPrice, CopyBidVolume, Copy, Goto, chainVars, ProcIInv,
         ProcTypeOK, TypeOK
    <3>2. ReadKeptPrice(w) \/ InsertBid(w) \/ InsertAsk(w) => pc'[w] \in {"insert", "set_order"}
      BY DEF ReadKeptPrice, InsertBid, InsertAsk, Insert, Goto, chainVars, ProcIInv,
         ProcTypeOK, TypeOK
    <3>3. ProcLoad(w) => pc[w] = "load"
      BY DEF ProcLoad, Load, Goto
    <3>4. ~Passes(w)
      BY DEF Passes
    <3>5. ~Dequeue(w)
      BY <1>1 DEF Dequeue, Goto
    <3>6. QED
      BY <3>1, <3>2, <3>3, <3>4, <3>5, WorkSteps DEF BeforeLoad, NotInserted
  <2>4. Data(w)' = Data(w) /\ local_data'[w] = m
    BY <1>1, <1>2, HandKept DEF WorksOn
  <2>5. Data(w)'.input.instrument = i /\ Data(w)'.specific_index = k
    BY <1>3, <2>4
  <2>6. (pc[w] = "load" => Shown(i, k) = Ideal!Prices(m + 1, i))'
    BY <2>2, <2>4, <2>5 DEF OwnSlotShows, SlotShows
  <2>7. QED
    BY <2>3, <2>6
<1>9. issued \in Nat /\ n <= issued
  BY TakenFacts DEF IInv
<1>10. \A j \in 1 .. n : data'[j] = data[j]
  BY <1>9, DataGrows DEF ProcIInv
<1>11. LastSlot(n, i)' = LastSlot(n, i)
  BY <1>10, EarlierSlots
<1>12. NextSlot(m + 1, i) = (k + 1) % SPECIFIC_HISTORY_SIZE
  BY <1>3, <1>5, NextCall DEF NextCallIs
<1>13. CASE m + 1 = n
  <2>1. LastSlot(n, i) = k
    BY <1>4, <1>12, <1>13, Neighbours DEF LastSlot
  <2>2. PICK slot : slot = LastSlot(n, i)
    OBVIOUS
  <2>3. slot = LastSlot(n, i)' /\ slot = k
    BY <1>11, <2>1, <2>2
  <2>4. ~Disturbed(m + 1) => Shown(i, slot)' = Ideal!Prices(n, i)'
    <3>1. PICK r : r = m + 1
      OBVIOUS
    <3>2. ~Disturbed(r) => Shown(i, slot)' = Ideal!Prices(r, i)'
      BY <1>8, <2>3, <3>1
    <3>3. r = n
      BY <1>13, <3>1
    <3>4. QED
      BY <3>1, <3>2, <3>3
  <2>5. QED
    BY <1>7, <2>3, <2>4
<1>14. ASSUME m + 2 = n, ~Disturbed(n)
       PROVE  Shown(i, LastSlot(n, i))' = Ideal!Prices(n, i)'
  <2>1. Holds(w, n - 2)
    BY <1>1, <1>2, <1>14 DEF Holds
  <2>2. PICK v \in Workers : Holds(v, n - 1)
    BY <2>1 DEF IInv, WindowOfTwo
  <2>3. v # w
    BY <2>1, <2>2 DEF Holds
  <2>4. PICK r \in Nat : r = m + 1
    OBVIOUS
  <2>5. r # 0 /\ r + 1 = n
    BY <1>14, <2>4
  <2>6. Calls[r] = Data(w).input
    BY <1>5, <2>4
  <2>7. Calls[r + 1].instrument # i
    <3>1. Calls[r].instrument # Calls[r + 1].instrument
      BY <1>14, <2>3, <2>5, DisturbedFacts
    <3>2. QED
      BY <2>6, <3>1
  <2>8. r + 1 \in 1 .. issued
    BY <1>9, <2>5
  <2>9. data[r + 1].input.instrument # i
    BY <2>7, <2>8, CallFacts DEF ProcIInv
  <2>10. NextSlot(r + 1, i) = NextSlot(r, i)
    BY <2>9, NextCall DEF NextCallIs
  <2>11. LastSlot(n, i) = k
    BY <1>4, <1>12, <2>4, <2>5, <2>10, Neighbours DEF LastSlot
  <2>12. Ideal!Prices(r + 1, i) = Ideal!Prices(r, i)
    BY <2>7, PricesStep
  <2>13. /\ Ideal!Prices(r, i)' = Ideal!Prices(r, i)
         /\ Ideal!Prices(n, i)' = Ideal!Prices(n, i)
    <3>1. \A j \in 1 .. n : Calls'[j] = Calls[j]
      BY <1>9, CallsGrow DEF ProcIInv
    <3>2. \A j \in 1 .. r : Calls'[j] = Calls[j]
      BY <2>5, <3>1
    <3>3. QED
      BY <3>1, <3>2, EarlierPrices
  <2>14. ~Disturbed(m + 1)
    BY <1>14, <2>4, <2>5, DisturbedFacts
  <2>15. Shown(i, k)' = Ideal!Prices(r, i)'
    BY <1>8, <2>4, <2>14
  <2>16. Shown(i, k)' = Ideal!Prices(n, i)'
    BY <2>5, <2>12, <2>13, <2>15
  <2>17. k = LastSlot(n, i)'
    BY <1>11, <2>11
  <2>18. QED
    BY <2>16, <2>17
<1>15. QED
  BY <1>6, <1>13, <1>14

LEMMA LastSlotsKept ==
  ASSUME EqualSizes, ProcIInv, IInv, BooksFollow, SlotsInTurn, HalvesInside, LastSlotsShow,
         OwnSlotsShow, Taken \in Nat, [ProcNext]_vars
  PROVE  LastSlotsShow'
<1>1. PICK n \in Nat : n = Taken
  OBVIOUS
<1>2. issued \in Nat /\ n <= issued
  BY <1>1, TakenFacts DEF IInv
<1>3. \A m \in 1 .. n : Calls'[m] = Calls[m] /\ data'[m] = data[m]
  BY <1>2, CallsGrow, DataGrows DEF ProcIInv
<1>4. \A i : /\ Ideal!Prices(n, i)' = Ideal!Prices(n, i)
             /\ LastSlot(n, i)' = LastSlot(n, i)
  BY <1>3, EarlierPrices, EarlierSlots
<1>5. Disturbed(n)' <=> Disturbed(n)
  BY <1>2, DisturbedStays
<1>6. \A v \in Workers :
        pc[v] \in BeforeLoad /\ local_data'[v] = local_data[v] => Data(v)' = Data(v)
  BY HandKept DEF BeforeLoad, NotInserted
<1>7. ASSUME NEW i \in Instruments
      PROVE  \/ Disturbed(n)
             \/ \E v \in Workers : pc[v] \in BeforeLoad /\ Data(v).input.instrument = i
             \/ Shown(i, LastSlot(n, i)) = Ideal!Prices(n, i)
  BY <1>1 DEF LastSlotsShow
(* What is to be shown, with the number of updates taken as a constant.    *)
<1> DEFINE Show(m, i) ==
      \/ Disturbed(m)
      \/ \E v \in Workers : pc[v] \in BeforeLoad /\ Data(v).input.instrument = i
      \/ Shown(i, LastSlot(m, i)) = Ideal!Prices(m, i)
<1>8. ASSUME NEW m, m = Taken', \A i \in Instruments : Show(m, i)'
      PROVE  LastSlotsShow'
  BY <1>8 DEF LastSlotsShow
<1>9. CASE Rests
  <2>1. n = Taken' /\ UNCHANGED <<pc, local_data, bids, asks>>
    BY <1>1, <1>9 DEF Rests
  <2>2. ASSUME NEW i \in Instruments
        PROVE  Show(n, i)'
    <3>1. ASSUME NEW v \in Workers, pc[v] \in BeforeLoad, Data(v).input.instrument = i
          PROVE  Show(n, i)'
      BY <1>6, <2>1, <3>1
    <3>2. PICK slot : slot = LastSlot(n, i)
      OBVIOUS
    <3>3. Shown(i, slot)' = Shown(i, slot)
      BY <2>1 DEF Shown
    <3>4. ASSUME Shown(i, LastSlot(n, i)) = Ideal!Prices(n, i)
          PROVE  Show(n, i)'
      <4>1. Shown(i, slot)' = Ideal!Prices(n, i)' /\ slot = LastSlot(n, i)'
        BY <1>4, <3>2, <3>3, <3>4
      <4>2. QED
        BY <4>1
    <3>5. QED
      BY <1>5, <1>7, <3>1, <3>4
  <2>3. QED
    BY <1>8, <2>1, <2>2
<1>10. ASSUME NEW w \in Workers, Starts(w)
       PROVE  LastSlotsShow'
  <2>1. /\ n + 1 = Taken' /\ n + 1 <= issued /\ Data(w)' = data[n + 1]
        /\ pc[w] = "dequeue" /\ pc'[w] = "unset_next_order"
        /\ \A v \in Workers : v # w => pc'[v] = pc[v] /\ local_data'[v] = local_data[v]
    BY <1>1, <1>10, StartShows
  <2>2. UNCHANGED <<data, bids, asks>> /\ Calls' = Calls
    BY <1>10 DEF Starts, Calls
  <2>3. n + 1 \in 1 .. issued /\ n + 1 \in Nat
    BY <1>2, <2>1
  <2>4. PICK m \in Nat : m = n + 1
    BY <2>3
  <2>5. Disturbed(n) => Disturbed(m)'
    <3>1. Disturbed(m)' <=> Disturbed(m)
      BY <2>3, <2>4, DisturbedStays
    <3>2. QED
      BY <2>4, <3>1, DisturbedFacts
  <2>6. ASSUME NEW i \in Instruments
        PROVE  Show(m, i)'
    <3>1. CASE data[n + 1].input.instrument = i
      BY <2>1, <3>1 DEF BeforeLoad, NotInserted
    <3>2. CASE data[n + 1].input.instrument # i
      <4>1. ASSUME NEW v \in Workers, pc[v] \in BeforeLoad, Data(v).input.instrument = i
            PROVE  Show(m, i)'
        <5>1. v # w
          BY <2>1, <4>1 DEF BeforeLoad, NotInserted
        <5>2. QED
          BY <1>6, <2>1, <4>1, <5>1
      <4>2. Calls[n + 1].instrument # i
        BY <2>3, <3>2, CallFacts DEF ProcIInv
      <4>3. Ideal!Prices(n + 1, i) = Ideal!Prices(n, i) /\ NextSlot(n + 1, i) = NextSlot(n, i)
        BY <3>2, <4>2, PricesStep, NextCall DEF NextCallIs
      <4>4. Ideal!Prices(m, i)' = Ideal!Prices(m, i) /\ LastSlot(m, i)' = LastSlot(m, i)
        <5>1. \A j \in 1 .. m : Calls'[j] = Calls[j] /\ data'[j] = data[j]
          BY <2>2
        <5>2. QED
          BY <5>1, EarlierPrices, EarlierSlots
      <4>5. PICK slot : slot = LastSlot(n, i)
        OBVIOUS
      <4>6. slot = LastSlot(m, i)' /\ Shown(i, slot)' = Shown(i, slot)
        BY <2>2, <2>4, <4>3, <4>4, <4>5 DEF Shown, LastSlot
      <4>7. ASSUME Shown(i, LastSlot(n, i)) = Ideal!Prices(n, i)
            PROVE  Show(m, i)'
        <5>1. Shown(i, slot)' = Ideal!Prices(m, i)'
          BY <2>4, <4>3, <4>4, <4>5, <4>6, <4>7
        <5>2. QED
          BY <4>6, <5>1
      <4>8. QED
        BY <1>7, <2>5, <4>1, <4>7
    <3>3. QED
      BY <3>1, <3>2
  <2>7. QED
    BY <1>8, <2>1, <2>4, <2>6
<1>11. ASSUME NEW w \in Workers, ProcWorker(w), WorksOn(w)
       PROVE  LastSlotsShow'
  <2>1. /\ n = Taken' /\ local_data' = local_data
        /\ \A v \in Workers : v # w => pc'[v] = pc[v]
        /\ pc[w] # "dequeue"
    BY <1>1, <1>11 DEF WorksOn, Taken
  <2>2. PICK own : own = Data(w).input.instrument
    OBVIOUS
  <2>3. ASSUME NEW i \in Instruments
        PROVE  Show(n, i)'
    <3>1. ASSUME NEW v \in Workers, v # w, pc[v] \in BeforeLoad, Data(v).input.instrument = i
          PROVE  Show(n, i)'
      BY <1>6, <2>1, <3>1
    <3>2. ASSUME pc[w] \in BeforeLoad, own = i
          PROVE  Show(n, i)'
      <4>1. CASE pc'[w] \in BeforeLoad
        BY <1>6, <2>1, <2>2, <3>2, <4>1
      <4>2. CASE pc'[w] \notin BeforeLoad
        BY <1>1, <1>5, <1>11, <2>2, <3>2, <4>2, CopyLeavesShown
      <4>3. QED
        BY <4>1, <4>2
    <3>3. ASSUME Shown(i, LastSlot(n, i)) = Ideal!Prices(n, i),
                 own # i \/ pc[w] \notin BeforeLoad
          PROVE  Show(n, i)'
      <4>1. PICK slot : slot = LastSlot(n, i)
        OBVIOUS
      <4>2. Shown(i, slot)' = Shown(i, slot)
        <5>1. CASE own # i
          <6>1. slot \in SpecificSlots
            <7>1. NextSlot(n, i) \in SpecificSlots
              <8>1. CASE CallsOf(n, i) = {}
                BY <8>1, SizesAssumption DEF NextSlot, SpecificSlots
              <8>2. CASE CallsOf(n, i) # {}
                <9>1. Max(CallsOf(n, i)) \in CallsOf(n, i)
                  BY <8>2, LastOfCalls
                <9>2. Max(CallsOf(n, i)) \in 1 .. issued
                  BY <1>2, <9>1 DEF CallsOf
                <9>3. data[Max(CallsOf(n, i))].specific_index \in SpecificSlots
                  BY <9>2, CallFacts DEF ProcIInv
                <9>4. QED
                  BY <8>2, <9>3, Neighbours DEF NextSlot
              <8>3. QED
                BY <8>1, <8>2
            <7>2. QED
              BY <4>1, <7>1, Neighbours DEF LastSlot
          <6>2. QED
            BY <1>11, <2>2, <5>1, <6>1 DEF WorksOn, Elsewhere
        <5>2. CASE pc[w] \notin BeforeLoad
          <6>1. UNCHANGED <<bids, asks>>
            <7>1. pc[w] \notin {"insert", "copy"}
              BY <5>2 DEF BeforeLoad, NotInserted
            <7>2. ~Dequeue(w)
              BY <2>1 DEF Dequeue, Goto
            <7>3. ~ReadKeptPrice(w) /\ ~InsertBid(w) /\ ~InsertAsk(w) /\ ~Copies(w)
              BY <7>1 DEF ReadKeptPrice, InsertBid, InsertAsk, Insert, Copies, CopyAsk,
                 CopyBidPrice, CopyBidVolume, Copy, Goto
            <7>4. Passes(w) \/ ProcLoad(w)
              BY <1>11, <7>2, <7>3, WorkSteps
            <7>5. QED
              BY <7>4 DEF Passes, ProcLoad, bookVars
          <6>2. QED
            BY <6>1 DEF Shown
        <5>3. QED
          BY <3>3, <5>1, <5>2
      <4>3. Shown(i, slot)' = Ideal!Prices(n, i)' /\ slot = LastSlot(n, i)'
        BY <1>4, <3>3, <4>1, <4>2
      <4>4. QED
        BY <4>3
    <3>4. QED
      BY <1>5, <1>7, <2>2, <3>1, <3>2, <3>3
  <2>4. QED
    BY <1>8, <2>1, <2>3
<1>12. QED
  BY <1>9, <1>10, <1>11, StepKinds

(* An answer is the one of the sequential processor, unless the calls up   *)
(* to its own are disturbed.                                               *)
AnswerRight(n, res) ==
  \/ Disturbed(n)
  \/ res = Ideal!Answer(n) /\ res.fp = Ideal!Value(n)

LEMMA RightStays ==
  ASSUME ProcIInv, [ProcNext]_vars, NEW n \in 1 .. issued, NEW res, AnswerRight(n, res)
  PROVE  AnswerRight(n, res)'
<1>1. issued \in Nat /\ \A m \in 1 .. issued : Calls'[m] = Calls[m]
  BY CallsGrow, DataGrows DEF ProcIInv
<1>2. n \in Nat \ {0} /\ \A m \in 1 .. n : Calls'[m] = Calls[m]
  BY <1>1
<1>3. Ideal!Value(n)' = Ideal!Value(n) /\ Ideal!Answer(n)' = Ideal!Answer(n)
  BY <1>2, EarlierAnswers
<1>4. Disturbed(n)' <=> Disturbed(n)
  <2>1. n \in 0 .. issued
    BY <1>1
  <2>2. QED
    BY <2>1, DisturbedStays
<1>5. QED
  BY <1>3, <1>4 DEF AnswerRight

LEMMA AnswerStays ==
  ASSUME ProcIInv, AnswersSequential, [ProcNext]_vars, NEW m \in DOMAIN results,
         NEW n, n = results[m].update + 1, NEW res, res = results[m].res
  PROVE  AnswerRight(n, res)'
<1>1. results[m].update \in 0 .. Taken - 1
  BY DEF ProcIInv, ResultsAreOwned
<1>2. Taken \in Int /\ issued \in Nat /\ Taken <= issued
  BY TakenFacts DEF ProcIInv, ProcTypeOK
<1>3. n \in 1 .. issued
  BY <1>1, <1>2
<1>4. AnswerRight(n, res)
  BY DEF AnswersSequential, AnswerRight
<1>5. QED
  BY <1>3, <1>4, RightStays

LEMMA AnswersAfter ==
  ASSUME \A m \in DOMAIN results' : \A n, res :
           n = results'[m].update + 1 /\ res = results'[m].res => AnswerRight(n, res)'
  PROVE  AnswersSequential'
  BY DEF AnswersSequential, AnswerRight

LEMMA AnswerReported ==
  ASSUME ProcIInv, AnswersSequential, [ProcNext]_vars,
         NEW w \in Workers, pc[w] # "dequeue", NEW res, Reports(w, res),
         NEW n \in Nat, n = local_data[w] + 1, AnswerRight(n, res)
  PROVE  AnswersSequential'
<1>1. /\ results' \in Seq(ResultType)
      /\ Len(results') = Len(results) + 1 /\ Len(results) \in Nat
      /\ results'[Len(results) + 1] = [update |-> local_data[w], res |-> res]
      /\ \A m \in 1 .. Len(results) : results'[m] = results[m]
  BY ReportKept DEF ProcIInv
<1>2. DOMAIN results' = 1 .. Len(results) + 1 /\ DOMAIN results = 1 .. Len(results)
  BY <1>1 DEF ProcIInv, ProcTypeOK
<1>3. n \in 1 .. issued
  BY HandFacts
<1>4. AnswerRight(n, res)'
  BY <1>3, RightStays
<1>5. ASSUME NEW m \in DOMAIN results', NEW k, NEW r,
             k = results'[m].update + 1, r = results'[m].res
      PROVE  AnswerRight(k, r)'
  <2>1. CASE m = Len(results) + 1
    <3>1. k = n /\ r = res
      BY <1>1, <1>5, <2>1
    <3>2. QED
      BY <1>4, <3>1
  <2>2. CASE m \in 1 .. Len(results)
    <3>1. m \in DOMAIN results /\ k = results[m].update + 1 /\ r = results[m].res
      BY <1>1, <1>2, <1>5, <2>2
    <3>2. QED
      BY <3>1, AnswerStays
  <2>3. QED
    BY <1>1, <1>2, <1>5, <2>1, <2>2
<1>6. QED
  BY <1>5, AnswersAfter

(* A worker that answers for want of a price found the ones there are.     *)
LEMMA LoadAnswers ==
  ASSUME ProcIInv, OwnSlotsShow, AnswersSequential, [ProcNext]_vars,
         NEW w \in Workers, ProcLoad(w)
  PROVE  AnswersSequential'
<1>1. /\ pc[w] = "load"
      /\ \/ NotEnoughData(prices[w])' /\ Reports(w, ZeroReturn)
         \/ results' = results
  BY LoadReports DEF ProcIInv
<1>2. ASSUME results' = results
      PROVE  AnswersSequential'
  BY <1>2, AnswerStays, AnswersAfter
<1>3. ASSUME NotEnoughData(prices[w])', Reports(w, ZeroReturn)
      PROVE  AnswersSequential'
  <2>1. PICK n, i : n \in Nat /\ n = local_data[w] /\ i = Data(w).input.instrument
    BY <1>1, HandFacts
  <2>2. PICK m \in Nat : m = n + 1
    BY <2>1
  <2>3. Calls[m] = Data(w).input
    BY <1>1, <2>1, <2>2, HandFacts
  <2>4. AnswerRight(m, ZeroReturn)
    <3>1. CASE Disturbed(m)
      BY <3>1 DEF AnswerRight
    <3>2. CASE ~Disturbed(m)
      <4>1. OwnSlotShows(w)
        BY <1>1, <2>1, <2>2, <3>2 DEF OwnSlotsShow
      <4>2. Shown(i, Data(w).specific_index) = Ideal!Prices(m, i)
        BY <1>1, <2>1, <2>2, <4>1 DEF OwnSlotShows, SlotShows
      <4>3. prices'[w] = Shown(i, Data(w).specific_index)
        BY <2>1 DEF ProcLoad, Shown, ProcIInv, ProcTypeOK
      <4>4. NotEnoughData(Ideal!Prices(m, i))
        BY <1>3, <4>2, <4>3 DEF NotEnoughData
      <4>5. Calls[m].instrument = i
        BY <2>1, <2>3
      <4>6. Ideal!Answer(m) = ZeroReturn /\ Ideal!Value(m) = 0
        BY <4>4, <4>5 DEF Ideal!Answer, Ideal!Value, Ideal!NotEnoughData, NotEnoughData,
           Ideal!ZeroReturn, ZeroReturn
      <4>7. QED
        BY <4>6 DEF AnswerRight, ZeroReturn
    <3>3. QED
      BY <3>1, <3>2
  <2>5. QED
    BY <1>1, <1>3, <2>1, <2>2, <2>4, AnswerReported
<1>4. QED
  BY <1>1, <1>2, <1>3

(* Undisturbed up to one call, undisturbed up to the ones before.          *)
LEMMA DisturbedLater ==
  ASSUME NEW n \in Nat, NEW m \in 1 .. n, Disturbed(m)
  PROVE  Disturbed(n)
<1>1. \A j \in 1 .. m - 1 : j \in 1 .. n - 1
  OBVIOUS
<1>2. QED
  BY <1>1 DEF Disturbed, BackToBack

(* A worker that answers with a share divides the sequential value by the  *)
(* sequential total.                                                       *)
LEMMA SumAnswers ==
  ASSUME ProcIInv, IInv, Ledger, OwnSlotsShow, AnswersSequential, [ProcNext]_vars,
         NEW w \in Workers, compute_return_fp_i(w)
  PROVE  AnswersSequential'
<1> DEFINE p == prices[w]
           fp_i == compute_fp_i(Equity(p.volbid, p.volask), p.pricebid)
           d == Data(w)
           former == fp_i_history[d.input.instrument][prev_index_spec(d.specific_index)]
           last == sum_history[prev_index(Own(w))]
           sum == last - former + fp_i
<1>1. /\ Sum(w) /\ ~NotEnoughData(p) /\ Report(w, Return(fp_i, sum))
      /\ sum_history' = [sum_history EXCEPT ![Own(w)] = sum]
      /\ UNCHANGED data
  BY DEF compute_return_fp_i
<1>2. SlotsInTurn /\ LastValues /\ LastSum
  BY DEF Ledger, LedgerIInv
<1>3. PICK n \in Nat : /\ n = SumsStored /\ n + 1 <= issued /\ local_data[w] = n
                       /\ Own(w) = OrderIndex(n)
  BY <1>1, <1>2, StoringFacts
<1>4. pc[w] = "sum" /\ SumsStored' = n + 1
  BY <1>1, <1>3, StoredBySum
<1>5. PICK m \in Nat : m = n + 1
  OBVIOUS
<1>6. PICK i : i = Data(w).input.instrument /\ Calls[m].instrument = i
  BY <1>3, <1>4, <1>5, HandFacts
<1>7. former \in Nat /\ last \in Nat /\ former <= last
  BY <1>1, <1>2, FormerInSum
<1>8. fp_i \in Nat /\ fp_i > 0
  BY <1>1, ValueIsPositive DEF ProcIInv, ProcTypeOK
<1>9. sum # 0 /\ sum \in Int
  <2> HIDE DEF former, last, fp_i
  <2>1. QED
    BY <1>7, <1>8
<1>10. Return(fp_i, sum) = [fp |-> fp_i, sum |-> sum]
  BY <1>9 DEF Return
<1>11. Reports(w, Return(fp_i, sum)) /\ Return(fp_i, sum).fp = fp_i
  <2> HIDE DEF fp_i, sum
  <2>1. [fp |-> fp_i, sum |-> sum] \in [fp : Nat, sum : Int]
    BY <1>8, <1>9
  <2>2. QED
    BY <1>1, <1>10, <2>1 DEF Report, Reports
<1>12. ValueOf(m)' = fp_i
  BY <1>1, <1>2, <1>3, <1>5, StoredIsReported
<1>13. sum_history'[OrderIndex(n)] = sum
  <2> HIDE DEF sum
  <2>1. QED
    BY <1>1, <1>3, OrderIndexInSlots DEF ProcIInv, ProcTypeOK
<1>14. Calls' = Calls
  BY <1>1 DEF Calls
<1>15. issued \in Nat /\ m <= issued
  BY <1>3, <1>5, TakenFacts DEF IInv
<1> HIDE DEF fp_i, sum
<1>16. ASSUME ~Disturbed(m)
       PROVE  Return(fp_i, sum) = Ideal!Answer(m) /\ fp_i = Ideal!Value(m)
  <2>1. OwnSlotShows(w)
    BY <1>3, <1>4, <1>5, <1>16 DEF OwnSlotsShow
  <2>2. p = Ideal!Prices(m, i)
    BY <1>3, <1>4, <1>5, <1>6, <2>1 DEF OwnSlotShows, SlotShows, BeforeSum
  <2>3. fp_i = Ideal!Value(m)
    BY <1>1, <1>6, <2>2 DEF fp_i, Ideal!Value, Ideal!NotEnoughData, NotEnoughData,
       Ideal!compute_fp_i, compute_fp_i, Ideal!Equity, Equity
  <2>4. ASSUME NEW j \in Ideal!LastCalls(m)
        PROVE  ValueOf(j)' = Ideal!Value(j)
    <3>1. j \in 1 .. m
      BY DEF Ideal!LastCalls
    <3>2. CASE j = m
      BY <1>12, <2>3, <3>2
    <3>3. CASE j \in 1 .. n
      <4>1. ResultsOf(j - 1) # {} /\ ValueOf(j)' = ValueOf(j)
        BY <1>3, <3>3, StoredHaveValues
      <4>2. PICK r \in DOMAIN results : results[r].update = j - 1 /\ ValueOf(j) = results[r].res.fp
        <5>1. j \in Int
          BY <3>3
        <5>2. QED
          BY <4>1, <5>1, ValueReported
      <4>3. ~Disturbed(j)
        BY <1>16, <3>1, DisturbedLater
      <4>4. results[r].update + 1 = j
        BY <3>3, <4>2
      <4>5. results[r].res.fp = Ideal!Value(j)
        BY <4>3, <4>4 DEF AnswersSequential
      <4>6. QED
        BY <4>1, <4>2, <4>5
    <3>4. QED
      BY <1>5, <3>1, <3>2, <3>3
  <2>5. Ideal!LastCalls(m)' = Ideal!LastCalls(m)
    BY <1>14 DEF Ideal!LastCalls
  <2>6. [j \in Ideal!LastCalls(m) |-> ValueOf(j)]' = [j \in Ideal!LastCalls(m) |-> Ideal!Value(j)]
    BY <2>4, <2>5
  <2>7. SumFunction([j \in Ideal!LastCalls(m) |-> ValueOf(j)])' = Ideal!Total(m)
    BY <2>6, TotalIsSum DEF SumFunction
  <2>8. prev_index(OrderIndex(m)) = OrderIndex(n)
    <3>1. m \in Int /\ m - 1 = n
      BY <1>5
    <3>2. QED
      BY <3>1, PrevIndexIsPrev
  <2>9. sum = Ideal!Total(m)
    <3>1. LastSum'
      BY LedgerKept DEF Ledger, LedgerIInv
    <3>2. m = SumsStored'
      BY <1>4, <1>5
    <3>3. sum_history'[prev_index(OrderIndex(m))]
            = SumFunction([j \in Ideal!LastCalls(m) |-> ValueOf(j)])'
      BY <3>1, <3>2 DEF LastSum
    <3>4. QED
      BY <1>13, <2>7, <2>8, <3>3
  <2>10. ~NotEnoughData(Ideal!Prices(m, i))
    BY <1>1, <2>2
  <2>11. Ideal!Answer(m) = Return(Ideal!Value(m), Ideal!Total(m))
    BY <1>6, <2>10 DEF Ideal!Answer, Ideal!NotEnoughData, NotEnoughData, Ideal!Return, Return
  <2>12. QED
    BY <2>3, <2>9, <2>11
<1>17. AnswerRight(m, Return(fp_i, sum))
  BY <1>11, <1>16 DEF AnswerRight
<1>18. QED
  BY <1>3, <1>4, <1>5, <1>11, <1>17, AnswerReported

LEMMA AnswersKept ==
  ASSUME ProcIInv, IInv, Ledger, OwnSlotsShow, AnswersSequential, [ProcNext]_vars
  PROVE  AnswersSequential'
<1>1. ASSUME results' = results
      PROVE  AnswersSequential'
  BY <1>1, AnswerStays, AnswersAfter
<1>2. ASSUME NEW w \in Workers, ProcLoad(w)
      PROVE  AnswersSequential'
  BY <1>2, LoadAnswers
<1>3. ASSUME NEW w \in Workers, compute_return_fp_i(w)
      PROVE  AnswersSequential'
  BY <1>3, SumAnswers
<1>4. \/ results' = results
      \/ \E w \in Workers : ProcLoad(w) \/ compute_return_fp_i(w)
  BY Zenon DEF ProcNext, ProcUpdate, ProcDrained, vars, ProcWorker, Synchronise, ReadKeptPrice,
     InsertBid, InsertAsk, CopyAsk, CopyBidPrice, CopyBidVolume, history_shift
<1>5. QED
  BY <1>1, <1>2, <1>3, <1>4

LEMMA HistoriesInit ==
  ASSUME EqualSizes, ProcInit
  PROVE  HistoriesIInv
<1>1. /\ issued = 0 /\ ring = << >> /\ results = << >>
      /\ \A w \in Workers : pc[w] = "dequeue" /\ half[w] = NoHalf
  BY DEF ProcInit, Init
<1>2. Taken = 0
  <2>1. Len(ring) = 0
    BY <1>1
  <2>2. issued = 0
    BY <1>1
  <2>3. QED
    BY <2>1, <2>2 DEF Taken
<1>3. HalvesInside /\ OwnSlotsShow
  BY <1>1 DEF HalvesInside, OwnSlotsShow
<1>4. AnswersSequential
  BY <1>1 DEF AnswersSequential
<1>5. ASSUME NEW i \in Instruments
      PROVE  Shown(i, LastSlot(0, i)) = Ideal!Prices(0, i)
  <2>1. LastSlot(0, i) = prev_index_spec(0)
    BY DEF LastSlot, NextSlot, CallsOf
  <2>2. prev_index_spec(0) \in SpecificSlots
    BY SizesAssumption, Neighbours DEF SpecificSlots
  <2>3. Cleared(prev_index_spec(0))
    BY <2>2, SizesAssumption DEF Cleared, SpecificSlots, EqualSizes
  <2>4. PICK left \in Leftovers : /\ bids = [j \in Instruments |-> EmptyBids(left)]
                                  /\ asks = [j \in Instruments |-> EmptyAsks(left)]
    BY DEF ProcInit
  <2>5. /\ bids[i].history[prev_index_spec(0)] = NoBid
        /\ asks[i].history[prev_index_spec(0)] = 0
    BY <2>2, <2>3, <2>4 DEF EmptyBids, EmptyAsks
  <2>6. \A side : Ideal!Offered(0, i, side) = {}
    BY DEF Ideal!Offered
  <2>7. QED
    BY <2>1, <2>5, <2>6 DEF Shown, Ideal!Prices, NoBid
<1>6. LastSlotsShow
  BY <1>2, <1>5 DEF LastSlotsShow
<1>7. QED
  BY <1>3, <1>4, <1>6, LedgerInit DEF HistoriesIInv, Ledger

LEMMA HistoriesKept ==
  ASSUME EqualSizes, ProcIInv, IInv, BooksFollow, Ledger, HistoriesIInv, [ProcNext]_vars
  PROVE  HistoriesIInv'
<1>1. Taken \in Nat
  <2>1. SumsStored \in Nat
    BY DEF Ledger
  <2>2. SumsStored <= Taken /\ Taken \in Int
    BY UnsummedCount, TakenFacts DEF IInv
  <2>3. QED
    BY <2>1, <2>2
<1>2. SlotsInTurn /\ HalvesInside /\ LastSlotsShow /\ OwnSlotsShow /\ AnswersSequential
  BY DEF HistoriesIInv, LedgerIInv
<1>3. LedgerIInv'
  BY LedgerKept DEF Ledger
<1>4. HalvesInside'
  BY <1>2, HalvesKept
<1>5. LastSlotsShow'
  BY <1>1, <1>2, LastSlotsKept
<1>6. OwnSlotsShow'
  BY <1>2, OwnSlotsKept
<1>7. AnswersSequential'
  BY <1>2, AnswersKept
<1>8. QED
  BY <1>3, <1>4, <1>5, <1>6, <1>7 DEF HistoriesIInv

(* The slots of the histories are truthful: what they show is what the     *)
(* calls made of the books, unless another worker was at the same          *)
(* instrument's previous call (table.h:86, worker.cc:134-156).             *)
THEOREM HistoriesAreTruthful ==
  ASSUME EqualSizes
  PROVE  ProcSpec => []HistoriesIInv
<1>1. ProcInit => HistoriesIInv
  BY HistoriesInit
<1>2. ProcIInv /\ IInv /\ BooksFollow /\ Ledger /\ HistoriesIInv /\ [ProcNext]_vars
        => HistoriesIInv'
  BY HistoriesKept
<1>3. QED
  BY <1>1, <1>2, ProcInvariant, ProcFlagsAreTruthful, BooksFollowInvariant, LedgerInvariant,
     PTL DEF ProcSpec

(* With no two successive calls for one instrument, every result is that   *)
(* of the sequential processor, whatever the two workers' order was.       *)
THEOREM ResultsAreSequential ==
  ASSUME EqualSizes
  PROVE  ProcSpec => []ResultsSequential
<1>1. HistoriesIInv => ResultsSequential
  <2> SUFFICES ASSUME HistoriesIInv, NEW m \in DOMAIN results
               PROVE  LET n == results[m].update + 1
                      IN BackToBack(n) \/ results[m].res = Ideal!Answer(n)
    BY DEF ResultsSequential
  <2>1. PICK n : n = results[m].update + 1
    OBVIOUS
  <2>2. \/ Disturbed(n)
        \/ results[m].res = Ideal!Answer(n) /\ results[m].res.fp = Ideal!Value(n)
    BY <2>1 DEF HistoriesIInv, AnswersSequential
  <2>3. QED
    BY <2>1, <2>2 DEF Disturbed
<1>2. QED
  BY <1>1, HistoriesAreTruthful, PTL

(* A single worker uses the last values (table.h:86), whatever the calls.  *)
OneWorker == \A v, w \in Workers : v = w

THEOREM LastValuesUsed ==
  ASSUME EqualSizes, OneWorker
  PROVE  ProcSpec => []UsesLastValue
<1>1. HistoriesIInv => UsesLastValue
  <2> SUFFICES ASSUME HistoriesIInv, NEW w \in Workers, pc[w] = "wait_sum"
               PROVE  prices[w] = Ideal!Prices(local_data[w] + 1, Data(w).input.instrument)
    BY DEF UsesLastValue
  <2>1. ~Disturbed(local_data[w] + 1)
    BY DEF Disturbed, OneWorker
  <2>2. OwnSlotShows(w)
    BY <2>1 DEF HistoriesIInv, OwnSlotsShow
  <2>3. QED
    BY <2>2 DEF OwnSlotShows, SlotShows, BeforeSum
<1>2. QED
  BY <1>1, HistoriesAreTruthful, PTL

(* A single worker answers the calls in turn.                              *)
InTurn == \A m \in DOMAIN results : results[m].update = m - 1

(* What a list of entries is made of, and what one more entry makes of it. *)
LEMMA MappedList ==
  ASSUME NEW S, NEW n \in Nat, NEW f \in [1 .. n -> S]
  PROVE  f \in Seq(S) /\ Len(f) = n /\ (n = 0 => f = << >>)
<1>1. f \in Seq(S)
  BY SeqDef
<1>2. DOMAIN f = 1 .. Len(f) /\ Len(f) \in Nat
  BY <1>1, LenProperties
<1>3. Len(f) = n
  BY <1>2
<1>4. QED
  BY <1>1, <1>3, EmptySeq

LEMMA MappedAppend ==
  ASSUME NEW S, NEW n \in Nat, NEW f \in [1 .. n -> S], NEW g \in [1 .. n + 1 -> S],
         \A m \in 1 .. n : g[m] = f[m]
  PROVE  g = Append(f, g[n + 1])
<1>1. f \in Seq(S) /\ Len(f) = n
  BY MappedList
<1>2. g \in Seq(S) /\ Len(g) = n + 1
  <2>1. PICK k \in Nat : k = n + 1
    OBVIOUS
  <2>2. QED
    BY <2>1, MappedList
<1>3. g[n + 1] \in S
  OBVIOUS
<1>4. PICK x \in S : x = g[n + 1]
  BY <1>3
<1>5. /\ Append(f, x) \in Seq(S) /\ Len(Append(f, x)) = n + 1
      /\ Append(f, x)[n + 1] = x
      /\ \A m \in 1 .. n : Append(f, x)[m] = f[m]
  BY <1>1
<1>6. \A m \in 1 .. Len(g) : g[m] = Append(f, x)[m]
  BY <1>2, <1>4, <1>5
<1>7. QED
  BY <1>2, <1>4, <1>5, <1>6, SeqEqual

ListsAreTyped ==
  /\ issued \in Nat /\ Calls \in [1 .. issued -> Inputs] /\ Len(Calls) = issued
  /\ Len(results) \in Nat /\ DOMAIN results = 1 .. Len(results)
  /\ Answers \in [1 .. Len(results) -> [fp : Nat, sum : Int]]
  /\ Len(Answers) = Len(results)

LEMMA ListsTyped == ProcTypeOK => ListsAreTyped
<1> SUFFICES ASSUME ProcTypeOK
             PROVE  ListsAreTyped
  OBVIOUS
<1>1. issued \in Nat /\ Len(data) = issued
  BY DEF ProcTypeOK, TypeOK
<1>2. \A m \in 1 .. issued : data[m].input \in Inputs
  <2>1. ASSUME NEW m \in 1 .. issued
        PROVE  data[m] \in [input : Inputs, specific_index : SpecificSlots]
    BY <1>1, ElementOfSeq DEF ProcTypeOK
  <2>2. QED
    BY <2>1
<1>3. Calls \in [1 .. issued -> Inputs]
  BY <1>1, <1>2 DEF Calls
<1>4. Len(results) \in Nat /\ DOMAIN results = 1 .. Len(results)
  BY LenProperties DEF ProcTypeOK
<1>5. \A m \in 1 .. Len(results) : results[m].res \in [fp : Nat, sum : Int]
  <2>1. ASSUME NEW m \in 1 .. Len(results)
        PROVE  results[m] \in [update : 0 .. Count - 1, res : [fp : Nat, sum : Int]]
    BY ElementOfSeq DEF ProcTypeOK
  <2>2. QED
    BY <2>1
<1>6. Answers \in [1 .. Len(results) -> [fp : Nat, sum : Int]]
  BY <1>5 DEF Answers
<1>7. Len(Calls) = issued /\ Len(Answers) = Len(results)
  BY <1>1, <1>3, <1>4, <1>6, MappedList
<1>8. QED
  BY <1>1, <1>3, <1>4, <1>6, <1>7 DEF ListsAreTyped

LEMMA ListsTypedAfter == (ProcTypeOK => ListsAreTyped)'
  BY ListsTyped, PTL

(* The only worker's report is that of the first call not answered yet.    *)
LEMMA ReportInTurn ==
  ASSUME OneWorker, ProcIInv, IInv, InTurn,
         NEW w \in Workers, pc[w] # "dequeue", ~Answered(w)
  PROVE  local_data[w] = Len(results)
<1>1. PICK n \in Nat : n = local_data[w] /\ n < Taken /\ Taken \in Int
  BY HandFacts
<1>2. Len(results) \in Nat /\ DOMAIN results = 1 .. Len(results)
  BY ListsTyped DEF ListsAreTyped, ProcIInv
<1>3. ResultsOf(n) = {}
  BY <1>1 DEF ProcIInv, ResultsAreOwned
<1>4. Len(results) <= n
  <2>1. SUFFICES ASSUME n + 1 \in 1 .. Len(results)
                 PROVE  FALSE
    BY <1>2
  <2>2. results[n + 1].update = n
    BY <1>2, <2>1 DEF InTurn
  <2>3. QED
    BY <1>2, <1>3, <2>1, <2>2 DEF ResultsOf
<1>5. n <= Len(results)
  <2>1. SUFFICES ASSUME n # 0
                 PROVE  n \in 1 .. Len(results)
    BY <1>2
  <2>2. IsSummed(n - 1)
    <3>1. \A v \in Workers : ~Holds(v, n - 1)
      BY <1>1 DEF OneWorker, Holds
    <3>2. QED
      BY <1>1, <3>1 DEF IsSummed
  <2>3. n - 1 \in 0 .. Taken - 1
    BY <1>1, <2>1
  <2>4. PICK m \in DOMAIN results : results[m].update = n - 1
    BY <2>2, <2>3 DEF ProcIInv, ResultsAreOwned, ResultsOf
  <2>5. m - 1 = n - 1
    BY <2>4 DEF InTurn
  <2>6. QED
    BY <1>2, <2>4, <2>5
<1>6. QED
  BY <1>1, <1>2, <1>4, <1>5

(* What a step reports.                                                    *)
LEMMA StepReports ==
  ASSUME ProcIInv, [ProcNext]_vars
  PROVE  \/ results' = results
         \/ /\ UNCHANGED data
            /\ \E w \in Workers : \E res : pc[w] # "dequeue" /\ ~Answered(w) /\ Reports(w, res)
<1>1. ASSUME NEW w \in Workers, ProcLoad(w)
      PROVE  \/ results' = results
             \/ UNCHANGED data /\ pc[w] # "dequeue" /\ ~Answered(w) /\ Reports(w, ZeroReturn)
  <2>1. pc[w] = "load" /\ (Reports(w, ZeroReturn) \/ results' = results)
    BY <1>1, LoadReports DEF ProcIInv
  <2>2. UNCHANGED data
    BY <1>1 DEF ProcLoad
  <2>3. ~Answered(w)
    BY <2>1 DEF Answered, BeforeSum
  <2>4. QED
    BY <2>1, <2>2, <2>3
<1>2. ASSUME NEW w \in Workers, compute_return_fp_i(w)
      PROVE  UNCHANGED data /\ pc[w] # "dequeue" /\ ~Answered(w) /\ \E res : Reports(w, res)
  <2>1. pc[w] = "sum" /\ ~NotEnoughData(prices[w]) /\ \E res : Reports(w, res)
    BY <1>2, SumReports DEF ProcIInv
  <2>2. UNCHANGED data
    BY <1>2 DEF compute_return_fp_i
  <2>3. ~Answered(w)
    BY <2>1 DEF Answered, BeforeSum
  <2>4. QED
    BY <2>1, <2>2, <2>3
<1>3. \/ results' = results
      \/ \E w \in Workers : ProcLoad(w) \/ compute_return_fp_i(w)
  BY Zenon DEF ProcNext, ProcUpdate, ProcDrained, vars, ProcWorker, Synchronise, ReadKeptPrice,
     InsertBid, InsertAsk, CopyAsk, CopyBidPrice, CopyBidVolume, history_shift
<1>4. QED
  BY <1>1, <1>2, <1>3

LEMMA InTurnKept ==
  ASSUME OneWorker, ProcIInv, IInv, InTurn, [ProcNext]_vars
  PROVE  InTurn'
<1>1. CASE results' = results
  BY <1>1 DEF InTurn
<1>2. ASSUME NEW w \in Workers, NEW res, pc[w] # "dequeue", ~Answered(w), Reports(w, res)
      PROVE  InTurn'
  <2>1. /\ results' \in Seq(ResultType)
        /\ Len(results') = Len(results) + 1 /\ Len(results) \in Nat
        /\ results'[Len(results) + 1] = [update |-> local_data[w], res |-> res]
        /\ \A m \in 1 .. Len(results) : results'[m] = results[m]
    BY <1>2, ReportKept DEF ProcIInv
  <2>2. DOMAIN results' = 1 .. Len(results) + 1 /\ DOMAIN results = 1 .. Len(results)
    BY <2>1, LenProperties DEF ProcIInv, ProcTypeOK
  <2>3. local_data[w] = Len(results)
    BY <1>2, ReportInTurn
  <2>4. ASSUME NEW m \in 1 .. Len(results) + 1
        PROVE  results'[m].update = m - 1
    <3>1. CASE m = Len(results) + 1
      BY <2>1, <2>3, <3>1
    <3>2. CASE m \in 1 .. Len(results)
      BY <2>1, <2>2, <3>2 DEF InTurn
    <3>3. QED
      BY <2>1, <3>1, <3>2
  <2>5. QED
    BY <2>2, <2>4 DEF InTurn
<1>3. QED
  BY <1>1, <1>2, StepReports

(* The steps of the sequential processor.                                  *)
LEMMA UpdateCalls ==
  ASSUME ProcIInv, [ProcNext]_vars, ProcUpdate
  PROVE  Ideal!Call
<1>1. /\ issued \in Nat /\ Calls \in [1 .. issued -> Inputs] /\ Len(Calls) = issued
      /\ issued < Count /\ issued' = issued + 1
  BY ListsTyped DEF ListsAreTyped, ProcIInv, ProcUpdate, Update
<1>2. Calls' \in [1 .. issued + 1 -> Inputs]
  <2>1. ProcTypeOK'
    BY ProcStepKeeps DEF ProcIInv
  <2>2. (Calls \in [1 .. issued -> Inputs])'
    BY <2>1, ListsTypedAfter DEF ListsAreTyped
  <2>3. QED
    BY <1>1, <2>2
<1>3. \A m \in 1 .. issued : Calls'[m] = Calls[m]
  BY CallsGrow DEF ProcIInv
<1>4. Calls' = Append(Calls, Calls'[issued + 1])
  <2>1. PICK f, g : f = Calls /\ g = Calls'
    OBVIOUS
  <2>2. g = Append(f, g[issued + 1])
    <3>1. PICK n \in Nat : n = issued
      BY <1>1
    <3>2. f \in [1 .. n -> Inputs] /\ g \in [1 .. n + 1 -> Inputs] /\ \A m \in 1 .. n : g[m] = f[m]
      BY <1>1, <1>2, <1>3, <2>1, <3>1
    <3>3. g = Append(f, g[n + 1])
      BY <3>2, MappedAppend
    <3>4. QED
      BY <3>1, <3>3
  <2>3. QED
    BY <2>1, <2>2
<1>5. Calls'[issued + 1] \in Inputs
  BY <1>1, <1>2
<1>6. Answers' = Answers
  BY DEF ProcUpdate, Answers
<1>7. QED
  BY <1>1, <1>4, <1>5, <1>6 DEF Ideal!Call

LEMMA ReportReplies ==
  ASSUME OneWorker, ProcIInv, IInv, InTurn, AnswersSequential', [ProcNext]_vars, UNCHANGED data,
         NEW w \in Workers, NEW res, pc[w] # "dequeue", ~Answered(w), Reports(w, res)
  PROVE  Ideal!Reply
<1>1. PICK n \in Nat : n = Len(results)
  BY ListsTyped DEF ListsAreTyped, ProcIInv
<1>2. /\ results' \in Seq(ResultType)
      /\ Len(results') = n + 1
      /\ results'[n + 1] = [update |-> local_data[w], res |-> res]
      /\ \A m \in 1 .. n : results'[m] = results[m]
  BY <1>1, ReportKept DEF ProcIInv
<1>3. local_data[w] = n
  BY <1>1, ReportInTurn
<1>4. n + 1 \in 1 .. issued
  BY <1>3, HandFacts
<1>5. Answers \in [1 .. n -> [fp : Nat, sum : Int]] /\ Len(Answers) = n /\ Len(Calls) = issued
  BY <1>1, ListsTyped DEF ListsAreTyped, ProcIInv
<1>6. Answers' = Append(Answers, res)
  <2>1. Answers' = [m \in 1 .. n + 1 |-> results'[m].res]
    BY <1>2 DEF Answers
  <2>2. Answers = [m \in 1 .. n |-> results[m].res]
    BY <1>1 DEF Answers
  <2>3. PICK f, g : f = Answers /\ g = Answers'
    OBVIOUS
  <2>4. res \in [fp : Nat, sum : Int]
    BY DEF Reports
  <2>5. \A m \in 1 .. n : g[m] = f[m]
    BY <1>2, <2>1, <2>2, <2>3
  <2>6. g[n + 1] = res
    BY <1>2, <2>1, <2>3
  <2>7. g \in [1 .. n + 1 -> [fp : Nat, sum : Int]]
    <3>1. \A m \in 1 .. n + 1 : m \in 1 .. n \/ m = n + 1
      OBVIOUS
    <3>2. \A m \in 1 .. n + 1 : g[m] \in [fp : Nat, sum : Int]
      BY <1>5, <2>3, <2>4, <2>5, <2>6, <3>1
    <3>3. QED
      BY <2>1, <2>3, <3>2
  <2>8. g = Append(f, g[n + 1])
    BY <1>5, <2>3, <2>5, <2>7, MappedAppend
  <2>9. QED
    BY <2>3, <2>6, <2>8
<1>7. Calls' = Calls
  BY DEF Calls
<1>8. res = Ideal!Answer(n + 1)
  <2>1. PICK k \in Nat : k = n + 1
    OBVIOUS
  <2>2. k \in DOMAIN results' /\ results'[k].update + 1 = k /\ results'[k].res = res
    BY <1>2, <1>3, <2>1
  <2>3. Disturbed(k)' \/ results'[k].res = Ideal!Answer(k)'
    BY <2>2 DEF AnswersSequential
  <2>4. ~Disturbed(k)'
    BY DEF OneWorker, Disturbed
  <2>5. Ideal!Answer(k)' = Ideal!Answer(k)
    <3>1. k \in Nat \ {0} /\ \A m \in 1 .. k : Calls'[m] = Calls[m]
      BY <1>7, <2>1
    <3>2. QED
      BY <3>1, EarlierAnswers
  <2>6. QED
    BY <2>1, <2>2, <2>3, <2>4, <2>5
<1>9. QED
  BY <1>4, <1>5, <1>6, <1>7, <1>8 DEF Ideal!Reply

LEMMA SequentialInit ==
  ASSUME ProcInit
  PROVE  Ideal!Init /\ InTurn
<1>1. data = << >> /\ results = << >> /\ issued = 0
  BY DEF ProcInit, Init
<1>2. ListsAreTyped
  BY ProcInitEstablishes, ListsTyped DEF ProcIInv
<1>3. Calls = << >>
  BY <1>1, <1>2, MappedList DEF ListsAreTyped
<1>4. Len(results) = 0
  BY <1>1
<1>5. Answers = << >>
  BY <1>2, <1>4, MappedList DEF ListsAreTyped
<1>6. QED
  BY <1>1, <1>3, <1>5 DEF Ideal!Init, InTurn

LEMMA SequentialStep ==
  ASSUME OneWorker, ProcIInv, IInv, InTurn, AnswersSequential', [ProcNext]_vars
  PROVE  [Ideal!Next]_<<Calls, Answers>>
<1>1. CASE ProcUpdate
  BY <1>1, UpdateCalls DEF Ideal!Next
<1>2. CASE results' = results /\ ~ProcUpdate
  <2>1. data' = data
    BY <1>2, Zenon DEF ProcNext, ProcDrained, vars, ProcWorker, Synchronise, ReadKeptPrice,
       InsertBid, InsertAsk, CopyAsk, CopyBidPrice, CopyBidVolume, ProcLoad,
       compute_return_fp_i, history_shift
  <2>2. QED
    BY <1>2, <2>1 DEF Calls, Answers
<1>3. ASSUME UNCHANGED data,
             NEW w \in Workers, NEW res, pc[w] # "dequeue", ~Answered(w), Reports(w, res)
      PROVE  Ideal!Next
  BY <1>3, ReportReplies DEF Ideal!Next
<1>4. QED
  BY <1>1, <1>2, <1>3, StepReports

(* A single worker is the sequential processor, whatever the calls: every  *)
(* step of its threads is a call, a reply to the oldest call not answered  *)
(* yet, or no step at all.                                                 *)
THEOREM SingleWorkerIsSequential ==
  ASSUME EqualSizes, OneWorker
  PROVE  ProcSpec => ImplementsSequential
<1>1. ProcInit => Ideal!Init /\ InTurn
  BY SequentialInit
<1>2. ProcIInv /\ IInv /\ InTurn /\ [ProcNext]_vars => InTurn'
  BY InTurnKept
<1>3. HistoriesIInv => AnswersSequential
  BY DEF HistoriesIInv
<1>4. ProcIInv /\ IInv /\ InTurn /\ AnswersSequential' /\ [ProcNext]_vars
        => [Ideal!Next]_<<Calls, Answers>>
  BY SequentialStep
<1>5. QED
  BY <1>1, <1>2, <1>3, <1>4, ProcInvariant, ProcFlagsAreTruthful, HistoriesAreTruthful, PTL
     DEF ProcSpec, ImplementsSequential, Ideal!Spec
=============================================================================
