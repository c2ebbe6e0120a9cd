-------------------------- MODULE LifecycleProofs --------------------------
(***************************************************************************)
(* Start, replay and shutdown: nothing is used before it is built, for any *)
(* number of threads; the file is replayed and no more; and the threads    *)
(* are the chain of flags throughout, for the shipped number of workers.   *)
(***************************************************************************)
EXTENDS Lifecycle, OrderChainProofs

(* The loader reads at least one line of a file with a last record, and    *)
(* never more lines than there are (main.cc).                              *)
LEMMA LoadedLines ==
  ASSUME NEW f \in Files
  PROVE  /\ Loaded(f) \in Nat
         /\ DataCount(f) \in 0 .. Count
         /\ Loaded(f) <= DataCount(f)
         /\ HasLast(f) => DataCount(f) = Loaded(f)
<1>1. PICK n \in 0 .. Count - 1 : f \in [1 .. n -> BOOLEAN]
  BY DEF Files
<1>2. n \in Nat /\ Count \in Nat /\ n <= Count - 1 /\ Len(f) = n
  BY <1>1, ChainAssumption
<1>3. CASE HasLast(f)
  <2> DEFINE I == {i \in 1 .. n : f[i]}
  <2>1. I # {} /\ I \in SUBSET Nat
    BY <1>1, <1>3 DEF HasLast
  <2>2. Loaded(f) = Min(I)
    BY <1>2, <1>3, <2>1 DEF Loaded
  <2>3. Min(I) \in I
    BY <2>1, LeastIsMin
  <2>4. QED
    BY <1>2, <1>3, <2>2, <2>3 DEF DataCount
<1>4. CASE ~HasLast(f)
  BY <1>2, <1>4 DEF Loaded, DataCount
<1>5. QED
  BY <1>3, <1>4

(* The barrier is shut until the main thread has arrived (init.cc:140).    *)
LEMMA BarrierNeedsMain ==
  ASSUME LifeTypeOK, "main" \notin arrived
  PROVE  ~BarrierOpen
<1>1. arrived \in SUBSET Workers /\ IsFiniteSet(Workers)
  BY ThreadsAssumption DEF LifeTypeOK
<1>2. /\ Cardinality(Workers) \in Nat /\ Cardinality(arrived) \in Nat
      /\ Cardinality(arrived) <= Cardinality(Workers)
  BY <1>1, FS_Subset, FS_CardinalityType
<1>3. QED
  BY <1>2 DEF BarrierOpen, BarrierCount

(* What a step does to the chain: a step of the chain while the replay     *)
(* runs, the two initialisations, and nothing otherwise.                   *)
ChainStep ==
  \/ Call
  \/ \E w \in Workers : Work(w)
Outside ==
  \/ LoadFile \/ InitBasics \/ (\E w \in Workers : CreateThread(w))
  \/ InitBooks \/ MainArrives \/ MainPasses \/ Overrun \/ EndTest
  \/ (\E w \in Workers : Kill(w)) \/ StopRunning \/ Exit
  \/ SignalArrives
  \/ (\E w \in Workers : Arrive(w) \/ Pass(w) \/ TestRunning(w))
  \/ UNCHANGED allVars

LEMMA StepKinds ==
  ASSUME [LifeNext]_allVars
  PROVE  ChainStep \/ InitFlags \/ InitRing \/ (Outside /\ UNCHANGED chainVars)
<1>1. Outside => UNCHANGED chainVars
  BY DEF Outside, LoadFile, InitBasics, CreateThread, InitBooks, MainArrives, MainPasses,
         Overrun, EndTest, Kill, StopRunning, Exit, SignalArrives, Arrive, Pass, TestRunning,
         allVars, chainVars
<1>2. QED
  BY <1>1 DEF LifeNext, Main, WorkerThread, Gone, ChainStep, Outside

(* Every step keeps the types.                                             *)
LEMMA LifeTypeStep ==
  ASSUME LifeTypeOK, [LifeNext]_allVars
  PROVE  LifeTypeOK'
<1> USE DEF LifeTypeOK, MainGoto, ThreadGoto
<1>1. CASE ChainStep
  <2>1. [Next]_chainVars
    BY <1>1 DEF ChainStep, Call, Work, Next
  <2>2. TypeOK'
    BY <2>1, TypeOKInductive
  <2>3. QED
    BY <1>1, <2>2 DEF ChainStep, Call, Work, lifeVars, startVars, MainStages, ThreadStages
<1>2. CASE InitFlags
  BY <1>2 DEF InitFlags, TypeOK, SyncTypeOK, InitialFlags, MainStages, Starting
<1>3. CASE InitRing
  BY <1>3, ChainAssumption DEF InitRing, TypeOK, SyncTypeOK, MainStages
<1>4. CASE Outside /\ UNCHANGED chainVars
  <2>1. TypeOK'
    BY <1>4, TypeOKInductive
  <2>2. CASE \/ LoadFile \/ InitBasics \/ InitBooks \/ MainArrives \/ MainPasses
             \/ Overrun \/ EndTest \/ StopRunning \/ Exit \/ SignalArrives
    BY <2>1, <2>2, LoadedLines
    DEF LoadFile, InitBasics, InitBooks, MainArrives, MainPasses, Overrun, EndTest, StopRunning,
        Exit, SignalArrives, MainStages, Starting
  <2>3. ASSUME NEW w \in Workers,
               \/ CreateThread(w) \/ Kill(w) \/ Arrive(w) \/ Pass(w) \/ TestRunning(w)
        PROVE  LifeTypeOK'
    BY <2>1, <2>3
    DEF CreateThread, Kill, Arrive, Pass, TestRunning, startVars, MainStages, ThreadStages, Starting
  <2>4. CASE UNCHANGED allVars
    BY <2>1, <2>4 DEF allVars, lifeVars
  <2>5. QED
    BY <1>4, <2>2, <2>3, <2>4 DEF Outside
<1>5. QED
  BY <1>1, <1>2, <1>3, <1>4, StepKinds

(* Nobody is past the barrier, and the chain at rest, until the main       *)
(* thread is at the barrier too.                                           *)
LEMMA RestStep ==
  ASSUME LifeTypeOK, RestsBeforeBarrier, CallsAreCounted, [LifeNext]_allVars
  PROVE  RestsBeforeBarrier'
<1> USE DEF RestsBeforeBarrier, MainGoto, ThreadGoto
<1>1. CASE ChainStep
  <2>1. main' = main
    BY <1>1 DEF ChainStep, Call, Work, lifeVars, startVars
  <2>2. main \notin Starting \cup {"arrive"}
    BY <1>1 DEF ChainStep, Call, Work, Starting
  <2>3. QED
    BY <2>1, <2>2
<1>2. CASE InitFlags \/ InitRing
  BY <1>2 DEF InitFlags, InitRing, AtRest, Starting
<1>3. CASE Outside /\ UNCHANGED chainVars
  <2>1. AtRest => AtRest'
    BY <1>3 DEF AtRest, chainVars
  <2>2. CASE \/ LoadFile \/ InitBasics \/ InitBooks \/ MainArrives \/ MainPasses
             \/ Overrun \/ EndTest \/ StopRunning \/ Exit
    BY <2>1, <2>2
    DEF LoadFile, InitBasics, InitBooks, MainArrives, MainPasses, Overrun, EndTest, StopRunning,
        Exit, Starting
  <2>3. CASE SignalArrives
    BY <2>3 DEF SignalArrives, Starting
  <2>4. ASSUME NEW w \in Workers, CreateThread(w) \/ Kill(w) \/ Arrive(w)
        PROVE  RestsBeforeBarrier'
    <3>1. "main" # w
      BY ThreadsAssumption
    <3>2. QED
      BY <2>1, <2>4, <3>1 DEF CreateThread, Kill, Arrive, Starting, LifeTypeOK
  <2>5. ASSUME NEW w \in Workers, Pass(w) \/ TestRunning(w)
        PROVE  RestsBeforeBarrier'
    <3>1. main' = main
      BY <2>5 DEF Pass, TestRunning, startVars
    <3>2. main \notin Starting \cup {"arrive"}
      BY <2>5, BarrierNeedsMain DEF Pass, TestRunning
    <3>3. QED
      BY <3>1, <3>2
  <2>6. CASE UNCHANGED allVars
    BY <2>1, <2>6 DEF allVars, lifeVars
  <2>7. QED
    BY <1>3, <2>2, <2>3, <2>4, <2>5, <2>6 DEF Outside
<1>4. QED
  BY <1>1, <1>2, <1>3, StepKinds

(* The calls made are the ones that were loaded, all of them at the end.   *)
LEMMA CountStep ==
  ASSUME LifeTypeOK, RestsBeforeBarrier, CallsAreCounted, [LifeNext]_allVars
  PROVE  CallsAreCounted'
<1> USE DEF CallsAreCounted, MainGoto, ThreadGoto
<1>1. issued \in Nat /\ data_count \in Nat /\ file \in Files
  BY ChainAssumption DEF LifeTypeOK, TypeOK
<1>2. CASE Call
  BY <1>1, <1>2 DEF Call, Update, lifeVars
<1>3. CASE \E w \in Workers : Work(w)
  <2>1. issued' = issued
    BY <1>3
    DEF Work, Worker, Dequeue, UnsetNextOrder, UnsetNextSum, WaitOrder, UnsetOwnOrder, Insert,
        SetOrder, Copy, Load, WaitSum, UnsetOwnSum, Sum, SetSum
  <2>2. QED
    BY <1>3, <2>1 DEF Work, startVars
<1>4. CASE InitFlags \/ InitRing
  BY <1>4 DEF InitFlags, InitRing
<1>5. CASE Outside /\ UNCHANGED chainVars
  <2>1. issued' = issued
    BY <1>5 DEF chainVars
  <2>2. CASE LoadFile
    BY <1>1, <2>1, <2>2, LoadedLines DEF LoadFile, RestsBeforeBarrier, AtRest, Starting
  <2>3. CASE \/ InitBasics \/ InitBooks \/ MainArrives \/ MainPasses
             \/ Overrun \/ EndTest \/ StopRunning \/ Exit \/ SignalArrives
    BY <2>1, <2>3
    DEF InitBasics, InitBooks, MainArrives, MainPasses, Overrun, EndTest, StopRunning, Exit,
        SignalArrives
  <2>4. ASSUME NEW w \in Workers,
               \/ CreateThread(w) \/ Kill(w) \/ Arrive(w) \/ Pass(w) \/ TestRunning(w)
        PROVE  CallsAreCounted'
    BY <2>1, <2>4 DEF CreateThread, Kill, Arrive, Pass, TestRunning, startVars
  <2>5. CASE UNCHANGED allVars
    BY <2>1, <2>5 DEF allVars, lifeVars
  <2>6. QED
    BY <1>5, <2>2, <2>3, <2>4, <2>5 DEF Outside
<1>6. QED
  BY <1>2, <1>3, <1>4, <1>5, StepKinds DEF ChainStep

(* Before the first step nothing has been started or counted.              *)
LEMMA LifeInitEstablishes ==
  ASSUME LifeInit
  PROVE  LifeIInv
<1>1. issued = 0 /\ ring = << >> /\ main = "load" /\ data_count = 0
  BY DEF LifeInit
<1>2. TypeOK
  BY <1>1, ChainAssumption DEF LifeInit, TypeOK, SyncTypeOK, Stages
<1>3. LifeTypeOK
  BY <1>1, <1>2, ChainAssumption DEF LifeInit, LifeTypeOK, MainStages, ThreadStages, Starting
<1>4. RestsBeforeBarrier /\ CallsAreCounted
  BY <1>1 DEF LifeInit, RestsBeforeBarrier, CallsAreCounted, AtRest
<1>5. QED
  BY <1>3, <1>4 DEF LifeIInv
-----------------------------------------------------------------------------
(* The invariant of start and shutdown holds throughout, for any number of *)
(* threads (main.cc, init.cc, worker.cc).                                  *)
THEOREM LifeInvariant == LifeSpec => []LifeIInv
<1>1. LifeInit => LifeIInv
  BY LifeInitEstablishes
<1>2. LifeIInv /\ [LifeNext]_allVars => LifeIInv'
  BY LifeTypeStep, RestStep, CountStep DEF LifeIInv
<1>3. QED
  BY <1>1, <1>2, PTL DEF LifeSpec

(* The types of the state.                                                 *)
THEOREM LifeTypeCorrect == LifeSpec => []LifeTypeOK
<1>1. LifeIInv => LifeTypeOK
  BY DEF LifeIInv
<1>2. QED
  BY <1>1, LifeInvariant, PTL

(* No thread is past the barrier, and no update taken in, before the       *)
(* books, the flags and the ring are there, although the threads are       *)
(* started first (init.cc:74).                                             *)
THEOREM NothingUsedTooEarly == LifeSpec => []InitialisedBeforeUse
<1>1. LifeIInv => InitialisedBeforeUse
  BY DEF LifeIInv, RestsBeforeBarrier, AtRest, InitialisedBeforeUse
<1>2. QED
  BY <1>1, LifeInvariant, PTL

(* A file with a line 1001 is replayed up to that line, all of it and      *)
(* nothing else (main.cc:70).                                              *)
THEOREM FileIsReplayed == LifeSpec => []ReplaysTheFile
<1>1. LifeIInv => ReplaysTheFile
  <2> SUFFICES ASSUME LifeIInv
               PROVE  ReplaysTheFile
    OBVIOUS
  <2>1. issued \in Nat /\ file \in Files
    BY ChainAssumption DEF LifeIInv, LifeTypeOK, TypeOK
  <2>2. data_count \in Nat /\ issued <= data_count
    BY ChainAssumption DEF LifeIInv, LifeTypeOK, CallsAreCounted
  <2>3. /\ Loaded(file) \in Nat /\ Loaded(file) <= DataCount(file)
        /\ HasLast(file) => DataCount(file) = Loaded(file)
    BY <2>1, LoadedLines
  <2>4. data_count = IF main = "load" THEN 0 ELSE DataCount(file)
    BY DEF LifeIInv, CallsAreCounted
  <2>5. HasLast(file) => issued <= Loaded(file)
    BY <2>1, <2>2, <2>3, <2>4
  <2>6. main \in {"destroy", "sleep"} => issued >= Loaded(file)
    BY <2>1, <2>2, <2>3, <2>4 DEF LifeIInv, CallsAreCounted
  <2>7. QED
    BY <2>5, <2>6 DEF ReplaysTheFile
<1>2. QED
  BY <1>1, LifeInvariant, PTL
-----------------------------------------------------------------------------
(* From the initialisation of the flags on, the chain's own invariant      *)
(* holds, whatever start and shutdown do around it.                        *)
ChainTruthful == main \notin FlagsUnset => IInv

(* Where the main thread is when the chain moves, and when flags and ring  *)
(* are built.                                                              *)
LEMMA ChainMovesLate ==
  ASSUME LifeIInv, [LifeNext]_allVars
  PROVE  /\ ChainStep => [Next]_chainVars /\ main' = main /\ main \notin FlagsUnset
         /\ InitRing => UNCHANGED chainVars /\ main \notin FlagsUnset /\ main' \notin FlagsUnset
         /\ Outside => (main' \in FlagsUnset <=> main \in FlagsUnset)
<1> USE DEF MainGoto, ThreadGoto, FlagsUnset, Starting
<1>1. ASSUME ChainStep
      PROVE  [Next]_chainVars /\ main' = main /\ main \notin FlagsUnset
  <2>1. CASE Call
    BY <2>1 DEF Call, Next, lifeVars
  <2>2. ASSUME NEW w \in Workers, Work(w)
        PROVE  [Next]_chainVars /\ main' = main /\ main \notin FlagsUnset
    BY <2>2 DEF Work, Next, startVars, LifeIInv, RestsBeforeBarrier
  <2>3. QED
    BY <1>1, <2>1, <2>2 DEF ChainStep
<1>2. ASSUME InitRing
      PROVE  UNCHANGED chainVars /\ main \notin FlagsUnset /\ main' \notin FlagsUnset
  BY <1>2 DEF InitRing, chainVars, LifeIInv, RestsBeforeBarrier, AtRest
<1>3. ASSUME Outside
      PROVE  main' \in FlagsUnset <=> main \in FlagsUnset
  <2>1. CASE \/ LoadFile \/ InitBasics \/ InitBooks \/ MainArrives \/ MainPasses
             \/ Overrun \/ EndTest \/ StopRunning \/ Exit
    BY <2>1
    DEF LoadFile, InitBasics, InitBooks, MainArrives, MainPasses, Overrun, EndTest, StopRunning, Exit
  <2>2. CASE SignalArrives
    BY <2>2 DEF SignalArrives, LifeIInv, CallsAreCounted
  <2>3. ASSUME NEW w \in Workers,
               \/ CreateThread(w) \/ Kill(w) \/ Arrive(w) \/ Pass(w) \/ TestRunning(w)
        PROVE  main' \in FlagsUnset <=> main \in FlagsUnset
    BY <2>3 DEF CreateThread, Kill, Arrive, Pass, TestRunning, startVars
  <2>4. CASE UNCHANGED allVars
    BY <2>4 DEF allVars, lifeVars
  <2>5. QED
    BY <1>3, <2>1, <2>2, <2>3, <2>4 DEF Outside
<1>4. QED
  BY <1>1, <1>2, <1>3

(* InitFlags leaves the flags as the chain starts with them.               *)
LEMMA FlagsStartChain ==
  ASSUME LifeIInv, InitFlags
  PROVE  Init' /\ main \in FlagsUnset
  BY DEF InitFlags, MainGoto, FlagsUnset, Starting, LifeIInv, RestsBeforeBarrier, AtRest,
         Init, SyncInit, InitialFlags

(* The flags are truthful in the run of the whole program, whatever the     *)
(* memory they lie in held before it started.                               *)
THEOREM LifeChainInvariant == LifeSpec => []ChainTruthful
<1>1. LifeInit => ChainTruthful
  BY DEF LifeInit, ChainTruthful, FlagsUnset, Starting
<1>2. Init' => IInv'
  <2>1. Init => IInv
    BY InitEstablishes
  <2>2. QED
    BY <2>1, PTL
<1>3. LifeIInv /\ ChainTruthful /\ [LifeNext]_allVars => ChainTruthful'
  <2> SUFFICES ASSUME LifeIInv, ChainTruthful, [LifeNext]_allVars
               PROVE  ChainTruthful'
    OBVIOUS
  <2>1. CASE ChainStep \/ InitRing \/ (Outside /\ UNCHANGED chainVars)
    BY <2>1, ChainMovesLate, StepKeeps DEF ChainTruthful
  <2>2. CASE InitFlags
    BY <1>2, <2>2, FlagsStartChain DEF ChainTruthful
  <2>3. QED
    BY <2>1, <2>2, StepKinds
<1>4. QED
  BY <1>1, <1>3, LifeInvariant, PTL DEF LifeSpec

(* However the process ends, what it leaves unanswered are the last calls, *)
(* no more than the ring and the workers hold (main.cc:104, worker.cc:274).*)
THEOREM OnlyTailIsLost == LifeSpec => []LossIsTail
<1>1. ChainTruthful => LossIsTail
  BY SummedIsPrefix DEF ChainTruthful, LossIsTail, FlagsUnset, Starting
<1>2. QED
  BY <1>1, LifeChainInvariant, PTL
-----------------------------------------------------------------------------
(* The instance of the chain differs from the chain itself only in the     *)
(* flags before they are initialised.                                      *)
LEMMA SameArithmetic ==
  /\ \A i : ChainOf!next_index(i) = next_index(i)
  /\ \A i : ChainOf!prev_index(i) = prev_index(i)
  /\ \A w : ChainOf!Own(w) = Own(w)
  BY DEF ChainOf!next_index, ChainOf!prev_index, ChainOf!Own, ChainOf!OrderIndex, ChainOf!Unsigned,
         next_index, prev_index, Own, OrderIndex, Unsigned

LEMMA SameStep ==
  ASSUME main \notin FlagsUnset, main' = main
  PROVE  [Next]_chainVars => [ChainOf!Next]_(ChainOf!chainVars)
<1>1. /\ Set(order) = order /\ Set(order_sum) = order_sum
      /\ Set(order)' = order' /\ Set(order_sum)' = order_sum'
  BY DEF Set
<1>2. Update => ChainOf!Update
  BY <1>1 DEF Update, ChainOf!Update, RingFull, ChainOf!RingFull, syncVars, ChainOf!syncVars
<1>3. \A w \in Workers : Worker(w) => ChainOf!Worker(w)
  <2> SUFFICES ASSUME NEW w \in Workers
               PROVE  Worker(w) => ChainOf!Worker(w)
    OBVIOUS
  <2> USE <1>1, SameArithmetic DEF Goto, ChainOf!Goto, syncVars, ChainOf!syncVars
  <2>1. Dequeue(w) => ChainOf!Dequeue(w)
    BY DEF Dequeue, ChainOf!Dequeue, RingEmpty, ChainOf!RingEmpty
  <2>2. /\ UnsetNextOrder(w) => ChainOf!UnsetNextOrder(w)
        /\ UnsetNextSum(w) => ChainOf!UnsetNextSum(w)
    BY DEF UnsetNextOrder, ChainOf!UnsetNextOrder, UnsetNextSum, ChainOf!UnsetNextSum,
           sync_unset_order, ChainOf!sync_unset_order, sync_unset_order_sum,
           ChainOf!sync_unset_order_sum
  <2>3. /\ WaitOrder(w) => ChainOf!WaitOrder(w)
        /\ WaitSum(w) => ChainOf!WaitSum(w)
    BY DEF WaitOrder, ChainOf!WaitOrder, WaitSum, ChainOf!WaitSum, wait_until_set_order,
           ChainOf!wait_until_set_order, wait_until_set_order_sum,
           ChainOf!wait_until_set_order_sum
  <2>4. /\ UnsetOwnOrder(w) => ChainOf!UnsetOwnOrder(w)
        /\ UnsetOwnSum(w) => ChainOf!UnsetOwnSum(w)
    BY DEF UnsetOwnOrder, ChainOf!UnsetOwnOrder, UnsetOwnSum, ChainOf!UnsetOwnSum,
           sync_unset_order, ChainOf!sync_unset_order, sync_unset_order_sum,
           ChainOf!sync_unset_order_sum
  <2>5. /\ SetOrder(w) => ChainOf!SetOrder(w)
        /\ SetSum(w) => ChainOf!SetSum(w)
    BY DEF SetOrder, ChainOf!SetOrder, SetSum, ChainOf!SetSum, sync_set_order,
           ChainOf!sync_set_order, sync_set_order_sum, ChainOf!sync_set_order_sum
  <2>6. /\ Insert(w) => ChainOf!Insert(w)
        /\ Copy(w) => ChainOf!Copy(w)
        /\ Load(w) => ChainOf!Load(w)
        /\ Sum(w) => ChainOf!Sum(w)
    BY DEF Insert, ChainOf!Insert, Copy, ChainOf!Copy, Load, ChainOf!Load, Sum, ChainOf!Sum
  <2>7. QED
    BY <2>1, <2>2, <2>3, <2>4, <2>5, <2>6 DEF Worker, ChainOf!Worker
<1>4. UNCHANGED chainVars => UNCHANGED ChainOf!chainVars
  BY <1>1 DEF chainVars, ChainOf!chainVars
<1>5. QED
  BY <1>2, <1>3, <1>4 DEF Next, ChainOf!Next, Drained

(* From the barrier to the end the threads are the chain of flags: it      *)
(* starts from the flags as initialize_c_style leaves them (init.cc), and  *)
(* nothing outside the workers' loop and Update() touches it again.        *)
THEOREM LifeImplementsChain == LifeSpec => ImplementsChain
<1>1. LifeInit => ChainOf!Init
  BY DEF LifeInit, ChainOf!Init, ChainOf!SyncInit, ChainOf!Slots, Slots, Set, FlagsUnset, Starting,
         InitialFlags
<1>2. LifeIInv /\ [LifeNext]_allVars => [ChainOf!Next]_(ChainOf!chainVars)
  <2> SUFFICES ASSUME LifeIInv, [LifeNext]_allVars
               PROVE  [ChainOf!Next]_(ChainOf!chainVars)
    OBVIOUS
  <2>1. CASE ChainStep
    BY <2>1, ChainMovesLate, SameStep
  <2>2. CASE InitFlags
    BY <2>2
    DEF InitFlags, MainGoto, ChainOf!chainVars, Set, FlagsUnset, Starting
  <2>3. CASE InitRing \/ (Outside /\ UNCHANGED chainVars)
    BY <2>3, ChainMovesLate DEF chainVars, ChainOf!chainVars, Set
  <2>4. QED
    BY <2>1, <2>2, <2>3, StepKinds
<1>3. QED
  BY <1>1, <1>2, LifeInvariant, PTL DEF LifeSpec, ImplementsChain, ChainOf!Spec
=============================================================================
