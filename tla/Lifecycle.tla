------------------------------ MODULE Lifecycle ------------------------------
(***************************************************************************)
(* The whole run of the program around the workers' loop: the driver loads *)
(* its file (main.cc), initialize_c_style starts the threads and only then *)
(* builds what they share (init.cc), everybody meets at the barrier, the   *)
(* driver replays the file, and the process ends: main returns after its   *)
(* sleep, or the processor's destructor kills it (worker.cc).              *)
(*                                                                         *)
(* Between the barrier and the end a thread does what OrderChain says.     *)
(*                                                                         *)
(* A line of the file is TRUE if its seqNum is 1001, where loading stops.  *)
(* sleep(30) is any length of time.  Nothing installs a handler for        *)
(* SIGINT, so a signal that arrives ends the process.                      *)
(***************************************************************************)
EXTENDS OrderChain, FiniteSetsExt

ASSUME ThreadsAssumption ==
  /\ IsFiniteSet(Workers)
  /\ "main" \notin Workers

VARIABLES
  file,        (* the lines of the file                                      *)
  data_count,  (* how many calls do_test makes                               *)
  main,        (* control point of the main thread; "gone": the process too  *)
  thread,      (* how far each worker thread has come                        *)
  arrived,     (* who is at start_barrier                                    *)
  running,     (* global_context->running                                    *)
  killed       (* the workers SIGINT was sent to                             *)

startVars == <<main, arrived, running, killed>>
lifeVars == <<file, data_count, main, thread, arrived, running, killed>>
allVars == <<chainVars, lifeVars>>

(* The main thread's control points; a worker's are "none", "created",     *)
(* "barrier", "loop" (about to test running), "work" and "ended".          *)
Starting == {"load", "basics", "threads", "books", "flags", "ring"}
FlagsUnset == Starting \ {"ring"}
MainStages == Starting \cup {"arrive", "barrier", "do_test", "destroy", "sleep", "gone"}
ThreadStages == {"none", "created", "barrier", "loop", "work", "ended"}

Files == UNION {[1 .. n -> BOOLEAN] : n \in 0 .. Count - 1}

HasLast(f) == \E i \in DOMAIN f : f[i]

(* The lines read: up to and with the first one that is numbered 1001.     *)
Loaded(f) ==
  IF HasLast(f) THEN Min({i \in DOMAIN f : f[i]}) ELSE Len(f)

(* Mistake: the counter is not moved past the last record.                 *)
DataCount_NoIncrement(f) == IF HasLast(f) THEN Loaded(f) - 1 ELSE Loaded(f)

(* Mistake: "i++" comes before the test for 1001.                          *)
DataCount_Twice(f) == IF HasLast(f) THEN Loaded(f) + 1 ELSE Loaded(f) + 2

(* "++i" after the loop: it was left by break before its own "i++", or     *)
(* at the end of the file after it.                                        *)
DataCount(f) == IF HasLast(f) THEN Loaded(f) ELSE Loaded(f) + 1

(* Mistake: the main thread is not counted, or counted twice.              *)
BarrierCount_Workers == Cardinality(Workers)
BarrierCount_Twice == Cardinality(Workers) + 2

BarrierCount == Cardinality(Workers) + 1
BarrierOpen == Cardinality(arrived) >= BarrierCount
-----------------------------------------------------------------------------
(* Count bounds the calls.  The memory of the flags and of "running" is    *)
(* not initialised: it holds anything (here the flags are all alike).      *)
LifeInit ==
  /\ file \in Files
  /\ data_count = 0
  /\ \E garbage \in BOOLEAN :
       order = [i \in Slots |-> garbage] /\ order_sum = [i \in Slots |-> garbage]
  /\ running \in {0, 1}
  /\ issued = 0 /\ ring = << >>
  /\ pc = [w \in Workers |-> "dequeue"]
  /\ local_data = [w \in Workers |-> -1]
  /\ main = "load" /\ thread = [w \in Workers |-> "none"]
  /\ arrived = {} /\ killed = {}

MainGoto(from, to) == main = from /\ main' = to

LoadFile ==
  /\ MainGoto("load", "basics")
  /\ data_count' = DataCount(file)
  /\ UNCHANGED <<chainVars, file, thread, arrived, running, killed>>

(* The context, its counters and the barrier: no other thread exists yet.  *)
InitBasics ==
  /\ MainGoto("basics", "threads")
  /\ running' = 1
  /\ UNCHANGED <<chainVars, file, data_count, thread, arrived, killed>>

CreateThread(w) ==
  /\ main = "threads" /\ thread[w] = "none"
  /\ thread' = [thread EXCEPT ![w] = "created"]
  /\ main' = IF \A v \in Workers \ {w} : thread[v] # "none" THEN "books" ELSE main
  /\ UNCHANGED <<chainVars, file, data_count, arrived, running, killed>>

(* Trees, best offers and histories (what is in them: module Processor).   *)
InitBooks ==
  /\ MainGoto("books", "flags")
  /\ UNCHANGED <<chainVars, file, data_count, thread, arrived, running, killed>>

(* Every flag locked but the last one (SyncInit).                          *)
InitialFlags == [i \in Slots |-> i # HISTORY_SIZE - 1]

(* Mistake: nothing is unlocked for the first update.                      *)
InitFlags_AllLocked ==
  /\ MainGoto("flags", "ring")
  /\ order' = [i \in Slots |-> TRUE] /\ order_sum' = [i \in Slots |-> TRUE]
  /\ UNCHANGED <<issued, ring, pc, local_data, file, data_count, thread, arrived, running, killed>>

InitFlags ==
  /\ MainGoto("flags", "ring")
  /\ order' = InitialFlags /\ order_sum' = InitialFlags
  /\ UNCHANGED <<issued, ring, pc, local_data, file, data_count, thread, arrived, running, killed>>

InitRing ==
  /\ MainGoto("ring", "arrive")
  /\ ring' = << >>
  /\ UNCHANGED <<issued, pc, local_data, order, order_sum>>
  /\ UNCHANGED <<file, data_count, thread, arrived, running, killed>>

MainArrives ==
  /\ MainGoto("arrive", "barrier")
  /\ arrived' = arrived \cup {"main"}
  /\ UNCHANGED <<chainVars, file, data_count, thread, running, killed>>

MainPasses ==
  /\ MainGoto("barrier", "do_test") /\ BarrierOpen
  /\ UNCHANGED <<chainVars, file, data_count, thread, arrived, running, killed>>

(* do_test calls Update() with record "issued": past the records that were *)
(* read that is a pointer that was never set, and the call goes through    *)
(* with whatever it finds there, or crashes (Overrun).                     *)
Call ==
  /\ main = "do_test" /\ issued < data_count
  /\ Update
  /\ UNCHANGED lifeVars

Overrun ==
  /\ MainGoto("do_test", "gone")
  /\ issued < data_count /\ issued >= Loaded(file)
  /\ UNCHANGED <<chainVars, file, data_count, thread, arrived, running, killed>>

(* main sleeps; another user of the processor deletes it, then goes on.    *)
EndTest ==
  /\ issued = data_count
  /\ MainGoto("do_test", "sleep") \/ MainGoto("do_test", "destroy")
  /\ UNCHANGED <<chainVars, file, data_count, thread, arrived, running, killed>>

Kill(w) ==
  /\ main = "destroy" /\ w \notin killed
  /\ killed' = killed \cup {w}
  /\ UNCHANGED <<chainVars, file, data_count, main, thread, arrived, running>>

StopRunning ==
  /\ MainGoto("destroy", "sleep") /\ killed = Workers
  /\ running' = 0
  /\ UNCHANGED <<chainVars, file, data_count, thread, arrived, killed>>

Exit ==
  /\ MainGoto("sleep", "gone")
  /\ UNCHANGED <<chainVars, file, data_count, thread, arrived, running, killed>>

Main ==
  \/ LoadFile \/ InitBasics \/ (\E w \in Workers : CreateThread(w))
  \/ InitBooks \/ InitFlags \/ InitRing \/ MainArrives \/ MainPasses
  \/ Call \/ Overrun \/ EndTest
  \/ (\E w \in Workers : Kill(w)) \/ StopRunning \/ Exit

SignalArrives ==
  /\ killed # {} /\ main # "gone" /\ main' = "gone"
  /\ UNCHANGED <<chainVars, file, data_count, thread, arrived, running, killed>>
-----------------------------------------------------------------------------
ThreadGoto(w, from, to) ==
  /\ main # "gone" /\ thread[w] = from
  /\ thread' = [thread EXCEPT ![w] = to]

(* A new thread takes its id and its core, and waits.                      *)
Arrive(w) ==
  /\ ThreadGoto(w, "created", "barrier")
  /\ arrived' = arrived \cup {w}
  /\ UNCHANGED <<chainVars, file, data_count, main, running, killed>>

Pass(w) ==
  /\ ThreadGoto(w, "barrier", "loop") /\ BarrierOpen
  /\ UNCHANGED <<chainVars, file, data_count, startVars>>

TestRunning(w) ==
  /\ ThreadGoto(w, "loop", IF running = 1 THEN "work" ELSE "ended")
  /\ UNCHANGED <<chainVars, file, data_count, startVars>>

(* One step of the loop's body; its last one leads back to the test.       *)
Work(w) ==
  /\ ThreadGoto(w, "work", IF pc[w] = "set_sum" THEN "loop" ELSE "work")
  /\ Worker(w)
  /\ UNCHANGED <<file, data_count, startVars>>

WorkerThread(w) == Arrive(w) \/ Pass(w) \/ TestRunning(w) \/ Work(w)

Gone == main = "gone" /\ UNCHANGED allVars

LifeNext ==
  \/ Main \/ SignalArrives
  \/ \E w \in Workers : WorkerThread(w)
  \/ Gone

LifeSpec == LifeInit /\ [][LifeNext]_allVars

(* Threads run; a signal that was sent arrives.                            *)
FairLifeSpec ==
  /\ LifeSpec
  /\ WF_allVars(Main) /\ WF_allVars(SignalArrives)
  /\ \A w \in Workers : WF_allVars(WorkerThread(w))
-----------------------------------------------------------------------------
LifeTypeOK ==
  /\ TypeOK
  /\ file \in Files
  /\ data_count \in 0 .. Count
  /\ main \in MainStages
  /\ thread \in [Workers -> ThreadStages]
  /\ arrived \subseteq Workers \cup {"main"}
  /\ running \in {0, 1}
  /\ killed \subseteq Workers

(* The workers are started before the books, the flags and the ring exist  *)
(* (init.cc:74); none gets past the barrier, and no update is taken in,    *)
(* before the last of them is there.                                       *)
InitialisedBeforeUse ==
  main \in Starting =>
    /\ issued = 0
    /\ \A w \in Workers : thread[w] \in {"none", "created", "barrier"}

(* Whenever and however the process ends, exit after a fixed sleep         *)
(* (main.cc:104) or signal (worker.cc:274), what it leaves unanswered are  *)
(* the last calls, no more than the ring and the workers hold.             *)
LossIsTail ==
  main = "gone" =>
    \E k \in 0 .. issued :
      /\ \A n \in 0 .. issued - 1 : IsSummed(n) <=> n < k
      /\ issued - k <= BUFFER_SIZE - 1 + Cardinality(Workers)

(* A file with a line 1001 is replayed up to that line, all of it and      *)
(* nothing else; only a file without one makes do_test use a record that   *)
(* was never read (main.cc:70).                                            *)
ReplaysTheFile ==
  /\ HasLast(file) => issued <= Loaded(file)
  /\ main \in {"destroy", "sleep"} => issued >= Loaded(file)

(* From the barrier to the end the threads are the chain of flags, which   *)
(* therefore starts from the flags as initialize_c_style leaves them.      *)
Set(flags) ==
  IF main \in FlagsUnset THEN InitialFlags ELSE flags

ChainOf == INSTANCE OrderChain WITH order <- Set(order), order_sum <- Set(order_sum)

ImplementsChain == ChainOf!Spec

(* The inductive invariant of the properties above.  Until the main thread *)
(* is at the barrier nobody can be past it, so the chain is still at rest; *)
(* and the calls made so far are counted by what was loaded.               *)
AtRest ==
  /\ issued = 0 /\ ring = << >>
  /\ pc = [w \in Workers |-> "dequeue"]
  /\ local_data = [w \in Workers |-> -1]

RestsBeforeBarrier ==
  main \in Starting \cup {"arrive"} =>
    /\ AtRest /\ killed = {}
    /\ "main" \notin arrived
    /\ \A w \in Workers : thread[w] \in {"none", "created", "barrier"}

CallsAreCounted ==
  /\ data_count = IF main = "load" THEN 0 ELSE DataCount(file)
  /\ issued <= data_count
  /\ main \in {"destroy", "sleep"} => issued = data_count
  /\ killed # {} => main \in {"destroy", "sleep", "gone"}

LifeIInv ==
  /\ LifeTypeOK
  /\ RestsBeforeBarrier
  /\ CallsAreCounted

(* Nothing in start, replay or shutdown waits forever: the barrier is      *)
(* passed, every call returns and the process ends.                        *)
ProcessEnds == <>(main = "gone")
=============================================================================
