# rsj in TLA+

A TLA+ model of *rsj*, a processor of trading updates: each call
`Update(seqNum, instrument, price, volume, side)` changes one order book and is
answered by one call `Result(seqNum, x)`, where `x` is the instrument's value
`fp_i` as a share of the sum of the values of all instruments. The work is
done by `THREAD_COUNT` threads that keep the order of the updates with two
circular arrays of flags.

All paths and lines below are those of the repository (`src/`).

## 1. The system

| component | files | state | operations |
|---|---|---|---|
| index arithmetic | helpers.h, structures.h | - | `prev_index`, `next_index`, `prev_index_spec`, the reductions in `update_c_style` |
| order flags | sync.h, structures.h | `order[]`, `order_sum[]` | wait, set (unlock), unset (trylock) |
| producer, ring buffer | worker.h, iupdateprocessor.cc | `order_index`, `order_indices_bid[]`, `buffer` | `Update` -> `update_c_style` |
| worker threads | worker.cc | `local_data`, the local prices, `fp_i_history`, `sum_history` | `worker_start`, `insert_data`, `compute_return_fp_i`, `history_shift` |
| order book | table.h | per instrument and side: tree, best price and volume, `history[]` | `bids_insert`, `asks_insert` |
| return formula | worker.cc | - | `compute_fp_i`, the running sum, the division |
| red-black tree | rb.c, rb.h (libavl) | nodes with two links and a colour, the stacks of ancestors | `rb_replace`, `rb_delete`, `rb_t_first`, `rb_t_last` |
| start and shutdown | init.cc, worker.cc, iupdateprocessor.cc | `running`, `global_id`, `start_barrier`, threads | `initialize_c_style`, `destructor_c_style` |
| result consumer | iresultconsumer.h | - | `Result` (a dummy) |
| test driver | main.cc | the loaded records | CSV loader, `do_test`, `main` |
| debug output, build files | debug.h, Makefile, rsj.pro | - | - |

How they interact. The caller's thread numbers the update twice - a slot of the
flags (`order_index`) and a slot of the instrument's histories
(`specific_index`) - and pushes it into the ring. A worker pops it and

1. locks both flags of the *next* update (worker.cc:216, 218),
2. spins on the order flag of the *previous* one, locks its own, changes the
   book and this side's history slot, and releases its order flag (table.h),
3. carries the other side's history over to its slot (worker.cc:103, 113),
4. reads its slots back; if a price is missing it reports 0.0 (worker.cc:239),
5. spins on the previous update's sum flag, locks its own, stores the running
   sum (and reports the result if it has not), and releases its sum flag.

What is hard, and what correctness means:

* *flags*: they are reused every `HISTORY_SIZE` updates, and nobody takes them
  as locks. Correct means: an update passes a gate only after all earlier ones,
  and no release is overwritten before its waiter saw it.
* *worker data*: step 3 is outside the flags. Correct means: every result is
  that of sequential execution. It is not so in general; see findings.
* *book*: the best offer is cached, and shown again in the history slot.
  Correct means: tree, cache and slot agree after any sequence of updates.
* *sum*: it is never recomputed. Correct means: it is the sum of the values of
  the latest results.
* *spinning*: correct means: every update is answered.
* *tree*: a rebalancing relinks nodes while the order of the prices must stay;
  its cases depend on shapes that long sequences of operations reach. Correct
  means: after every turn of its loops the nodes are in order and the colour
  rules are broken only where the loop goes on, and it is a map from prices to
  volumes to its caller.
* *start, shutdown, loading*: correct means: nothing is used before it exists;
  the records of the file are replayed; the process ends, and what it then
  leaves unanswered is the last few calls only.

PROJECT.json lists the hazards one by one, at the line where they bite.

## 2. The modules

| module | models | correspondence |
|---|---|---|
| `Indices` | helpers.h and the sizes | operators with the source's names; unsigned ints wrap at `UINT_RANGE` before they are reduced |
| `Sync` | sync.h, SPIN / FAS build | TRUE is locked; a trylock whose result is ignored is a store of TRUE |
| `OrderChain` | the threads' control | `pc[w]` is the place in `worker_start` and what it inlines; one action per flag access, and one per stretch of code between two |
| `TwoWorkers` | `OrderChain` for the shipped thread count | the inductive invariant `IInv` |
| `Pipeline` | abstract: two stages passed in order, bounded backlog | implemented by `OrderChain` |
| `SearchTree` | rb.c as table.h sees it | a function from prices to volumes |
| `RbTree` | rb.c: `rb_create`, `rb_replace`, `rb_delete`, `rb_t_first`, `rb_t_last` | `link`, `color`: the nodes; `stack`: `pa[]` and `da[]`; one action up to the loop and one per case of a turn of it, the mirrored halves being one; the loops that go down the tree are functions of the number of turns (`Walk`) or of the node |
| `PriceTree` | abstract: a map with a lowest and a highest key | implemented by `RbTree` |
| `Table` | table.h | what a book can be, and the code between the flags as functions from book to book |
| `OrderBook` | one book without overlap | `insert_data` as one step; unbounded sequences |
| `MarketDepth` | abstract: volume per price, best offers | implemented by `OrderBook` |
| `Returns` | the formula of worker.cc | exact numbers in units of 1/`Unit` |
| `Processor` | all of the above composed; extends `OrderChain` | each action conjoins the action of `OrderChain` with its effect on the data; its own names begin with `Proc` where the chain has the plain ones |
| `Sequential` | abstract: the results as a function of the calls | implemented by `Processor` with one worker |
| `Lifecycle` | main.cc, init.cc, the destructor; extends `OrderChain` | `main` and `thread[w]` are places in `main` / `initialize_c_style` / `destructor_c_style` and in `worker_start`; between the barrier and the end a step of a worker, or a call, is a step of `OrderChain` |
| `Histories` | what the circular histories hold; extends `Processor` | inductive invariants only: `LedgerIInv` (sums), `HistoriesIInv` (sums, slots, results) |
| `MCProcessor` | instances of `Processor` | inputs, symmetry |
| `NumberProofs`, `TableProofs` | lemmas on remainders, on sets and their sums; on the two insertions | section 5 |
| `OrderChainProofs`, `OrderBookProofs`, `ProcessorProofs`, `SequentialProofs`, `LifecycleProofs`, `RbTreeProofs` | the theorems | section 5 |

An operator such as `WaitOrder_Skipped` or `ProcLoad_Silent`, marked
"Mistake" in its comment, is a wrong variant of the definition that follows
it. No specification uses it; putting it in that one's place must make TLC
refute the property PROJECT.json ("mutants") pairs it with.

Abstractions worth knowing:

* *Tree.* The book uses a function from prices to volumes; `RbTree` shows that
  rb.c implements it for its callers. An item stays in its node, so a node is
  named by its price. Nobody reads `rb_count` and `rb_generation`, and malloc is
  taken to succeed (the code does not test it either). An offer with volume 0 is
  put in and then deleted, as table.h does.
* *Null pointers.* A turn of `rb_delete` follows the sibling `w` untested; the
  model has no step for a null one, so that such a crash would show as an
  operation that does not end, and as a `SiblingExists` that fails.
* *Start and end.* The file is a sequence of "is this line numbered 1001". Past
  the records that were read, `do_test` uses an unset pointer: any call, or a
  crash (`Overrun`). Memory before initialisation holds anything (flags all
  alike). Nobody installs a SIGINT handler, so a signal ends the process, at any
  moment after it was sent. main.cc never deletes its processor; `Lifecycle`
  also has the user who does. `sleep(30)` takes any time at all.
* *Ring.* ck_ring is not in the repository. A ring of `BUFFER_SIZE` slots is a
  sequence of at most `BUFFER_SIZE - 1` entries, and a dequeue is atomic.
* *Numbers.* Doubles are exact. `atan` and the polynomial of `compute_fp_i` are
  the parameter `FG`; `MCFG` gives all the small equities different values.
  Prices start at 1: 0 and `INT_MAX` are the code's marks for "no offer".
* *Atomicity.* A stretch of code between two flag accesses is one step, except
  where another thread can see it half done: the copy of a bid pair, done
  outside the flags, is two steps, and so is the read of such a pair
  (`ReadKeptPrice`). The other accesses are separated by a flag, or are to one
  int. Flag accesses are atomic instructions with a full fence on the shipped
  platform (`-march=corei7`), and memory is modelled as sequentially consistent
  between them.
* *Assertions.* The Makefile defines NDEBUG, so they are not modelled.
* *Memory.* `initialize_c_style` clears `HISTORY_SIZE` slots of the
  per-instrument histories, however many there are. The rest holds what malloc
  left: any member of `Leftovers`.

## 3. The runs

All with the bounds in the cfg: `Count` bounds the number of calls (in
`Lifecycle` also the length of the file, `Count - 1` lines), the sizes the
arrays, and nothing else is bounded. Deadlock is checked in all of
them; `Drained` (main.cc:104, every worker spinning) and, in
`Lifecycle`, `Gone` (no process) are the legal ends.

| run | instance | shows |
|---|---|---|
| chain2 | 2 workers, 4 slots, 10 updates | order of both stages, no lost release, `IInv`, `Pipeline` implemented, progress |
| chain3 | 3 workers, 8 slots | *violated*: an insertion overtakes an earlier one |
| order_book | 3 prices, 3 volumes, 2 slots, any number of updates | cached best, `IInv`, `MarketDepth` implemented |
| processor2 | 2 workers, 2 instruments, 4 updates | `ProcIInv`, books, ledger, shares in (0, 1], one result per update, only 0.0 overtakes, `HistoriesIInv` |
| processor_turns | 2 workers, instruments in turns, 5 updates | results are the sequential ones |
| processor1 | 1 worker, 7 inputs, 5 updates | `Sequential` implemented, prices read back are right |
| processor_flow | 2 workers, 4 updates, fair | every update is answered |
| rb_tree | 10 prices, any sequence of operations | links, order, colours, black height at every turn; the sibling exists; stacks fit; `PriceTree` implemented; every operation ends |
| lifecycle | 2 workers, every file of 0 to 4 lines, exit and destructor | `LifeIInv`, initialised before use, `OrderChain` implemented, the file is replayed, only a tail is lost, the process ends |
| processor_race | 2 workers, one instrument | *violated*: a stale or torn history slot is used |
| processor_sizes | 1 worker, S = 8, H = 4 | *violated*: the wrong slot is copied |
| processor_shift | 1 worker | *violated*: the sum changes where a comment says it does not |

Why the bounds are enough. Four slots are the smallest history for which two
workers are correct (section 5), so laps come as soon as they can: 10 updates
are two and a half laps and, with `UINT_RANGE = 8`, one wrap of the counters;
5 updates reuse the first slot. A ring of 2 slots is the shipped one, and is
full and empty all the time. The input sets are chosen so that a best offer is
improved, replaced by a new volume, kept, withdrawn with and without a
successor, and a complete book becomes incomplete. Workers are symmetric in the
runs of `Processor` that check invariants only; no liveness run uses symmetry.

`processor_turns` excludes, by the constraint `Turns`, exactly the calls that
processor_race shows to be wrong: two successive ones for one instrument.
(With two workers only neighbours overlap in step 3, for a worker leaves it
only on its way to the sum of its update, for which the previous one's is
needed.) The constraint cuts a behaviour off after such a call was made, and
the property is only claimed for results no such call precedes.

Ten prices are the fewest with which, besides every case of both loops on both
sides, a deletion moves its missing black node up more than one level, and
rotates there; `RB_MAX_HEIGHT` is 5 there, the smallest value that is
enough. `StackFits` also bounds the stack by the logarithm of the number of
offers, checked here for up to ten of them; by that bound the program's 48
entries would take 2^23 - 1 offers on one side of one book to fill.
A colour or link that is wrong shows within these sizes, since a turn of a
loop looks at three levels only; the seeded mistakes are all found there.
Four lines in `lifecycle` are one more than the ring and the workers hold.

`ShareInRange` is what makes the branch for an infinite quotient
(worker.cc:152) dead; it rests on exact additions and positive values.

`HistoriesIInv` claims the contents of slots and results only until two
successive calls were for one instrument, like `ResultsSequential`; processor2
goes on past such calls for the other invariants, and its 4 updates include the
alternating calls for which the claim is made.

Fairness is weak fairness of the producer and of each worker: each is an OS
thread that never blocks, it spins. No fairness is assumed of the outcome of a
race for the ring or for a flag, and none is needed. In `RbTree` the loop that
was begun goes on (one thread, which holds the order flag). In `Lifecycle` a
signal that was sent arrives, and the main thread, too, keeps running.

## 4. Findings

1. **The other side's history is copied after the flag is released**
   (worker.cc:103, 113; processor_race). The next update of the same instrument
   can read the slot before the copy, and gets the offer of a lap ago, or a
   price with another offer's volume. table.h:86: "Nothing changed - we need to
   use the last value."
2. **The gates hold for two workers only** (worker.cc:216; chain3). Until the
   worker of update n has locked the flag of n + 1, that flag shows the release
   of a lap ago, and a third worker, with update n + 2 in hand, passes.
   table.h:19: "Wait until previous data is inserted."; README:21 offers the
   number of threads as a parameter.
3. **`prev_index` for `prev_index_spec`** (table.h:158; processor_sizes).
   Harmless while the two sizes are equal. The same sizes leave slots of the
   histories uncleared (init.cc:91) and overrun `fp_i_history` (init.cc:65); the
   run starts from memory that reads as zero so that only the index matters.
4. **"Sum history unchanged."** (worker.cc:238; processor_shift). The sum
   stored is the previous one less the instrument's last value - which is what
   `SumIsLedger` needs; the comment is what is wrong.

## 5. The proofs

`tlapm` checks every step. Nothing is assumed beyond the named ASSUMEs of the
modules:

| assumption | in | says | why the code justifies it |
|---|---|---|---|
| `SizesAssumption` | `Indices` | sizes are positive and divide the range of unsigned int | structures.h: powers of two |
| `ChainAssumption` | `OrderChain` | a worker or more, a ring of two slots or more | ck_ring's smallest is the shipped one |
| `TwoWorkersAssumption` | `TwoWorkers` | at most two workers, four slots of flags or more | THREAD_COUNT is 2; with three chain3 fails |
| `OffersAssumption` | `Table` | prices from 1 to `INT_MAX`, volumes not negative | 0 and `INT_MAX` are the marks for "no offer" |
| `EqualSizesAssumption` | `OrderBook` | both histories have one size | the shipped sizes; otherwise processor_sizes fails |
| `HistoriesAssumption` | `Processor` | the instrument's history is not the shorter one | table.h:158 would read past its end |
| `InputsAssumption` | `Processor` | calls are of the known instruments, sides, prices, volumes | `Update()` indexes arrays with them untested |
| `ReturnsAssumption` | `Processor` | `FG` is not negative on the equities of two volumes | 1.5(e - e^2) and the arcus tangent less its chord, for e between 0 and 1 |
| `PricesAssumption` | `RbTree` | prices and volumes are numbers, prices positive | 0 is the model's NULL, and a mark of the code's for "no offer" |
| `ThreadsAssumption` | `Lifecycle` | finitely many workers, none of them main | they are threads |

Two conditions are hypotheses of single theorems, written ASSUME in them:

| hypothesis | in | says | why the code justifies it |
|---|---|---|---|
| `EqualSizes` | all of `SequentialProofs` | the instrument's history is as long as the flags' | the shipped sizes; otherwise slots are used that nobody cleared (init.cc:65), and processor_sizes fails |
| `OneWorker` | `LastValuesUsed`, `SingleWorkerIsSequential` | there is a single worker | with two, processor_race fails |

"Two" below means at most two. "Any number" means that the proof does not cite
`TwoWorkersAssumption`, directly or through a lemma.

| theorem | property | workers |
|---|---|---|
| `OrderChainProofs!TypeCorrect` | `TypeOK` | any number |
| `OrderChainProofs!FlagsAreTruthful` | `IInv` | two |
| `InsertionOrder`, `SumOrder`, `ReleaseIsSeen` | `InsertionInOrder`, `SumInOrder`, `NoLostRelease` | two |
| `ChainImplementsPipeline` | `ImplementsPipeline` | two |
| `OrderBookProofs!TypeCorrect`, `BookIsTruthful`, `CacheIsBest` | `TypeOK`, `IInv`, `BestIsCached` of one book | - |
| `BookImplementsDepth` | `ImplementsDepth` | - |
| `ProcImplementsChain` | every run of the processor is one of the chain | any number |
| `ProcInvariant`, `ProcTypeCorrect` | `ProcIInv`, `ProcTypeOK` | any number |
| `ProcFlagsAreTruthful`, `ProcInOrder`, `ProcImplementsPipeline` | the chain's theorems, of the processor | two |
| `BooksAreSequential` | `BooksSequential` | two |
| `OneResult`, `ZeroOvertakes` | `OneResultPerUpdate`, `OnlyZeroOvertakes` | two |
| `LedgerAddsUp`, `SharesInRange` | `SumIsLedger`, `ShareInRange` | two |
| `HistoriesAreTruthful` | `HistoriesIInv` | two |
| `ResultsAreSequential` | `ResultsSequential` | two |
| `LastValuesUsed` | `UsesLastValue` | one |
| `SingleWorkerIsSequential` | `ImplementsSequential` | one |
| `StepsKeepOrder`, `AlwaysInOrder` | the inductive invariant of `RbTree` | - |
| `TreeTypeCorrect`, `TreeLinked`, `TreeSorted`, `TreeRedRule`, `TreeBlackRule` | `TypeOK`, `Linked`, `Sorted`, `RedRule`, `BlackRule` of it | - |
| `TreeSiblingExists` | `SiblingExists` | - |
| `TreeIsFunction` | `ImplementsPriceTree` | - |
| `LifeInvariant`, `LifeTypeCorrect` | `LifeIInv`, `LifeTypeOK` | any number |
| `NothingUsedTooEarly`, `FileIsReplayed` | `InitialisedBeforeUse`, `ReplaysTheFile` | any number |
| `LifeImplementsChain` | `ImplementsChain` | any number |
| `LifeChainInvariant`, `OnlyTailIsLost` | `IInv` in the whole program, `LossIsTail` | two |

*Indices* (`NumberProofs`, `OrderChainProofs`). Reducing modulo `UINT_RANGE` first is invisible
modulo a divisor (`WrapInvisible`), so `OrderIndex(n)` is n modulo the size,
`prev_index` and `next_index` go to the neighbouring updates' slots, and updates
fewer than `HISTORY_SIZE` apart have different slots.

*Flags* (`OrderChainProofs`). The order properties are not inductive: they say
nothing of the flags. `IInv` adds three things. (1) `RingInOrder`,
`WindowOfTwo`: the updates in hand are the last one or two taken, and the ring
holds the ones after. (2) `GatesHold`: the newer of two has not passed a gate
that the older still holds. (3) `FlagsTruthful`: the flag of an update in hand,
or of the next one, is locked until that update is done - except in the window
before its predecessor's worker locked it - and unlocked from then on until its
reader has seen it. The exception is where two workers are needed: whoever could
look at the flag in that window holds the update the window belongs to. Four
slots are needed because an update and the flag it locks are up to three updates
from the flag still to be read (`SlotFacts`). There is one lemma per action;
steps that do not write flags are covered by the frame lemmas.

*Pipeline* (`OrderChainProofs`). Under the refinement mapping, releasing the order
flag is `Insert` of the next update (`SetOrderInserts`), releasing the sum flag
is `Sum` (`SetSumSums`), a call that returns is `Issue` (`UpdateIssues`: the
backlog is what ring and workers hold), and every other step is a stutter.

*One book* (`TableProofs`, `OrderBookProofs`). An insertion changes the tree at
one price only (`TreeAfterUpdated`); from that and the old best offer follows the
new one in each of the three outcomes of table.h (`BestBidFollows`,
`BestAskFollows`), so the cached offer stays the tree's (`BidsInsert`,
`AsksInsert`). The history slot needs a further invariant, `LastSlotShowsBest`:
what a kept offer is copied from is the cached one. With it every insertion is a
step of `MarketDepth`.

*The processor* (`ProcessorProofs`). Every step is one of the chain or one half
of a pair (`StepOfChain`), so the chain's theorems carry over, and types need
not know of flags. `ProcIInv` is inductive for any number of workers:
`HandsAreDistinct` gives every worker an update, and so a record, of its own;
`BestIsCached` is each book's; `ResultsAreOwned` says that an update in hand has
a result exactly if its worker is past the point that reports it (`Answered`),
that one that is done has a result, and none has two. With two workers three
things follow. An update below `SumsStored` without a result would be in hand,
the older of two, and the newer one at `set_sum`, which `GatesHold` excludes
(`StoredIsAnswered`). A result that comes late is that of the older update in
hand, so the newer one had its result before the sums: it was 0.0
(`ReportOvertakesByOne`). And an insertion is always that of update
`BooksChanged`, the oldest not in its book (`PlacedByInsert`), and does to the
tree what the next call does to `Sequential`'s book (`BookStep`).

*Sums over sets* (`NumberProofs`). `SumFunction` is defined by recursion over a set,
and an induction over sets takes an operator the provers cannot instantiate. So
the induction is made a fact about sets of numbers (`SetInduction`, from the
least element of a set), and applied to the set of sizes for which a claim
holds. What it gives is that a sum depends on the values only, that any member
may be taken out of it (`SumUnfold`, `SumOfParts`), and that with no value
negative it is not less than its parts (`SumOfNaturals`).

*The sum* (`SequentialProofs`, first half). The running sum takes an instrument's
last value off and puts a new one on; that this keeps it the sum of the last
values needs to know where the last value is. Hence `LedgerIInv`: slots are
given to an instrument's calls in turn (`SlotsInTurn`), the last one holds the
value behind the last result (`LastValues`), the last stored sum is the total
(`LastSum`). Sums are stored by the one worker whose turn it is (`StoredInTurn`),
and one update enters the total while the instrument's previous one leaves it
(`LastCallsNext`, `LedgerStored`). The value taken off is a part of the sum
(`FormerInSum`), so no share exceeds 1. None of this asks what prices were read.

*The histories* (second half). `HistoriesIInv` follows each slot through
an update: before the insertion the slot before it shows the best offers of the
calls up to the previous one; the insertion makes one side's half right, the copy
the other's; what was read back is right from then on (`OwnSlotShows`). It is
claimed while the update is not `Disturbed`. With two workers the other one is
at a neighbouring call, and that is for another instrument, so its steps leave
the slot alone (`OthersKept`); with one worker there is no other. A slot that a
worker starts from was left by the instrument's previous call, whose worker was
past its copy by then (`StartShows`, `CopyLeavesShown`, `LastSlotsKept`). The
answers then are the sequential ones, since the ledger is the total of
sequential values (`AnswersKept`).

*A single worker.* It never has more than one update in hand, so results come in
the order of the calls (`InTurnKept`). A call is `Call`, a report is `Reply` of
the oldest call without an answer, its value the sequential one by
`AnswersSequential`; every other step changes neither (`UpdateCalls`,
`ReportReplies`).

*The whole program* (`LifecycleProofs`). `LifeIInv` says that up to the barrier
the chain is at rest and nobody past the barrier, for it takes the main thread to
open it, and that calls are counted by what was loaded (`LoadedLines`: where a
file is cut). From `InitFlags` on the state is one of the chain, `IInv` included,
and the steps are the chain's or none (`SameStep`); what is unanswered at the end
is then bounded by the pipeline's backlog (`SummedIsPrefix`).

*The red-black tree* (`RbTreeProofs`). The invariant is `IInv`: `TypeOK`,
`Linked`, `Sorted`, `RedRule` and `BlackRule`. Order and colours alone are not
inductive: that a rotation, which writes three links, keeps them needs that no
node has two parents and that the links on the stack are the path from the root
(`Linked`). The proof has four parts.

1. *Trees.* `IsTree(L, D, T, sub)`: the links `L` are a search tree of the nodes
   `T`, with `sub[n]` the nodes below `n`. The model's recursive functions are
   pinned down by it (`BelowIs`, `BlackHeightIs`, `ExtremeFacts`), by induction
   over the nodes from the leaves up (`TreeInduction`, which is `SetInduction` on
   the size of `sub[n]`). A `Walk` ends, since each turn goes to a node below the
   last (`WalkIs`); so a search finds a price, or the one place for it
   (`SearchIs`). Then what the code does to links keeps a tree: a rotation
   (`RotateTree`), a new leaf (`InsertTree`), a node that gives its place to its
   only subtree (`SpliceTree`), a node that takes the place of another
   (`ReplaceTree`).
2. *Colours.* `Heights` and `Reds` say that heights and colours are those of a
   red-black tree, except for one black node missing at one link and one red
   pair. Each change of part 1 comes with what it does to them, and each of the
   code's four rotations with its own colours (`TurnIn`, `TurnOut`,
   `TurnSibling`, `TurnNephew`, `TurnFar`). The heights are a witness, found anew
   for each step; nothing is said of their size.
3. *Steps.* `IInv` says the same as `Fit` with both exceptions at the link on top
   of the stack (`InvFits`, `FitsInv`), and each action moves the exceptions with
   the stack or removes them. A deletion of a node with two subtrees is a
   `SpliceTree` of its successor followed by a `ReplaceTree` (`UnlinkedLinks`),
   which covers both of the code's cases. `SiblingExists` follows from the
   heights: the side of `w` has a black node more than that of `x`.
4. *Refinement.* The nodes below the root are those in memory, the outermost ones
   are the least and the greatest price (`TreeIs`, `EndIs`); an insertion enters
   its price at its first step and a deletion withdraws its price at its last
   (`StepHolds`), and no other step changes the map. That is what the proofs
   about books take `SearchTree` to be.

Only model-checked:

* Liveness (`EveryUpdateSummed`, `EveryUpdateAnswered`, `OperationEnds`,
  `ProcessEnds`), which is out of the prover's reach.
* `StackFits`. That a tree with black height h has 2^h - 1 nodes or more needs the
  powers of two, which are built in and which the provers know nothing of, and
  the bound on the stack follows from nothing else.

## 6. Not modelled

* A file of more lines than TESTING_COUNT, a missing file name, more than 15
  threads, two threads inside `Result()` at once, the consumer that is copied by
  value: listed as hazards; nothing in the code tests for them.
* Rounding of doubles, int overflow of volumes, negative prices, memory that is
  never freed: PROJECT.json lists them as hazards with the reason.
* The ATOMIC build of sync.h (not compiled), time measurement, debug output,
  thread affinity, build files; the functions of rb.c that are never called.

## 7. Plan

Done, in this order: `Indices`, `Sync`, `OrderChain`, `Pipeline`, `TwoWorkers`;
`Table`, `Returns`, `Sequential`, `Processor`; `OrderBook`, `MarketDepth`; the
proofs of section 5; `SearchTree`, `RbTree`, `PriceTree`; `Lifecycle`.

Then the proofs of the pipeline, the book, start and shutdown, and the types,
books and results of the processor; `Histories` and the proofs of the sums, the
histories, the sequential results and the single worker.

At last the descents of `RbTree` written as functions, and its proofs. Left: the
bound on the stacks (`StackFits`), which needs powers of two.
