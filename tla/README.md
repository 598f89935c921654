# A TLA+ verification of the Trix runtime

Trix is a stack language whose virtual machine is one C++ class put together
from the `.inl` files in `src/src/`. One operating-system thread interprets
objects; on top of it the VM has coroutines, actors with mailboxes, monitors,
links and supervisors, gen-servers and pipelines, save and restore of the heap,
a garbage collected global heap, snapshots, reactive cells, lazy sequences, a
logic engine, and the usual operators of a language. This directory holds
models of these parts in TLA+, the TLC configurations that check them, and
proofs that TLAPS checks.

Source paths below are relative to `src/src/` unless they begin with `docs/`.

## 1. Inventory

The interpreter runs one coroutine at a time, and an operator is atomic. What
makes the program hard is everything that happens *between* operators: a
coroutine that waits puts a control operator (`@actor-recv-check`,
`@coroutine-join-check`, ...) on its execution stack, registers itself with
whoever is to wake it, and gives up the processor. Between its wake-up and the
control operator any other coroutine may run, kill, suspend or release
anything. The same holds for operators that call user procedures: `map`,
`finally`, `find-all`, a reactive formula or a lazy stage keep their state on
the execution stack while arbitrary code runs, fails, or restores the heap to
an earlier save. References between structures are heap offsets, and contexts,
mailboxes, pipes, monitor entries, stream slots and heap blocks are recycled
through pools: a reference that is kept a moment too long names somebody else.
The repository records this kind of trouble as "ENGINE BUG #n" and has a
run-time validator, `scheduler_validate`, whose rules several invariants state.

| Component | State | Operations | Interacts with | What makes it correct |
|---|---|---|---|---|
| Coroutines, scheduler (`ops_coroutine.inl`) | registry, two ready queues, timer list, status and flags, joiner, live count | launch, sleep, die, kill, kill-all, suspend, resume, priority, join, await, release, wait-all, the loop `coroutine_schedule` | everything that blocks or wakes | each coroutine is on exactly the list its status says; nobody is orphaned; sleeps are not cut short; nobody starves |
| Stdin reader (`ops_stream_io.inl`) | one reader slot | read-key-byte, with and without timeout | timer list, kill, suspend | the slot names a coroutine asleep in a read |
| Actors (`ops_actor.inl`) | mailbox, blocked reader, chain of blocked senders | spawn, send, try-send, broadcast, receive, timed and selective receive, flush | scheduler, death | no missed message, no wasted wake-up, no early timeout |
| Mailbox buffer and pool (`ops_actor.inl`) | ring buffer; free lists by size class | put, take, take from the middle, clear; allocate, recycle | actors | a FIFO queue; a block is never smaller than its capacity says |
| Quantum, interrupts (`interpreter.inl`, `api.inl`) | operations left, saved per coroutine; request, mask and park state shared with host threads | dispatch, coroutine-quantum; raise, mask, park, suspend, resume, exit | every context switch; the host | each runs on its own budget; no request is hidden, slept through or lost |
| Monitors, links (`ops_supervision.inl`) | entries, each in two lists; trap flag | monitor, demonitor, link, unlink, spawn-link, spawn-monitor, trap, exit, recursive death notification | `coroutine_kill`, mailboxes | the walk survives its own recursion; exactly the right actors die; monitors fire once |
| Supervisor (`ops_supervision.inl`) | child table, restart stamps | start, terminate, restart, stop, handling of /down | monitors, actors | the table is true; restarts are bounded; permanent children come back |
| Pipes, pipelines (`ops_pipeline.inl`) | ring with one producer and one consumer, done and error flags; chains of stages | put, get, done, error; materialisation, ten stage kinds, merge, zip, terminals | scheduler, pools | order kept, end and errors reach the other side, recycled once, no stage left running |
| Gen-servers (`ops_genserver.inl`) | reference counter, server loop, kept tokens | call, timed call, cast, stop, deferred reply | actors | a call gets its own answer; requests are handled in order |
| Save and restore (`save.inl`) | levels, journal of old values, tokens, 64- and 128-bit cells | save, restore, journalled writes | all heap structures, scheduler lists | restore gives back the saved state, or fails and changes nothing |
| Operand stack (`ops_stack.inl`) | operand and execution stack, cells of wide operands | pop, dup, roll, index, marks, dip, bi, keep, array-store, array-load | heap cells, save, arrays | every cell in use has exactly one owner; a roll is a rotation |
| Heaps and collector (`gvm_heap.inl`, `vm_heap.inl`, `gc.inl`, `ops_memory.inl`) | blocks, bins, mark generations, scratch region | allocate, free, collect, in-global | all | no block in use is freed, neighbours are merged, scratch and heap do not meet |
| Snapshot (`snapshot.inl`, `ops_snapshot.inl`) | image of the VM on disk | snapshot, thaw | all | a crash leaves the last whole image; a thaw gives back what was saved |
| Reactive cells (`ops_reactive.inl`) | value, dirty flag, dependencies, watchers | set, get, batch, dispose | interpreter, save | a clean cell holds the value of its formula |
| Dictionaries (`dict.inl`, `ops_dict.inl`, `hash.inl`) | chained tables over an entry pool | put, undef, growth, forall | save and restore | chains stay well formed; loops visit what is there |
| Name caches (`binding_table.inl`, `name.inl`) | global cache, one table per coroutine | lookup, define, undefine, first spawn, last death | dictionaries, scheduler | a cached binding is what the dictionary stack says |
| Streams (`stream.inl`, `ops_stream_io.inl`) | slots, identifiers, buffers, positions | open, read, write, seek, close | files, restore, snapshot | nothing written is lost or doubled; slots are not leaked |
| Control flow, effects (`ops_flow.inl`, `ops_continuation.inl`, `ops_effect.inl`) | execution stack with companions, depths | loops, stopped, try, finally, with-stream, delimit, capture, effects | error unwinding | every scope is left exactly once |
| Iteration (`ops_higher.inl`, `ops_array_iteration.inl`) | control operators with pending results | map, filter, fold, scan, sort-by, ... | heap, scratch | results are exact; every wide value has one owner |
| Lazy sequences (`ops_lazy.inl`) | thunks | sources, stages, terminals | interpreter | agrees with the eager reading; computes once; reads no further than asked |
| Logic engine (`ops_logic.inl`) | choice points, bindings | unify, choice, once, negation, find-all, ... | save and restore | agrees with a reference solver; backtracking undoes bindings |
| Numbers, scanner of numbers, values (`ops_math.inl`, `ops_bitwise.inl`, `ops_convert.inl`, `number.inl`, `object.inl`) | none | arithmetic, bits, promotion, casts; literals; eq, hash, sort | | exact at machine width or an error; equal values hash alike |

The rest (formatting, strings, records, regular expressions, clocks, the parser,
protocols, debugger, tables and start-up code) is listed in `PROJECT.json` under
"components" with the reason why it is left out. The list of hazards there
gives, line by line, what is hard to test in this code and the property that
would notice.

## 2. Modules

    SchedulerOps ── Scheduler ─┬─ Actors          Mailbox ──refines──> BoundedQueue
                               └─ SaveScheduler
    Monitors    Supervisor    GenServer    Pipes    Pipeline    Quantum    Interrupts
    SaveRestore    HeapCells    OperandStack    GlobalHeap    Regions
    HashDict    Reactive    Streams    Snapshot    BindingCache
    Control    Lazy    Logic    Iteration    Numbers    NumberScan    Values

    MCScheduler  MCChannels  MCMonitors  MCProgress
    MCServices   MCMemory  MCData      MCLanguage

    SchedulerOpsProofs  SchedulerProofs  MailboxProofs  InterpreterProofs  GenServerProofs
    ActorProofs  PipeProofs  BindingProofs

Each component module names its state variables and their C++ counterparts in its
head comment, has one action per operator, control operator or turn of a loop
(with the source's name where TLA+ allows it), and ends with its properties. A
definition marked "Mutant" is the plausible bug next to what it replaces; it is
used to test that a property can fail.

**Scheduling.** *SchedulerOps* holds the scheduler's structures as operators on one
record; doubly linked lists are sequences and every helper of the code is an
operator of the same name. *Scheduler* has one action per operator and one per
turn of `coroutine_schedule`; the running coroutine's program is arbitrary. Time
is relative: `left` counts down, which keeps the state finite without a bound on
the clock. *SaveScheduler* adds restore, which empties the lists and refills
them from the registry. *Actors* adds mailboxes; a selective receive evaluates
one candidate per step, because predicates are Trix procedures. *Mailbox* is the buffer
with `m_head`, `m_tail`, `m_count` and the shift of `mailbox_remove_at`, and the pool of
buffers in size classes; *BoundedQueue* says what the buffer promises. *Quantum* isolates
the slice counter at the end of the dispatch loop, where the counter may already belong to another coroutine. *Interrupts*
has the host threads that raise requests and the interpreter that masks, parks
and delivers, with every read and write of a shared word a step of its own.

**Services.** *Monitors* keeps the entry lists as pointers and the C++ call stack
as a sequence of pending tasks (`agenda`), because what is at stake is the walk
of `supervision_notify_death`, which kills partners from inside the loop and
uses a pointer saved before. *Supervisor* has the child table, the draining of
queued /down messages before a restart (`todo`), strategies and the restart
window with a wrapping clock. *GenServer* follows a call from the client's send
through mailbox, handler, token and reply. *Pipes* is the buffer between two
stages with its blocking, closing and recycling; *Pipeline* materialises a
descriptor chain and runs its stages against a reference computation.

**Memory.** *SaveRestore* has levels, barriers, journal and tokens; *HeapCells* the
free lists of 64- and 128-bit cells across restores; *OperandStack* every operator that
moves, copies or discards operands, with the cell that each wide number owns;
*GlobalHeap* the boundary-tag blocks, bins and the collector's scratch block, and a pass
of the collector with mark generations, skipping and aborts; *Regions* the three watermarks and
scratch held across user procedures.

**Data.** *HashDict*, *Reactive*, *Streams*, *Snapshot*, *BindingCache*: see the table
above. Each compares its tables with what a reader would compute from scratch:
the contents of a dictionary, the value of a formula, the bytes of a file, a
search of the dictionary stack.

**Language.** *Control* keeps execution, operand, dictionary and stream stacks as the
frames and companions that unwinding has to match up. Its counted loops and *Numbers*
work at widths of 2 to 5 bits, with the code's order of tests, so that every
overflow is reached; *NumberScan* reads texts over the characters that literals
are made of. *Lazy*, *Logic*, *Iteration* and *Values* run programs of a small
grammar and compare with direct definitions.

An operand stack in this program is a pointer, and a scope notes its depth. Bodies may consume
operands from below it, so that a later walk finds the stack lower than what was
noted; some walks only cut the stack (`while (m_op_ptr > target)`), others assign the
pointer and bring consumed words back. *Control* keeps for every operand the scope it was
pushed in, and *Logic* keeps the words above the top; each has the form of depth handling
that the code has at that place (`Trimmed` and `AtDepth`, `TrimTo` and `SetDepth`).

### One part at a time

The MC modules combine component modules that do not share state. A variable `part`
names the one that moves; the others rest in an initial state. The state space is
the sum of the parts', not their product, and a property of one part is a
property of its specification. Parts that do interact are composed in
the component modules themselves (Actors on Scheduler, SaveScheduler on
Scheduler), or meet through an interface both sides model (mailboxes as bounded
queues in GenServer and Supervisor).

## 3. Runs

| Run | Instance | Properties |
|---|---|---|
| `scheduler_safety` | main, 2 coroutines, sleeps of 1..2, restore | `TypeOK`, `QueuesSound`, `WaitersSafe`, `SleepIsMinimum` |
| `actors_safety` | main, 2 actors, mailboxes of 2, matching and other messages, kills, suspensions, rejected retries | `ActorsSound`, `NoMissedMessage` |
| `actors_slots` | main, 3 actors, mailboxes of 1, nobody killed or suspended by others | `SlotWakeups` |
| `actors_main` (violation) | main may block in a send | `ChainsClosed` |
| `channels` | 2 coroutines and 2 pipes of at most 3; ring of 4 = largest index; pool of 3 blocks in classes 1, 2, 4 | `InOrder`, `PipesSound`, `RingSound`, `PoolSound`, `ImplementsQueue` |
| `monitors` | main, 3 actors, 4 entries, mailboxes of 1 | `ListsSound`, `DeathsExact` |
| `progress` | main, 2 coroutines; the same as actors with mailboxes of 1; quanta 0, 2, 3, 4 | `SliceEnds`, `EveryoneRuns`, `ReceiveReturns`, `NobodyStarves` |
| `services` | supervisors of 2 children; 2 clients and main calling a server; pipelines of up to 2 stages over 10 kinds, merge, zip; 3 host requests | `SupervisorSound`, `CallsSound`, `PipelineSound`, `InterruptsSound`, `ServicesProceed` |
| `memory` | 5 heap words, up to 3 nested saves; 6 cell words; 4 stack slots and 2 cells; 14 heap words; 2 global blocks; 6 region words | `SaveSound`, `WideSound`, `RegionsSound`, `HeapSound`, `CollectorSound`, `RestoreUndoes` |
| `data` | 3 keys in 2 buckets; 4 cells; 2 stream slots, files of 4; 3 acts around 2 snapshots with a fault | `ReactiveSound`, `StreamsSound`, `SnapshotSound`, `DictSound` |
| `snapshot_temp` (violation) | an image that holds global objects | `GlobalsIntact` |
| `language` | programs of nested constructs, lazy programs of 1 and 2 stages, logic goals nested twice, arrays of 3, types of 2 to 5 bits, texts of up to 5 characters, values nested twice, 2 dictionaries and 2 coroutines | `ControlSound`, `LazySound`, `LogicSound`, `IterationSound`, `NumbersExact`, `ValuesSound`, `BindingSound` |

A property whose name ends in *Sound*, *Safe* or *Exact* is a conjunction of parts that
are defined and explained one by one in their modules: `QueuesSound` is
`ReadyQueues /\ TimerList /\ StdinSlot /\ LiveCount`, `CallsSound` is
`AnswersOwn /\ HandledInOrder /\ OneAnswer`, `WideSound` (MCMemory) is `CellsSound` of
*HeapCells* and `StackSound` of *OperandStack*, and so on. They belong together because
each is what another one relies on.

What the runs show:

* *Scheduler.* Under the handle discipline of `docs/coroutines.md` 12.6, every
  sequence of suspend, resume, priority change, kill, join, stdin read and restore
  keeps each coroutine on exactly the list that `scheduler_validate` demands.
  Timed sleepers are not starved by a busy ready queue (ENGINE BUG #14), and
  death scrubs every registration (ENGINE BUG #13).
* *Actors.* No receiver sleeps on a message it would take; every sleeper can still be
  woken. A freed slot is handed to one sender; it is wasted only if that sender is
  killed, suspended or rejected on the way.
* *Channels.* The ring is a FIFO queue with removal in the middle up to the largest
  capacity of the index type. Pipes keep order and recycle once, whoever dies.
* *Monitors.* The comment at the free in loop 1 ("abandoning it is safer than risking
  use-after-free") is right: recycling there instead breaks `WalkSafe`. Half links, left
  by a vm-full between the two entries, do no harm to the lists.
* *Services.* A supervisor's table is true whenever it waits for messages; restarts stay
  within the window; calls get their own answers; a pipeline delivers what the
  reference computation says or an error, and nothing is left running.
* *Memory.* Restore undoes exactly what was written since the save, dangling references
  included; the collector frees only what nobody can reach, also when a pass aborts. No
  stack operator makes two Objects share a cell or forgets one, except where
  array-store writes into a global array inside a save (`lost`): such an array is not
  journalled, and the cell of the old element is neither kept nor freed.
* *Data.* See the properties of the four modules. A crash at any step of a snapshot
  leaves the previous image or the new one whole, and a snapshot that fails leaves the
  running program as it was (`FailureHarmless`).
* *Language.* Unwinding by errors, loop exits and captured continuations leaves every
  scope once, and bodies that consume operands from below a noted depth never see one of them
  again; alternatives of the logic operators may consume their caller's operands
  too, and the searches agree with the reference solver. Where choice-count and for-each-solution
  assign the depth, the solver promises the number of operands and not which those are that
  had been consumed (section 4). That a restored depth is the
  resumer's, so that a try in a resumed body gives up on an error whatever the body has left since the
  segment's start, is what `docs/continuation.md:332-336` says of it. Numeric results are exact
  or an error.

### Bounds

Every bound is a constant of its module, with its meaning next to its
declaration. Why they are enough:

* Two coroutines besides main give every pairwise race of an operator with a
  control operator; three are used where two compete for what a third one owns
  (slots, links: a chain of three has a middle).
* Sleeps of 1 and 2 give different orders in the timer list and remaining times of
  0, 1 and 2 at a suspend; an expired head can be in front of one that is not.
* Mailboxes of 1 make every send contend; with 2 there is a middle to remove from.
  `LengthMax = Capacity` puts the last index next to the recycle sentinel.
* Four monitor entries are two full links, or a link and two monitors, or three
  entries and a half link.
* The supervisor's clock starts one tick before it wraps.
* 14 heap words with blocks of 2, 3 and 5 make a block split, merge with either or
  both neighbours, and be exhausted; sizes fall on both sides of the bin limit.
* In *SaveRestore* five heap words hold two nested saves with journal entries of both, of the
  same word among them, or three saves. Reached are a restore from level 2 straight to 0
  across entries of both levels, a restore of the inner level with writes after it, and a save after
  a restore. `MaxWork` bounds writes and blocks held together: three writes, or fewer
  and one or two blocks.
* *Control* has a second operand where depths are held (programs of try, delimit and effect
  scopes) and a second continuation where they are rewritten (delimits alone); elsewhere one
  (`OperandBound`, `ContinuationBound`). One operand pushed around a scope is enough to be
  consumed in it, two to have one of them restored in the wrong place.
* Two buckets with three keys make a chain of two, and a pool of three entries is
  exhausted.
* Four stack slots hold two operands to duplicate or roll, their number and a copy; two
  cells are exhausted by the third clone. One array element is enough to have the four
  ways an old element ends: freed, journalled, forgotten, overwritten by array-store-persist.
* Integer types of 2 to 5 bits keep all relations between the widths (one is twice
  the other, signed and unsigned of the same width, mantissas narrower than
  integers) and reach every overflow, shift count and rounding.
* Symmetry is over contexts other than main, pipe buffers, monitor entries and
  global blocks, which no definition tells apart. Runs with liveness use none.

### Fairness

* `WF(Schedule)`: `coroutine_schedule` is a loop that runs until it loads somebody.
* `SF(Tick \/ ParkTimer)`: the monotonic clock advances, whether a coroutine runs or the
  thread sleeps.
* `WF(Yield)`: no coroutine keeps the processor for ever, because it yields or its quantum
  ends; that quanta do end is `SliceEnds`.
* `SF(RecvCheck)`: a coroutine that is loaded executes the control operator it resumes at
  (again and again enabled, since the quantum may end before).
* *Quantum*: the interpreter dispatches, a coroutine without quantum gives up the processor
  now and then, and programs settle on their quanta.
* *Services*: a supervisor, a server, a client, a stage and a sink that can go on do, since they
  are coroutines and those run (`EveryoneRuns`); handlers and stage procedures
  return. The interpreter takes its steps, and a program that masks
  interrupts unmasks them again (`SF(enableinterrupts)`).

There is no fairness on clients' decisions to call, on deaths, failures or kills.

## 4. Findings

Two runs expect a violation (`PROJECT.json`, "findings"): main parked in a send links itself
to itself (`actors_main`), and after a thaw the scratch region begins above the
bottom of global VM (`snapshot_temp`).

Programs can also break what the runtime does not defend, and in places the code
differs from what a document or comment says. The constants below switch such
behaviour on; the passing runs have them off (or exclude the input), and the
outcome of switching them on is recorded here.

| Switch | What it lets happen | Outcome |
|---|---|---|
| `ShareJoined` | a third coroutine collects a dead context that a join waits for | `NoOrphan` fails: the check registers on the new tenant |
| `SuspendExpired` | a timed stdin reader is suspended after its time, before the sweep | `StdinSlot` fails: `resume_op` makes it Ready and leaves the slot |
| `KillAllCallers` beyond main | another coroutine calls coroutine-kill-all | `ReadyQueues` fails: the "defensive reset" drops a ready main |
| `VmFull` | a launch fails half way | `LiveCount` fails: a Ready context that nobody counts or queues |
| `Meddle`, `Fragile` | a sender is killed, suspended or rejected while it holds a handed-over slot | `SlotWakeups` fails, the rest holds |
| `ReleasePending` | an actor is released while a send to it is to be retried | `AddresseeKept` fails |
| `MainLinked` | an actor links to main | main can be killed by a link (`docs/coroutines.md:256`: "never killed") |
| `ReturnsAlive` (Monitors) | coroutine-kill of a linked partner | the caller is killed and goes on running |
| `Quanta` with 1 | a quantum of 1 | starvation: the decrement after a voluntary switch uses up the slice |
| `RestoringSpec` (MCProgress) | restore in a loop | `TiersAreFair` fails: restore reorders the ready queues |
| `ForeignClose` | a third coroutine closes a pipe | order and end are no longer guaranteed |
| `FailingMerge` | two sources of a merge, one fails after the other ended | `ErrorReachesSink` fails (`docs/pipeline.md` 6.2) |
| `NotResurrected`, `ControlReturns` (Supervisor) | a temporary child dies while a sibling's failure is handled; the supervisor dies before it answers | the child is started again; the asker waits for ever |
| `BoundedWait`, `OutlivesClients` (GenServer) | a timed call behind a server stuck in a reply; main calls a server | the deadline starts only after the send (`docs/genserver.md:319-326`); the server dies of main's missing mailbox (`:314`) |
| `ParksWhenIdle` (Interrupts) | a stale resume | `docs/host-integration.md` (around 970) |
| `SaveThenYield`, `StaleTokens` | a save level is left by another coroutine; tokens that survive a generation wrap | `NoDangling`, `StaleRejected` fail |
| `MixedWidths` | 64- and 128-bit cells in one program | `CellsIntact` fails (`save.inl:883`) |
| `ScratchPresent` (GlobalHeap) | the retry after a collection frees the scratch block | `gc.inl:2139`, `snapshot.inl:134` |
| `GrowFails`, `JournalsGlobals` | the visited table cannot grow; global blocks only the journal names | `ReachableKept` fails (`gc.inl:1976`, `:2170`) |
| `RSpawnInside`, `RYieldInside`, `RTryInside`, `RRestoreInside` | these operators in a procedure called while scratch is held | `ScratchIntact`, `RegionFlagScoped` fail (`vm_heap.inl:637`, `docs/vm-internals.md:1540`) |
| `ComputeInSave`, `SwitchInProc` | a formula is computed in a save that is restored, or switches coroutine | `CleanIsCurrent` fails (`docs/reactive.md:281-283`) |
| `PersistTouched`, `RemoveCurrent`, `RestoreInLoop` | persisted writes to an entry touched in the save; undef of the current key in forall; restore in a loop | `ChainsSound`, `ForallExact` fail (`dict.inl:2303`, `docs/trix-reference.md:2057`, `:6649`) |
| `NewKinds`, `PersistNew`, `SharedStore` | string keys, new persisted keys, shared dictionaries | `CacheAgrees` fails (`dict.inl:2688`) |
| `"abort"` in `Loose` (Control) | abort-exec after a handler has consumed operands from below its scope | `OperandsScoped` fails: the assignment of the depth (`ops_continuation.inl:504-506`) puts words back that were consumed, which capture avoids (`:326-332`: "would expose stale bytes that were logically consumed") |
| `"end"` in `Loose` | a program ends the dictionary of a closure that is running; `end` has no check for it (`ops_dict.inl:670`) | `DictsMatch` fails: the closure's return pops another dictionary or none |
| `"begin"` in `Loose` | a dictionary begun inside a scope that owns one and not ended | `DictsMatch`, `FramesPooled` fail |
| `"leave"` in `Loose` | exit, stop or abort-exec out of a finally | `CleanedOnce` fails (`ops_flow.inl:39`, `:129`, `:187`: "guaranteed cleanup") |
| `"global"`, `"closure"` in `Loose` | in-global scopes or closures between a capture and its resumption | `FlagScoped`, `DictsMatch` fail |
| `"catch"` in `Loose` | an error caught, or a capture, within a cleanup | `ReraisesOriginal` fails (`docs/error-handling.md:389`) |
| `Dropping` among `GPrograms` (MCLanguage, Logic) | an alternative of choice-count or for-each-solution pops its caller's operand and drops a composite it made | `LogicExact` fails: the assignment of the depth (`ops_logic.inl:1461`, `:1488`, `:1571`, `:1596`) shows the dropped composite again, and the restore, which finds it on the stack, is refused. With atoms only, as in the run, the number of the caller's operands is restored but a consumed one comes back as whatever its word holds by then (`SomeOperand` in the reference); aggregate and naf only cut |
| `SourceEnds`, `LLeave` (Lazy) | exhausted sources; leaving a thunk by an exit | `docs/trix-reference.md:3314`, `ops_higher.inl:1141` |
| negation (Logic) | bindings made before a failing body under negation | `ops_logic.inl:1058`, `docs/logic.md` 3.5 |
| `ILeakFree` with scan, min_by, max_by | wide values dropped by these operators | `NothingLeaks` fails (`docs/dev-invariants.md:40`, `:57`) |
| `PowerExact`, `PromoteLossless`, `PromoteIdle` (Numbers) | pow-mod x 0 1; promotions | 1 instead of 0 (`ops_math.inl:836`); `ops_convert.inl:364` |
| `HintIsSuffixSigned`, `WholeText` (NumberScan) | signed hints; trailing text | `number.inl:606`, `:904`, `docs/trix-reference.md:171` |
| `OrderWeak`, `DeepEqSymmetric` (Values) | mixed types in sort; records | `ops_array.inl:579`, `docs/trix-reference.md:1861`, `:2060` |
| `"reset string"` in `StSloppy` (Streams) | reset-stream on a string stream | `StreamExact` fails: reset puts the write pointer at the end of the buffer (`stream.inl:1313-1318`), so get-string-stream returns the whole capacity, bytes never written included (`ops_stream_io.inl:573`: "the bytes written ... so far"), and further writes fail |
| `"closed string"` in `StSloppy` | get-string-stream after closestream | `StreamExact` fails: the slot is cleared and /invalid-stream-access is raised, against "Independent of open/closed state: callers may ... close-and-extract" (`ops_stream_io.inl:574-576`) |
| `"stale"` in `StSloppy` | a position is asked of, or set through, a handle whose stream was closed | `StreamExact`, `NothingLost` fail: the two operators do not check the identifier (`ops_stream_io.inl:682`, `:994`) and reach the next tenant of the slot |
| `"stdout"` in `StSloppy` | the stream that print goes to is closed | `StreamExact`, `NothingLost` fail: print writes to the next tenant |
| `StOpens` > `StIds` | more streams are opened than there are identifiers | `HandleFresh` fails: identifiers wrap at 8 bits (`stream.inl:124`, `types.inl:1105`) |
| `SnUses` | a second snapshot after a thaw, borrowed memory, stdout | `RoundTrip`, `HandlesExact` fail (`docs/snapshot-thaw.md:692`) |
| `"tail"` in `SnUses` | a write fails after part of the script's tail was copied | `FailureHarmless` fails: the script's descriptor has advanced (`ops_snapshot.inl:318`) |
| `SkFragile` (OperandStack) | dup-n, index and array-load fail after they freed or overwrote an operand; array-store runs out of journal half way | `OneOwner`, `NoLeak` fail (`ops_stack.inl:291`, `:396`, `:534`, `:631`) |

`scheduler_validate` asks that a registered mailbox reader be Sleeping; a timed receive that
has run out of time is Ready and registered until its check. `ReaderPending` states
what does hold.

## 5. Proofs

TLAPS checks the following theorems, each for every value of the constants that
satisfies the named assumptions. Every one is also checked by a run on a small instance.

| Theorem | Module | States | Assumptions | Inductive invariant |
|---|---|---|---|---|
| `TypeCorrect` | SchedulerProofs | `Spec => []TypeOK` for any set of contexts, any bound on sleeps, any combination of the feature constants | `CtxAssumption` (main is a context, "none" is not), `SleepAssumption` (a positive bound), `FeatureAssumption` | `WellFormed`: the type and `JoinHasTarget`. The join check follows the handle on its stack, so typing alone is not inductive |
| `QueuesCorrect` | SchedulerProofs | `Disciplined => (Spec => []QueuesSound)` | as above, and `Disciplined`: `ShareJoined`, `SuspendExpired` and `VmFull` are off and only main calls kill-all. Each of the four is needed (section 4) | `SchedulerInv`: see below |
| `WaitersCorrect` | SchedulerProofs | `Disciplined => (Spec => []WaitersSafe)` | as above | as above |
| `SleepCorrect` | SchedulerProofs | `Disciplined => (Spec => SleepIsMinimum)`, an action property | as above | as above; every operator is shown `NotEarly` beside it |
| `MessagesNotMissed` | ActorProofs | `Addressed => (ActorSpec => []NoMissedMessage)`: no receiver sleeps on a message it would take | `ActorAssumption` (the capacity is positive) and the scheduler's; and `Addressed`: main does not block in actor-send (`MainSends`, section 4) and no actor is released while a send to it is still to be retried (`ReleasePending`, the handle discipline) | `ActorInv`: see below |
| `ActorsCorrect` | ActorProofs | `Addressed => (ActorSpec => []ActorsSound)`: mailboxes, chains, registrations, deadlines and the scheduler's lists agree, and every sleeper can still be woken | as above | as above |
| `SlotsServed` | ActorProofs | `Peaceful => (ActorSpec => []SlotWakeups)`: as long as a sender is parked in a mailbox, the messages in it and the senders on their way to it fill it; no free slot is wasted on a sleeper | as above, finitely many contexts, and `Peaceful`: `Addressed`, and nobody is killed or suspended by others or rejected on the way to a slot (`Meddle`, `Fragile`; section 4 shows that each breaks it) | `SlotInv`: `ActorInv` and the count |
| `RingConsistent` | MailboxProofs | `RingSpec => []RingSound` | the capacity is between 1 and the largest index | `RingOK`: ranges of head, tail and count, and tail = head + count modulo the capacity |
| `RingImplementsQueue` | MailboxProofs | the ring implements `BoundedQueue` | as above | the refinement maps the buffer to the sequence of the `count` slots from `head`; removal in the middle shifts the shorter side, which the mapped sequence does not see |
| `PoolCorrect` | MailboxProofs | `PoolSpec => []PoolSound` | the size classes ascend | `PoolTypeOK`, `SizedByClass` (a free block's size is that of its class) and `PoolSorted` |
| `PipesInOrder` | PipeProofs | `~ForeignClose => (PipesSpec => []InOrder)`: what a consumer has got is what the producer put, in order, without gap or repetition | `PipeAssumption`: the classes ascend, capacities are between 1 and the sentinel; `ForeignClose` off, which section 4 shows is needed | `PipeInv`: see below |
| `PipesServeAll` | PipeProofs | `~ForeignClose => (PipesSpec => []PipesSound)`: nobody waits at a pipe that could serve him, errors and ends arrive, buffers are recycled once | as above | as above |
| `SlicesEnd` | InterpreterProofs | every counter, running or saved, is within its quantum | `QuantaAssumption`: finitely many coroutines | the counter in the register belongs to the running coroutine, the saved ones to the others |
| `InterruptsSafe` | InterpreterProofs | no request is hidden by the published mask, slept through, lost or delivered twice | any requests, levels and host threads | relates the pending word, the published mask and the position of each host thread between its two atomic operations |
| `BindingCorrect` | BindingProofs | `Plainly => (BindSpec => []BindingSound)`: a cached binding is what a search of the dictionary stack finds, for every coroutine, and no cache outlives its era | `BindAssumption`: main is no coroutine to spawn, the local dictionary and the absence of a value are no dictionaries of programs; and `Plainly`: names are created in the block of their dictionary only (`NewKinds`, `PersistNew`, `SharedStore`, each of which section 4 shows is needed) | `BindInv`: see below |
| `CallsCorrect` | GenServerProofs | a call returns its own reply; one client's requests are handled in order and once; answers find room | `GenAssumption`: server and main are no clients; fewer requests than references (references do not wrap) | `GenInv` = `GType`, `Refs`, `Order`, `AnswersOwn`, `AllOwed`: it follows each call through pending send, server mailbox, handler, token, reply and client mailbox; a call is owed an answer from at most one of these places, unless it timed out |

The invariant of the three scheduler theorems, `SchedulerInv`, is type correctness and two parts:

* `Core`, about the coroutines alone: `Registered` (who lives is in the registry; who is on
  the free list is dead and not in it), `CountRight`, `Flags` (exactly the running coroutine
  has status Running; only sleepers are blocked, main aside), `Joins` (joiner and target name each
  other until the target dies, then the joiner is awake; no two joins have the same target),
  `Reads` (the stdin slot and the blocked readers agree, and a suspended timed reader
  has time left) and `Forced` (main is blocked without being asleep only when nobody else can run and
  nobody reads: the scheduler's last resort);
* `Lists`: the queues and the timer list are those of the statuses.

None of the checked properties is inductive alone. A kill keeps `LiveCount` only if its victim was
registered, wakes the right joiner only by `Joins`, and keeps the ready queues free of duplicates
only because that joiner was blocked; a resume respects the stdin slot only by `Reads`; the
fall back to main returns to a consistent state only by `Forced`.

The invariant of the actor theorems, `ActorInv`, has three parts. `Calm` is what `SchedulerInv`
comes to for programs that neither join nor read keys: with it comes that no blocked coroutine is main,
so the scheduler never falls back to main (`MainWaits`). `Alone` is about one coroutine and its
mailbox: a pending operator belongs to an actor that resumes at it and whose addressee is registered; a
scan stands at a message and has passed none that matches, and is not slept through; a registration
belongs to the owner's pending receive; who sleeps in a receive is registered and has nothing to take.
`Chained` says that a chain holds, once each, coroutines blocked in a send to its owner, and that
whoever is blocked is a registered reader or in the chain of its addressee. `NoMissedMessage` is not
inductive alone: that a selective receive may sleep at the end of its scan needs what the scan has
passed, and that a kill leaves no orphan needs both directions of `Chained`. An action disturbs one
coroutine and wakes some: `KeptAlone` and `ChainsShrink` say what that owes to the others. The wake-ups
of a flush or a death are a recursive function over the chain; `WakeSendersSteps` and `WakeAllSteps`
turn it into a series of wake-ups and `RousedChain` follows the series, each through a least
counterexample (`LeastNatural`), the one form of induction at hand.

`SlotInv` adds to it only the property, but the step is a count: `Steady` lists the four ways in which
a step may leave a mailbox with parked senders (full; at least as full, with nobody lost on the way;
with the message of one who has arrived; one message less and one sender more on the way), `SlotsSteady`
turns each into the inequality, and each action falls under one of them. That the sender woken for a
message taken was not already on its way is what `Chained` gives: who is in a chain sleeps.

The invariant of the two pipe theorems, `PipeInv`, says of every place what its header means (new,
recycled, or a ring whose slots from `head` hold the next values of the stream, in order), and of
every coroutine what the place it stands at owes it: before the check of a put or a get the header
still names it, and it sleeps only while the pipe is open and full, or open and empty. `Flow` counts
the values got, held and waiting to be put. Neither property is inductive alone: that a retried put
finds its own pipe, and not another tenant of the same header, depends on who may close and recycle
meanwhile. `FreeLists` says that no two free headers lead to the same one; that a list ends is stated
as membership in every set of headers closed under links (`Chain`), since an induction over its length
is out of reach. Each operator is a step of one coroutine at one place, and `StepSound` is the lemma
that says what such a step has to show.

The invariant of the binding theorem, `BindInv`, adds three facts to the property. `FramesOwned`: a
frame is on one stack, once, and empty while it is on none, so recycling it changes no search of
another coroutine. `DeadHaveNothing`: a context that is not alive has no dictionaries and an empty
table, so a spawn starts with nothing cached. `OldSlots`: a binding cached before a save is in the
image of the save, and no entry of its name in that image has been removed since; this is what makes it
right that a restore keeps the bindings of the outer level.
The search takes the maximum of a set of places; the lemmas `TopAt` to `TopLess` say how it changes
with a push, a pop and an entry more or less, and the steps need nothing else about it.

Layout: `SchedulerOpsProofs` holds the lemmas about lists (append, tail, unlink,
insert) and about each operator of `SchedulerOps`, its type and its *frame* (which
fields it leaves alone), and what it does to the queues seen as sets (`Listed`).
`SchedulerProofs` first shows that each operator keeps `Core` and `Lists`, then goes through
the actions. The other modules keep their lemmas next to their theorems. Every
preservation proof has one step per action.

Only model-checked:

* liveness (`EveryoneRuns`, the services' and the interpreter's progress) and anything with
  ENABLED: outside the prover;
* `restore` (`SaveScheduler`), which folds over the registry: the run of the scheduler
  checks the properties with restore among the programs' operators, the theorems are about
  `Spec` without it; and the language
  modules, whose reference computations are recursive: no induction over data;
* the safety invariants of the other components: *SaveRestore* computes with the bitwise
  operators and *Logic*, *Iteration* and *Values* with recursive ones, which a module with
  theorems may not reach; *HeapCells*, *Regions*, *Reactive*, *Pipeline*, *Supervisor*,
  *Streams*, *Lazy* and *Control* fold or sort their data, so that a proof would need
  induction over it.

## 6. Not modelled, and the plan

Not modelled (components with status `not_modelled`): formatting, strings, records,
tagged values, regular expressions and clocks; the scanner apart from numbers, binary tokens and the
screen; protocols, transducers and pattern matching; the debugger and symbols; start-up
and its tables.

Left out of modelled parts: the contents of the operand stack where no property
depends on it, the error a join rethrows, predicates of a selective receive that themselves
call actor operators (`ops_actor.inl:662`), exhaustion of the execution
stack, NaN, copy between containers (`copy_op`), packed and
equality-keyed arrays in *OperandStack*, and what is left to the C++ arithmetic. Places that deserve a property and have
none yet: `ops_actor.inl:292`, `ops_pipeline.inl:1539` and `:2337`, `ops_reactive.inl:325`.

Next to prove: `StackSound` of *OperandStack* and the lists of *Monitors*.
