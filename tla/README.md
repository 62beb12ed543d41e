# Fractal E-Graph: a verification development

This directory models the parts of the repository whose correctness depends on
order: the cell runtime under `engine/cell-runtime` (an equality-saturation
engine in Rust), and the concurrency primitives and the optimized saturation of
the egglog fork under `egglog/`. Each module is a TLA+ translation of one
component; TLC checks it on small instances and TLAPS proves part of it for all
instances. Paths below are relative to the repository's root.

## 1. The system

A *program* is a set of tables, rules and a schedule. The runtime keeps a graph
of *facts* (rows of constructors, relations and function tables) over equality
classes, and executes *Runs*: match every rule of a ruleset against the
published graph, apply the right-hand sides one after the other, repair
congruence, publish. The schedule decides from the result of a Run which
ruleset is next. A checkpoint may be written between two Runs and resumed by
another process.

| Component | State it keeps | Operations | What makes it correct |
|---|---|---|---|
| Fact graph (`graph.rs`) | union-find, facts, intern buckets, reverse index, work lists, events | construct, set, union, subsume, delete, repair, publish, restore | hash-consing, exact reverse index, congruence at publication, no lost subsumption |
| Function tables (`graph.rs`) | ports, key directory | set with merge, delete, rekey and merge in repair | one port per key; the merged value is the join of the writes |
| Run loop (`runtime.rs`) | dirty rules, delivery lists, watermarks, work queue | match, apply, deliver, resume | no binding lost or found twice; a resumed run sees what an uninterrupted one sees |
| Schedule (`schedule.rs`) | task stack, step log | push, run, probe, repeat, saturate | runs what the control list denotes, and ends |
| Cell storage (`graph.rs`, `reference_storage.rs`, `views.rs`) | frames, parents, pins, carriers, markers | create, release, retire, absorb, retarget | handles stay readable, counts are exact, nothing is kept for nothing |
| Merge programs (`merge_programs.rs`, `merge_contract.rs`) | compiled merges | lower, run, read a port in repair | the compiled program is the expression; reads see the join |
| Local congruence (`congruence.rs`) | certificates, dirty frames | compile, prove, apply in repair | every union is forced; the published graph is congruent |
| Query indexes (`query.rs`) | buckets, views, read leases | patch from a Run's notes, read, validate | an index read is a table read; a valid lease reads the same |
| Known results (`known_results.rs`) | plans | guard, reuse | a lookup left out would have returned the reused value |
| Local saturation (`local_sat.rs`, `runtime.rs`) | sessions, remembered bindings, local queue | plan, hand on, skip, resume | what is skipped is inert, what is handed on is a match |
| egglog fork (`cpu_cells.rs`) | regions, receipts, guards | compile, leave out, chain | ends in the rows of the original schedule |
| Latch, touched list, parallel vector (`egglog/concurrency`) | atomics, mutexes | wait, notify, reset, append | no lost wake-up, no lost item, no write outside the allocation |
| Union-find (`egglog/union-find`) | parent buffer | find, same_set, merge, grow, copy, reset | linearizable; implements disjoint sets |

How they interact: everything in `engine/cell-runtime` runs in one thread and
calls down (Executor -> Run loop -> graph -> storage); what makes it hard is not
parallelism but *order*: rows change meaning when classes are joined, so an
index, a queue, a remembered binding or a handle read after a union, a deletion
or an absorption may be stale. The primitives of the egglog fork are called by
rayon workers; there every interleaving of atomic accesses counts.

## 2. The modules

`CellGraph` is the core. `CellPorts` and `CellHistory` extend it with function
tables and with history variables; `RunLoop`, `Executor` and `LocalSat` extend
it upwards to whole programs; `LocalCongruence` and `QueryIndex` extend it with
one optimisation each. The other modules stand alone.

| Module | Models | State and actions |
|---|---|---|
| `CellGraph` | `graph.rs`, facts | `root` is the union-find with compressed chains, `recipe`/`live`/`hidden`/`stamp` a `FactState`, `intern`/`bucketOf` the hash table, `uses`/`dependencies` the reverse index, `dirty`/`pending` the two work lists. `Construct`, `SetFact`, `SetExisting`, `SubsumeFresh`, `Subsume`, `Delete`, `RequestUnion` are right-hand side effects; `ApplyUnion`, `RepairFact` (`Reindex` or `Collapse`), `Publish` are the repair loop |
| `CellPorts` | `graph.rs`, function tables | a port is a dependency after the facts; `SetNewPort`, `SetPort`, `DeletePort`, and `RepairPort` (`Rekey` or `MergePorts`) in repair |
| `CellHistory` | history of `CellPorts` | `asked`, `kept`, `writes`, `before`: read by properties only; maps the graph onto `EGraph` |
| `EGraph` | the abstract e-graph | a partition and a set of rows; it may be sealed only when every requested or congruence-forced union is done |
| `RunLoop` | `Executor::run` and matching | load, match (semi-naive by watermark, or full), apply, repair, publish, deliver, resume |
| `Schedule`, `ScheduleRuns` | `schedule.rs`, `execute_until` | task stack; `ScheduleRuns` lets Runs answer anything and compares with a direct reading of the control list |
| `Executor` | schedule + run loop | the two composed by conjunction of their actions |
| `LocalSat` | local saturation on top of `Executor` | sessions, hand-over, generations |
| `LocalCongruence` | local congruence programs | frames, certificates, application in repair |
| `QueryIndex` | column indexes | notes of changed rows, patching, views, leases |
| `CellStore` | frames, pins, absorption | one action per storage operation of a Run |
| `CellMerge` | merge functions | set, union, repair with reads and constructions in the middle |
| `KnownResults` | reused lookups | bindings applied with guards or compiled plans |
| `CpuCells` | `egglog/src/cpu_cells.rs` | programs from two families; runs, chains, activations |
| `Notification`, `NotificationList`, `ParallelVecWriter`, `ConcurrentUnionFind` | the primitives | one step per atomic access; `pc`, `spot`, `stage` and `at` say where in its call a thread is |
| `DisjointSets` | what a union-find promises | `Union`, `Reset` |
| `CellGraphProofs`, `CellHistoryProofs`, `ExecutorProofs`, `LocalCongruenceProofs`, `QueryIndexProofs`, `NotificationProofs`, `ParallelVecWriterProofs`, `ConcurrentUnionFindProofs` | theorems about the module each is named after; `CellHistoryProofs` also holds those about `CellPorts`, `ExecutorProofs` those about `RunLoop`, `NotificationProofs` those about `NotificationList` | see section 5 |
| `MC*` | TLC instances | constants, and four composites, below |

Four MC modules put components side by side: `MCStorage` (`CellStore` and
`CellMerge` on two programs), `MCMatching` (`QueryIndex` and `KnownResults`),
`MCSchedules` (`ScheduleRuns` and `CpuCells`) and `MCPrimitives`
(`Notification`, `NotificationList`, `ParallelVecWriter` and
`ConcurrentUnionFind`). A variable `part`, chosen in the initial state and never
changed, says which component a behaviour runs; the variables of the others are
constant. The components share no step, so what a composite run shows of a part
is what a run of the part alone would show; the conjunctions it checks
(`HandlesReadable`, `QueuesFollow`, `ForestSafe`, ...) are named after the
question and list the component's own properties.

`map` in PROJECT.json names the source lines of every definition. Definitions
called "Mutant" change one definition the way a plausible bug would; they are
used by no specification and document what each property catches.

**Memory order.** The flags of `NotificationList` are accessed with `Relaxed`
(`notification_list.rs:59-62` and `83`). A load may return a flag that a reset has
cleared since: `late` says for which items a thread may still see the old TRUE, until it
writes the flag itself or the allocation is replaced (other synchronization may
end it sooner; the model allows more than the hardware). Nor need
it see a flag that was just set: it then goes on to the swap, which acts on the
newest value. The store of a reset comes after the swap that set the flag: the
item is listed after its swap and taken before its store, under the list's
mutex. The other primitives
publish with acquire and release (`notification.rs`, the head of
`concurrent_vec.rs`, `atomic_int.rs:97-100` for the union-find, `AcqRel` in
`parallel_writer.rs`) and are interleaved sequentially consistently.

## 3. The runs

| Run | Instance | Bounds and why they are enough | Shows |
|---|---|---|---|
| `graph` | `MCCellGraph` | 2 imports, 3 facts, 1 requested union, 1 Run; unary constructor and relation, hashes that collide | reverse index, buckets, hash-consing, subsumption through repair, repair ends. Three facts give a chain: a union makes two facts equal, whose collapse makes a third dirty |
| `ports` | `MCCellHistory` (`PortHistory.cfg`) | 2 imports, 2 ports, 1 fact that a merge builds, 2 Runs: two keys become one in the second Run, and the merge of their ports constructs in the middle of repair | directory and ports one-to-one; published ports canonical; a `min` port holds the least value written to any key that became its key |
| `refines` | `MCCellHistory` | 2 facts, 2 Runs | implements `EGraph`; events complete; `changed` sound. The second Run sees stamps and events of the first |
| `schedules` | `MCSchedules` | nested saturate/repeat/until, 2 changes, 15 Runs (more than 2 changes leave room for); every program of two families, from every choice of rows | the stack follows the control list and ends; the optimized schedule of the fork ends in the rows of the original one |
| `run_loop` | `MCRunLoop` | 4 rules (one non-semi-naive, one with two atoms of one table), 3 Runs, 5 facts | no match lost, delta partition, resume |
| `executor` | `MCExecutor` | 5 rules under a saturation, every step of a checkpoint between Runs | fixpoints, accepted checkpoints |
| `local_sat` | `MCLocalSat` | 6 rules, nested scopes, hidden rows | receipts, hand-over, termination |
| `storage` | `MCStorage` | 16 cells, 3 Runs; two merge programs, 5 sets, 2 unions | handles, counts, queues, merges |
| `local_congruence` | `MCLocalCongruence` | 1 frame of 4 rows, a row lost in between | congruence, forced unions, termination |
| `matching` | `MCMatching` | 2 facts, 2 Runs, three index scopes, fingerprints that collide | indexes, leases, reused results |
| `primitives` | `MCPrimitives` | latch: 3 threads and one spurious wake-up (two sleepers and a notifier, or two who notify); list: 2 recorders, 3 items (the flags grow once), 3 calls, relaxed loads that lag; vector: 3 writers of up to 2 elements at once, so that one grows while others write; union-find: 2 workers on ids 0..2, from one id, a chain and a star, calls of all four kinds, one reset | no sleeper is missed, no wait returns before the flag; a touched item is recorded once and read exactly once after; ranges apart, no gap, no write lost; the forest linearizes, a clone invents no union, it implements `DisjointSets`; every call returns |
| `merge_names` | `MCPrimitives` (`MergeNames.cfg`) | 3 workers that merge among 4 ids | **violated**: the parent `merge` returns need not be the name of a class |

A thread of `ConcurrentUnionFind` makes one call: calls share nothing but the
buffer, so a second call of a thread is a call of another thread that starts
later.

**What `merge_names` found.** `merge` is documented as "returning the new parent
and new child classes" (`uf.rs:97`). Its compare-and-swap checks the child
(`uf.rs:123`); the parent was a root when it was looked up and may have been
linked below a third class since. The partition is right nevertheless, because
the link goes to a member of the right class. What a caller may rely on is the
clause for `merge` in `Linearizable`: the child was the name of one of the two
classes, which were two, at one moment of the call, both ids of the answer named
their class at some moment, and the classes are one when the call returns.

Every property has a mutant of the code that breaks it (PROJECT.json,
`mutants`). Deadlock is not checked where the program may stop: bounds on Runs,
facts and calls end every behaviour. `MaxFact`, `MaxPending`, `MaxEpoch`,
`MaxCell`, `MaxClass`, `MaxRuns`, `MaxCalls`, `MaxItem`, `MaxLen`, `MaxWrites`,
`MaxId`, `MaxSpurious`, `MaxReset`, `MaxLoad`, `MaxLost`, `MaxFrames` are
bounds of the models and not of the code; each is in a guard of the action it
bounds.

## 4. Fairness

* Repair (`CellGraph!FairSpec`, `LocalCongruence!LocalFairSpec`): weak fairness
  of leaving the right-hand sides and of the repair step. `run()` calls
  `repair()` after a finite list of bindings, and the loop is not suspended.
* Schedule, Executor, LocalSat: weak fairness of the program's next step; one
  thread loops until the stack is empty. Loading ends because the database is
  finite.
* Primitives: weak fairness of each thread's next step, as the operating
  system schedules every runnable thread. The latch has strong fairness of a
  thread's steps, because several threads compete for its mutex: a thread that
  keeps asking gets it in the end. No fairness is assumed of the calls, of a
  reset or of spurious wake-ups, nor of a timeout firing.

## 5. What is proved

Eight modules hold theorems; PROJECT.json lists the ones to know. Every one is
for every value of the constants that the named assumptions admit: any tables
and arities, any database, any hash function (collisions included), any valid
program, any number of threads, any bound. Each argument is an inductive
invariant with one lemma per action; the checked properties alone are not
inductive, and what had to be added says why the code is right.

### The fact graph: `CellGraphProofs` (`IInv`)

The invariants of the `graph` run. Beyond them:

* `UsesExact` says who is listed under a class but not that the right rows
  subscribed: `Covers` ties the subscriptions to the stored rows, and
  `UnmadeAlone` keeps a class that no fact has made yet out of every union, so
  that a new fact's fresh class is its own root.
* `CleanUnique` is only kept by a new row if the lookup that found nothing was
  right, which is `CleanIndexed` and, for the buckets, `Filed`; a union keeps it
  because every row whose key changes becomes dirty, which is `UsesExact` with
  `Covers` again.
* `DirtyLive` and `QuietOutsideRepair` say that repair meets no retired row and
  that effects run on a repaired graph.

### Function ports: `CellHistoryProofs`, first part (`PInv`)

`IInv` survives ports that are written, merged, rekeyed and deleted, and merges
that build a row in the middle of repair; the directory is one-to-one with the
ports; a published port is stored under its canonical key. `PInv` adds
`CleanPorts` (only a dirty port may be stored under an old key, so what repair
need not visit can be found) and the types `TypedRows` and `TypedPorts` (a row's
table tells a fact from a port, and a `min` port holds a number, which no union
changes).

### What a published graph owes: `CellHistoryProofs`, second part (`NothingChanged`, `FreshAreEvents`, `HInv`, `JInv`)

* *Deltas.* `ChangedIsSound` from `NothingChanged` (while `changed` is false
  nothing is dirty and the rows are the ones the Run began with);
  `DeltaComplete` from `FreshAreEvents` (a fresh row is an event already, or
  dirty, and repair will make it one).
* *Refinement.* `RefinesEGraph`: `SpecHistory => ImplementsEGraph`, the initial
  state and every step mapped to a step of `EGraph` or a stutter. `HInv` relates
  the graph to what was asked of it. A pair of classes is `Owed` (`CellGraphProofs`) when every naming
  of classes that respects the union-find and the list `pending` gives both one
  name. Every request is owed (`AskedOwed`); every fact whose key was not
  deleted, retired duplicates included, has a live heir of the same key whose
  class is its own or owed to it (`Heirs`); and each pending union was requested
  or is a congruence (`PendingForced`), so repair unites nothing it need not.
* *Joins.* `PortsJoin`: a `min` port is the least of all values written to the
  keys that became its key. `JInv` follows each write to the port that
  inherits it (`Stems`) and bounds that port from above (`Bounded`).

### Matching: `ExecutorProofs` (`LoopInv`)

No match is lost, a match is found from one recent row only, and a resumed
process finds what an uninterrupted one finds, for every program that
`Program::validate()` admits. The core is `Caught`: a match all of whose rows
are clean and not younger than its rule's last Run was applied. A younger row
is in the rule's queue or among the events (`Delivered`). Both are about rows
whose canonical form changes under unions; the proof needs from the graph that
a union makes every row it reaches dirty (`UsesComplete`), and that repair gives
what it rewrites the epoch of the Run. `FrameTyped` and `WorkTyped` carry
`validate()` through an application cut off at its `limit` and continued:
every slot that the next operation reads is bound to a class that exists.

### Whole programs: `ExecutorProofs` (`XInv`, `SInv`)

The schedule and the run loop share no counter, yet `resume()` refuses a
checkpoint whose step log and epoch disagree. `InStep` says that they count the
same Runs, also while one is under way, `StackTyped` that no task on the stack
started after the last step. From these `CheckpointsResume`: whatever schedule
runs, a checkpoint between two Runs is accepted. `ProgramsLoseNothing` carries
the run loop's theorems over to whole programs, as the run loop's
invariant is kept by every step the schedule takes.

`SaturationIsFixpoint`: when a saturation is left, every match of a rule of its
last pass is inert. The theorem has one hypothesis on the program, `NoHides` (no
rule subsumes or deletes rows; a row that is deleted takes back what an earlier
binding did). `SInv` has three parts that carry the argument. `Stamped` says
that a row carries the epoch of a Run that reported a change, and `Ran` that a
rule's watermark is not behind the steps it was in; so after a pass without a
change all rows of a match are older than the rule's last Run, and `Caught`
gives the binding that was applied. `Progress` says what became of it: for each
of its operations there is a fact under the key the operation named, whose class
is the one the binding went on with or is owed to it, and each union it asked for
is owed. `Onward` (in `CellGraphProofs`) says that no step takes this back: what
is owed stays owed, equal classes stay equal, and every fact has an heir, also
when repair collapses it. In a published graph nothing is pending, what is owed
is equal, and hash-consing (`CleanUnique`, `CleanIndexed`) makes a lookup hit the
heir. The recursive function that replays the body in `Inert` is handled without
induction over data: its values are exhibited, and two solutions of its equation
agree on a largest prefix, hence everywhere (`ReplayIsOne`).

### Local congruence: `LocalCongruenceProofs` (`LInv`)

A frame whose guards hold joins many classes and retires many rows in one step,
on the word of a certificate computed at load time from the template's wiring.

* *The certificate is right.* `ProofSound` and `MergeSound`: take any naming of
  classes under which the rows of a frame with equal names are equally named; if
  it gives the two sides of every guard one name, it gives the two slots of the
  merge one name. `Shape` and `Proof` are recursive functions over the slots; a
  row reads earlier slots only (`ArgsEarlier`), so an argument about the least
  row at which a claim fails replaces induction over data.
* *The frame is an instance.* `FramesSound` (part of `LInv`): each slot of a
  frame is bound to a class that exists, and each live row of a frame still is
  its let under the current classes, through unions, repairs and deletions by
  other rules. `ExtendFrame` is the step that makes a row of a new frame.
* *Joining at once is a repair.* `LinkedFacts`: the new root of a class is the
  oldest it was joined with, classes that were apart for all guards stay apart.
  `RelinkInv`: with every row that mentions a class that moved made dirty, and
  the duplicates retired, the fact graph's `IInv` holds again, whatever number
  of classes moved.

From these follow `LocalCongruent` (the published graph is congruent), and
`LocalStepsAreForced`: every naming of classes that respects the rows gives the
classes a visit joins one name (`VisitForced`), and the key of a row that it
retires still has a visible row (`KeysMeet`, `VisitKeeps`).

### Query indexes: `QueryIndexProofs` (`QInv`)

The column indexes are never rebuilt from the tables while they are valid: they
are patched from the notes that effects, unions and repair leave in
`query_changes`. The theorem is that nothing has to be noted that is not.

* *What the notes say.* A row is `Unsure` when it was noted or waits for its
  repair. Every other row is filed by every index exactly as it is now
  (`KeysExact`). No step of the graph changes a row that it neither notes nor
  leaves dirty (`Carried`): an effect notes the row it writes or hides, a union
  makes every row dirty whose canonical form it changes (`UsesComplete`), and
  repair notes the row it rewrites or retires together with the row it collapses
  into. At publication nothing is dirty, and patching settles the notes
  (`UpdateKeeps`).
* *What is cached on a bucket.* A view, or the refinement of a bucket, is what
  the bucket holds (`ViewsExact`, `RefinedExact`). A patch drops what is cached
  on every bucket that a moved row left or entered (`TouchedBuckets`); a bucket
  it did not touch holds the same rows, printed as before (`UntouchedBucket`).
* *Leases.* `valid_read` compares versions, no value, and not even whether the
  classes a reader asked for are still canonical. `SeenTied` and `WholeTied` say
  why that is enough: the rows read are the answers among the rows that are not
  unsure, unless a row of the leased bucket (for a whole table: a row of the
  table) waits, and that row will move and end the lease.

`IndexesSound` follows: a bucket, cut down by the fingerprints of the other
bound columns, has every row that agrees with the binding and none that is gone,
hidden or filed elsewhere, for any fingerprint (`AnswersFiled`, `BestIs`).

### The primitives: `NotificationProofs`, `ParallelVecWriterProofs`

* Latch (`LInv`): who is between the second look at the flag and the sleep, or
  between the store and the wake-up, holds the mutex (`MutexHeld`), so the flag
  seen false stays false until the thread sleeps (`DozesUnnotified`).
* Touched list (`ListInv`): each item whose flag is set has exactly one owner
  (the list, a thread about to record it, or a reset), the write lock is held
  from the second look at the head to its update (`Locked`), and no flag is
  looked at beyond the head (`Reached`); what a reset clears is owned, so it is
  below the head too (`OwnedIsFlagged`).
* Vector of many writers (`WInv`): claimed and finished ranges are disjoint
  (`ClaimsApart`, `FinishedApart`), start past the vector's length and leave no
  gap below `end_len` (`NoGap`); the capacity covers whoever writes (`Room`).

### The union-find: `ConcurrentUnionFindProofs` (`FInv`)

`ForestIsSafe`: answers linearize, no id is handed out as a child twice, a copy
joins nothing that is apart, and the forest implements `DisjointSets`.

* *Forests.* The representative of an id is a recursive function of the buffer.
  A parent is never younger than its child, so an argument about the least id
  for which a claim fails replaces induction (`RepIsRoot`), and two functions
  that climb a forest are one (`ClimbIsOne`). It is then enough to exhibit what
  representatives become: the same ones when a path is split or the buffer grows
  (`SplitKeeps`, `GrowKeeps`), two classes joined when a root is linked
  (`LinkJoins`).
* *Threads.* `FInv` says of every register what it still stands for, whatever
  others did since it was read: the same class as the id that is looked up
  (`Following`, `Looking`). The compare-and-swap of a split is right because it
  succeeds only if the parent is the one read, which was no root then and is none
  now; that non-roots stay non-roots needs that a reset excludes readers
  (`Kept`, `Unshared`). `Comparing` is why `same_set` looks at the first id once
  more: if it is still a root, the two ids found were the names at one moment.
* *Answers.* `seen`, what a call could have answered so far, only grows
  (`RightlyGrows`), so an answer stays right once it was.

### Assumptions

| Assumption | Module | What it says, and why it holds |
|---|---|---|
| `TablesAssumption`, `ValuesAssumption`, `HashAssumption`, `BoundsAssumption` | `CellGraph` | table kinds are disjoint and have arities; scalars are not classes; a hash function has its range; bounds are naturals |
| `MergeAssumption` | `CellPorts` | every function table has one of the merges; `min` compares numbers; a merge that constructs takes the two values (`verify`, `merge_value`) |
| `RulesAssumption` | `RunLoop` | what `Program::validate()` checks: slots are bound before they are read, atoms and operations have their table's arity, rulesets list rules of the program |
| `ControlAssumption` | `Executor` | the control list is a tree of nodes, and a node runs a ruleset of the program |
| `BodyAssumption` | `LocalCongruence` | a template has a let; each defines a slot of its own ("invalid SSA definition" otherwise), reads slots defined before it, and fits its constructor's arity (`Program::validate`) |
| `QueryAssumption` | `QueryIndex` | indexed tables are tables, a partial binding gives columns values, the two switches are on or off |
| `LatchAssumption`, `WriterAssumption` | primitives | "nobody" is not a thread, uninitialized memory differs from what is written, bounds are naturals |
| `ListAssumption` | `NotificationList` | `MaxItem` below 16: the next power of two is the minimum of a finite set in the model |
| `UnionFindAssumption` | `ConcurrentUnionFind` | `MaxId` below 16, for the same reason; kinds of calls are the four of `uf.rs` |

TLC evaluates the assumptions declared with ASSUME on every run of their module.

## 6. What is only model-checked

* Liveness (`RepairTerminates`, `ControlEnds`, `LocalRunEnds`,
  `LocalRepairEnds`, `EveryCallReturns`) needs ENABLED and fairness, which the prover
  does not have.
* `FollowsControl` compares the stack with a recursive reading of the control
  list. `ReuseIsLookup`, `MergesExact`, `HandlesReadable`, `QueuesFollow`,
  `IdleStepsKeepRows`, `CpuSafe`, `ReceiptsSound` and `HandedOnMatches` are about
  modules that evaluate expressions, programs or cascades recursively.

### What comes next

The safety of the fact graph with its ports, of the run loop and the programs it
runs, of two optimisations and of all four primitives is proved. Next are the
hand-over of `LocalSat`, which would extend `Caught` from Runs to the passes of
a session, and the counts of `CellStore`; both need their recursive operators
written as functions first.

## 7. What is not modelled

* The sieve, refutation receipts, search contexts, retained contexts and
  prefixes, the shared entry schedule, the stage spine, multistage programs and
  union grafts are accelerators or optional lanes of `matches()`, which is
  modelled without them.
* In `CellGraph` path compression is immediate (`root`), because nothing
  observes an uncompressed chain in a single thread. Frames, parents and views
  are `CellStore`'s.
* `CpuCells` leaves open for which rules a run resolves the filter of receipts
  (`initial_bindings` wants a single plan and the marker's variables in it): every
  choice is explored.
* The panic of `write_contents` for an iterator of another length than it
  promised (`parallel_writer.rs:191-194`). The engine appends slices
  (`row_buffer/mod.rs`, `write_cell_slice`); only tests pass iterators.
* `ReadOptimizedLock` is taken as a reader-writer lock; `ResettableOnceLock`
  and the bit set are left out.
* Loading, verification, extraction, the compiler, the offline analyses, the
  reuse experiments and the upstream egglog engine have no state that outlives
  a call, or none that the modelled parts share.
