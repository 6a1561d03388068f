# Verification of datapulse in TLA+

datapulse is a PostgreSQL proxy. It forwards the wire protocol, intercepts
statements of its own language (DPL) and runs *builds*: a build executes the
Python body of a spec in a child process, which fills an interface table, and
carries that table into the main table of a dataset, an SCD2 history. *Flows*
are waves of builds over the graph of datasets. What is hard in it is the
concurrency of asyncio tasks, database sessions and crashes around one
journal, the wire protocol between two streams, and the SCD2 history. This
directory models that, checks it with TLC and proves the most of it with TLAPS.

What follows is written for somebody who has the repository. Source paths are relative to `src/src/datapulse/`, docs to `src/docs/`. The
map of every definition to its lines is in `PROJECT.json`.

## 1. Inventory

| Component | State | Operations | Talks to | Hard behaviour | Correct when |
|---|---|---|---|---|---|
| Build engine (`engine.py` 368-1202) | `build`, `build_log`, `BuildEngine.runs`, advisory claim locks, supervisor tasks | `start_build`, `_run_build`, `stop_build`, `fix_build`, crash | catalog lock, journal, child process, transfer | stop and fix act on a status read before an await; cancellation at any await; claim against registry against journal; several commits in a row | conflicting builds exclude each other, a live build is closed by nobody else, windows of stores leave no gap, an end frees the claim |
| SCD2 transfer (`engine.py` 170-366, 962-1110) | interface and main table, indexes | merge, bulk insert, reissue, validation | called by the supervisor, chunks in parallel sessions | chunks committed one by one, repeated keys, inclusive end build, indexes dropped outside a transaction | one version of a key at a time, a past reading never changes, the slice is what its type promises |
| Flow conductor (`engine.py` 138-168, 1284-1455, 1594-1838) | `flow`, `flow_log`, `BuildEngine.flows`, claim locks, `FlowRun` | `start_flow`, queue, steps, stop, pause, resume | `start_build`, journal of builds | orphans after a crash, late rows, a second stop, 30 s system-fix | one wave at a time and in order, stores are its own, every step built, the end terminates |
| Flow planner (`engine.py` 1457-1592) | none | topological order, presets, taps | catalog | order of a graph, modes chosen per spec | readers after sources, every store once |
| Windows of marts (`engine.py` 732-772) | rows of `build` | `_window_from`, `_window_to` | journals of builds and flows | boundary moves while marts run | no delta lost |
| Catalog DDL (`commands.py`, `schema.sql`) | versions, datasets, specs, flow specs, connections | create, replace, drop | catalog lock, live builds | replacement and drop under live builds, comments carried by name, views against tables | active builds run what the catalog says, locks hold although definitions change, database follows catalog |
| Source graph (`commands.py`, `_find_cycle`) | none | cycle check, mode matrix | catalog | - | refuses exactly the cycles |
| Wire relay (`relay.py`, `pgwire.py`, `server.py`) | two streams, cancel registry | startup, forward, intercept, cancel | client, database | order of replies, stale transaction status, cancel of an intercepted statement, a side that ends while a child runs | every statement answered once, a cancel hits what it was meant for |
| Attach (`engine.py` 1204-1282, 1840-1900) | a journal position | tail of a journal | journal | identity columns commit out of order | every row is seen |
| Python child (`runner.py`, `commands.py`) | pipes, a process | run a body, kill | supervisor | kill against exit | the child does not outlive its supervisor |
| DPL lexer, parser (`dpl.py`); connection tests; configuration | none | - | - | sequential, covered by unit tests | - |

`PROJECT.json` lists them with their status, and the hazards at their lines.

## 2. Plan and what became of it

1. `Builds`, the core, `BuildLife`, its abstraction, and `BuildsProofs`: done.
2. `Transfer`, independent of both: done.
3. `Flows` over `BuildLife`, then `FlowsProofs`: done.
4. `Marts`, the windows of marts over `Flows`: done.
5. `Planner`, the pure algorithms, `Catalog`, the DDL that calls them, and
   `CatalogProofs`: done.
6. `Relay`, one session with its statements, cancels and children, and
   `RelayProofs`: done.
7. `MartsProofs`, over `FlowsProofs`: done.
8. `TransferProofs`: done.
9. `PlannerProofs`: the algorithms of the planner for every graph, and with
   them the rest of `Catalog`; `WaveProofs`: the steps of a wave: done.

Left: the rows that an attach shows, once something depends on them.

## 3. Modules

| Module | Role |
|---|---|
| `Builds` | creation, supervisor, stop, fix and crash of builds |
| `BuildLife` | what a build promises to flows and clients; `Builds` implements it |
| `Flows` | flows, their conductors and commands, over `BuildLife` |
| `Marts` | `Flows` with the windows that its builds are given |
| `Transfer` | the comp phase of the builds of one spec |
| `Planner` | `_find_cycle`, `_topo_datasets`, `_flow_plan` as operators |
| `Catalog` | the DDL commands and the builds that run meanwhile; evaluates `Planner` on every catalog it reaches |
| `Relay` | one session through the proxy: two pumps, a child, a cancel |
| `BuildsProofs`, `FlowsProofs`, `WaveProofs`, `MartsProofs`, `TransferProofs`, `PlannerProofs`, `CatalogProofs`, `RelayProofs` | the theorems |
| `MCBuilds`, `MCFlows`, `MCMarts`, `MCTransfer`, `MCCatalog` | catalogs, plans and shapes for TLC; `Relay` has numbers for constants and needs none |

Composition: `Flows` extends `BuildLife`, which `Builds` implements; `Marts`
extends `Flows` and adds one variable that every step of `Flows` also moves;
`Catalog` extends `Planner`.

### Builds

The catalog is constant: specs, their datasets, sources and modes. A variable
each for the last `build_log` row of a build (`status`), its row (`build`), the
row in the open transaction of `start_build` (`draft`: the catalog lock is held
while it is not `NoRow`), the place of its supervisor (`sup`), the chunks it
committed (`landed`), the dictionary `runs` (`registry`), the advisory locks
(`claims`), shielded fail rows that nobody awaits (`detached`) and the commands
that have read a status and not acted yet (`cmd`).

- `BeginCreate` is `_prepare` under the catalog lock: the three lock checks,
  the id and the window. `CommitCreate` takes the claim and commits;
  `Register` is what `start_build` does when it resumes; `CancelCreate` is a
  cancellation during a commit that succeeds.
- `Begin`, `JournalLoad`, `JournalComp`, `ChunksReady`, `CommitChunk` and
  `JournalDone` are the awaits of `_run_build`, `Fail` any exception of them, that
  of a done row which is already committed included.
  `JournalFail`, `LoseFail`, `LateFail` and `LoseLateFail` are the fates of
  `_journal_fail`, `EnterCleanup` and `EndCleanup` the two halves of `_cleanup`.
- `StopRead`/`StopAct` and `FixRead`/`FixAct` split a command at its await.
  `Cancelled` says where `task.cancel()` finds a supervisor, the turn before
  its first step included, in which Python runs neither `except` nor `finally`.

Abstractions, with their reasons. The queries of `_prepare` are one step: the
catalog lock is held over all of them, and meanwhile a status only moves away
from active; a late fail row that falls between the check and the commit is
kept (it can come in between `BeginCreate` and `CommitCreate`). A claim and its
commit are one step, since nobody can see the claim of an id that has no row.
Chunks run in parallel but only their commits are visible. The supervisor's
connection can only be lost by `Fail` or a crash. Rows that carry the output of
the body are journal rows in status `load` and change nothing else. One proxy
runs; a second one would look like an unregistered claimed build
(`StopRefused`). A crash frees the claims at once; in PostgreSQL they live until
the server notices, which only delays `StopOrphan`. Flows are an environment:
`BuildsNext` creates builds of any flow, with any boundary.

### BuildLife

Five steps per build, nothing of how they come about: `Appear` (no active
build of a conflicting spec, the largest id), `Land` (the whole slice; only an
active build), `Finish` (only if all landed), `Break` (a fail row, even a late
one), `Fix` (only over fail or fix), and `Enroll`, `Retire`, `Restart` for the
registry. `Builds!ImplementsLife` maps `Builds` to it, and it is what `Flows`
extends: a flow composed with it can meet no behaviour of builds that was left
out, because every behaviour of `Builds` is one of `BuildLife`.

### Flows

`flow[f]` holds the last `flow_log` row, the place of the conductor (`at`), its
plan and position, the build of the step, the flow ahead it has read, the fields
of `FlowRun` and the place of the shielded `_flow_finish_stop` (`fin`), which
outlives its conductor after a second cancellation, as `started` does in the
hands of a late `resume`. The queue loop is split
between the query of the flow ahead and the claim test, the drain loop between
its gate and its query, a step into gate, transaction, registration and report,
`pause` and `resume` into the gate and the row, `stop` into the read and the
effect. A plan is any member of `Plans`; the windows of its builds belong to
`Builds`. `Free` is what `start_build` checks; it and the insertion are one step
because both happen under the catalog lock. Exceptions (`FlowError`) may happen
at every await of a conductor.

### Transfer

One spec with keys, sections (the values of `chunk_attr`, part of the key) and
chunks. A build starts with any interface table of up to `MaxRows` rows, a
multiset by way of `copy`. `Way`, `Valid` and `BeginChunks` choose the way as
`_transfer` does, `MergeChunk`, `BulkRows` and `ReissueChunk` are the three SQL
statements. Where SQL leaves the choice open (the row `distinct on` keeps, the
row numbered 1) the model leaves it open too. `DropIndex` and `CreateIndex` are
one autocommitted statement each. `FailChunks` is an error or a stop in the `try`,
whose `except` branch (phase "repair") creates the indexes again; `Break` is one
at any statement outside the `try`, before it ("drop") or after it ("restore"),
and the end of that branch; `Crash` is one of the proxy anywhere. datapulse makes
no indexes on a main table itself: `Indexes` are those its users made, which
`_snapshot_indexes` finds in `pg_indexes`.
Rows with NULL keys are refused like repeated ones; a NULL `is_active` is not
modelled (see the hazards).

### Marts

`window[b]` is given when build `b` appears, in the same transaction, by
`_window_from` and `_window_to`. `GiveWindows` is conjoined to every step of
`Flows`, so it adds no interleaving of its own. Specs outside `StoreSpecs` are
those of marts; they take no locks (`Free` asks nothing of their sources).

### Planner and Catalog

`FindCycle` is the three-coloured search of `_find_cycle`: its recursion is the
stack of grey nodes, and a round (`SearchOn`) is one call of `visit` or the end
of one. It is compared with `Acyclic`, its reference definition. `TopoDatasets`
is Kahn's algorithm, a round of which takes the smallest ready dataset,
`FlowPlan` the loop over its result, a round of which takes the next spec. All
three are rounds of `Iterate`, a recursive function, with as many rounds as the
loop can have: `PlannerProofs` shows that they suffice.

`Catalog` holds the last version of every object, or `None`: a tombstone and no
version are told apart by nothing in the code that is modelled, since versions
are only counted up. Each command is one action: it runs in one transaction
that begins with the catalog lock. `CreateDataset` and `CreateBuildSpec` are
also their `or replace`. `view` and `table` are what the commands make of the
database: a view over the tables of the live specs, and the pair of interface
and main table of a spec, of which the attributes, the comments and the builds
that wrote rows are kept. A build remembers in `runs` the definition it was
started with, which is what the child executes and the transfer reads. The locks
of `_prepare` are here once more, because they read live definitions: `Builds`
has a constant catalog and the interleavings, `Catalog` a changing one and
builds with two steps. A preset is the rows its SQL answers. Windows are not in
`Catalog`. `DropDatapulse` takes the journal with it: what a live build still
does whose journal is gone is left out.

### Relay

`client`, `inbox`, `pump`, `backend` are the four stations of a statement; a
message has a type (`Q`, `P`, `E` for Bind to Execute, `S`, `X`) and the kind of
its statement. `backend.out` holds what the backend sends: `K` for
BackendKeyData, otherwise the status byte of a ReadyForQuery; results are left
out. `skip` is `skip_until_sync`, `run` is `active_run` with its flag
`cancelled`. Of `_run_child`, `child` is the process, `thread` the thread that
writes its body and reads its output, `lines` the queue between them.

- `Forward`, `RefuseParse`, `Swallow`, `Intercept`, `RefuseQuery` and
  `ReadTerminate` are the branches of `_pump_client` and `_try_dpl`;
  `PumpBackend` the other pump. When one pump ends the other is cancelled:
  `CloseSession`, which ends whatever the pump of the client executes.
- `CommandEnds`, `CommandBreaks`, `AttachCancelled` and `AttachLost` are the
  ends of commands that need no child; `CommandBreaks` is an `OSError` in one,
  which the relay takes for one of the client and closes the session; what a command does to the catalog or the journal is in
  `Catalog`, `Builds` and `Flows`. The rows an attach prints are left out.
- `Spawn`, `WriteBody`, `StreamLine`, `StreamEnds` and `StreamBreaks` are
  `_run_child` and its thread.
- `AskCancel`, `CancelIntercepted`, `ForwardCancel`, `CloseCancel` are one
  CancelRequest: both of its effects, in their order, and then its connection
  is closed. Its client waits for that, as `PQcancel` does.
- The backend is PostgreSQL as the relay uses it: one ReadyForQuery per Query
  and Sync. It may die at any moment.

One session: sessions share nothing but the registry of keys, whose entries are
unrelated. A client does not pipeline: `psql` and drivers in their simple mode
wait for ReadyForQuery.

## 4. Runs

| Run | Bounds | What it shows |
|---|---|---|
| `builds` | 2 builds, a loader and its reader, 2 clients, 1 crash | the inductive invariant with `Exclusion`, `LiveBuildKeepsJournal`, `NoGap` of stores; `LandsAheadOfReaders`; the refinement `ImplementsLife`; `Settles` and `StopEndsRun` under fairness |
| `builds_final` | 1 build, 2 chunks | violated: `FinalIsFinal` |
| `transfer` | 3 builds, 3 keys, 2 sections and chunks, 2 values, 2 interface rows, 1 index, crashes | `VersionsDisjoint`, `SliceMeansSource`, `PastIsStable` for stores and marts, every type |
| `transfer_indexes` | 2 builds, 1 interface row, 2 indexes, no crash | violated: `IndexesKept` |
| `transfer_sect` | the same with repeated keys in mode sect | violated: `VersionsDisjoint` |
| `flows` | module `MCMarts`: 2 flows, 2 builds, a wave of a loader and a mart or of the loader alone, 1 crash | `WaveInOrder`, `WaveOwnsStores`, `WaveComplete` of the conductors; `MartReadsSettled`, `LandsAboveMarts` of the windows |
| `flows_live` | 2 flows, 1 build, a stop or a pause with its resume, 1 crash | the first two with stops, pauses and late rows; `FlowSettles`, `QueueMoves` under fairness |
| `marts_stopped` | 2 flows, 3 builds | violated: `StoppedFlowArrives` |
| `catalog` | 3 datasets, 2 mode lists, a preset; no build under a preset, otherwise 1, or 2 of a source and its reader | `GraphSound`, `PlanIsWave` on every catalog the commands reach, `ActiveRunsCurrent`, `LocksHold` with every order of DDL and builds |
| `catalog_views` | 1 dataset, 2 specs, 4 shapes, 2 schemas, comments, 1 build | `PhysicsFollow` and the types of versions and comments |
| `relay` | 3 statements, 1 printed line, 2 cancels | `OneReplyOwed`, `StatusIsTrue`, `ForwardIsHarmless`, `ChildHasSession`, `CancelledIsNoResult`; `CancelEnds` under fairness |
| `relay_gone` | 1 statement, no cancel | violated: `GoneKillsChild` |

Why the bounds are enough. Conflicts are between two builds, so two show every
race of theirs; for `NoGap` and everything else of `Builds` the proofs of section
6 remove the bound. Two flows show every race of the queue except a chain of
orphans, in which each pair behaves alike. Two interface rows give a repeated
key, a key beside another one of its section, and an empty side of a merge; three
builds give a version, its change and a reader between them. In `flows` the
interruption by `FlowError` stands at every place where a stop would cancel, so
commands are left to `flows_live`; there one command is a pause with its resume, or
a stop, which after a `FlowError` meets a conductor that already ends. The two
catalogs split the commands by what they touch: shapes and comments meet in one
dataset; a cycle that no single command closes and an order that a plan can get wrong need
three, locks need a source, its reader and two builds. A second build multiplies
the catalogs of three datasets beyond reach, so `MCBound`, the constraint of
`catalog`, asks that there be no third dataset meanwhile and that both builds be
of mode increment: a lock looks at the spec of a build and its status, never at
its mode. Definitions are replaced and dropped under both. It also keeps presets
to catalogs without builds: no command that builds looks at a preset, and a plan
asks about past builds only for the step it adds to the preset's own, in the same
way as without one (`CleanMode`); `PlanIsWaveHolds` has no such bound.
In `relay` a statement, the one after a cancel and the one after that
are three; the second cancel may meet what the first one left.
`MaxBuild`, `MaxFlow`, `MaxCrash`, `MaxCommand`, `MaxRows`, `MaxStatement`,
`MaxLine` and `MaxCancel` are guards of the actions they bound.
The runs stop when these are used up, and the system itself may be idle for
ever, so deadlock is not checked.

### Fairness

`BuildsFairSpec`: `Settle`, the steps of a supervisor that wait for nothing but
the event loop and the database, and `StopAct`. Not fair: the end of the child
(`JournalComp`), which nothing in the code bounds. `FlowsFairSpec`: the queue
loop and the end of a conductor, whose wait for a fail has a timeout of 30 s.
Not fair: the drain, the steps and the fix, which wait for builds and people.
`RelayFairSpec`: both pumps, the thread of a child and the server of a cancel.
Not fair: the ends of bodies and commands, and whatever client and backend do.

### What the violated runs say

Each quotes its line in `PROJECT.json`, `findings`.

- `builds_final`: the done row is written inside the `try` whose handlers append
  fail. An error of that await after its commit, or a stop that read a live status
  before it and cancels there, turns a done build into a failed one, although done
  is called final.
- `transfer_indexes`: a stop or an error between two of the statements that drop
  indexes, or of those that create them again, ends the build with indexes
  missing. Their definitions were in a local variable; the next bulk load
  remembers only what it still finds.
- `transfer_sect`: a repeated key in mode sect doubles the versions of its
  section.
- `marts_stopped`: a manual mart build after a stopped flow reads up to the
  boundary, and the next window begins at its own id: what the stopped flow
  built lies in no window.
- `relay_gone`: nobody reads the client while a python block runs; a silent body
  runs on after its client has gone.

### What else the models show

These are transitions of the models that a reader should know of. The first three
contradict a document; they need no run to be seen, each being one step whose
effect the document excludes.

- The chunk transactions are committed one after the other (`CommitChunk`): an
  error or a stop between two (`Fail`, `Cancelled`, `FailChunks`) leaves some
  landed. `engine.py:1055-1057` says «любой сбой откатывает все — ничего не
  приземляется», `architecture.md:140-141` that a failure of any chunk rolls all
  of them back, and line 149 that a stop does. The next merge repairs it
  (`SliceMeansSource`), and the next window begins before it (`NoGap`).
- A cancellation that reaches a supervisor before its first step leaves the build
  registered with its claim for good (`Cancelled`, "lost"): Python runs neither
  `except` nor `finally` of a coroutine that never started. `protocol.md:537-539`
  says of a stop «финал (`fail`) виден в журнале» and that a live build is killed
  at once; here no fail is written, and every later stop finds the same run. A
  crash of the proxy frees the claim. `StopEndsRun` is about supervisors in their
  body.
- A child killed before it has read its body breaks the pipe; the `OSError` is
  taken for one of the client's connection, and a cancelled block closes the
  session (`StreamBreaks`), where `protocol.md:471-474` promises «клиенту — ошибка
  57014». `CancelEnds` holds, since the command does end.
- A hold row written after a stop (`PauseRow`) reopens a flow that has ended; the
  queue closes it as an orphan when the next flow comes.
- A pause between the gate of a step and its transaction does not prevent the
  build (`PassGate`, `CreateStep`).

## 5. Hazards and the properties over them

`PROJECT.json`, `hazards`, is the list the properties are for. Some have no
property, with their reasons there: the NULL flag in the interface table,
orphaned builds that block a drain (only a stop closes them, by design), the
order of the rows an attach shows, the windows of a spec that is dropped and
created anew, over which no document says anything, and the broken pipe of a
cancelled block, which section 4 describes.

## 6. Proofs

### Builds

`BuildsProofs` proves, for every catalog, every number of builds, chunks,
clients, flows and crashes, from `CatalogAssumption` (a spec never reads its own
dataset, sources are stores: `commands.py` refuses both) and `BoundAssumption`:

| Theorem | Establishes |
|---|---|
| `BuildsInvariant` | `[]BuildsInv`, the inductive invariant |
| `BuildsTypes` | `[]BuildsTypeOK` |
| `ExclusionHolds` | `[]Exclusion` |
| `LiveJournalHolds` | `[]LiveBuildKeepsJournal` |
| `NoGapHolds` | `[]NoGap`: below the lower bound of a window of a store spec every id is in a delivered window of it |
| `LandsAheadHolds` | `LandsAheadOfReaders`, an action property |
| `LifeImplemented` | `BuildsSpec => ImplementsLife` |

Why the invariant is what it is. `Exclusion` alone is not inductive: a commit
relies on checks made earlier, so `DraftChecked` says that what `_prepare` found
still holds; it holds because an active status never comes back, and that needs
that whoever still has a row to write writes about a build that cannot go on
(`PendingOnDead`: pending fixes and detached fail rows) and that only its
supervisor closes a live build (`LiveBuildKeepsJournal`), which in turn needs
the claim (`SupHasClaim`: `StopOrphan` requires it to be free). `NoGap` needs
`DoneIsDelivered` and that the window of a store build ends at its own id
(`OwnWindow`), which is false of marts, as the run `marts_stopped` shows;
`LandsAheadOfReaders` needs `SourcesDead`, the refinement
`UncreatedIsEmpty` and that a pending fix is over fail or fix.

The argument is split by a predicate `Quiet`: every step but a creation adds no
build, makes none active or live again and only adds chunks. Supervisors,
commands and crashes are quiet (`QuietSupervise`, `QuietCommand`, `QuietCrash`),
and quiet steps preserve all lock properties (`QuietKeepsLocks`);
`BeginKeepsLocks` and `CommitKeepsLocks` treat the creation. The refinement
takes one lemma per actor: `SuperviseLives`, `CommandLives`, `CommitAppears`.

### Flows

`FlowsProofs` proves, for all specs, plans, clients, flows, builds, commands and
crashes, from `FlowAssumption` (plans are sequences of steps, bounds are
numbers):

| Theorem | Establishes |
|---|---|
| `FlowsInvariant` | `[]FlowsInv`, the inductive invariant |
| `FlowsTypes` | `[]FlowsTypeOK` |
| `WaveInOrderHolds` | `[]WaveInOrder` |
| `WaveOwnsStoresHolds` | `[]WaveOwnsStores` |

The order of waves rests on two facts. A flow that is still to conduct, or does,
is open whatever late rows say (`LivingIsOpen`), because only its own conductor,
or somebody who has found its claim free, writes a final row; and whatever has
passed the queue has nobody ahead that lives (`NobodyAhead`), because the queue
looks at the open flows ahead and no flow comes to life again. Since the stores
are drained behind the queue, a flow that has not begun has no builds
(`BuildsOfBegun`) and manual store builds need that no flow is open, the active
builds of stores are the step's own from its creation to its end (`Owns`).
`OneFlow` does the bookkeeping of every step that moves one conductor and no
build into activity; `CreateStepInv` and `BuildStepInv` treat the builds that
appear. The steps of a stop that outlives its conductor need `StopsAtEnd`.

`WaveProofs` goes on from there, from the same assumption:

| Theorem | Establishes |
|---|---|
| `WaveBuiltInvariant` | `[]WaveBuilt`, the inductive invariant |
| `WaveCompleteHolds` | `[]WaveComplete` |

`WaveComplete` says nothing of the build that is under way, so it is not
inductive: `WaveSoFar` adds that the build a step has inserted, and later waits
for, is of the next step and behind those of the steps before it, and that a
conductor is at its first step until it has a plan (`FirstStep`). A step is gone
past when its build is seen done, and done builds have landed (`DoneIsFull`).
That no second build of the flow becomes active meanwhile is `Owns` of
`FlowsInv`. A step of anybody else keeps what has landed and the rows there are
(`Holds`); `CreateStepWave`, `RegisterStepWave` and `StepDoneWave` are the three
steps of a wave.

### Marts

`MartsProofs` proves, under the assumptions of `FlowsProofs` and
`MartsAssumption` (sources are stores, which `create build_spec` checks):

| Theorem | Establishes |
|---|---|
| `MartsInvariant` | `[]MartsInv`, the inductive invariant |
| `MartsTypes` | `[]MartsTypeOK` |
| `MartReadsSettledHolds` | `[]MartReadsSettled` |
| `LandsAboveMartsHolds` | `LandsAboveMarts`, an action property |

Behind any build of a wave the stores are at rest for good (`WaveClears`),
because a wave creates a build only while no store build is active
(`FlowsInv`) and ids grow; so everything below the boundary is at rest, and the
build at the boundary is as well, since its flow was done only after it
(`DoneRests`). A window never ends above the builds that exist when it is given
(`WindowKnown`), so no later build lands inside it. `StepKinds` reduces the
steps of `Flows` to those that add no build (`Still`) and those that add one
(`Adds`); `DoneKinds` finds the one step that writes done.

### Transfer

`TransferProofs` proves, under `TransferAssumption` and for any tables, slices,
chunks and number of builds:

| Theorem | Establishes |
|---|---|
| `TransferInvariant` | `[]TransferInv`, the inductive invariant |
| `TransferTypes` | `[]TransferTypeOK` |
| `PastIsStableHolds` | `PastIsStable`, an action property |
| `SliceInvariant` | `[]SliceInv`, if `~SectDuplicates` |
| `VersionsDisjointHolds` | `[]VersionsDisjoint`, if `~SectDuplicates` |
| `SliceMeansSourceHolds` | `[]SliceMeansSource`, if `~SectDuplicates` |

`SectDuplicates` is the constant that lets a slice of mode `sect` repeat a key;
without the assumption the run `transfer_sect` refutes `VersionsDisjoint`. Of the
indexes nothing is proved: `transfer_indexes` refutes `IndexesKept`.
Every landing closes open rows of its chunk and inserts rows of the build
(`Lands`), and a chunk still to be committed holds no row of that build
(`RowTimes`): so a row is closed at a build not before its own and no build
before `cur` sees a difference (`LandPast`). For a store, a landing inserts at
most one row of a key and closes its open one (`Once`). `SliceSoFar` says, in
the middle of a build, which keys hold what their type promises and which ones
hold what they held; `BulkValues`, `ReissueValues` and `MergeValues` show that a
landing moves its chunk from the second to the first.

### Planner

`PlannerProofs` proves, for every graph with finitely many readers and every
finite set of specs:

| Theorem | Establishes |
|---|---|
| `FindCycleIs` | `FindCycle(edges) <=> ~Acyclic(edges)` |
| `TopoDatasetsIs` | without a cycle the order is complete, and sources come before readers |
| `PlanOfIs` | the steps of every spec stand in the plan as one block, in the order of the specs |
| `FlowPlanIs` | without a cycle the plan is a wave (`IsWave`) |

These are inductions over the rounds of a loop. The library's induction
theorems, whose parameter is an operator, are of no use to the installed
provers; that every set of naturals has a least element is
(`LeastExists`, by well-foundedness), and induction over a set follows from it
(`EveryNumber`). `LoopIs` derives from it that the recursive function of
`Iterate` exists and does what it says. The rest is one invariant per loop. Of
the search (`SearchInv`): the grey nodes are a chain of sources, what black nodes
read is black, and no set of black nodes is without one that reads no other of
it (`Settled`), so a grey peer closes a cycle (`GreyPeer`) and a node may turn
black when all it reads is (`SettledGrows`). Every round paints a node, grey or
black, until none is left (`Painted`), so twice the number of nodes are rounds
enough. Of the order (`InOrder`): it is without repetition and closed under
sources; as long as a dataset is missing one is ready, by acyclicity
(`OneIsReady`). Of the plan (`PlanInv`): specs already in it come before those to
come, and each one's steps stand in it in one piece (`Block`).

### Catalog

`CatalogProofs` proves, for all datasets, specs, shapes, mode lists, presets and
builds, from `CatalogAssumption` and `NoneAssumption` (the value for "nothing"
is none of the values):

| Theorem | Establishes |
|---|---|
| `CatalogInvariant` | `[]CatalogInv`, the inductive invariant |
| `CatalogTypes` | `[]CatalogTypeOK` |
| `PhysicsFollowHolds` | `[]PhysicsFollow` |
| `RefsSoundHolds` | `[]RefsSound`, `GraphSound` without acyclicity |
| `GraphInvariant` | `[]GraphInv`, the inductive invariant with the graph |
| `GraphSoundHolds` | `[]GraphSound` |
| `PlanIsWaveHolds` | `[]PlanIsWave` |
| `ActiveRunsCurrentHolds` | `[]ActiveRunsCurrent` |
| `LocksHoldHolds` | `[]LocksHold` |

The invariant is the conjunction of these, which need each other. A replaced
spec finds its tables because the database follows the catalog. The lock of a
dataset is looked up in the live definitions of its readers; that it protects a
build that was started with another one needs `ActiveRunsCurrent`, and that in
turn needs that datasets with live specs keep their shape. `RefsSound` gives that
a mart is nobody's source.

For the graph, `GraphInv` adds that it has no cycle and that there are finitely
many live specs, which is what lets the search end; the constants may be
infinite. A created spec comes with a search over the edges there will be
(`CreateBuildSpecGraph`, by `FindCycleIs`); no other command adds an edge, and
fewer edges close no cycle (`OtherGraph`, `FewerEdges`). Every plan over such a
graph is a wave by `FlowPlanIs`; that its modes are declared needs the mode matrix
in `RefsSound` (`PlanWave`).

### Relay

`RelayProofs` proves, for any number of statements, lines and cancels, from
`RelayAssumption`:

| Theorem | Establishes |
|---|---|
| `RelayInvariant` | `[]RelayInv`, the inductive invariant |
| `RelayTypes` | `[]RelayTypeOK` |
| `ChildHasSessionHolds` | `[]ChildHasSession` |
| `ForwardIsHarmlessHolds` | `[]ForwardIsHarmless` |
| `StatusIsTrueHolds` | `[]StatusIsTrue` |
| `CancelledIsNoResultHolds` | `CancelledIsNoResult`, an action property |
| `OneReplyOwedHolds` | `[]OneReplyOwed` |

A session is always in one of four phases (`Phase`): nothing is asked, the
statement is with the proxy, it is on its way to the backend in parts, or it is
with the backend. Each phase fixes what the two queues can hold, and every step
leads from a phase to one of two. Counting replies is then arithmetic on
sequences of at most three messages. `RunIsPump` (a run is active exactly while
a pump executes) is what makes `CancelledIsNoResult` hold, `CancelIsCurrent`
(the client has not sent the next statement while its cancel is open) what makes
a forwarded cancel harmless.

### Only model-checked

All liveness (`Settles`, `StopEndsRun`, `FlowSettles`, `QueueMoves`,
`CancelEnds`), which is out of the prover's reach; and what a transfer leaves
when a slice of mode `sect` repeats a key, where `VersionsDisjoint` does not hold.

## 7. Not modelled

- The lexer and parser of DPL (`dpl.py`), secrets, configuration and connection
  tests: sequential translation or pure I/O. Transfer types and modes of the
  grammar are the sets the models use.
- TLS and authentication, which the backend does through the relay; a client that
  pipelines; several sessions of one client.
- The rows an attach shows, and their order (see the hazards).
- `DROP DATAPULSE` while a build is live, and all versions of an object but the
  last.
- The role `dp_build_<id>` of a build and its leak when a crash comes before
  `drop role`; the connection of a supervisor that breaks while its task lives,
  other than as a `Fail`.
- Two proxies over one database, apart from what their claims show.
