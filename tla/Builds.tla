------------------------------- MODULE Builds -------------------------------
(***************************************************************************)
(* Builds of datapulse (engine.py, class BuildEngine): the transaction     *)
(* that creates a build under the catalog lock, the asyncio supervisor     *)
(* that drives it to its end, the commands stop and fix, and a crash of    *)
(* the proxy.  The catalog (specs, their datasets, sources and modes) is   *)
(* fixed here.                                                             *)
(*                                                                         *)
(* Two kinds of locks meet: the journal (the last build_log row of every   *)
(* build, read under the catalog lock when a build is created) and the     *)
(* claim, a session advisory lock held by the connection of a live         *)
(* supervisor.                                                             *)
(***************************************************************************)
EXTENDS Naturals

CONSTANTS Specs, Datasets, Stores, \* build specs, datasets, the store ones
          DatasetOf, SourcesOf,    \* spec -> its dataset, the ones it reads
          ModesOf,                 \* spec -> the modes it declares
          Clients,                 \* sessions that issue stop and fix
          NoRow,
          MaxBuild, MaxFlow,       \* bounds on build_id and flow_id
          Parallel,                \* parallel_cnt
          MaxCrash                 \* bound on crashes of the proxy

BuildId == 1..MaxBuild
Chunk   == 1..Parallel
Modes   == {"initial", "increment", "skip", "clean"}  \* clean: any other name
WindowModes == {"initial", "increment", "skip"}       \* they move the window
BuildRow == [id : BuildId, spec : Specs, mode : Modes,
             flow : 0..MaxFlow,                       \* 0: NULL, manual
             from : 0..MaxBuild, to : 0..MaxBuild]

\* Sources are stores only, and a spec never reads its own dataset: both are
\* refused when a spec is created.
ASSUME CatalogAssumption ==
  /\ Stores \subseteq Datasets
  /\ DatasetOf \in [Specs -> Datasets]
  /\ SourcesOf \in [Specs -> SUBSET Stores]
  /\ \A s \in Specs : DatasetOf[s] \notin SourcesOf[s]
  /\ ModesOf \in [Specs -> SUBSET Modes]
ASSUME BoundAssumption ==
  /\ MaxBuild \in Nat \ {0} /\ Parallel \in Nat \ {0}
  /\ MaxFlow \in Nat /\ MaxCrash \in Nat
  /\ NoRow \notin BuildRow

VARIABLES status,    \* build -> status of its last build_log row
          build,     \* build -> its committed row of datapulse.build
          draft,     \* row being inserted by the holder of the catalog lock
          sup,       \* build -> where its supervisor stands
          landed,    \* build -> chunks committed to the main table
          registry,  \* BuildEngine.runs
          claims,    \* builds whose claim lock is held
          detached,  \* builds whose shielded fail row nobody awaits any more
          cmd,       \* client -> stop or fix that has read a status
          crashes

buildVars == <<status, build, draft, sup, landed, registry, claims, detached,
               cmd, crashes>>

ActiveStatuses == {"wait", "load", "comp"}
FinalStatuses  == {"done", "fix"}
Statuses == ActiveStatuses \cup FinalStatuses \cup {"none", "fail"}

\* The body of _run_build, in order; "commit": every chunk has run, the
\* chunk transactions are being committed.
Body == {"start", "load", "comp", "commit"}
\* "closing": the done row is committed, its await has not resumed;
\* "failing" and "erroring": the fail row is being written after a
\* cancellation (shielded) or an exception (not shielded); "leaving": only
\* _cleanup is left; "lost": the task was cancelled before its first step.
Live == Body \cup {"committed", "born"}  \* a run that may still land rows
SupStates == Body \cup {"none", "committed", "born", "closing", "failing",
                        "erroring", "leaving", "cleanup", "lost"}

Idle == [kind |-> "idle", build |-> 1]
Commands == [kind : {"idle", "stop", "fix"}, build : BuildId]

BuildsTypeOK ==
  /\ status \in [BuildId -> Statuses]
  /\ build \in [BuildId -> BuildRow \cup {NoRow}]
  /\ draft \in BuildRow \cup {NoRow}
  /\ sup \in [BuildId -> SupStates]
  /\ landed \in [BuildId -> SUBSET Chunk]
  /\ registry \subseteq BuildId
  /\ claims \subseteq BuildId
  /\ detached \subseteq BuildId
  /\ cmd \in [Clients -> Commands]
  /\ crashes \in 0..MaxCrash

BuildsInit ==
  /\ status = [b \in BuildId |-> "none"]
  /\ build = [b \in BuildId |-> NoRow]
  /\ draft = NoRow
  /\ sup = [b \in BuildId |-> "none"]
  /\ landed = [b \in BuildId |-> {}]
  /\ registry = {} /\ claims = {} /\ detached = {}
  /\ cmd = [c \in Clients |-> Idle]
  /\ crashes = 0

-----------------------------------------------------------------------------
Created   == {b \in BuildId : status[b] # "none"}
Active(b) == status[b] \in ActiveStatuses
Open(b)   == status[b] \in ActiveStatuses \cup {"fail"}
IsStore(s) == DatasetOf[s] \in Stores
Reads(s, d) == d \in SourcesOf[s]
\* coalesce(max(S), 0) = n
IsMax(n, S) == n \in S \cup {0} /\ \A m \in S : m <= n

\* Mutants, each defined right before what it alters: here, only builds that
\* run in this process, failed sources, no readers, and windows that end beyond
\* the build or, of manual builds, at the boundary.
MutNoOpenBuild(s) ==
  \A b \in Created : build[b].spec = s => ~(Open(b) /\ b \in claims)
MutFreeSources(s) ==
  \A b \in Created : Reads(s, DatasetOf[build[b].spec]) => status[b] # "fail"
MutNoActiveReaders(s) == TRUE
MutWindowTo(s, f, id, boundary) ==
  IF ~IsStore(s) /\ f = 0 THEN boundary ELSE id + 1
MutManualWindowTo(s, f, id, boundary) == IF f = 0 THEN boundary ELSE id

\* An open build of the spec, an unresolved fail included, blocks the next.
NoOpenBuild(s) == \A b \in Created : build[b].spec = s => ~Open(b)
FreeSources(s) ==
  \A b \in Created : Reads(s, DatasetOf[build[b].spec]) => ~Open(b)
NoActiveReaders(s) ==
  \A b \in Created :
    IsStore(build[b].spec) /\ Reads(build[b].spec, DatasetOf[s]) => ~Active(b)

\* Builds of s that moved its delta window.
WindowBuilds(s) ==
  {b \in Created : /\ build[b].spec = s
                   /\ build[b].mode \in WindowModes
                   /\ status[b] = "done"}

WindowTo(s, f, id, boundary) == IF ~IsStore(s) /\ f = 0 THEN boundary ELSE id

-----------------------------------------------------------------------------
(* start_build: creation.                                                  *)

\* Lock the catalog, run every check, insert the build row and compute its
\* window, all in one open transaction.  openFlow: some flow is open;
\* boundary: the last build of the flows that are done.
BeginCreate(s, m, f, openFlow, boundary) ==
  /\ draft = NoRow
  /\ m \in ModesOf[s]
  /\ NoOpenBuild(s)
  /\ IsStore(s) => /\ f = 0 => ~openFlow
                   /\ FreeSources(s)
                   /\ NoActiveReaders(s)
  /\ \E last \in 0..(MaxBuild - 1), low \in 0..MaxBuild :
       /\ IsMax(last, Created)
       /\ IsMax(low, WindowBuilds(s))
       /\ draft' = [id |-> last + 1, spec |-> s, mode |-> m, flow |-> f,
                    from |-> low, to |-> WindowTo(s, f, last + 1, boundary)]
  /\ UNCHANGED <<status, build, sup, landed, registry, claims, detached, cmd,
                 crashes>>

\* The creating statement fails or is cancelled before the commit.
AbortCreate ==
  /\ draft # NoRow
  /\ draft' = NoRow
  /\ UNCHANGED <<status, build, sup, landed, registry, claims, detached, cmd,
                 crashes>>

\* The claim is taken, then the transaction commits: the row and its wait
\* become visible and the catalog lock is free.
CommitCreate ==
  /\ draft # NoRow
  /\ build' = [build EXCEPT ![draft.id] = draft]
  /\ status' = [status EXCEPT ![draft.id] = "wait"]
  /\ sup' = [sup EXCEPT ![draft.id] = "committed"]
  /\ claims' = claims \cup {draft.id}
  /\ draft' = NoRow
  /\ UNCHANGED <<landed, registry, detached, cmd, crashes>>

\* start_build resumes: the run is registered and its task created.
Register(b) ==
  /\ sup[b] = "committed"
  /\ sup' = [sup EXCEPT ![b] = "born"]
  /\ registry' = registry \cup {b}
  /\ UNCHANGED <<status, build, draft, landed, claims, detached, cmd, crashes>>

\* start_build is cancelled while it awaits a commit that succeeds: the claim
\* connection is closed, and the build stays in wait with nobody to run it.
CancelCreate(b) ==
  /\ sup[b] = "committed"
  /\ sup' = [sup EXCEPT ![b] = "none"]
  /\ claims' = claims \ {b}
  /\ UNCHANGED <<status, build, draft, landed, registry, detached, cmd,
                 crashes>>

-----------------------------------------------------------------------------
(* _run_build: the supervisor.                                             *)

SupMove(b, p, q) == sup[b] = p /\ sup' = [sup EXCEPT ![b] = q]
Journal(b, st) == status' = [status EXCEPT ![b] = st]

Begin(b) ==
  /\ SupMove(b, "born", "start")
  /\ UNCHANGED <<status, build, draft, landed, registry, claims, detached,
                 cmd, crashes>>

\* The load row; the interface table is truncated, the child process runs the
\* spec body (a build in mode skip has none).
JournalLoad(b) ==
  /\ SupMove(b, "start", "load")
  /\ Journal(b, "load")
  /\ UNCHANGED <<build, draft, landed, registry, claims, detached, cmd,
                 crashes>>

\* The child ended well: the comp row.
JournalComp(b) ==
  /\ SupMove(b, "load", "comp")
  /\ Journal(b, "comp")
  /\ UNCHANGED <<build, draft, landed, registry, claims, detached, cmd,
                 crashes>>

\* Every chunk ran in its own transaction, all of them still open.
ChunksReady(b) ==
  /\ SupMove(b, "comp", "commit")
  /\ UNCHANGED <<status, build, draft, landed, registry, claims, detached,
                 cmd, crashes>>

Landing(b) == IF build[b].mode = "skip" THEN {} ELSE Chunk

\* The open transactions are committed one after the other.
CommitChunk(b, k) ==
  /\ sup[b] = "commit"
  /\ k \in Landing(b) \ landed[b]
  /\ landed' = [landed EXCEPT ![b] = @ \cup {k}]
  /\ UNCHANGED <<status, build, draft, sup, registry, claims, detached, cmd,
                 crashes>>

JournalDone(b) ==
  /\ SupMove(b, "commit", "closing")
  /\ landed[b] = Landing(b)
  /\ Journal(b, "done")
  /\ UNCHANGED <<build, draft, landed, registry, claims, detached, cmd,
                 crashes>>

\* Any exception of the body: what is not committed is rolled back.  That of
\* the await of the done row too, whose commit may have been executed.
Fail(b) ==
  /\ sup[b] \in Body \cup {"closing"}
  /\ sup' = [sup EXCEPT ![b] = "erroring"]
  /\ UNCHANGED <<status, build, draft, landed, registry, claims, detached,
                 cmd, crashes>>

\* _journal_fail on a fresh connection.
JournalFail(b) ==
  /\ sup[b] \in {"failing", "erroring"}
  /\ sup' = [sup EXCEPT ![b] = "leaving"]
  /\ Journal(b, "fail")
  /\ UNCHANGED <<build, draft, landed, registry, claims, detached, cmd,
                 crashes>>

\* _journal_fail swallows its own failure: the fail row is not written.
LoseFail(b) ==
  /\ sup[b] \in {"failing", "erroring"}
  /\ sup' = [sup EXCEPT ![b] = "leaving"]
  /\ UNCHANGED <<status, build, draft, landed, registry, claims, detached,
                 cmd, crashes>>

\* The shielded fail row outlives a task that was cancelled twice.
LateFail(b) ==
  /\ b \in detached
  /\ detached' = detached \ {b}
  /\ Journal(b, "fail")
  /\ UNCHANGED <<build, draft, sup, landed, registry, claims, cmd, crashes>>

LoseLateFail(b) ==
  /\ b \in detached
  /\ detached' = detached \ {b}
  /\ UNCHANGED <<status, build, draft, sup, landed, registry, claims, cmd,
                 crashes>>

\* _cleanup: out of the registry first, then the build's role is dropped.
EnterCleanup(b) ==
  /\ sup[b] \in {"closing", "leaving"}
  /\ sup' = [sup EXCEPT ![b] = "cleanup"]
  /\ registry' = registry \ {b}
  /\ UNCHANGED <<status, build, draft, landed, claims, detached, cmd, crashes>>

\* Mutant: the connection is never closed.
MutEndCleanup(b) ==
  /\ SupMove(b, "cleanup", "none")
  /\ UNCHANGED <<status, build, draft, landed, registry, claims, detached,
                 cmd, crashes>>

\* The supervisor's connection is closed, which frees the claim.
EndCleanup(b) ==
  /\ SupMove(b, "cleanup", "none")
  /\ claims' = claims \ {b}
  /\ UNCHANGED <<status, build, draft, landed, registry, detached, cmd,
                 crashes>>

-----------------------------------------------------------------------------
(* stop_build, fix_build: a read of the last status, an await, the effect. *)

\* Mutant: a cancellation is swallowed while the child runs.
MutCancelled(p) ==
  CASE p \in (Body \ {"load"}) \cup {"closing"} -> "failing"
    [] p \in {"failing", "erroring"} -> "leaving"
    [] p = "born" -> "lost"
    [] OTHER -> p

\* Where task.cancel() leaves a supervisor: the row it was about to write may
\* already be committed ("closing"), a task that has not made its first step
\* runs neither except nor finally ("lost").
Cancelled(p) ==
  CASE p \in Body \cup {"closing"} -> "failing"
    [] p \in {"failing", "erroring"} -> "leaving"
    [] p = "born" -> "lost"
    [] OTHER -> p

\* BuildRun.stop
CancelRun(b) ==
  /\ sup' = [sup EXCEPT ![b] = Cancelled(sup[b])]
  /\ detached' = IF sup[b] = "failing" THEN detached \cup {b} ELSE detached

StopRead(c, b) ==
  /\ cmd[c] = Idle
  /\ Active(b)
  /\ cmd' = [cmd EXCEPT ![c] = [kind |-> "stop", build |-> b]]
  /\ UNCHANGED <<status, build, draft, sup, landed, registry, claims,
                 detached, crashes>>

StopRegistered(b) ==
  /\ b \in registry
  /\ CancelRun(b)
  /\ UNCHANGED status

\* Mutant: the claim is not tried.
MutStopOrphan(b) ==
  /\ b \notin registry
  /\ Journal(b, "fail")
  /\ UNCHANGED <<sup, detached>>

\* Not in the registry and the claim is free: an orphan, closed with a fail.
StopOrphan(b) ==
  /\ b \notin registry
  /\ b \notin claims
  /\ Journal(b, "fail")
  /\ UNCHANGED <<sup, detached>>

StopRefused(b) ==
  /\ b \notin registry
  /\ b \in claims
  /\ UNCHANGED <<status, sup, detached>>

StopAct(c) ==
  /\ cmd[c].kind = "stop"
  /\ cmd' = [cmd EXCEPT ![c] = Idle]
  /\ LET b == cmd[c].build
     IN  StopRegistered(b) \/ StopOrphan(b) \/ StopRefused(b)
  /\ UNCHANGED <<build, draft, landed, registry, claims, crashes>>

\* Mutant: a fix of a build that did not fail.
MutFixRead(c, b) ==
  /\ cmd[c] = Idle
  /\ b \in Created
  /\ cmd' = [cmd EXCEPT ![c] = [kind |-> "fix", build |-> b]]
  /\ UNCHANGED <<status, build, draft, sup, landed, registry, claims,
                 detached, crashes>>

FixRead(c, b) ==
  /\ cmd[c] = Idle
  /\ status[b] = "fail"
  /\ cmd' = [cmd EXCEPT ![c] = [kind |-> "fix", build |-> b]]
  /\ UNCHANGED <<status, build, draft, sup, landed, registry, claims,
                 detached, crashes>>

FixAct(c) ==
  /\ cmd[c].kind = "fix"
  /\ cmd' = [cmd EXCEPT ![c] = Idle]
  /\ Journal(cmd[c].build, "fix")
  /\ UNCHANGED <<build, draft, sup, landed, registry, claims, detached,
                 crashes>>

\* The proxy dies: tasks, registry, sessions and their locks and open
\* transactions are gone, the journal stays.  A commit in flight is a commit
\* just before the crash.
Crash ==
  /\ crashes < MaxCrash
  /\ crashes' = crashes + 1
  /\ sup' = [b \in BuildId |-> "none"]
  /\ registry' = {} /\ claims' = {} /\ detached' = {}
  /\ draft' = NoRow
  /\ cmd' = [c \in Clients |-> Idle]
  /\ UNCHANGED <<status, build, landed>>

-----------------------------------------------------------------------------
\* Steps of a supervisor that wait for nothing but the database.
Settle(b) ==
  \/ JournalLoad(b) \/ ChunksReady(b) \/ JournalDone(b) \/ JournalFail(b)
  \/ EnterCleanup(b) \/ EndCleanup(b)
  \/ \E k \in Chunk : CommitChunk(b, k)

Supervise(b) ==
  \/ Register(b) \/ CancelCreate(b) \/ Begin(b) \/ Settle(b)
  \/ JournalComp(b) \/ Fail(b) \/ LoseFail(b) \/ LateFail(b)
  \/ LoseLateFail(b)

Command(c) ==
  \/ StopAct(c) \/ FixAct(c)
  \/ \E b \in BuildId : StopRead(c, b) \/ FixRead(c, b)

\* The flows are an environment here: a build is manual or of some flow,
\* while some flow is open or not, and the last build of the flows that are
\* done is any build of a flow, or none.
Boundaries == {0} \cup {b \in Created : build[b].flow # 0}
Create ==
  \/ \E s \in Specs, m \in Modes, f \in 0..MaxFlow, openFlow \in BOOLEAN,
        n \in Boundaries : BeginCreate(s, m, f, openFlow, n)
  \/ AbortCreate
  \/ CommitCreate

BuildsNext ==
  \/ Create
  \/ \E b \in BuildId : Supervise(b)
  \/ \E c \in Clients : Command(c)
  \/ Crash

BuildsSpec == BuildsInit /\ [][BuildsNext]_buildVars

\* The event loop resumes every task whose await is over, and the database
\* answers.  Nothing bounds the child process, so its end is not fair.
BuildsFairness ==
  /\ \A b \in BuildId : WF_buildVars(Settle(b))
  /\ \A c \in Clients : WF_buildVars(StopAct(c))
BuildsFairSpec == BuildsSpec /\ BuildsFairness

-----------------------------------------------------------------------------
(* Properties.                                                             *)

\* Two specs whose builds may not be active together: the same spec, or a
\* store spec and one that writes what it reads.
Conflict(s, t) ==
  \/ s = t
  \/ IsStore(s) /\ Reads(s, DatasetOf[t])
  \/ IsStore(t) /\ Reads(t, DatasetOf[s])

\* The journal locks exclude conflicting builds (start_build): no two active
\* builds of one spec, no active build of a dataset that an active store
\* build reads, whatever stops, fixes, late fail rows and crashes happen.
Exclusion ==
  \A b, d \in Created :
    b # d /\ Active(b) /\ Active(d) => ~Conflict(build[b].spec, build[d].spec)

\* The supervisors, the commands and the crashes implement BuildLife: a build
\* appears when no conflicting one is active, with an id above all others; it
\* lands rows only while it is active, is done only when all of them landed,
\* and is never active again once it is not; only a fail is fixed.
LifeOf(st) == IF st \in ActiveStatuses THEN "active" ELSE st
Lives == [b \in BuildId |-> LifeOf(status[b])]
Rows  == [b \in BuildId |->
            IF build[b] = NoRow THEN NoRow
            ELSE [spec |-> build[b].spec, mode |-> build[b].mode,
                  flow |-> build[b].flow]]
Fulls == {b \in Created : landed[b] = Landing(b)}
Life == INSTANCE BuildLife
          WITH StoreSpecs <- {s \in Specs : IsStore(s)},
               Feeders <- [s \in Specs |-> {t \in Specs : Reads(s, DatasetOf[t])}],
               life <- Lives, row <- Rows, runs <- registry, full <- Fulls
ImplementsLife == Life!Spec

\* The claim protects the journal of a live build (stop_build): as long as a
\* supervisor can still land rows nobody else closes its build, so the spec
\* and the sources stay locked while it writes.
LiveBuildKeepsJournal ==
  \A b \in BuildId : sup[b] \in Live => Active(b)

\* The docstring of _window_to: under the locks the window of a store build
\* covers everything its sources have committed.  Once a store build exists,
\* no chunk lands in what it reads at an id its window has already covered.
LandsAheadOfReaders ==
  [][\A b \in BuildId : landed'[b] # landed[b] =>
       \A r \in Created :
         ~ /\ IsStore(build[r].spec) /\ b <= build[r].to
           /\ Reads(build[r].spec, DatasetOf[build[b].spec])]_buildVars

\* The windows of a store spec leave no gap (_window_from, _window_to): all
\* that lies at or below the lower bound of a build of a store spec was in the
\* window (from, to] of an earlier build of the spec that landed every chunk of
\* its slice.  (Of a mart it is false: run marts_stopped.)
Delivered(b) == landed[b] = Landing(b) /\ build[b].mode \in WindowModes
CoveredBelow(s, n, id) ==
  \A i \in 1..n : \E d \in Created :
    /\ d < id /\ build[d].spec = s /\ Delivered(d)
    /\ build[d].from < i /\ i <= build[d].to
NoGap ==
  \A b \in Created :
    IsStore(build[b].spec) => CoveredBelow(build[b].spec, build[b].from, b)

\* What a step needs of the state before it, on the way to Exclusion,
\* LiveBuildKeepsJournal, LandsAheadOfReaders and NoGap:
\* a build in the journal has a row, and a supervisor a build and its claim,
CreatedHasRow == \A b \in Created : build[b] \in BuildRow
SupHasClaim == \A b \in BuildId : sup[b] # "none" => b \in Created \cap claims
\* what is pending on the journal concerns builds that cannot go on,
Dead(b) == b \in Created /\ sup[b] \notin Live
PendingOnDead ==
  /\ \A c \in Clients : cmd[c].kind = "fix" =>
       Dead(cmd[c].build) /\ status[cmd[c].build] \in {"fail", "fix"}
  /\ \A c \in Clients : cmd[c].kind = "stop" => cmd[c].build \in Created
  /\ \A b \in detached : Dead(b)
\* what the checks of a creation found still holds when it commits,
DraftChecked ==
  draft # NoRow =>
    /\ \A b \in Created :
         /\ b < draft.id
         /\ Conflict(draft.spec, build[b].spec) => ~Active(b)
         /\ IsStore(draft.spec) /\ Reads(draft.spec, DatasetOf[build[b].spec])
              => sup[b] \notin Live
    /\ IsStore(draft.spec) => /\ draft.to = draft.id
                              /\ CoveredBelow(draft.spec, draft.from, draft.id)
\* the window of a store build ends at its own id,
OwnWindow ==
  \A b \in Created : IsStore(build[b].spec) => build[b].to = b
\* the sources of a store build are dead below its id,
SourcesDead ==
  \A b, r \in Created :
    r > b /\ IsStore(build[r].spec)
          /\ Reads(build[r].spec, DatasetOf[build[b].spec])
      => sup[b] \notin Live
\* a build that does not exist has landed nothing, a done one all of its slice.
UncreatedIsEmpty == \A b \in BuildId \ Created : landed[b] = {}
DoneIsDelivered ==
  \A b \in BuildId : status[b] = "done" => landed[b] = Landing(b)

BuildsInv ==
  /\ BuildsTypeOK /\ CreatedHasRow /\ SupHasClaim
  /\ LiveBuildKeepsJournal /\ PendingOnDead
  /\ DraftChecked /\ Exclusion /\ OwnWindow /\ SourcesDead
  /\ UncreatedIsEmpty /\ DoneIsDelivered /\ NoGap

\* Once its rows move, or its end has begun, a build frees its claim
\* (_run_build, _cleanup) whatever fails on the way.
Settles ==
  \A b \in BuildId :
    sup[b] \in {"comp", "commit", "closing", "failing", "erroring", "leaving",
                "cleanup"} ~> b \notin claims

\* docs/model.md: only done and fix are final states of a build, so such a
\* build never changes its status again.
FinalIsFinal ==
  [][\A b \in BuildId :
       status[b] \in FinalStatuses => status'[b] = status[b]]_buildVars

\* docs/protocol.md: a live build is killed at once by stop.  A stop that has
\* found a build whose supervisor is at work ends with the build out of the
\* registry (stop_build, _run_build).
StopEndsRun ==
  \A c \in Clients, b \in BuildId :
    cmd[c] = [kind |-> "stop", build |-> b] /\ sup[b] \in Body
      ~> b \notin registry
=============================================================================
