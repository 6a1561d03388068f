---------------------------- MODULE BuildsProofs ----------------------------
(***************************************************************************)
(* Proofs about Builds, for every catalog, every number of builds, chunks, *)
(* clients and crashes.                                                    *)
(***************************************************************************)
EXTENDS Builds, TLAPS

\* The state keeps its types (_prepare, _run_build, stop_build, fix_build).
LEMMA TypeStep == BuildsTypeOK /\ [BuildsNext]_buildVars => BuildsTypeOK'
<1> SUFFICES ASSUME BuildsTypeOK, [BuildsNext]_buildVars
             PROVE  BuildsTypeOK'
  OBVIOUS
<1> USE BoundAssumption DEF BuildsTypeOK, BuildId, SupStates, Body, Statuses,
        ActiveStatuses, FinalStatuses
<1>1. ASSUME NEW s \in Specs, NEW m \in Modes, NEW f \in 0..MaxFlow,
             NEW openFlow \in BOOLEAN, NEW n \in Boundaries,
             BeginCreate(s, m, f, openFlow, n)
      PROVE  BuildsTypeOK'
  BY <1>1 DEF BeginCreate, BuildRow, WindowTo, Boundaries, Created
<1>2. CASE AbortCreate
  BY <1>2 DEF AbortCreate
<1>3. CASE CommitCreate
  BY <1>3 DEF CommitCreate, BuildRow
<1>4. ASSUME NEW b \in BuildId, Supervise(b)
      PROVE  BuildsTypeOK'
  <2>1. CASE Register(b)
    BY <2>1 DEF Register
  <2>2. CASE CancelCreate(b)
    BY <2>2 DEF CancelCreate
  <2>3. CASE Begin(b)
    BY <2>3 DEF Begin, SupMove
  <2>4. CASE JournalLoad(b) \/ JournalComp(b)
    BY <2>4 DEF JournalLoad, JournalComp, SupMove, Journal
  <2>5. CASE ChunksReady(b)
    BY <2>5 DEF ChunksReady, SupMove
  <2>6. CASE \E k \in Chunk : CommitChunk(b, k)
    BY <2>6 DEF CommitChunk
  <2>7. CASE JournalDone(b)
    BY <2>7 DEF JournalDone, SupMove, Journal
  <2>8. CASE Fail(b) \/ LoseFail(b)
    BY <2>8 DEF Fail, LoseFail
  <2>9. CASE JournalFail(b)
    BY <2>9 DEF JournalFail, Journal
  <2>10. CASE LateFail(b) \/ LoseLateFail(b)
    BY <2>10 DEF LateFail, LoseLateFail, Journal
  <2>11. CASE EnterCleanup(b) \/ EndCleanup(b)
    BY <2>11 DEF EnterCleanup, EndCleanup, SupMove
  <2> QED
    BY <1>4, <2>1, <2>2, <2>3, <2>4, <2>5, <2>6, <2>7, <2>8, <2>9, <2>10, <2>11
    DEF Supervise, Settle
<1>5. ASSUME NEW c \in Clients, Command(c)
      PROVE  BuildsTypeOK'
  <2> USE DEF Commands, Idle
  <2>1. cmd' \in [Clients -> Commands]
    <3>1. CASE StopAct(c) \/ FixAct(c)
      <4>1. Idle \in Commands /\ cmd' = [cmd EXCEPT ![c] = Idle]
        BY <3>1 DEF StopAct, FixAct
      <4> QED
        BY <4>1
    <3>2. ASSUME NEW b \in BuildId, StopRead(c, b) \/ FixRead(c, b)
          PROVE  cmd' \in [Clients -> Commands]
      <4>1. [kind |-> "stop", build |-> b] \in Commands
            /\ [kind |-> "fix", build |-> b] \in Commands
        OBVIOUS
      <4> QED
        BY <3>2, <4>1 DEF StopRead, FixRead
    <3> QED
      BY <1>5, <3>1, <3>2 DEF Command
  <2>2. CASE StopAct(c)
    <3> DEFINE b == cmd[c].build
    <3>1. b \in BuildId
      OBVIOUS
    <3>2. CASE StopRegistered(b)
      BY <2>1, <2>2, <3>1, <3>2 DEF StopAct, StopRegistered, CancelRun, Cancelled
    <3>3. CASE StopOrphan(b)
      BY <2>1, <2>2, <3>1, <3>3 DEF StopAct, StopOrphan, Journal
    <3>4. CASE StopRefused(b)
      BY <2>1, <2>2, <3>4 DEF StopAct, StopRefused
    <3> QED
      BY <2>2, <3>2, <3>3, <3>4 DEF StopAct
  <2>3. CASE FixAct(c)
    BY <2>1, <2>3 DEF FixAct, Journal
  <2>4. CASE \E b \in BuildId : StopRead(c, b) \/ FixRead(c, b)
    BY <2>1, <2>4 DEF StopRead, FixRead
  <2> QED
    BY <1>5, <2>2, <2>3, <2>4 DEF Command
<1>6. CASE Crash
  BY <1>6 DEF Crash, Commands, Idle
<1>7. CASE UNCHANGED buildVars
  BY <1>7 DEF buildVars, Created
<1> QED
  BY <1>1, <1>2, <1>3, <1>4, <1>5, <1>6, <1>7 DEF BuildsNext, Create
-----------------------------------------------------------------------------
(* Every step but the creation of a build is quiet: it adds no build, takes  *)
(* no build back to an active status or a live supervisor, and only adds     *)
(* chunks.                                                                   *)
Quiet ==
  /\ build' = build
  /\ draft' \in {draft, NoRow}
  /\ \A b \in BuildId :
       /\ status'[b] # "none" <=> status[b] # "none"
       /\ status'[b] \in ActiveStatuses => status[b] \in ActiveStatuses
       /\ sup'[b] \in Live => sup[b] \in Live
       /\ landed'[b] # landed[b] => sup[b] = "commit" /\ landed[b] # Landing(b)

\* What the journal, the claims and the pending commands owe each other.
JournalInv ==
  /\ SupHasClaim /\ LiveBuildKeepsJournal /\ PendingOnDead
  /\ UncreatedIsEmpty /\ DoneIsDelivered

LEMMA QuietSupervise ==
  ASSUME BuildsInv, NEW b \in BuildId, Supervise(b)
  PROVE  Quiet /\ JournalInv'
<1> USE DEF BuildsInv, BuildsTypeOK, Quiet, JournalInv, SupHasClaim,
        LiveBuildKeepsJournal, PendingOnDead, UncreatedIsEmpty,
        DoneIsDelivered, Dead, Created,
        Active, Live, Body, ActiveStatuses, Landing
<1>1. CASE Register(b)
  BY <1>1 DEF Register
<1>2. CASE CancelCreate(b)
  BY <1>2 DEF CancelCreate
<1>3. CASE Begin(b)
  BY <1>3 DEF Begin, SupMove
<1>4. CASE JournalLoad(b)
  BY <1>4 DEF JournalLoad, SupMove, Journal
<1>5. CASE JournalComp(b)
  BY <1>5 DEF JournalComp, SupMove, Journal
<1>6. CASE ChunksReady(b)
  BY <1>6 DEF ChunksReady, SupMove
<1>7. CASE \E k \in Chunk : CommitChunk(b, k)
  <2>1. status[b] \in ActiveStatuses /\ status' = status /\ build' = build
    BY <1>7 DEF CommitChunk
  <2>2. \A d \in BuildId \ {b} : landed'[d] = landed[d]
    BY <1>7 DEF CommitChunk
  <2>3. UncreatedIsEmpty'
    BY <2>1, <2>2
  <2>4. DoneIsDelivered'
    BY <1>7, <2>1, <2>2 DEF CommitChunk
  <2>5. landed[b] # Landing(b) /\ sup[b] = "commit"
    BY <1>7 DEF CommitChunk
  <2>6. Quiet
    BY <1>7, <2>1, <2>2, <2>5 DEF CommitChunk
  <2> QED
    BY <1>7, <2>1, <2>3, <2>4, <2>6 DEF CommitChunk
<1>8. CASE JournalDone(b)
  BY <1>8 DEF JournalDone, SupMove, Journal
<1>9. CASE Fail(b)
  BY <1>9 DEF Fail
<1>10. CASE JournalFail(b)
  BY <1>10 DEF JournalFail, Journal
<1>11. CASE LoseFail(b)
  BY <1>11 DEF LoseFail
<1>12. CASE LateFail(b)
  BY <1>12 DEF LateFail, Journal
<1>13. CASE LoseLateFail(b)
  BY <1>13 DEF LoseLateFail
<1>14. CASE EnterCleanup(b)
  BY <1>14 DEF EnterCleanup
<1>15. CASE EndCleanup(b)
  BY <1>15 DEF EndCleanup, SupMove
<1> QED
  BY <1>1, <1>2, <1>3, <1>4, <1>5, <1>6, <1>7, <1>8, <1>9, <1>10, <1>11, <1>12,
     <1>13, <1>14, <1>15 DEF Supervise, Settle

LEMMA QuietCommand ==
  ASSUME BuildsInv, NEW c \in Clients, Command(c)
  PROVE  Quiet /\ JournalInv'
<1> USE DEF BuildsInv, BuildsTypeOK, Quiet, JournalInv, SupHasClaim,
        LiveBuildKeepsJournal, PendingOnDead, UncreatedIsEmpty,
        DoneIsDelivered, Dead, Created,
        Active, Live, Body, ActiveStatuses, Landing, Commands, Idle
<1>1. CASE StopAct(c)
  <2> DEFINE b == cmd[c].build
  <2>1. b \in BuildId /\ status[b] # "none"
    BY <1>1 DEF StopAct
  <2>2. CASE StopRegistered(b)
    BY <1>1, <2>1, <2>2 DEF StopAct, StopRegistered, CancelRun, Cancelled
  <2>3. CASE StopOrphan(b)
    BY <1>1, <2>1, <2>3 DEF StopAct, StopOrphan, Journal
  <2>4. CASE StopRefused(b)
    BY <1>1, <2>4 DEF StopAct, StopRefused
  <2> QED
    BY <1>1, <2>2, <2>3, <2>4 DEF StopAct
<1>2. CASE FixAct(c)
  BY <1>2 DEF FixAct, Journal
<1>3. ASSUME NEW b \in BuildId, StopRead(c, b)
      PROVE  Quiet /\ JournalInv'
  BY <1>3 DEF StopRead
<1>4. ASSUME NEW b \in BuildId, FixRead(c, b)
      PROVE  Quiet /\ JournalInv'
  BY <1>4 DEF FixRead
<1> QED
  BY <1>1, <1>2, <1>3, <1>4 DEF Command

LEMMA QuietCrash ==
  ASSUME BuildsInv, AbortCreate \/ Crash \/ UNCHANGED buildVars
  PROVE  Quiet /\ JournalInv'
<1> USE DEF BuildsInv, BuildsTypeOK, Quiet, JournalInv, SupHasClaim,
        LiveBuildKeepsJournal, PendingOnDead, UncreatedIsEmpty,
        DoneIsDelivered, Dead, Created,
        Active, Live, Body, ActiveStatuses, Landing
<1>1. CASE AbortCreate
  BY <1>1 DEF AbortCreate
<1>2. CASE Crash
  BY <1>2 DEF Crash, Idle
<1>3. CASE UNCHANGED buildVars
  BY <1>3 DEF buildVars
<1> QED
  BY <1>1, <1>2, <1>3

\* The rest of the invariant about the locks, the windows and the readers.
LockInv ==
  /\ CreatedHasRow /\ DraftChecked /\ Exclusion /\ OwnWindow /\ SourcesDead
  /\ NoGap

LEMMA QuietKeepsLocks ==
  ASSUME BuildsInv, Quiet
  PROVE  LockInv'
<1> USE DEF BuildsInv, Quiet, Created
<1>1. Created' = Created
  OBVIOUS
<1>2. \A b \in Created : Delivered(b) => Delivered(b)'
  BY DEF Delivered, Landing
<1>4. CreatedHasRow'
  BY DEF CreatedHasRow
<1>5. DraftChecked'
  <2> SUFFICES ASSUME draft' # NoRow
               PROVE  DraftChecked'
    BY DEF DraftChecked
  <2>1. draft' = draft
    OBVIOUS
  <2>2. IsStore(draft.spec) => CoveredBelow(draft.spec, draft.from, draft.id)'
    BY <1>1, <1>2, <2>1 DEF DraftChecked, CoveredBelow
  <2> QED
    BY <1>1, <2>1, <2>2 DEF DraftChecked, Active, IsStore
<1>6. Exclusion'
  BY DEF Exclusion, Active
<1>7. OwnWindow' /\ SourcesDead'
  BY DEF OwnWindow, SourcesDead, IsStore
<1>8. NoGap'
  BY <1>1, <1>2 DEF NoGap, CoveredBelow, IsStore
<1> QED
  BY <1>4, <1>5, <1>6, <1>7, <1>8 DEF LockInv

\* The checks of _prepare, under the catalog lock, are what its commit needs.
LEMMA BeginKeepsLocks ==
  ASSUME BuildsInv, NEW s \in Specs, NEW m \in Modes,
         NEW f, NEW openFlow, NEW boundary,
         BeginCreate(s, m, f, openFlow, boundary)
  PROVE  LockInv' /\ JournalInv'
<1> USE CatalogAssumption DEF BuildsInv, BeginCreate, Created
<1> PICK last \in 0..(MaxBuild - 1), low \in 0..MaxBuild :
      /\ IsMax(last, Created)
      /\ IsMax(low, WindowBuilds(s))
      /\ draft' = [id |-> last + 1, spec |-> s, mode |-> m, flow |-> f,
                   from |-> low, to |-> WindowTo(s, f, last + 1, boundary)]
  OBVIOUS
<1>1. /\ draft'.id = last + 1 /\ draft'.spec = s /\ draft'.from = low
      /\ IsStore(s) => draft'.to = last + 1
  BY DEF WindowTo
<1>2. JournalInv'
  BY DEF JournalInv, SupHasClaim, LiveBuildKeepsJournal, PendingOnDead,
         UncreatedIsEmpty, DoneIsDelivered, Dead, Active, Landing
<1>3. CreatedHasRow' /\ Exclusion' /\ OwnWindow' /\ SourcesDead' /\ NoGap'
  BY DEF CreatedHasRow, Exclusion, OwnWindow, SourcesDead, NoGap, CoveredBelow,
         Active, Delivered, Landing, IsStore
<1>4. \A b \in Created : b < draft'.id
  BY <1>1 DEF IsMax, BuildId
<1>5. ASSUME NEW b \in Created, Conflict(s, build[b].spec)
      PROVE  ~Active(b)
  <2>1. build[b].spec \in Specs
    BY DEF CreatedHasRow, BuildRow
  <2>2. CASE s = build[b].spec
    BY <2>2 DEF NoOpenBuild, Open, Active
  <2>3. CASE IsStore(s) /\ Reads(s, DatasetOf[build[b].spec])
    BY <2>3 DEF FreeSources, Open, Active
  <2>4. CASE IsStore(build[b].spec) /\ Reads(build[b].spec, DatasetOf[s])
    BY <2>1, <2>4 DEF NoActiveReaders, IsStore, Reads
  <2> QED
    BY <1>5, <2>2, <2>3, <2>4 DEF Conflict
<1>6. ASSUME NEW b \in Created, IsStore(s), Reads(s, DatasetOf[build[b].spec])
      PROVE  sup[b] \notin Live
  BY <1>6 DEF FreeSources, Open, LiveBuildKeepsJournal, Active
<1>7. ASSUME IsStore(s)
      PROVE  CoveredBelow(s, low, last + 1)
  <2> SUFFICES ASSUME NEW i \in 1..low
               PROVE  \E d \in Created :
                        /\ d < last + 1 /\ build[d].spec = s /\ Delivered(d)
                        /\ build[d].from < i /\ i <= build[d].to
    BY DEF CoveredBelow
  <2>1. low \in Created /\ build[low].spec = s /\ Delivered(low)
    BY DEF IsMax, WindowBuilds, DoneIsDelivered, Delivered
  <2>2. build[low].from \in Nat /\ low < last + 1 /\ build[low].to = low
    BY <1>1, <1>4, <1>7, <2>1 DEF CreatedHasRow, BuildRow, OwnWindow
  <2>3. CASE build[low].from < i
    BY <2>1, <2>2, <2>3
  <2>4. CASE i <= build[low].from
    <3>1. PICK d \in Created : /\ d < low /\ build[d].spec = s /\ Delivered(d)
                               /\ build[d].from < i /\ i <= build[d].to
      BY <1>7, <2>1, <2>2, <2>4 DEF NoGap, CoveredBelow
    <3> QED
      BY <2>2, <3>1 DEF BuildId
  <2> QED
    BY <2>2, <2>3, <2>4
<1>8. DraftChecked'
  BY <1>1, <1>4, <1>5, <1>6, <1>7 DEF DraftChecked, CoveredBelow, Delivered,
     Landing, Active, IsStore
<1> QED
  BY <1>2, <1>3, <1>8 DEF LockInv

\* The new build is the only one that becomes active, and it has the largest id.
LEMMA CommitKeepsLocks ==
  ASSUME BuildsInv, BuildsTypeOK', CommitCreate
  PROVE  LockInv' /\ JournalInv'
<1> USE DEF BuildsInv, CommitCreate
<1> DEFINE n == draft.id
<1>1. n \in BuildId /\ draft \in BuildRow /\ n \notin Created
  BY DEF BuildsTypeOK, BuildRow, DraftChecked, BuildId
<1>2. /\ Created' = Created \cup {n}
      /\ build'[n] = draft
      /\ \A b \in Created : /\ build'[b] = build[b] /\ status'[b] = status[b]
                            /\ sup'[b] = sup[b] /\ b < n /\ b # n
  BY <1>1 DEF Created, BuildsTypeOK, DraftChecked
<1>3. \A b \in Created : Delivered(b) => Delivered(b)'
  BY <1>2 DEF Delivered, Landing
<1>4. CreatedHasRow'
  BY <1>1, <1>2 DEF CreatedHasRow
<1>5. DraftChecked'
  BY DEF DraftChecked
<1>6. Exclusion'
  <2> SUFFICES ASSUME NEW b \in Created', NEW d \in Created', b # d,
                      status'[b] \in ActiveStatuses,
                      status'[d] \in ActiveStatuses,
                      Conflict(build'[b].spec, build'[d].spec)
               PROVE  FALSE
    BY DEF Exclusion, Active, Conflict, IsStore, Reads
  <2>1. \A x \in Created : Conflict(draft.spec, build[x].spec) =>
                             status[x] \notin ActiveStatuses
    BY <1>1 DEF DraftChecked, Active
  <2>2. Conflict(build'[d].spec, build'[b].spec)
    BY DEF Conflict
  <2>3. CASE b \in Created /\ d \in Created
    BY <1>2, <2>3 DEF Exclusion, Active
  <2>4. CASE b = n /\ d \in Created
    BY <1>2, <2>1, <2>4
  <2>5. CASE d = n /\ b \in Created
    BY <1>2, <2>1, <2>2, <2>5
  <2> QED
    BY <1>2, <2>3, <2>4, <2>5
<1>7. SourcesDead'
  <2> SUFFICES ASSUME NEW b \in Created', NEW r \in Created', r > b,
                      IsStore(build'[r].spec),
                      Reads(build'[r].spec, DatasetOf[build'[b].spec])
               PROVE  sup'[b] \notin Live
    BY DEF SourcesDead, IsStore, Reads
  <2>1. CASE b \in Created /\ r \in Created
    BY <1>2, <2>1 DEF SourcesDead
  <2>2. CASE b \in Created /\ r = n
    BY <1>1, <1>2, <2>2 DEF DraftChecked
  <2>3. CASE b = n
    BY <1>1, <1>2, <2>3 DEF BuildId, Created
  <2> QED
    BY <1>2, <2>1, <2>2, <2>3
<1>8. NoGap'
  <2> SUFFICES ASSUME NEW b \in Created', IsStore(build'[b].spec),
                      NEW i \in 1..build'[b].from
               PROVE  \E d \in Created :
                        /\ d < b /\ build[d].spec = build'[b].spec
                        /\ Delivered(d) /\ build[d].from < i
                        /\ i <= build[d].to
    BY <1>2, <1>3 DEF NoGap, CoveredBelow, IsStore
  <2>1. CASE b \in Created
    BY <1>2, <2>1 DEF NoGap, CoveredBelow
  <2>2. CASE b = n
    BY <1>2, <2>2 DEF DraftChecked, CoveredBelow
  <2> QED
    BY <1>2, <2>1, <2>2
<1>9. JournalInv'
  BY <1>1, <1>2 DEF JournalInv, SupHasClaim, LiveBuildKeepsJournal,
     PendingOnDead, UncreatedIsEmpty, DoneIsDelivered, Dead, Active, Created, Live, Body,
     ActiveStatuses, Landing, BuildsTypeOK, BuildId
<1>10. OwnWindow'
  BY <1>1, <1>2 DEF OwnWindow, DraftChecked, IsStore
<1> QED
  BY <1>4, <1>5, <1>6, <1>7, <1>8, <1>9, <1>10 DEF LockInv

-----------------------------------------------------------------------------
LEMMA BuildsInvStep == BuildsInv /\ [BuildsNext]_buildVars => BuildsInv'
<1> SUFFICES ASSUME BuildsInv, [BuildsNext]_buildVars
             PROVE  BuildsInv'
  OBVIOUS
<1>1. BuildsTypeOK'
  BY TypeStep DEF BuildsInv
<1> SUFFICES LockInv' /\ JournalInv'
  BY <1>1 DEF BuildsInv, LockInv, JournalInv
<1>2. ASSUME NEW s \in Specs, NEW m \in Modes, NEW f \in 0..MaxFlow,
             NEW openFlow \in BOOLEAN, NEW n \in Boundaries,
             BeginCreate(s, m, f, openFlow, n)
      PROVE  LockInv' /\ JournalInv'
  BY <1>2, BeginKeepsLocks
<1>3. CASE CommitCreate
  BY <1>1, <1>3, CommitKeepsLocks
<1>4. ASSUME NEW b \in BuildId, Supervise(b)
      PROVE  LockInv' /\ JournalInv'
  BY <1>4, QuietSupervise, QuietKeepsLocks
<1>5. ASSUME NEW c \in Clients, Command(c)
      PROVE  LockInv' /\ JournalInv'
  BY <1>5, QuietCommand, QuietKeepsLocks
<1>6. CASE AbortCreate \/ Crash \/ UNCHANGED buildVars
  BY <1>6, QuietCrash, QuietKeepsLocks
<1> QED
  BY <1>2, <1>3, <1>4, <1>5, <1>6 DEF BuildsNext, Create

LEMMA BuildsInvInit == BuildsInit => BuildsInv
BY BoundAssumption DEF BuildsInit, BuildsInv, BuildsTypeOK, CreatedHasRow,
   SupHasClaim, LiveBuildKeepsJournal, PendingOnDead, DraftChecked, Exclusion,
   OwnWindow, SourcesDead, UncreatedIsEmpty, DoneIsDelivered, NoGap, Created,
   Active, Live, Body, BuildId,
   SupStates, Statuses, Commands, Idle, Dead, ActiveStatuses, FinalStatuses

\* The invariant of creation, supervisors, stop, fix and crashes.
THEOREM BuildsInvariant == BuildsSpec => []BuildsInv
BY BuildsInvInit, BuildsInvStep, PTL DEF BuildsSpec

\* The state keeps its types.
THEOREM BuildsTypes == BuildsSpec => []BuildsTypeOK
<1>1. BuildsInv => BuildsTypeOK
  BY DEF BuildsInv
<1> QED
  BY BuildsInvariant, <1>1, PTL

\* Builds of conflicting specs are never active together: the checks of
\* _prepare under the catalog lock are enough, however stops, fixes, late fail
\* rows and crashes fall between them.
THEOREM ExclusionHolds == BuildsSpec => []Exclusion
<1>1. BuildsInv => Exclusion
  BY DEF BuildsInv
<1> QED
  BY BuildsInvariant, <1>1, PTL

\* Nobody but its supervisor closes the journal of a build whose supervisor
\* may still land rows (stop_build and the claim).
THEOREM LiveJournalHolds == BuildsSpec => []LiveBuildKeepsJournal
<1>1. BuildsInv => LiveBuildKeepsJournal
  BY DEF BuildsInv
<1> QED
  BY BuildsInvariant, <1>1, PTL

\* The delta windows of a store spec leave no gap (_window_from, _window_to).
THEOREM NoGapHolds == BuildsSpec => []NoGap
<1>1. BuildsInv => NoGap
  BY DEF BuildsInv
<1> QED
  BY BuildsInvariant, <1>1, PTL

\* No chunk lands in a source at an id the window of a store build that reads
\* it has covered (_window_to).
THEOREM LandsAheadHolds == BuildsSpec => LandsAheadOfReaders
<1> DEFINE Ahead == \A b \in BuildId : landed'[b] # landed[b] =>
             \A r \in Created :
               ~ (/\ IsStore(build[r].spec) /\ b <= build[r].to
                  /\ Reads(build[r].spec, DatasetOf[build[b].spec]))
<1>1. ASSUME BuildsInv, Quiet
      PROVE  Ahead
  <2> SUFFICES ASSUME NEW b \in BuildId, landed'[b] # landed[b],
                      NEW r \in Created, IsStore(build[r].spec),
                      b <= build[r].to,
                      Reads(build[r].spec, DatasetOf[build[b].spec])
               PROVE  FALSE
    OBVIOUS
  <2>1. sup[b] = "commit" /\ b \in Created
    BY <1>1 DEF BuildsInv, Quiet, LiveBuildKeepsJournal, Live, Body, Active,
       Created, ActiveStatuses
  <2>2. b # r
    BY CatalogAssumption, <1>1 DEF BuildsInv, CreatedHasRow, BuildRow, Reads
  <2>3. r > b
    BY <1>1, <2>2 DEF BuildsInv, OwnWindow, Created, BuildId
  <2> QED
    BY <1>1, <2>1, <2>3 DEF BuildsInv, SourcesDead, Live, Body
<1>2. ASSUME BuildsInv, [BuildsNext]_buildVars
      PROVE  Ahead
  <2>1. CASE landed' = landed
    BY <2>1
  <2>2. CASE \E b \in BuildId : Supervise(b)
    BY <1>1, <1>2, <2>2, QuietSupervise
  <2>3. CASE \E c \in Clients : Command(c)
    BY <1>1, <1>2, <2>3, QuietCommand
  <2> QED
    BY <1>2, <2>1, <2>2, <2>3
    DEF BuildsNext, Create, BeginCreate, AbortCreate, CommitCreate, Crash,
        buildVars
<1>3. BuildsInv /\ [BuildsNext]_buildVars => [Ahead]_buildVars
  BY <1>2
<1> QED
  BY BuildsInvariant, <1>3, PTL DEF BuildsSpec, LandsAheadOfReaders

-----------------------------------------------------------------------------
(* Refinement.  What the mapping makes of the variables a step changes.      *)
LEMMA LivesMove ==
  ASSUME BuildsTypeOK, NEW b \in BuildId, NEW st, Journal(b, st)
  PROVE  Lives' = [Lives EXCEPT ![b] = LifeOf(st)]
BY DEF BuildsTypeOK, Journal, Lives, LifeOf

LEMMA LivesStay ==
  ASSUME BuildsTypeOK, NEW b \in BuildId, NEW st, Journal(b, st),
         LifeOf(status[b]) = LifeOf(st)
  PROVE  Lives' = Lives
BY DEF BuildsTypeOK, Journal, Lives, LifeOf

LEMMA RowsStay == build' = build => Rows' = Rows
BY DEF Rows

LEMMA FullsStay ==
  ASSUME build' = build, landed' = landed,
         \A b \in BuildId : status'[b] # "none" <=> status[b] # "none"
  PROVE  Fulls' = Fulls
BY DEF Fulls, Created, Landing

LEMMA LifeInit == BuildsInit => Life!Init
BY DEF BuildsInit, Life!Init, Life!BuildId, BuildId, Lives, Rows, Fulls, LifeOf,
   Created, ActiveStatuses

\* A step that writes no row, lands nothing and leaves the registry alone.
LEMMA Stutters ==
  ASSUME UNCHANGED <<status, build, landed, registry>>
  PROVE  UNCHANGED Life!lifeVars
BY DEF Life!lifeVars, Lives, Rows, Fulls, Created, Landing, LifeOf

\* The fail rows: of a supervisor, a late one, of an orphan.
LEMMA FailBreaks ==
  ASSUME BuildsInv, NEW b \in Created, Journal(b, "fail"),
         UNCHANGED <<build, landed, registry>>
  PROVE  Life!Break(b)
<1>1. b \in BuildId /\ status[b] \in Statuses \ {"none"}
  BY DEF BuildsInv, BuildsTypeOK, Created
<1>2. Lives' = [Lives EXCEPT ![b] = "fail"]
  BY <1>1, LivesMove DEF BuildsInv, LifeOf, ActiveStatuses
<1>3. Lives[b] \in {"active", "done", "fail", "fix"}
  BY <1>1 DEF Lives, LifeOf, Statuses, FinalStatuses, ActiveStatuses
<1>4. Rows' = Rows /\ Fulls' = Fulls
  BY <1>1, RowsStay, FullsStay DEF Journal, BuildsInv, BuildsTypeOK
<1> QED
  BY <1>2, <1>3, <1>4 DEF Life!Break, Life!Move

\* A supervisor moves its build: it enrols, lands the last chunk, finishes,
\* fails or leaves the registry, or nothing that can be seen happens.
LEMMA SuperviseLives ==
  ASSUME BuildsInv, NEW b \in BuildId, Supervise(b)
  PROVE  Life!Proceed(b) \/ UNCHANGED Life!lifeVars
<1> USE DEF Life!Proceed
<1>1. BuildsTypeOK /\ (sup[b] \in Live => b \in Created /\ Active(b))
  BY DEF BuildsInv, LiveBuildKeepsJournal, Created, Active, ActiveStatuses
<1>2. CASE Register(b)
  <2>1. UNCHANGED <<Lives, Rows, Fulls>>
    BY <1>2 DEF Register, Lives, Rows, Fulls, Created, Landing, LifeOf
  <2>2. Lives[b] = "active"
    BY <1>1, <1>2 DEF Register, Live, Lives, LifeOf, Active
  <2>3. CASE b \notin registry
    BY <1>2, <2>1, <2>2, <2>3 DEF Register, Life!Enroll, Life!Active
  <2>4. CASE b \in registry
    BY <1>2, <2>1, <2>4 DEF Register, Life!lifeVars
  <2> QED
    BY <2>3, <2>4
<1>3. CASE JournalLoad(b) \/ JournalComp(b)
  <2>1. Lives' = Lives
    BY <1>1, <1>3, LivesStay DEF JournalLoad, JournalComp, SupMove, Live, Body,
       LifeOf, Active, ActiveStatuses
  <2>2. Rows' = Rows /\ Fulls' = Fulls
    BY <1>1, <1>3, RowsStay, FullsStay
    DEF JournalLoad, JournalComp, SupMove, Live, Body, Journal, Created,
        BuildsTypeOK
  <2> QED
    BY <1>3, <2>1, <2>2 DEF JournalLoad, JournalComp, Life!lifeVars
<1>4. ASSUME NEW k \in Chunk, CommitChunk(b, k)
      PROVE  Life!Proceed(b) \/ UNCHANGED Life!lifeVars
  <2>1. UNCHANGED <<Lives, Rows, registry>>
    BY <1>4 DEF CommitChunk, Lives, Rows, LifeOf
  <2>2. b \in Created /\ Lives[b] = "active"
    BY <1>1, <1>4 DEF CommitChunk, Live, Body, Lives, LifeOf, Active
  <2>3. /\ \A d \in BuildId \ {b} : landed'[d] = landed[d]
        /\ Created' = Created /\ landed[b] # Landing(b) /\ Landing(b)' = Landing(b)
    BY <1>1, <1>4 DEF CommitChunk, Created, BuildsTypeOK, Landing
  <2>4. CASE landed'[b] = Landing(b)
    <3>1. Fulls' = Fulls \cup {b}
      BY <1>4, <2>2, <2>3, <2>4 DEF Fulls, Landing, CommitChunk, Created
    <3> QED
      BY <2>1, <2>2, <3>1 DEF Life!Land, Life!Active
  <2>5. CASE landed'[b] # Landing(b)
    <3>1. Fulls' = Fulls
      BY <1>4, <2>3, <2>5 DEF Fulls, Landing, CommitChunk, Created
    <3> QED
      BY <2>1, <3>1 DEF Life!lifeVars
  <2> QED
    BY <2>4, <2>5
<1>5. CASE JournalDone(b)
  <2>1. Lives' = [Lives EXCEPT ![b] = "done"] /\ Lives[b] = "active"
    BY <1>1, <1>5, LivesMove DEF JournalDone, SupMove, Live, Body, Lives, LifeOf,
       Active, ActiveStatuses
  <2>2. Rows' = Rows /\ Fulls' = Fulls
    BY <1>1, <1>5, RowsStay, FullsStay
    DEF JournalDone, SupMove, Live, Body, Journal, Created, BuildsTypeOK
  <2>3. b \in Fulls
    BY <1>1, <1>5 DEF JournalDone, SupMove, Live, Body, Fulls
  <2> QED
    BY <1>5, <2>1, <2>2, <2>3 DEF JournalDone, Life!Finish, Life!Move
<1>6. CASE JournalFail(b) \/ LateFail(b)
  <2>1. b \in Created
    BY <1>1, <1>6 DEF JournalFail, LateFail, BuildsInv, SupHasClaim,
       PendingOnDead, Dead
  <2> QED
    BY <1>6, <2>1, FailBreaks DEF JournalFail, LateFail
<1>7. CASE EnterCleanup(b)
  <2>1. UNCHANGED <<Lives, Rows, Fulls>>
    BY <1>7 DEF EnterCleanup, Lives, Rows, Fulls, Created, Landing, LifeOf
  <2>2. CASE b \in registry
    BY <1>7, <2>1, <2>2 DEF EnterCleanup, Life!Retire
  <2>3. CASE b \notin registry
    BY <1>7, <2>1, <2>3 DEF EnterCleanup, Life!lifeVars
  <2> QED
    BY <2>2, <2>3
<1>8. CASE \/ CancelCreate(b) \/ Begin(b) \/ ChunksReady(b) \/ Fail(b)
           \/ LoseFail(b) \/ LoseLateFail(b) \/ EndCleanup(b)
  BY <1>8, Stutters DEF CancelCreate, Begin, ChunksReady, Fail, LoseFail,
     LoseLateFail, EndCleanup
<1> QED
  BY <1>2, <1>3, <1>4, <1>5, <1>6, <1>7, <1>8 DEF Supervise, Settle

\* A stop closes an orphan, a fix fixes what failed; the rest is not seen.
LEMMA CommandLives ==
  ASSUME BuildsInv, NEW c \in Clients, Command(c)
  PROVE  (\E b \in BuildId : Life!Proceed(b)) \/ UNCHANGED Life!lifeVars
<1> DEFINE b == cmd[c].build
<1>1. b \in BuildId /\ BuildsTypeOK
  BY DEF BuildsInv, BuildsTypeOK, Commands
<1>2. CASE StopAct(c)
  <2>1. b \in Created
    BY <1>2 DEF StopAct, BuildsInv, PendingOnDead
  <2>2. CASE StopOrphan(b)
    BY <1>1, <1>2, <2>1, <2>2, FailBreaks DEF StopAct, StopOrphan, Life!Proceed
  <2>3. CASE StopRegistered(b) \/ StopRefused(b)
    BY <1>2, <2>3, Stutters DEF StopAct, StopRegistered, StopRefused
  <2> QED
    BY <1>2, <2>2, <2>3 DEF StopAct
<1>3. CASE FixAct(c)
  <2>1. status[b] \in {"fail", "fix"}
    BY <1>3 DEF FixAct, BuildsInv, PendingOnDead
  <2>2. Lives' = [Lives EXCEPT ![b] = "fix"]
    BY <1>1, <1>3, LivesMove DEF FixAct, LifeOf, ActiveStatuses
  <2>3. Lives[b] \in {"fail", "fix"}
    BY <1>1, <2>1 DEF Lives, LifeOf, ActiveStatuses
  <2>4. Rows' = Rows /\ Fulls' = Fulls
    BY <1>1, <1>3, <2>1, RowsStay, FullsStay DEF FixAct, Journal, BuildsTypeOK
  <2>5. Life!Fix(b)
    BY <1>3, <2>2, <2>3, <2>4 DEF FixAct, Life!Fix, Life!Move
  <2> QED
    BY <1>1, <2>5 DEF Life!Proceed
<1>4. CASE \E d \in BuildId : StopRead(c, d) \/ FixRead(c, d)
  BY <1>4, Stutters DEF StopRead, FixRead
<1> QED
  BY <1>2, <1>3, <1>4 DEF Command

\* A commit makes the build appear: its checks still hold (DraftChecked).
LEMMA CommitAppears ==
  ASSUME BuildsInv, CommitCreate
  PROVE  Life!Next
<1> USE DEF BuildsInv, CommitCreate
<1> DEFINE n == draft.id
           r == [spec |-> draft.spec, mode |-> draft.mode, flow |-> draft.flow]
<1>1. n \in BuildId /\ r \in Life!LifeRow /\ n \notin Created /\ draft # NoRow
  BY DEF BuildsTypeOK, BuildRow, DraftChecked, BuildId, Life!LifeRow
<1>2. Lives' = [Lives EXCEPT ![n] = "active"] /\ Lives[n] = "none"
  BY <1>1 DEF BuildsTypeOK, Lives, LifeOf, ActiveStatuses, Created
<1>3. Rows' = [Rows EXCEPT ![n] = r]
  BY <1>1 DEF BuildsTypeOK, Rows
<1>4. \A d \in Created :
        d < n /\ (Lives[d] = "active" => ~Life!Conflict(r.spec, Rows[d].spec))
  <2> SUFFICES ASSUME NEW d \in Created
               PROVE  d < n /\ (Lives[d] = "active"
                                  => ~Life!Conflict(r.spec, Rows[d].spec))
    OBVIOUS
  <2>1. d \in BuildId /\ d < n /\ (Conflict(r.spec, build[d].spec) => ~Active(d))
    BY <1>1 DEF DraftChecked, Created
  <2>2. Rows[d].spec = build[d].spec
    BY <2>1, BoundAssumption DEF CreatedHasRow, Rows
  <2>3. Lives[d] = "active" => Active(d)
    BY <2>1 DEF Lives, LifeOf, Active, BuildsTypeOK, Statuses, FinalStatuses
  <2>4. r.spec \in Specs /\ build[d].spec \in Specs
    BY <1>1 DEF BuildsTypeOK, BuildRow, CreatedHasRow
  <2>5. Life!Conflict(r.spec, build[d].spec) => Conflict(r.spec, build[d].spec)
    BY <2>4 DEF Life!Conflict, Conflict
  <2> QED
    BY <2>1, <2>2, <2>3, <2>5
<1>5. Life!Created = Created
  BY DEF Life!Created, Life!BuildId, BuildId, Created, Lives, LifeOf,
     ActiveStatuses
<1>6. Fulls' = IF r.mode = "skip" THEN Fulls \cup {n} ELSE Fulls
  <2>1. Created' = Created \cup {n} /\ build'[n] = draft
    BY <1>1 DEF Created, BuildsTypeOK
  <2>2. \A d \in Created : build'[d] = build[d]
    BY <1>1 DEF Created, BuildsTypeOK
  <2>3. landed[n] = {} /\ landed' = landed
    BY <1>1 DEF UncreatedIsEmpty
  <2>4. Chunk # {}
    BY BoundAssumption DEF Chunk
  <2>5. \A d \in Created : d \in Fulls' <=> d \in Fulls
    BY <2>1, <2>2, <2>3 DEF Fulls, Landing
  <2>6. n \in Fulls' <=> r.mode = "skip"
    BY <2>1, <2>3, <2>4 DEF Fulls, Landing
  <2>7. Fulls' \subseteq Created \cup {n} /\ Fulls \subseteq Created
    BY <2>1 DEF Fulls
  <2>8. CASE r.mode = "skip"
    <3>1. Fulls' = Fulls \cup {n}
      BY <2>5, <2>6, <2>7, <2>8
    <3> QED
      BY <2>8, <3>1
  <2>9. CASE r.mode # "skip"
    <3>1. Fulls' = Fulls
      BY <2>5, <2>6, <2>7, <2>9
    <3> QED
      BY <2>9, <3>1
  <2> QED
    BY <2>8, <2>9
<1>7. Life!Appear(n, r)
  BY <1>2, <1>3, <1>4, <1>5, <1>6 DEF Life!Appear, Life!Move, Life!Active
<1> QED
  BY <1>1, <1>7 DEF Life!Next, Life!BuildId, BuildId

LEMMA LifeStep ==
  BuildsInv /\ [BuildsNext]_buildVars => [Life!Next]_(Life!lifeVars)
<1> SUFFICES ASSUME BuildsInv, [BuildsNext]_buildVars
             PROVE  Life!Next \/ UNCHANGED Life!lifeVars
  OBVIOUS
<1> USE DEF Life!Next, Life!BuildId, BuildId
<1>1. CASE \E s \in Specs, m \in Modes, f \in 0..MaxFlow, openFlow \in BOOLEAN,
             n \in Boundaries : BeginCreate(s, m, f, openFlow, n)
  BY <1>1, Stutters DEF BeginCreate
<1>2. CASE CommitCreate
  BY <1>2, CommitAppears
<1>3. CASE \E b \in BuildId : Supervise(b)
  BY <1>3, SuperviseLives
<1>4. CASE \E c \in Clients : Command(c)
  BY <1>4, CommandLives
<1>5. CASE Crash
  <2>1. UNCHANGED <<Lives, Rows, Fulls>>
    BY <1>5 DEF Crash, Lives, Rows, Fulls, Created, Landing, LifeOf
  <2> QED
    BY <1>5, <2>1 DEF Crash, Life!Restart
<1>6. CASE AbortCreate \/ UNCHANGED buildVars
  BY <1>6, Stutters DEF AbortCreate, buildVars
<1> QED
  BY <1>1, <1>2, <1>3, <1>4, <1>5, <1>6 DEF BuildsNext, Create

\* Creation, supervisors, stop, fix and crashes implement the life of builds
\* that flows and clients rely on.
THEOREM LifeImplemented == BuildsSpec => ImplementsLife
BY BuildsInvariant, LifeInit, LifeStep, PTL
DEF BuildsSpec, ImplementsLife, Life!Spec
=============================================================================
