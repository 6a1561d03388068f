---------------------------- MODULE MartsProofs ----------------------------
(***************************************************************************)
(* Proofs about Marts, for any specs, plans, clients and any number of     *)
(* flows, builds, commands and crashes: what a mart reads has come to rest *)
(* although it takes no lock.                                              *)
(***************************************************************************)
EXTENDS Marts, FlowsProofs, WellFoundedInduction

-----------------------------------------------------------------------------
(* The last build of a set.                                                *)

Below == {p \in Nat \X Nat : p[1] < p[2]}

LEMMA BelowIsWellFounded == IsWellFoundedOn(Below, Nat)
<1>1. Below = OpToRel(<, Nat)
  BY DEF Below, OpToRel
<1> QED
  BY <1>1, NatLessThanWellFounded

\* A bounded set of numbers has a greatest one: its mirror has a least one.
LEMMA GreatestExists ==
  ASSUME NEW N \in Nat, NEW S \in SUBSET (0..N), S # {}
  PROVE  \E n \in S : \A i \in S : i <= n
<1> DEFINE T == {N - i : i \in S}
<1>1. T \subseteq Nat /\ T # {}
  <2>1. PICK i \in S : TRUE
    OBVIOUS
  <2>2. N - i \in T
    OBVIOUS
  <2>3. \A k \in S : N - k \in Nat
    OBVIOUS
  <2> QED
    BY <2>2, <2>3
<1>2. PICK x \in T : \A y \in T : <<y, x>> \notin Below
  BY <1>1, BelowIsWellFounded, WFMin
<1>3. PICK n \in S : x = N - n
  OBVIOUS
<1>4. ASSUME NEW i \in S PROVE i <= n
  <2>1. <<N - i, x>> \notin Below
    BY <1>2
  <2>2. N - i \in Nat /\ x \in Nat
    BY <1>1
  <2>3. ~(N - i < x)
    BY <2>1, <2>2 DEF Below
  <2> QED
    BY <1>3, <2>3
<1> QED
  BY <1>4

LEMMA LastIs ==
  ASSUME NEW S \in SUBSET Created
  PROVE  Last(S) \in S \cup {0} /\ \A i \in S : i <= Last(S)
<1>1. S \cup {0} \in SUBSET (0..MaxBuild)
  BY FlowAssumption DEF Created, BuildId
<1>2. \E n \in S \cup {0} : \A i \in S \cup {0} : i <= n
  BY <1>1, GreatestExists, FlowAssumption
<1>3. \E n \in S \cup {0} : \A i \in S : i <= n
  BY <1>2
<1> QED
  BY <1>3 DEF Last

LEMMA BoundsAre ==
  ASSUME NEW s
  PROVE  /\ WindowFrom(s) \in Created \cup {0}
         /\ Boundary \in {b \in Created :
                            /\ row[b].flow # 0
                            /\ flow[row[b].flow].status = "done"} \cup {0}
<1>1. {b \in Created : /\ row[b].spec = s /\ row[b].mode \in WindowModes
                       /\ life[b] = "done"} \in SUBSET Created
  OBVIOUS
<1>2. {b \in Created : /\ row[b].flow # 0
                       /\ flow[row[b].flow].status = "done"} \in SUBSET Created
  OBVIOUS
<1>3. WindowFrom(s) \in Created \cup {0}
  BY <1>1, LastIs DEF WindowFrom
<1> QED
  BY <1>2, <1>3, LastIs DEF Boundary

-----------------------------------------------------------------------------
(* What the steps of flows do to builds.                                   *)

\* A step that adds no build; rows land for active builds only.
Still ==
  /\ Quiet
  /\ \A b \in full' \ full : Active(b)

\* Build b appears, in row r: by hand, or for the step of a flow that conducts
\* and owns no active build.
Adds(b, r) ==
  /\ Appear(b, r)
  /\ r.flow # 0 => /\ r.flow \in FlowId /\ Conducts(r.flow)
                   /\ \A d \in BuildId : ~Concerns(d, r.flow)

LEMMA StillSteps ==
  ASSUME FlowsTypeOK, NEW b \in BuildId,
         \/ Land(b) \/ Finish(b) \/ Break(b) \/ Fix(b) \/ Retire(b)
         \/ UNCHANGED lifeVars
  PROVE  Still
<1>1. Quiet
  BY QuietSteps, StaysQuiet
<1>2. \A d \in full' \ full : Active(d)
  BY DEF Land, Finish, Break, Fix, Retire, lifeVars
<1> QED
  BY <1>1, <1>2 DEF Still

LEMMA CreateStepAdds ==
  ASSUME FlowsInv, NEW f \in FlowId, CreateStep(f)
  PROVE  \E b \in BuildId, r \in LifeRow : Adds(b, r)
<1> DEFINE s == flow[f]
           step == CurrentStep(f)
<1>1. s \in FlowState /\ s.at = "creating" /\ s.pos <= Len(s.plan)
  BY FlowFacts DEF CreateStep, At
<1>2. step \in Step
  BY <1>1, StepIsIn
<1> DEFINE r == [spec |-> step.spec, mode |-> step.mode, flow |-> f]
<1>3. r \in LifeRow /\ r.flow = f
  BY <1>2 DEF Step, LifeRow, FlowId
<1>4. PICK b \in BuildId : Appear(b, r)
  BY DEF CreateStep, Insert
<1>5. Conducts(f) /\ \A d \in BuildId : ~Concerns(d, f)
  BY <1>1, OwnsIs DEF Conducts, Conducting
<1> HIDE DEF r
<1> QED
  BY <1>3, <1>4, <1>5 DEF Adds

LEMMA StepKinds ==
  ASSUME FlowsInv, [FlowsNext]_allVars
  PROVE  Still \/ \E b \in BuildId, r \in LifeRow : Adds(b, r)
<1> USE DEF FlowsInv
<1>1. UNCHANGED lifeVars => Still
  BY StaysQuiet DEF Still, lifeVars
<1>2. ASSUME NEW f \in FlowId, FlowStep(f)
      PROVE  Still \/ \E b \in BuildId, r \in LifeRow : Adds(b, r)
  <2>1. CASE CreateStep(f)
    BY <2>1, CreateStepAdds
  <2>2. ASSUME NEW b \in BuildId, RegisterStep(f, b) PROVE Still
    BY <2>2 DEF RegisterStep, Enroll, Still, Quiet, FlowsTypeOK, Created, Active
  <2>3. CASE SystemFix(f)
    <3>1. flow[f].build \in BuildId
      BY <2>3, FlowFacts DEF SystemFix, Created
    <3> QED
      BY <2>3, <3>1, StillSteps DEF SystemFix
  <2>4. CASE \/ CreateFlow(f) \/ RegisterFlow(f) \/ CancelCreateFlow(f)
             \/ BeginFlow(f) \/ Turn(f) \/ FlowError(f) \/ LoseStop(f)
    <3>1. UNCHANGED lifeVars
      BY <2>4
      DEF CreateFlow, RegisterFlow, CancelCreateFlow, BeginFlow, Turn, QueuePassed,
          QueueWaits, QueueReconciles, QueueSees, FlowError, LoseStop, Go, Conduct
    <3> QED
      BY <1>1, <3>1
  <2>5. CASE \/ PassDrainGate(f) \/ KeepDraining(f) \/ StartConducting(f)
             \/ PassGate(f) \/ StepRefused(f) \/ ReportStep(f)
             \/ StepDone(f) \/ StepFailed(f) \/ StepFixed(f) \/ FlowDone(f)
             \/ \E p \in Plans : MakePlan(f, p)
    <3>1. UNCHANGED lifeVars
      BY <2>5
      DEF PassDrainGate, KeepDraining, StartConducting, PassGate, StepRefused,
          ReportStep, StepDone, StepFailed, StepFixed, FlowDone, MakePlan, Go, Conduct
    <3> QED
      BY <1>1, <3>1
  <2>6. CASE \/ KillActive(f) \/ NothingToKill(f) \/ NoSystemFix(f)
             \/ WriteStop(f) \/ LeaveFlow(f) \/ FreeFlow(f)
    <3>1. UNCHANGED lifeVars
      BY <2>6
      DEF KillActive, NothingToKill, NoSystemFix, WriteStop, LeaveFlow, FreeFlow,
          Go, Conduct
    <3> QED
      BY <1>1, <3>1
  <2> QED
    BY <1>2, <2>1, <2>2, <2>3, <2>4, <2>5, <2>6 DEF FlowStep, Wave, EndFlow
<1>3. ASSUME NEW c \in Clients, Command(c) PROVE Still
  <2>1. UNCHANGED lifeVars
    BY <1>3
    DEF Command, StopFlowRead, StopFlowAct, PauseFlow, ResumeFlow, PauseRow,
        ResumeRow, LoseRow, Say, Said
  <2> QED
    BY <1>1, <2>1
<1>4. CASE BuildStep
  <2>1. ASSUME NEW b \in BuildId,
               Land(b) \/ Finish(b) \/ Break(b) \/ Fix(b) \/ Retire(b)
        PROVE  Still
    BY <2>1, StillSteps
  <2>2. ASSUME NEW s \in Specs, NEW m \in Modes, CreateManual(s, m)
        PROVE  \E b \in BuildId, r \in LifeRow : Adds(b, r)
    <3> DEFINE r == [spec |-> s, mode |-> m, flow |-> 0]
    <3>1. PICK b \in BuildId : Appear(b, r)
      BY <2>2 DEF CreateManual, Insert
    <3>2. r \in LifeRow /\ r.flow = 0
      BY FlowAssumption DEF LifeRow
    <3> HIDE DEF r
    <3> QED
      BY <3>1, <3>2 DEF Adds
  <2> QED
    BY <1>4, <2>1, <2>2 DEF BuildStep
<1>5. CASE Crash
  BY <1>5 DEF Crash, Restart, Still, Quiet, FlowsTypeOK, Created, Active
<1>6. CASE UNCHANGED allVars
  BY <1>1, <1>6 DEF allVars
<1> QED
  BY <1>2, <1>3, <1>4, <1>5, <1>6 DEF FlowsNext

-----------------------------------------------------------------------------
(* Only FlowDone writes done, when the flow owns no active build.          *)

\* No flow is newly done.
NoneDone ==
  \A f \in FlowId : flow'[f].status = "done" => flow[f].status = "done"

\* The record of one flow changes, to a status that is not newly done.
LEMMA OneStatus ==
  ASSUME FlowsTypeOK, NEW f \in FlowId, NEW r, flow' = [flow EXCEPT ![f] = r],
         r.status = flow[f].status \/ r.status # "done"
  PROVE  NoneDone
BY DEF FlowsTypeOK, NoneDone

LEMMA EndStatus ==
  ASSUME NEW s \in FlowState
  PROVE  /\ Finishing(s).status = s.status /\ Finished(s).status = s.status
         /\ [Finished(s) EXCEPT !.status = "stop"].status = "stop"
         /\ Left(s).status = s.status /\ Cancelled(s).status = s.status
<1>1. Finishing(s).status = s.status
  BY DEF Finishing, NewFlow
<1>2. /\ Finished(s).status = s.status
      /\ [Finished(s) EXCEPT !.status = "stop"].status = "stop"
  BY DEF Finished, FlowState
<1>3. Left(s).status = s.status
  BY DEF Left, NewFlow
<1>4. Cancelled(s).status = s.status
  <2>1. CASE s.at \in Queued \cup Conducting \cup {"closing"}
    <3>1. Cancelled(s) = Finishing(s)
      BY <2>1 DEF Cancelled, Queued, Conducting
    <3> QED
      BY <1>1, <3>1
  <2>2. CASE s.at \notin Queued \cup Conducting \cup {"closing"}
    BY <2>2 DEF Cancelled, FlowState
  <2> QED
    BY <2>1, <2>2
<1> QED
  BY <1>1, <1>2, <1>3, <1>4

LEMMA DoneKinds ==
  ASSUME FlowsInv, [FlowsNext]_allVars
  PROVE  \/ NoneDone
         \/ \E f \in FlowId :
              /\ \A g \in FlowId \ {f} : flow'[g] = flow[g]
              /\ flow'[f].at \notin Living
              /\ UNCHANGED lifeVars
              /\ \A b \in BuildId : ~Concerns(b, f)
<1> USE DEF FlowsInv
<1>0. \A f \in FlowId : flow[f] \in FlowState
  BY DEF FlowsTypeOK
<1>1. flow' = flow => NoneDone
  BY DEF NoneDone
<1>2. ASSUME NEW f \in FlowId, FlowStep(f), ~FlowDone(f) PROVE NoneDone
  <2> DEFINE s == flow[f]
  <2>1. CASE QueueReconciles(f)
    <3>1. s.ahead \in FlowId
      BY <2>1, FlowFacts, FlowAssumption DEF QueueReconciles, FlowState, FlowId
    <3>2. flow' = [flow EXCEPT ![s.ahead].status = "stop", ![f].ahead = 0]
      BY <2>1 DEF QueueReconciles
    <3> QED
      BY <1>0, <3>1, <3>2 DEF NoneDone, FlowsTypeOK, FlowState
  <2>2. CASE CreateFlow(f)
    <3>1. [NewFlow EXCEPT !.status = "wait", !.at = "committed"].status = "wait"
      BY DEF NewFlow
    <3> QED
      BY <2>2, <3>1, OneStatus DEF CreateFlow, Conduct
  <2>3. CASE FlowError(f) \/ WriteStop(f) \/ LoseStop(f) \/ LeaveFlow(f)
    BY <1>0, <2>3, EndStatus, OneStatus
    DEF FlowError, WriteStop, LoseStop, LeaveFlow, Conduct
  <2>4. ASSUME NEW p, Go(f, p) PROVE NoneDone
    <3>1. [s EXCEPT !.at = p].status = s.status
      BY <1>0 DEF FlowState
    <3> QED
      BY <2>4, <3>1, OneStatus DEF Go, Conduct
  <2>5. CASE \/ RegisterFlow(f) \/ CancelCreateFlow(f) \/ BeginFlow(f)
             \/ QueuePassed(f) \/ PassDrainGate(f) \/ KeepDraining(f)
             \/ PassGate(f) \/ FreeFlow(f)
    BY <2>4, <2>5
    DEF RegisterFlow, CancelCreateFlow, BeginFlow, QueuePassed, PassDrainGate,
        KeepDraining, PassGate, FreeFlow
  <2>6. CASE QueueWaits(f) \/ \E g \in FlowId : QueueSees(f, g)
    <3>1. PICK g : Conduct(f, [s EXCEPT !.ahead = g])
      BY <2>6 DEF QueueWaits, QueueSees
    <3>2. [s EXCEPT !.ahead = g].status = s.status
      BY <1>0 DEF FlowState
    <3> QED
      BY <3>1, <3>2, OneStatus DEF Conduct
  <2>7. CASE StartConducting(f) \/ \E p \in Plans : MakePlan(f, p)
    <3>1. /\ [s EXCEPT !.at = "plan", !.started = TRUE].status = s.status
          /\ \A p : [s EXCEPT !.at = "step", !.status = "exec", !.plan = p].status = "exec"
      BY <1>0 DEF FlowState
    <3> QED
      BY <2>7, <3>1, OneStatus DEF StartConducting, MakePlan, Conduct
  <2>8. CASE CreateStep(f)
    <3>1. /\ [s EXCEPT !.at = "inserting"].status = s.status
          /\ flow' = [flow EXCEPT ![f] = [s EXCEPT !.at = "inserting"]]
      BY <1>0, <2>8 DEF FlowState, CreateStep
    <3> QED
      BY <3>1, OneStatus
  <2>9. CASE StepRefused(f)
    <3> DEFINE r == [s EXCEPT !.at = "step", !.told = TRUE,
                              !.status = IF s.told THEN @ ELSE "exec"]
    <3>1. r.status \in {s.status, "exec"}
      BY <1>0 DEF FlowState
    <3>2. Conduct(f, r)
      BY <2>9 DEF StepRefused
    <3> HIDE DEF r
    <3> QED
      BY <3>1, <3>2, OneStatus DEF Conduct
  <2>10. ASSUME NEW b \in BuildId, RegisterStep(f, b) PROVE NoneDone
    <3>1. [s EXCEPT !.at = "report", !.build = b, !.told = FALSE].status = s.status
      BY <1>0 DEF FlowState
    <3>2. flow' = [flow EXCEPT ![f] = [s EXCEPT !.at = "report", !.build = b,
                                                !.told = FALSE]]
      BY <2>10 DEF RegisterStep
    <3> QED
      BY <3>1, <3>2, OneStatus
  <2>11. CASE ReportStep(f) \/ StepFailed(f)
    <3>1. \A p : [s EXCEPT !.at = p, !.status = "exec"].status = "exec"
      BY <1>0 DEF FlowState
    <3> QED
      BY <2>11, <3>1, OneStatus DEF ReportStep, StepFailed, Conduct
  <2>12. CASE StepDone(f) \/ StepFixed(f)
    <3>1. /\ [s EXCEPT !.at = "step", !.pos = @ + 1, !.build = 0].status = s.status
          /\ [s EXCEPT !.at = "step", !.build = 0].status = s.status
      BY <1>0 DEF FlowState
    <3> QED
      BY <2>12, <3>1, OneStatus DEF StepDone, StepFixed, Conduct
  <2>13. CASE KillActive(f) \/ NothingToKill(f) \/ SystemFix(f) \/ NoSystemFix(f)
    <3>1. \A p : [s EXCEPT !.fin = p].status = s.status
      BY <1>0 DEF FlowState
    <3>2. PICK p : flow' = [flow EXCEPT ![f] = [s EXCEPT !.fin = p]]
      BY <2>13
      DEF KillActive, NothingToKill, SystemFix, NoSystemFix, Conduct
    <3> QED
      BY <3>1, <3>2, OneStatus
  <2> QED
    BY <1>2, <2>1, <2>2, <2>3, <2>5, <2>6, <2>7, <2>8, <2>9, <2>10, <2>11,
       <2>12, <2>13
    DEF FlowStep, Turn, Wave, EndFlow
<1>3. ASSUME NEW f \in FlowId, FlowDone(f)
      PROVE  /\ \A g \in FlowId \ {f} : flow'[g] = flow[g]
             /\ flow'[f].at \notin Living
             /\ UNCHANGED lifeVars
             /\ \A b \in BuildId : ~Concerns(b, f)
  <2>1. /\ flow[f].at = "step" /\ UNCHANGED lifeVars
        /\ flow' = [flow EXCEPT ![f] = [flow[f] EXCEPT !.at = "closing",
                                                       !.status = "done"]]
    BY <1>3 DEF FlowDone, At, Conduct, lifeVars
  <2>2. \A b \in BuildId : ~Concerns(b, f)
    BY <2>1, OwnsIs DEF Conducting
  <2>3. flow'[f].at = "closing" /\ \A g \in FlowId \ {f} : flow'[g] = flow[g]
    BY <1>0, <2>1 DEF FlowsTypeOK, FlowState
  <2> QED
    BY <2>1, <2>2, <2>3 DEF Living, Early, Queued, Conducting
<1>4. ASSUME NEW c \in Clients, Command(c) PROVE NoneDone
  <2> DEFINE h == cmd[c].flow
  <2>1. h \in FlowId
    BY DEF FlowsTypeOK, Commands
  <2>2. ASSUME NEW f \in FlowId, NEW r, flow' = [flow EXCEPT ![f] = r],
               \/ r.status = flow[f].status
               \/ r.status # "done"
        PROVE  NoneDone
    BY <2>2, OneStatus
  <2>3. \A f \in FlowId :
          /\ \A p \in BOOLEAN : [flow[f] EXCEPT !.paused = p].status = flow[f].status
          /\ \A st : [flow[f] EXCEPT !.status = st].status = st
          /\ Cancelled(flow[f]).status = flow[f].status
    BY <1>0, EndStatus DEF FlowState
  <2>4. ASSUME NEW f \in FlowId,
               StopFlowRead(c, f) \/ PauseFlow(c, f) \/ ResumeFlow(c, f)
        PROVE  NoneDone
    BY <2>2, <2>3, <2>4 DEF StopFlowRead, PauseFlow, ResumeFlow, Say
  <2>5. CASE StopFlowAct(c) \/ LoseRow(c)
    BY <2>1, <2>2, <2>3, <2>5 DEF StopFlowAct, LoseRow, Said
  <2>6. CASE PauseRow(c)
    <3>1. flow' = [flow EXCEPT ![h] = [flow[h] EXCEPT !.status = "hold"]]
      BY <2>6 DEF PauseRow, Said
    <3>2. [flow[h] EXCEPT !.status = "hold"].status = "hold"
      BY <2>1, <2>3
    <3> QED
      BY <2>1, <2>2, <3>1, <3>2
  <2>7. CASE ResumeRow(c)
    <3>1. PICK st \in {"exec", "wait"} :
            flow' = [flow EXCEPT ![h] = [flow[h] EXCEPT !.status = st]]
      <4>1. CASE flow[h].started
        BY <2>7, <4>1 DEF ResumeRow, Said
      <4>2. CASE ~flow[h].started
        BY <2>7, <4>2 DEF ResumeRow, Said
      <4> QED
        BY <4>1, <4>2
    <3> QED
      BY <2>1, <2>2, <2>3, <3>1
  <2> QED
    BY <1>4, <2>4, <2>5, <2>6, <2>7 DEF Command
<1>5. CASE BuildStep \/ UNCHANGED allVars
  BY <1>1, <1>5 DEF BuildStep, allVars
<1>6. CASE Crash
  <2>1. \A f \in FlowId : flow'[f] = [NewFlow EXCEPT !.status = flow[f].status]
    BY <1>6 DEF Crash
  <2> QED
    BY <2>1 DEF NoneDone, NewFlow
<1> QED
  BY <1>2, <1>3, <1>4, <1>5, <1>6 DEF FlowsNext

-----------------------------------------------------------------------------
(* The invariant.                                                          *)

RowsKnown == \A b \in Created : row[b] \in LifeRow

\* A window ends at a build that existed when it was given, or at none.
WindowKnown == \A r \in Created : window[r].to \in Created \cup {0}

\* Behind a build of a wave the stores are at rest, whatever came of the wave.
WaveClears ==
  \A n, b \in Created : row[n].flow # 0 /\ b < n /\ IsStore(b) => ~Active(b)

\* The builds of a flow that is done are at rest.
DoneRests ==
  \A b \in Created : /\ row[b].flow # 0
                     /\ flow[row[b].flow].status = "done"
                     => ~Active(b)

MartsInv ==
  /\ FlowsInv /\ MartsTypeOK
  /\ RowsKnown /\ WindowKnown /\ WaveClears /\ DoneRests /\ MartReadsSettled

LEMMA MartsInitInv == MartsInit => MartsInv
<1> SUFFICES ASSUME MartsInit PROVE MartsInv
  OBVIOUS
<1>1. FlowsInv /\ Created = {}
  BY InitInv DEF MartsInit, FlowsInit, Init, Created
<1>2. MartsTypeOK
  BY FlowAssumption DEF MartsInit, MartsTypeOK, NoWindow
<1> QED
  BY <1>1, <1>2
  DEF MartsInv, RowsKnown, WindowKnown, WaveClears, DoneRests, MartReadsSettled,
      Marts

\* The windows of builds that are there stay, and a new one ends at the build
\* itself, or for a mart built by hand at the boundary.
LEMMA WindowsAre ==
  ASSUME FlowsInv, MartsTypeOK, GiveWindows
  PROVE  /\ MartsTypeOK'
         /\ \A b \in Created : window'[b] = window[b]
         /\ \A b \in BuildId : life[b] = "none" /\ life'[b] # "none" =>
              window'[b].to = WindowTo(row'[b], b)
<1>1. Created \cup {0} \subseteq 0..MaxBuild /\ BuildId \subseteq 0..MaxBuild
  BY FlowAssumption DEF Created, BuildId
<1>2. /\ \A s : WindowFrom(s) \in 0..MaxBuild
      /\ Boundary \in 0..MaxBuild
  BY <1>1, BoundsAre
<1>3. \A b \in BuildId : WindowTo(row'[b], b) \in 0..MaxBuild
  BY <1>1, <1>2 DEF WindowTo
<1> HIDE DEF Boundary
<1> QED
  BY <1>2, <1>3 DEF GiveWindows, MartsTypeOK, Created

LEMMA StillMarts ==
  ASSUME MartsInv, GiveWindows, Still
  PROVE  RowsKnown' /\ WindowKnown' /\ WaveClears' /\ MartReadsSettled'
<1>1. /\ Created' = Created /\ row' = row
      /\ \A b \in Created : Active(b)' => Active(b)
  BY DEF Still, Quiet, Created
<1>2. \A b \in Created : window'[b] = window[b]
  BY WindowsAre DEF MartsInv
<1> QED
  BY <1>1, <1>2
  DEF MartsInv, RowsKnown, WindowKnown, WaveClears, MartReadsSettled, Marts,
      Feeds, IsStore

\* What Adds says of the builds that are there.
LEMMA AddsIs ==
  ASSUME MartsInv, NEW n \in BuildId, NEW r \in LifeRow, Adds(n, r)
  PROVE  /\ life[n] = "none" /\ life'[n] # "none" /\ row'[n] = r
         /\ Created' = Created \cup {n} /\ n \notin Created
         /\ \A d \in Created : /\ d < n /\ row'[d] = row[d]
                               /\ Active(d)' = Active(d)
         /\ full' \subseteq full \cup {n}
<1>1. FlowsTypeOK /\ Appear(n, r)
  BY DEF MartsInv, FlowsInv, Adds
<1>2. /\ life[n] = "none" /\ row'[n] = r
      /\ \A d \in BuildId \ {n} : life'[d] = life[d] /\ row'[d] = row[d]
      /\ Created' = Created \cup {n} /\ n \notin Created
  BY <1>1, AppearIs
<1>3. life'[n] # "none"
  BY <1>2 DEF Created
<1>4. \A d \in Created : d < n /\ d \in BuildId \ {n}
  BY <1>1, <1>2 DEF Appear, Created
<1>5. full' \subseteq full \cup {n}
  BY <1>1 DEF Appear
<1> QED
  BY <1>2, <1>3, <1>4, <1>5 DEF Active

LEMMA AddsMarts ==
  ASSUME MartsInv, GiveWindows, NEW n \in BuildId, NEW r \in LifeRow, Adds(n, r)
  PROVE  RowsKnown' /\ WindowKnown' /\ WaveClears' /\ MartReadsSettled'
<1>1. /\ life[n] = "none" /\ life'[n] # "none" /\ row'[n] = r
      /\ Created' = Created \cup {n} /\ n \notin Created
      /\ \A d \in Created : /\ d < n /\ row'[d] = row[d]
                            /\ Active(d)' = Active(d)
  BY AddsIs
<1>2. /\ \A d \in Created : window'[d] = window[d]
      /\ window'[n].to = WindowTo(r, n)
  BY <1>1, WindowsAre DEF MartsInv
<1>3. Boundary \in {d \in Created : /\ row[d].flow # 0
                                   /\ flow[row[d].flow].status = "done"} \cup {0}
  BY BoundsAre
<1>4. Created \subseteq Nat \ {0} /\ n \in Nat \ {0}
  BY FlowAssumption DEF Created, BuildId
<1>5. r.flow # 0 => \A d \in Created : IsStore(d) => ~Active(d)
  BY DEF Adds, Concerns, Created
<1> HIDE DEF Boundary
<1>6. RowsKnown'
  BY <1>1 DEF MartsInv, RowsKnown
<1>7. WindowKnown'
  BY <1>1, <1>2, <1>3 DEF MartsInv, WindowKnown, WindowTo
<1>8. WaveClears'
  <2> SUFFICES ASSUME NEW m \in Created', NEW b \in Created',
                      row'[m].flow # 0, b < m, IsStore(b)'
               PROVE  ~Active(b)'
    BY DEF WaveClears
  <2>1. b \in Created
    <3>1. \A d \in Created : d < n
      BY <1>1
    <3>2. m = n \/ m < n
      BY <1>1, <3>1
    <3>3. m \in Nat /\ b \in Nat /\ n \in Nat
      BY <1>1, <1>4
    <3>4. b # n
      BY <3>2, <3>3
    <3> QED
      BY <1>1, <3>4
  <2>2. IsStore(b) /\ Active(b)' = Active(b)
    BY <1>1, <2>1 DEF IsStore
  <2>3. CASE m = n
    BY <1>1, <1>5, <2>1, <2>2, <2>3
  <2>4. CASE m \in Created
    BY <1>1, <2>1, <2>2, <2>4 DEF MartsInv, WaveClears
  <2> QED
    BY <1>1, <2>3, <2>4
<1>9. MartReadsSettled'
  <2> SUFFICES ASSUME NEW m \in Created', row'[m].spec \notin StoreSpecs,
                      NEW b \in Created', b <= window'[m].to,
                      row'[b].spec \in Feeders[row'[m].spec]
               PROVE  ~Active(b)'
    BY DEF MartReadsSettled, Marts, Feeds
  <2>1. row'[m].spec \in Specs
    BY <1>6 DEF RowsKnown, LifeRow
  <2>2. row'[b].spec \in StoreSpecs
    BY <2>1, MartsAssumption
  <2>3. CASE m = n
    <3>1. b \in Created /\ IsStore(b) /\ Active(b)' = Active(b)
      BY <1>1, <2>2, <2>3 DEF IsStore
    <3>2. CASE r.flow # 0
      BY <1>5, <3>1, <3>2
    <3>3. CASE r.flow = 0
      <4>1. b <= Boundary
        BY <1>1, <1>2, <2>3, <3>3 DEF WindowTo
      <4>2. /\ Boundary \in Created /\ row[Boundary].flow # 0
            /\ flow[row[Boundary].flow].status = "done"
        BY <1>3, <1>4, <3>1, <4>1
      <4>3. CASE b = Boundary
        BY <3>1, <4>2, <4>3 DEF MartsInv, DoneRests
      <4>4. CASE b < Boundary
        BY <3>1, <4>2, <4>4 DEF MartsInv, WaveClears
      <4>5. b \in Nat /\ Boundary \in Nat
        BY <1>4, <3>1, <4>2
      <4>6. b = Boundary \/ b < Boundary
        BY <4>1, <4>5
      <4> QED
        BY <4>3, <4>4, <4>6
    <3> QED
      BY <3>2, <3>3
  <2>4. CASE m \in Created
    <3>1. window'[m].to \in Created \cup {0}
      BY <1>2, <2>4 DEF MartsInv, WindowKnown
    <3>2. b # n
      <4>1. CASE window'[m].to = 0
        BY <1>4, <4>1
      <4>2. ASSUME NEW d \in Created, window'[m].to = d PROVE b # n
        <5>1. \A e \in Created : e < n
          BY <1>1
        <5>2. d < n /\ d \in Nat
          BY <1>4, <5>1
        <5> QED
          BY <1>4, <4>2, <5>2
      <4> QED
        BY <3>1, <4>1, <4>2
    <3>3. b \in Created
      BY <1>1, <3>2
    <3> QED
      BY <1>1, <1>2, <2>4, <3>3 DEF MartsInv, MartReadsSettled, Marts, Feeds
  <2> QED
    BY <1>1, <2>3, <2>4
<1> QED
  BY <1>6, <1>7, <1>8, <1>9

LEMMA DoneStays ==
  ASSUME MartsInv, [FlowsNext]_allVars
  PROVE  DoneRests'
<1>1. FlowsInv /\ DoneRests
  BY DEF MartsInv
<1>2. Still \/ \E n \in BuildId, r \in LifeRow : Adds(n, r)
  BY <1>1, StepKinds
<1> SUFFICES ASSUME NEW b \in Created', row'[b].flow # 0,
                    flow'[row'[b].flow].status = "done"
             PROVE  ~Active(b)'
  BY DEF DoneRests
<1>3. CASE NoneDone
  <2>1. CASE Still
    <3>1. /\ b \in Created /\ row' = row /\ (Active(b)' => Active(b))
      BY <2>1 DEF Still, Quiet, Created
    <3>2. row[b].flow \in FlowId
      BY <1>1, <3>1 DEF FlowsInv, BuildsOfBegun
    <3> QED
      BY <1>1, <1>3, <3>1, <3>2 DEF NoneDone, DoneRests
  <2>2. ASSUME NEW n \in BuildId, NEW r \in LifeRow, Adds(n, r)
        PROVE  ~Active(b)'
    <3>1. /\ row'[n] = r /\ Created' = Created \cup {n}
          /\ \A d \in Created : row'[d] = row[d] /\ Active(d)' = Active(d)
      BY <2>2, AddsIs
    <3>2. b # n
      <4> SUFFICES ASSUME b = n PROVE FALSE
        OBVIOUS
      <4>1. r.flow \in FlowId /\ Conducts(r.flow)
        BY <2>2, <3>1 DEF Adds
      <4>2. flow[r.flow].status = "done"
        BY <1>3, <3>1, <4>1 DEF NoneDone
      <4>3. flow[r.flow].status \in OpenFlowStatuses
        BY <1>1, <4>1, FlowFacts DEF Conducts, Living
      <4> QED
        BY <4>2, <4>3 DEF OpenFlowStatuses
    <3>3. b \in Created
      BY <3>1, <3>2
    <3>4. row[b].flow \in FlowId
      BY <1>1, <3>1, <3>3 DEF FlowsInv, BuildsOfBegun
    <3> QED
      BY <1>1, <1>3, <3>1, <3>3, <3>4 DEF NoneDone, DoneRests
  <2> QED
    BY <1>2, <2>1, <2>2
<1>4. ASSUME NEW f \in FlowId,
             \A g \in FlowId \ {f} : flow'[g] = flow[g],
             UNCHANGED lifeVars, \A d \in BuildId : ~Concerns(d, f)
      PROVE  ~Active(b)'
  <2>1. b \in Created /\ row' = row /\ Active(b)' = Active(b)
    BY <1>4 DEF lifeVars, Created, Active
  <2>2. row[b].flow \in FlowId
    BY <1>1, <2>1 DEF FlowsInv, BuildsOfBegun
  <2>3. CASE row[b].flow = f
    BY <1>4, <2>1, <2>3 DEF Concerns, Created
  <2>4. CASE row[b].flow # f
    BY <1>1, <1>4, <2>1, <2>2, <2>4 DEF DoneRests
  <2> QED
    BY <2>3, <2>4
<1> QED
  BY <1>1, <1>3, <1>4, DoneKinds

LEMMA MartsNextInv ==
  ASSUME MartsInv, MartsNext
  PROVE  MartsInv'
<1>1. FlowsInv /\ MartsTypeOK /\ FlowsNext /\ GiveWindows
  BY DEF MartsInv, MartsNext
<1>2. FlowsInv' /\ MartsTypeOK'
  BY <1>1, NextInv, WindowsAre
<1>3. Still \/ \E n \in BuildId, r \in LifeRow : Adds(n, r)
  BY <1>1, StepKinds
<1>4. RowsKnown' /\ WindowKnown' /\ WaveClears' /\ MartReadsSettled'
  BY <1>1, <1>3, StillMarts, AddsMarts
<1>5. DoneRests'
  BY <1>1, DoneStays
<1> QED
  BY <1>2, <1>4, <1>5 DEF MartsInv

LEMMA MartsStutterInv == MartsInv /\ UNCHANGED martVars => MartsInv'
<1> SUFFICES ASSUME MartsInv, UNCHANGED martVars PROVE MartsInv'
  OBVIOUS
<1>1. UNCHANGED allVars /\ UNCHANGED lifeVars /\ flow' = flow /\ window' = window
  BY DEF martVars, allVars
<1>2. FlowsInv'
  BY <1>1, StutterInv DEF MartsInv
<1>3. life' = life /\ row' = row
  BY <1>1 DEF lifeVars
<1> QED
  BY <1>1, <1>2, <1>3
  DEF MartsInv, MartsTypeOK, RowsKnown, WindowKnown, WaveClears, DoneRests,
      MartReadsSettled, Marts, Feeds, IsStore, Created, Active

\* Windows end at builds that exist; behind the builds of a wave the stores are
\* at rest, and so are the builds of a flow that is done: what a mart reads,
\* with the boundary of the flows or inside a wave, has come to rest.
THEOREM MartsInvariant == MartsSpec => []MartsInv
<1>1. MartsInv /\ [MartsNext]_martVars => MartsInv'
  BY MartsNextInv, MartsStutterInv
<1> QED
  BY MartsInitInv, <1>1, PTL DEF MartsSpec

\* The windows of builds stay within their type.
THEOREM MartsTypes == MartsSpec => []MartsTypeOK
<1>1. MartsInv => MartsTypeOK
  BY DEF MartsInv
<1> QED
  BY <1>1, MartsInvariant, PTL

\* No build of a source inside the window of a mart is active, although marts
\* take no locks (_window_to, _flow_wait_turn).
THEOREM MartReadsSettledHolds == MartsSpec => []MartReadsSettled
<1>1. MartsInv => MartReadsSettled
  BY DEF MartsInv
<1> QED
  BY <1>1, MartsInvariant, PTL

\* Rows land in a source only above the windows already given to its marts
\* (_window_to): the deltas of a mart miss nothing that lands late.
THEOREM LandsAboveMartsHolds == MartsSpec => LandsAboveMarts
<1>1. ASSUME MartsInv, MartsNext, NEW b \in full' \ full, b \in Created,
             NEW r \in Marts, Feeds(b, r)
      PROVE  b > window[r].to
  <2>1. Active(b)
    <3>1. CASE Still
      BY <1>1, <3>1 DEF Still
    <3>2. ASSUME NEW n \in BuildId, NEW s \in LifeRow, Adds(n, s)
          PROVE  FALSE
      BY <1>1, <3>2, AddsIs
    <3> QED
      BY <1>1, <3>1, <3>2, StepKinds DEF MartsInv, MartsNext
  <2>2. b \in Nat /\ window[r].to \in Nat
    BY <1>1, FlowAssumption DEF MartsInv, MartsTypeOK, Marts, Created, BuildId
  <2>3. ~(b <= window[r].to)
    BY <1>1, <2>1 DEF MartsInv, MartReadsSettled
  <2> QED
    BY <2>2, <2>3
<1>2. MartsInv /\ [MartsNext]_martVars =>
        [\A b \in full' \ full : b \in Created =>
           \A r \in Marts : Feeds(b, r) => b > window[r].to]_martVars
  BY <1>1
<1> QED
  BY <1>2, MartsInvariant, PTL DEF MartsSpec, LandsAboveMarts
=============================================================================
