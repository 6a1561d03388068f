------------------------------- MODULE Flows -------------------------------
(***************************************************************************)
(* Flows of datapulse (engine.py, start_flow to resume_flow): a flow is a  *)
(* wave of builds over the whole graph.  Its conductor, an asyncio task,   *)
(* waits for its turn, makes a plan, creates the builds of the plan one    *)
(* after the other and waits for the end of each.  Commands stop, pause    *)
(* and resume it; a queued flow closes the flows that a crash orphaned.    *)
(* Builds are those of BuildLife, which Builds implements; what a plan is  *)
(* made of is left open.                                                   *)
(***************************************************************************)
EXTENDS BuildLife, Sequences

CONSTANTS Plans,    \* the plans a conductor may make
          Clients,  \* sessions that stop, pause and resume flows
          MaxCommand, MaxCrash  \* bounds on stops and pauses, on crashes of the proxy

FlowId == 1..MaxFlow
Step   == [spec : Specs, mode : Modes]

ASSUME FlowAssumption ==
  /\ StoreSpecs \subseteq Specs
  /\ Feeders \in [Specs -> SUBSET Specs]
  /\ MaxFlow \in Nat \ {0} /\ MaxBuild \in Nat
  /\ MaxCommand \in Nat /\ MaxCrash \in Nat
  /\ Plans \subseteq Seq(Step)

VARIABLES flow,  \* flow -> its journal, its conductor and its FlowRun
          cmd,   \* client -> stop, pause or resume under way
          asked, crashes  \* stops and pauses, crashes so far

allVars == <<lifeVars, flow, cmd, asked, crashes>>

OpenFlowStatuses  == {"wait", "exec", "hold"}
FinalFlowStatuses == {"done", "stop"}

\* Where a conductor stands.  "queue", "drain" and "count": the two loops of
\* _flow_wait_turn, the second one before and after its gate; "step": before
\* the gate of a step; "creating" and "inserting": in start_build, before and
\* after its commit; "report": the build is registered; "await" and "held":
\* until its end, until its fix; "closing": the done row is committed;
\* "finishing": in the shielded _flow_finish_stop; "ended": only finally is
\* left; "leaving": out of the registry; "lost": cancelled before its first
\* step.
Queued     == {"queue", "drain", "count"}
Conducting == {"plan", "step", "creating", "inserting", "report", "await", "held"}
Positions  == Queued \cup Conducting \cup
              {"none", "committed", "born", "closing", "finishing", "ended",
               "leaving", "lost"}

FlowState ==
  [status : {"none"} \cup OpenFlowStatuses \cup FinalFlowStatuses,
   at : Positions,
   plan : Plans \cup {<<>>}, pos : Nat \ {0},   \* the plan, the step it is at
   build : 0..MaxBuild,                         \* build of the step, 0: none
   ahead : 0..MaxFlow,                          \* the open flow it has read
   paused : BOOLEAN, started : BOOLEAN,         \* fields of FlowRun
   told : BOOLEAN,                              \* waiting_logged
   fin : {"none", "opening", "fixing", "writing"}]  \* _flow_finish_stop

NewFlow == [status |-> "none", at |-> "none", plan |-> <<>>, pos |-> 1,
            build |-> 0, ahead |-> 0, paused |-> FALSE, started |-> FALSE,
            told |-> FALSE, fin |-> "none"]

Idle == [kind |-> "idle", flow |-> 1]
Commands == [kind : {"idle", "stop", "pause", "resume"}, flow : FlowId]

FlowsTypeOK ==
  /\ life \in [BuildId -> LifeStates]
  /\ row \in [BuildId -> LifeRow \cup {NoRow}]
  /\ runs \subseteq Created /\ full \subseteq Created
  /\ flow \in [FlowId -> FlowState]
  /\ \A f \in FlowId : flow[f].build # 0 =>
       /\ flow[f].build \in Created
       /\ flow[f].at \in {"report", "await", "held"} \/ flow[f].fin # "none"
  /\ cmd \in [Clients -> Commands]
  /\ asked \in 0..MaxCommand /\ crashes \in 0..MaxCrash

FlowsInit ==
  /\ Init
  /\ flow = [f \in FlowId |-> NewFlow]
  /\ cmd = [c \in Clients |-> Idle]
  /\ asked = 0 /\ crashes = 0

-----------------------------------------------------------------------------
At(f, p)       == flow[f].at = p
OpenFlow(f)    == flow[f].status \in OpenFlowStatuses
Registered(f)  == flow[f].at \notin {"none", "committed", "leaving"}
Claimed(f)     == flow[f].at # "none"
CurrentStep(f) == flow[f].plan[flow[f].pos]
IsStore(b)     == row[b].spec \in StoreSpecs

\* A step of the conductor of f that only moves its own record.
Conduct(f, r) ==
  /\ flow' = [flow EXCEPT ![f] = r]
  /\ UNCHANGED <<lifeVars, cmd, asked, crashes>>
Go(f, p) == Conduct(f, [flow[f] EXCEPT !.at = p])

-----------------------------------------------------------------------------
(* start_flow.                                                             *)

\* One transaction under the catalog lock, the claim taken before its commit.
CreateFlow(f) ==
  /\ \A g \in FlowId : flow[g].status # "none" <=> g < f
  /\ Conduct(f, [NewFlow EXCEPT !.status = "wait", !.at = "committed"])

RegisterFlow(f) == At(f, "committed") /\ Go(f, "born")

\* start_flow is cancelled while it awaits the commit: an orphan.
CancelCreateFlow(f) == At(f, "committed") /\ Go(f, "none")

-----------------------------------------------------------------------------
(* _flow_wait_turn.                                                        *)

BeginFlow(f) == At(f, "born") /\ Go(f, "queue")

\* Mutant: only the flows that execute.
MutAheadOf(f) == {g \in FlowId : g < f /\ flow[g].status \in {"exec", "hold"}}
AheadOf(f) == {g \in FlowId : g < f /\ OpenFlow(g)}

\* The query for the first open flow ahead: none, or g ..
QueuePassed(f) ==
  /\ At(f, "queue") /\ flow[f].ahead = 0 /\ ~flow[f].paused
  /\ AheadOf(f) = {}
  /\ Go(f, "drain")

QueueSees(f, g) ==
  /\ At(f, "queue") /\ flow[f].ahead = 0 /\ ~flow[f].paused
  /\ g \in AheadOf(f) /\ \A h \in AheadOf(f) : g <= h
  /\ Conduct(f, [flow[f] EXCEPT !.ahead = g])

\* .. which somebody still runs: sleep and ask again,
QueueWaits(f) ==
  /\ At(f, "queue") /\ flow[f].ahead # 0
  /\ Claimed(flow[f].ahead)
  /\ Conduct(f, [flow[f] EXCEPT !.ahead = 0])

\* Mutant: an orphan is left to its stop_flow.
MutQueueReconciles(f) ==
  /\ At(f, "queue") /\ flow[f].ahead # 0
  /\ ~Claimed(flow[f].ahead)
  /\ Conduct(f, [flow[f] EXCEPT !.ahead = 0])

\* .. or nobody: it gets its stop row.
QueueReconciles(f) ==
  /\ At(f, "queue") /\ flow[f].ahead # 0
  /\ ~Claimed(flow[f].ahead)
  /\ flow' = [flow EXCEPT ![flow[f].ahead].status = "stop", ![f].ahead = 0]
  /\ UNCHANGED <<lifeVars, cmd, asked, crashes>>

PassDrainGate(f) == At(f, "drain") /\ ~flow[f].paused /\ Go(f, "count")

\* Mutant: the builds under way are not waited for.
MutDrained == TRUE
\* No store build is active.
Drained == \A b \in Created : IsStore(b) => ~Active(b)

KeepDraining(f) == At(f, "count") /\ ~Drained /\ Go(f, "drain")

StartConducting(f) ==
  /\ At(f, "count")
  /\ Drained
  /\ Conduct(f, [flow[f] EXCEPT !.at = "plan", !.started = TRUE])

-----------------------------------------------------------------------------
(* _run_flow and _flow_step.                                               *)

\* The exec rows before and after the plan.
MakePlan(f, p) ==
  /\ At(f, "plan")
  /\ Conduct(f, [flow[f] EXCEPT !.at = "step", !.status = "exec", !.plan = p])

PassGate(f) ==
  /\ At(f, "step") /\ flow[f].pos <= Len(flow[f].plan)
  /\ ~flow[f].paused
  /\ Go(f, "creating")

\* What start_build finds in the journal under the catalog lock: no open build
\* of the spec, a fail included; of a store spec, no open build of what it
\* reads and no active reader.
Free(s) ==
  \A d \in Created :
    LET t == row[d].spec
        open == Active(d) \/ life[d] = "fail"
    IN  /\ t = s => ~open
        /\ s \in StoreSpecs =>
             /\ t \in Feeders[s] => ~open
             /\ t \in StoreSpecs /\ s \in Feeders[t] => ~Active(d)

\* The transaction of a build: its checks, and its row with the next id.
Insert(s, m, f) ==
  /\ Free(s)
  /\ \E b \in BuildId : Appear(b, [spec |-> s, mode |-> m, flow |-> f])

\* start_build for a step: the transaction ..
CreateStep(f) ==
  /\ At(f, "creating")
  /\ Insert(CurrentStep(f).spec, CurrentStep(f).mode, f)
  /\ flow' = [flow EXCEPT ![f].at = "inserting"]
  /\ UNCHANGED <<cmd, asked, crashes>>

\* .. is refused by the locks: one exec row, sleep, and again from the gate.
StepRefused(f) ==
  /\ At(f, "creating") /\ ~Free(CurrentStep(f).spec)
  /\ Conduct(f, [flow[f] EXCEPT !.at = "step", !.told = TRUE,
                                !.status = IF flow[f].told THEN @ ELSE "exec"])

\* start_build resumes after its commit; the build is the conductor's.
RegisterStep(f, b) ==
  /\ At(f, "inserting") /\ life[b] # "none" /\ row[b].flow = f
  /\ Enroll(b)
  /\ flow' = [flow EXCEPT ![f].at = "report", ![f].build = b, ![f].told = FALSE]
  /\ UNCHANGED <<cmd, asked, crashes>>

ReportStep(f) ==
  /\ At(f, "report")
  /\ Conduct(f, [flow[f] EXCEPT !.at = "await", !.status = "exec"])

\* Mutant: active_build_id survives the end of its build.
MutStepDone(f) ==
  /\ At(f, "await") /\ life[flow[f].build] = "done"
  /\ Conduct(f, [flow[f] EXCEPT !.at = "step", !.pos = @ + 1])

StepDone(f) ==
  /\ At(f, "await") /\ life[flow[f].build] = "done"
  /\ Conduct(f, [flow[f] EXCEPT !.at = "step", !.pos = @ + 1, !.build = 0])

\* The build failed: an exec row, and the step is held until its fix.
StepFailed(f) ==
  /\ At(f, "await") /\ life[flow[f].build] \in {"fail", "fix"}
  /\ Conduct(f, [flow[f] EXCEPT !.at = "held", !.status = "exec"])

\* Mutant: after the fix the plan goes on with the next step.
MutStepFixed(f) ==
  /\ At(f, "held") /\ life[flow[f].build] = "fix"
  /\ Conduct(f, [flow[f] EXCEPT !.at = "step", !.pos = @ + 1, !.build = 0])

\* After the fix the step starts again with a new build.
StepFixed(f) ==
  /\ At(f, "held") /\ life[flow[f].build] = "fix"
  /\ Conduct(f, [flow[f] EXCEPT !.at = "step", !.build = 0])

FlowDone(f) ==
  /\ At(f, "step") /\ flow[f].pos > Len(flow[f].plan)
  /\ Conduct(f, [flow[f] EXCEPT !.at = "closing", !.status = "done"])

-----------------------------------------------------------------------------
(* The end of a conductor.                                                 *)

\* An exception or a cancellation leads to _flow_finish_stop behind a shield.
\* active_build_id is set from the registration of a build to its end; a
\* start_build that is interrupted after its commit leaves its build to nobody.
Finishing(s) == [NewFlow EXCEPT !.at = "finishing", !.fin = "opening",
                   !.status = s.status, !.paused = s.paused,
                   !.started = s.started,
                   !.build = IF s.at \in {"report", "await"} THEN s.build ELSE 0]

\* Any exception of the body of _run_flow.
FlowError(f) ==
  /\ flow[f].at \in Queued \cup Conducting
  /\ Conduct(f, Finishing(flow[f]))

\* FlowRun.stop: task.cancel().  A task that was never run is lost; a second
\* cancellation leaves the shielded stop to itself.
Cancelled(s) ==
  CASE s.at \in Queued \cup Conducting \cup {"closing"} -> Finishing(s)
    [] s.at = "finishing" -> [s EXCEPT !.at = "ended"]
    [] s.at = "born" -> [s EXCEPT !.at = "lost"]
    [] OTHER -> s

\* _flow_finish_stop: kill the active build (its fail comes when it comes) ..
KillActive(f) ==
  /\ flow[f].fin = "opening"
  /\ flow[f].build \in runs
  /\ Conduct(f, [flow[f] EXCEPT !.fin = "fixing"])

NothingToKill(f) ==
  /\ flow[f].fin = "opening"
  /\ flow[f].build \notin runs
  /\ Conduct(f, [flow[f] EXCEPT !.fin = "writing"])

\* .. wait for its fail and fix it, at most for 30 seconds ..
SystemFix(f) ==
  /\ flow[f].fin = "fixing"
  /\ life[flow[f].build] = "fail"
  /\ Fix(flow[f].build)
  /\ flow' = [flow EXCEPT ![f].fin = "writing"]
  /\ UNCHANGED <<cmd, asked, crashes>>

NoSystemFix(f) ==
  /\ flow[f].fin = "fixing"
  /\ Conduct(f, [flow[f] EXCEPT !.fin = "writing"])

Finished(s) == [s EXCEPT !.fin = "none", !.build = 0,
                         !.at = IF @ = "finishing" THEN "ended" ELSE @]

\* .. and write the stop row.
WriteStop(f) ==
  /\ flow[f].fin = "writing"
  /\ Conduct(f, [Finished(flow[f]) EXCEPT !.status = "stop"])

\* Its exceptions are logged and swallowed.
LoseStop(f) == flow[f].fin # "none" /\ Conduct(f, Finished(flow[f]))

\* What is left of a flow without its conductor: its FlowRun, out of the
\* registry, is still in the hands of a late resume.
Left(s) == [NewFlow EXCEPT !.at = "leaving", !.status = s.status,
                           !.started = s.started,
                           !.fin = s.fin, !.build = s.build]

\* Mutant: finally does not run after done.
MutLeaveFlow(f) == At(f, "ended") /\ Conduct(f, Left(flow[f]))

\* finally: out of the registry, then the connection with the claim is closed.
LeaveFlow(f) ==
  /\ flow[f].at \in {"closing", "ended"}
  /\ Conduct(f, Left(flow[f]))

FreeFlow(f) == At(f, "leaving") /\ Go(f, "none")

-----------------------------------------------------------------------------
(* stop_flow, pause_flow, resume_flow.                                     *)

\* A command of c: it begins, with a first effect r on the flow, or ends.  A
\* resume undoes a pause and is bounded with it.
Say(c, k, f, r) ==
  /\ cmd[c] = Idle
  /\ IF k = "resume" THEN asked' = asked
                     ELSE asked < MaxCommand /\ asked' = asked + 1
  /\ cmd' = [cmd EXCEPT ![c] = [kind |-> k, flow |-> f]]
  /\ flow' = [flow EXCEPT ![f] = r]
  /\ UNCHANGED <<lifeVars, crashes>>
Said(c, k, r) ==
  /\ cmd[c].kind = k
  /\ cmd' = [cmd EXCEPT ![c] = Idle]
  /\ flow' = [flow EXCEPT ![cmd[c].flow] = r]
  /\ UNCHANGED <<lifeVars, asked, crashes>>

StopFlowRead(c, f) == OpenFlow(f) /\ Say(c, "stop", f, flow[f])

\* Registered: cancel the conductor.  Neither registered nor claimed: an
\* orphan, closed here.  Claimed by somebody else: refused.
StopFlowAct(c) ==
  LET f == cmd[c].flow
  IN  \/ Registered(f) /\ Said(c, "stop", Cancelled(flow[f]))
      \/ ~Claimed(f) /\ Said(c, "stop", [flow[f] EXCEPT !.status = "stop"])
      \/ ~Registered(f) /\ Claimed(f) /\ Said(c, "stop", flow[f])

\* The gate is closed, or opened, at once; the row follows.
PauseFlow(c, f) ==
  /\ Registered(f) /\ ~flow[f].paused
  /\ Say(c, "pause", f, [flow[f] EXCEPT !.paused = TRUE])

ResumeFlow(c, f) ==
  /\ Registered(f) /\ flow[f].paused
  /\ Say(c, "resume", f, [flow[f] EXCEPT !.paused = FALSE])

PauseRow(c) == Said(c, "pause", [flow[cmd[c].flow] EXCEPT !.status = "hold"])

ResumeRow(c) ==
  Said(c, "resume", [flow[cmd[c].flow] EXCEPT
                       !.status = IF flow[cmd[c].flow].started THEN "exec"
                                  ELSE "wait"])

\* The client goes away, or the database refuses the row.
LoseRow(c) ==
  \E k \in {"pause", "resume"} : Said(c, k, flow[cmd[c].flow])

\* The proxy dies: conductors, registries and claims are gone.
Crash ==
  /\ crashes < MaxCrash
  /\ crashes' = crashes + 1
  /\ Restart
  /\ flow' = [f \in FlowId |-> [NewFlow EXCEPT !.status = flow[f].status]]
  /\ cmd' = [c \in Clients |-> Idle]
  /\ UNCHANGED asked

-----------------------------------------------------------------------------
(* Builds beside the conductors.                                           *)

\* A manual build of a store needs that no flow is open (under the catalog
\* lock, which start_flow takes too).
CreateManual(s, m) ==
  /\ s \in StoreSpecs => \A f \in FlowId : ~OpenFlow(f)
  /\ Insert(s, m, 0)

\* The claim of a build whose start_build has not resumed yet is held.
InHand(b) == Active(b) /\ b \notin runs /\ \E f \in FlowId :
               At(f, "inserting") /\ row[b].flow = f

\* The registry is of interest here for the builds of flows only: they are
\* enrolled by their conductor.
BuildStep ==
  /\ \/ \E s \in Specs, m \in Modes : CreateManual(s, m)
     \/ \E b \in BuildId :
          \/ Land(b) \/ Finish(b) \/ Fix(b) \/ Retire(b)
          \/ ~InHand(b) /\ Break(b)
  /\ UNCHANGED <<flow, cmd, asked, crashes>>

Turn(f) ==
  \/ QueuePassed(f) \/ QueueWaits(f) \/ QueueReconciles(f)
  \/ \E g \in FlowId : QueueSees(f, g)

Wave(f) ==
  \/ PassDrainGate(f) \/ KeepDraining(f) \/ StartConducting(f)
  \/ PassGate(f) \/ CreateStep(f) \/ StepRefused(f) \/ ReportStep(f)
  \/ StepDone(f) \/ StepFailed(f) \/ StepFixed(f) \/ FlowDone(f)
  \/ \E p \in Plans : MakePlan(f, p)
  \/ \E b \in BuildId : RegisterStep(f, b)

\* The steps of an end wait for nothing but the database and the timeout.
EndFlow(f) ==
  \/ KillActive(f) \/ NothingToKill(f) \/ SystemFix(f) \/ NoSystemFix(f)
  \/ WriteStop(f) \/ LeaveFlow(f) \/ FreeFlow(f)

FlowStep(f) ==
  \/ CreateFlow(f) \/ RegisterFlow(f) \/ CancelCreateFlow(f) \/ BeginFlow(f)
  \/ Turn(f) \/ Wave(f) \/ FlowError(f) \/ EndFlow(f) \/ LoseStop(f)

Command(c) ==
  \/ StopFlowAct(c) \/ PauseRow(c) \/ ResumeRow(c) \/ LoseRow(c)
  \/ \E f \in FlowId : StopFlowRead(c, f) \/ PauseFlow(c, f) \/ ResumeFlow(c, f)

FlowsNext ==
  \/ BuildStep
  \/ \E f \in FlowId : FlowStep(f)
  \/ \E c \in Clients : Command(c)
  \/ Crash

FlowsSpec == FlowsInit /\ [][FlowsNext]_allVars

\* The event loop resumes the queue and the ends; the database answers.
FlowsFairSpec ==
  /\ FlowsSpec
  /\ \A f \in FlowId : WF_allVars(Turn(f)) /\ WF_allVars(EndFlow(f))

-----------------------------------------------------------------------------
(* Properties.                                                             *)

Conducts(f) == flow[f].at \in Conducting

\* docs/model.md: one flow at a time, in the order of flow_id
\* (_flow_wait_turn).  While one conducts, no other does, and none ahead of it
\* is still to come, whatever stops, late rows and crashes happen.
WaveInOrder ==
  \A f, g \in FlowId : Conducts(f) /\ g # f =>
    /\ ~Conducts(g)
    /\ g < f => flow[g].at \notin Queued \cup {"committed", "born"}

\* During a wave only the wave writes stores (_require_no_open_flow,
\* _flow_wait_turn): every active store build is of the conducting flow, and
\* there is one at most.
WaveOwnsStores ==
  \A f \in FlowId : Conducts(f) =>
    \A b, d \in Created : IsStore(b) /\ IsStore(d) /\ Active(b) /\ Active(d) =>
      row[b].flow = f /\ d = b

\* Every step a wave has gone past was built (_flow_step): whatever failed, was
\* stopped, fixed or refused on the way, a build of the flow landed the whole
\* slice of each of them, in the order of the plan.
WaveComplete ==
  \A f \in FlowId : Conducts(f) \/ At(f, "closing") =>
    \E ids \in [1..(flow[f].pos - 1) -> full] :
      /\ \A i, j \in DOMAIN ids : i < j => ids[i] < ids[j]
      /\ \A i \in DOMAIN ids :
           row[ids[i]] = [spec |-> flow[f].plan[i].spec,
                          mode |-> flow[f].plan[i].mode, flow |-> f]

\* A conductor that has begun to end leaves the registry and frees its claim
\* (_run_flow, _flow_finish_stop), whatever fails on the way.
FlowSettles ==
  \A f \in FlowId : flow[f].at \in {"closing", "finishing", "ended", "leaving"}
    ~> flow[f].at = "none"

\* The first flow of the queue that somebody runs passes it: the orphans ahead
\* are closed on the way (_flow_wait_turn).
QueueMoves ==
  \A f \in FlowId :
    At(f, "queue") /\ (\A g \in FlowId : g < f => ~Claimed(g))
      ~> ~At(f, "queue") \/ flow[f].paused
=============================================================================
