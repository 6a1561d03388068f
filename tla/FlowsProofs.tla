---------------------------- MODULE FlowsProofs ----------------------------
(***************************************************************************)
(* Proofs about Flows, for any specs, plans, clients and any number of     *)
(* flows, builds, commands and crashes: flows conduct one at a time in the *)
(* order of their ids, and the stores belong to the one that conducts.     *)
(***************************************************************************)
EXTENDS Flows, TLAPS

Early  == {"committed", "born"} \cup Queued
Living == Early \cup Conducting
Passed == {"drain", "count"} \cup Conducting  \* the queue
Ends   == {"none", "finishing", "ended", "leaving"}

\* Whatever rows come late, a flow that is still to conduct, or conducts, is
\* open: the one behind it sees it.
LivingIsOpen == \A f \in FlowId : flow[f].at \in Living => OpenFlow(f)

\* The steps of a stop are those of a conductor that has ended.
Exists(f) == flow[f].status # "none"
StopsAtEnd ==
  \A f \in FlowId :
    /\ flow[f].fin # "none" => flow[f].at \in Ends /\ Exists(f)
    /\ flow[f].fin = "fixing" => flow[f].build # 0

\* A build is created for a step of the plan.
StepInPlan ==
  \A f \in FlowId : flow[f].at = "creating" => flow[f].pos <= Len(flow[f].plan)

\* A flow exists, if it is anywhere, and if one with a greater id exists.
Known ==
  /\ \A f \in FlowId : flow[f].at # "none" => Exists(f)
  /\ \A f, g \in FlowId : Exists(f) /\ g < f => Exists(g)
  /\ \A f \in FlowId : flow[f].ahead # 0 => Exists(flow[f].ahead)
  /\ \A c \in Clients : cmd[c].kind # "idle" => Exists(cmd[c].flow)

\* What has passed the queue has nobody ahead that lives.
NobodyAhead ==
  \A f, g \in FlowId :
    flow[f].at \in Passed /\ g < f => flow[g].at \notin Living

\* A flow that has not begun to conduct has no builds.
BuildsOfBegun ==
  \A b \in Created : row[b].flow # 0 =>
    /\ row[b].flow \in FlowId /\ Exists(row[b].flow)
    /\ flow[row[b].flow].at \notin Early

\* The active builds that concern a conductor: those of stores and its own.
Concerns(b, f) == Active(b) /\ (IsStore(b) \/ row[b].flow = f)

\* There is none but the build of its step, between its creation and its end.
Owns(f) ==
  Conducts(f) => \A b \in BuildId : Concerns(b, f) =>
    /\ row[b].flow = f
    /\ flow[f].at \in {"inserting", "report", "await"}
    /\ flow[f].at # "inserting" => b = flow[f].build
    /\ \A d \in BuildId : Concerns(d, f) => d = b

FlowsInv ==
  /\ FlowsTypeOK /\ LivingIsOpen /\ StopsAtEnd /\ StepInPlan /\ Known
  /\ NobodyAhead /\ BuildsOfBegun /\ \A f \in FlowId : Owns(f)

LEMMA NewFlowIs == NewFlow \in FlowState
BY FlowAssumption DEF NewFlow, FlowState, Positions

LEMMA InitInv == FlowsInit => FlowsInv
<1> SUFFICES ASSUME FlowsInit PROVE FlowsInv
  OBVIOUS
<1> USE FlowAssumption, NewFlowIs DEF FlowsInit, Init, Created
<1>1. \A f \in FlowId : /\ flow[f] = NewFlow /\ flow[f].at = "none"
                        /\ flow[f].status = "none" /\ flow[f].build = 0
                        /\ flow[f].fin = "none" /\ flow[f].ahead = 0
  BY DEF NewFlow
<1>2. FlowsTypeOK
  <2>1. Idle \in Commands
    BY DEF Idle, Commands, FlowId
  <2>2. 0 \in 0..MaxCommand /\ 0 \in 0..MaxCrash
    OBVIOUS
  <2> QED
    BY <1>1, <2>1, <2>2 DEF FlowsTypeOK, LifeStates
<1>3. /\ LivingIsOpen /\ StopsAtEnd /\ StepInPlan /\ Known /\ NobodyAhead
      /\ \A f \in FlowId : Owns(f)
  BY <1>1
  DEF LivingIsOpen, StopsAtEnd, StepInPlan, Known, NobodyAhead, Owns, Living,
      Early, Queued, Conducts, Conducting, Passed, Idle, Exists
<1>4. BuildsOfBegun
  BY DEF BuildsOfBegun
<1> QED
  BY <1>2, <1>3, <1>4 DEF FlowsInv

-----------------------------------------------------------------------------
(* What most steps have in common.                                         *)

\* No build appears, and none is active that was not.
Quiet ==
  /\ life' \in [BuildId -> LifeStates] /\ row' = row
  /\ Created' = Created /\ runs' \subseteq Created /\ full' \subseteq Created
  /\ \A b \in BuildId : Active(b)' => Active(b)

LEMMA StaysQuiet == FlowsTypeOK /\ UNCHANGED lifeVars => Quiet
BY DEF FlowsTypeOK, lifeVars, Quiet, Created, Active

\* The commands and the counters are left as they are.
Calm == UNCHANGED <<cmd, asked, crashes>>

\* A step of flow f alone: it lives only if it lived, and passes the queue only
\* if nobody open is ahead.
Moves(f) ==
  /\ flow' \in [FlowId -> FlowState]
  /\ \A g \in FlowId \ {f} : flow'[g] = flow[g]
  /\ flow'[f].status # "none"
  /\ flow'[f].at \in Living =>
       flow'[f].status \in OpenFlowStatuses /\ flow[f].at \in Living
  /\ flow'[f].at \in Early => flow[f].at \in Early
  /\ flow'[f].at \in Passed => flow[f].at \in Passed \/ AheadOf(f) = {}
  /\ flow'[f].fin # "none" => flow'[f].at \in Ends
  /\ flow'[f].fin = "fixing" => flow'[f].build # 0
  /\ flow'[f].at = "creating" => flow'[f].pos <= Len(flow'[f].plan)
  /\ flow'[f].ahead # 0 => Exists(flow'[f].ahead)
  /\ flow'[f].build # 0 =>
       /\ flow'[f].build \in Created
       /\ flow'[f].at \in {"report", "await", "held"} \/ flow'[f].fin # "none"

Talk ==
  /\ cmd' \in [Clients -> Commands]
  /\ \A c \in Clients : cmd'[c].kind # "idle" => Exists(cmd'[c].flow)
  /\ asked' \in 0..MaxCommand /\ crashes' = crashes

LEMMA CalmTalk == FlowsInv /\ Calm => Talk
BY DEF FlowsInv, FlowsTypeOK, Known, Calm, Talk

\* The builds may have grown in number.
Grows ==
  /\ life' \in [BuildId -> LifeStates] /\ row' \in [BuildId -> LifeRow \cup {NoRow}]
  /\ Created \subseteq Created' /\ runs' \subseteq Created' /\ full' \subseteq Created'

LEMMA OneFlowGrows ==
  ASSUME FlowsInv, NEW f \in FlowId, Exists(f), Moves(f), Grows, Talk
  PROVE  /\ FlowsTypeOK' /\ LivingIsOpen' /\ StopsAtEnd' /\ StepInPlan'
         /\ Known' /\ NobodyAhead'
<1> USE DEF FlowsInv
<1>1. FlowsTypeOK'
  <2>1. \A g \in FlowId : flow'[g].build # 0 =>
          /\ flow'[g].build \in Created'
          /\ flow'[g].at \in {"report", "await", "held"} \/ flow'[g].fin # "none"
    BY DEF Moves, FlowsTypeOK, Grows
  <2> QED
    BY <2>1 DEF Moves, Grows, Talk, FlowsTypeOK
<1>2. LivingIsOpen' /\ StopsAtEnd' /\ StepInPlan'
  BY DEF LivingIsOpen, StopsAtEnd, StepInPlan, Moves, OpenFlow, Exists
<1>3. \A g \in FlowId : Exists(g)' <=> Exists(g)
  BY DEF Moves, Exists
<1>4. Known'
  <2>1. \A g \in FlowId : flow'[g].at # "none" => Exists(g)'
    BY <1>3 DEF Moves, Known
  <2>2. \A g, h \in FlowId : Exists(g)' /\ h < g => Exists(h)'
    BY <1>3 DEF Known
  <2>3. \A g \in FlowId : flow'[g].ahead \in 0..MaxFlow
    BY DEF Moves, FlowState
  <2>4. ASSUME NEW g \in FlowId, flow'[g].ahead # 0
        PROVE  flow'[flow'[g].ahead].status # "none"
    <3>1. Exists(flow'[g].ahead)
      BY <2>4 DEF Moves, Known
    <3>2. flow'[g].ahead \in FlowId
      BY <2>3, <2>4, FlowAssumption DEF FlowId
    <3> QED
      BY <1>3, <3>1, <3>2 DEF Exists
  <2>5. ASSUME NEW c \in Clients, cmd'[c].kind # "idle"
        PROVE  flow'[cmd'[c].flow].status # "none"
    <3>1. Exists(cmd'[c].flow) /\ cmd'[c].flow \in FlowId
      BY <2>5 DEF Talk, Commands
    <3> QED
      BY <1>3, <3>1 DEF Exists
  <2> QED
    BY <2>1, <2>2, <2>4, <2>5 DEF Known, Exists
<1>5. NobodyAhead'
  <2> SUFFICES ASSUME NEW g \in FlowId, NEW h \in FlowId,
                      flow'[g].at \in Passed, h < g
               PROVE  flow'[h].at \notin Living
    BY DEF NobodyAhead
  <2>1. flow[h].at \notin Living => flow'[h].at \notin Living
    BY DEF Moves
  <2>2. CASE flow[g].at \in Passed
    BY <2>1, <2>2 DEF NobodyAhead
  <2>3. CASE flow[g].at \notin Passed
    <3>1. ~OpenFlow(h)
      BY <2>3 DEF Moves, AheadOf
    <3> QED
      BY <2>1, <3>1 DEF LivingIsOpen
  <2> QED
    BY <2>2, <2>3
<1> QED
  BY <1>1, <1>2, <1>4, <1>5

LEMMA OneFlow ==
  ASSUME FlowsInv, NEW f \in FlowId, Exists(f), Moves(f), Quiet, Talk, Owns(f)'
  PROVE  FlowsInv'
<1> USE DEF FlowsInv
<1>1. Grows
  BY DEF Quiet, Grows, FlowsTypeOK
<1>2. /\ FlowsTypeOK' /\ LivingIsOpen' /\ StopsAtEnd' /\ StepInPlan'
      /\ Known' /\ NobodyAhead'
  BY <1>1, OneFlowGrows
<1>3. \A g \in FlowId : Exists(g)' <=> Exists(g)
  BY DEF Moves, Exists
<1>6. BuildsOfBegun'
  <2>1. \A g \in FlowId : flow'[g].at \in Early => flow[g].at \in Early
    BY DEF Moves
  <2> QED
    BY <1>3, <2>1 DEF BuildsOfBegun, Quiet, Exists
<1>7. \A g \in FlowId : Owns(g)'
  <2> SUFFICES ASSUME NEW g \in FlowId, g # f PROVE Owns(g)'
    OBVIOUS
  <2>1. flow'[g] = flow[g]
    BY DEF Moves
  <2>2. \A b \in BuildId : Concerns(b, g)' => Concerns(b, g)
    BY DEF Concerns, Quiet, IsStore
  <2> QED
    BY <2>1, <2>2 DEF Owns, Quiet, Conducts
<1> QED
  BY <1>2, <1>6, <1>7

\* The same of the record r that flow f becomes.
Fits(f, r) ==
  /\ r \in FlowState
  /\ r.status # "none"
  /\ r.at \in Living => r.status \in OpenFlowStatuses /\ flow[f].at \in Living
  /\ r.at \in Early => flow[f].at \in Early
  /\ r.at \in Passed => flow[f].at \in Passed \/ AheadOf(f) = {}
  /\ r.fin # "none" => r.at \in Ends
  /\ r.fin = "fixing" => r.build # 0
  /\ r.at = "creating" => r.pos <= Len(r.plan)
  /\ r.ahead # 0 => Exists(r.ahead)
  /\ r.build # 0 => /\ r.build \in Created
                    /\ r.at \in {"report", "await", "held"} \/ r.fin # "none"

LEMMA FitsMoves ==
  ASSUME FlowsTypeOK, NEW f \in FlowId, NEW r, Fits(f, r),
         flow' = [flow EXCEPT ![f] = r]
  PROVE  Moves(f) /\ flow'[f] = r
<1>1. flow' \in [FlowId -> FlowState] /\ flow'[f] = r
      /\ \A g \in FlowId \ {f} : flow'[g] = flow[g]
  BY DEF FlowsTypeOK, Fits
<1> QED
  BY <1>1 DEF Fits, Moves

\* A conductor with no active build about owns what there is.
LEMMA OwnsNothing ==
  ASSUME NEW f \in FlowId, Quiet, \A b \in BuildId : ~Concerns(b, f)
  PROVE  Owns(f)'
BY DEF Owns, Concerns, Quiet, IsStore

LEMMA OwnsByEnd ==
  ASSUME NEW f \in FlowId, flow'[f].at \notin Conducting
  PROVE  Owns(f)'
BY DEF Owns, Conducts

\* Conduct: a step of f alone, to a record r.
LEMMA ConductInv ==
  ASSUME FlowsInv, NEW f \in FlowId, NEW r, Conduct(f, r), Exists(f), Fits(f, r),
         r.at \in Conducting => \A b \in BuildId : ~Concerns(b, f)
  PROVE  FlowsInv'
<1>1. FlowsTypeOK /\ Quiet /\ Talk
  BY StaysQuiet, CalmTalk DEF FlowsInv, Conduct, lifeVars, Calm
<1>2. Moves(f) /\ flow'[f] = r
  BY <1>1, FitsMoves DEF Conduct
<1>3. Owns(f)'
  BY <1>1, <1>2, OwnsNothing, OwnsByEnd
<1> QED
  BY <1>1, <1>2, <1>3, OneFlow

\* What is known of a flow that lives.
LEMMA FlowFacts ==
  ASSUME FlowsInv, NEW f \in FlowId
  PROVE  /\ flow[f] \in FlowState
         /\ flow[f].at # "none" => flow[f].status # "none"
         /\ flow[f].at \in Living => flow[f].status \in OpenFlowStatuses
         /\ flow[f].fin # "none" => flow[f].at \in Ends /\ flow[f].status # "none"
         /\ flow[f].fin = "fixing" => flow[f].build # 0
         /\ flow[f].at = "creating" => flow[f].pos <= Len(flow[f].plan)
         /\ flow[f].ahead # 0 => Exists(flow[f].ahead)
         /\ flow[f].build # 0 =>
              /\ flow[f].build \in Created
              /\ flow[f].at \in {"report", "await", "held"} \/ flow[f].fin # "none"
BY DEF FlowsInv, FlowsTypeOK, LivingIsOpen, StopsAtEnd, StepInPlan, Known, Exists, OpenFlow

\* A step that only moves the conductor, or clears what it has read.
LEMMA GoFits ==
  ASSUME FlowsInv, NEW f \in FlowId, NEW p \in Positions, flow[f].at # "none",
         p \in Living => flow[f].at \in Living,
         p \in Early => flow[f].at \in Early, p # "creating",
         p \in Passed => flow[f].at \in Passed \/ AheadOf(f) = {},
         flow[f].fin # "none" => p \in Ends,
         flow[f].build # 0 /\ flow[f].fin = "none" => p \in {"report", "await", "held"}
  PROVE  /\ Fits(f, [flow[f] EXCEPT !.at = p])
         /\ [flow[f] EXCEPT !.at = p].at = p
<1> DEFINE r == [flow[f] EXCEPT !.at = p]
<1>1. /\ r \in FlowState /\ r.at = p /\ r.status = flow[f].status
      /\ r.fin = flow[f].fin /\ r.ahead = flow[f].ahead /\ r.build = flow[f].build
  BY FlowFacts DEF FlowState
<1> HIDE DEF r
<1>2. Fits(f, r)
  BY <1>1, FlowFacts DEF Fits
<1> QED
  BY <1>1, <1>2 DEF r

LEMMA GoInv ==
  ASSUME FlowsInv, NEW f \in FlowId, NEW p \in Positions, Go(f, p),
         flow[f].at # "none",
         p \in Living => flow[f].at \in Living,
         p \in Early => flow[f].at \in Early, p # "creating",
         p \in Passed => flow[f].at \in Passed \/ AheadOf(f) = {},
         flow[f].fin # "none" => p \in Ends,
         flow[f].build # 0 /\ flow[f].fin = "none" => p \in {"report", "await", "held"},
         p \in Conducting => \A b \in BuildId : ~Concerns(b, f)
  PROVE  FlowsInv'
<1> DEFINE r == [flow[f] EXCEPT !.at = p]
<1>1. Fits(f, r) /\ r.at = p /\ Conduct(f, r)
  BY GoFits DEF Go
<1>2. Exists(f)
  BY FlowFacts DEF Exists
<1> HIDE DEF r
<1> QED
  BY <1>1, <1>2, ConductInv

\* What a conductor owns.
LEMMA OwnsIs ==
  ASSUME FlowsInv, NEW f \in FlowId, flow[f].at \in Conducting
  PROVE  \A b \in BuildId : Concerns(b, f) =>
           /\ flow[f].at \in {"inserting", "report", "await"}
           /\ flow[f].at \in {"report", "await"} => b = flow[f].build
           /\ row[b].flow = f
BY DEF FlowsInv, Owns, Conducts

-----------------------------------------------------------------------------
(* Until its turn.                                                         *)

LEMMA CreateFlowInv ==
  ASSUME FlowsInv, NEW f \in FlowId, CreateFlow(f)
  PROVE  FlowsInv'
<1> DEFINE r == [NewFlow EXCEPT !.status = "wait", !.at = "committed"]
<1>1. /\ r \in FlowState /\ r.status = "wait" /\ r.at = "committed"
      /\ r.fin = "none" /\ r.ahead = 0 /\ r.build = 0
  BY NewFlowIs DEF FlowState, NewFlow, Positions, OpenFlowStatuses
<1> HIDE DEF r
<1>2. /\ flow' = [flow EXCEPT ![f] = r] /\ UNCHANGED <<lifeVars, cmd, asked, crashes>>
      /\ \A g \in FlowId : Exists(g) <=> g < f
  BY DEF CreateFlow, Conduct, Exists, r
<1>3. /\ flow' \in [FlowId -> FlowState] /\ flow'[f] = r
      /\ \A g \in FlowId \ {f} : flow'[g] = flow[g]
  BY <1>1, <1>2 DEF FlowsInv, FlowsTypeOK
<1>4. ~Exists(f) /\ flow[f].at = "none"
  BY <1>2, FlowFacts DEF FlowId, Exists
<1> USE DEF FlowsInv
<1>5. FlowsTypeOK'
  BY <1>1, <1>2, <1>3 DEF FlowsTypeOK, lifeVars, Created
<1>6. LivingIsOpen' /\ StopsAtEnd' /\ StepInPlan'
  BY <1>1, <1>3
  DEF LivingIsOpen, StopsAtEnd, StepInPlan, OpenFlow, OpenFlowStatuses, Exists
<1>7. \A g \in FlowId : Exists(g)' <=> g < f \/ g = f
  BY <1>1, <1>2, <1>3 DEF Exists
<1>8. Known'
  <2>1. \A g \in FlowId : flow'[g].at # "none" => Exists(g)'
    BY <1>2, <1>3, <1>7 DEF Known
  <2>2. \A g, h \in FlowId : Exists(g)' /\ h < g => Exists(h)'
    BY <1>7 DEF FlowId
  <2>3. ASSUME NEW g \in FlowId, flow'[g].ahead # 0
        PROVE  flow'[flow'[g].ahead].status # "none"
    <3>1. g # f /\ flow[g].ahead # 0 /\ flow'[g].ahead = flow[g].ahead
      BY <1>1, <1>3, <2>3
    <3>2. Exists(flow[g].ahead) /\ flow[g].ahead \in FlowId
      BY <3>1, FlowAssumption DEF Known, FlowsTypeOK, FlowState, FlowId
    <3> QED
      BY <1>3, <1>4, <3>1, <3>2 DEF Exists
  <2>4. ASSUME NEW c \in Clients, cmd'[c].kind # "idle"
        PROVE  flow'[cmd'[c].flow].status # "none"
    <3>1. cmd' = cmd /\ Exists(cmd[c].flow) /\ cmd[c].flow \in FlowId
      BY <1>2, <2>4 DEF Known, FlowsTypeOK, Commands
    <3> QED
      BY <1>3, <1>4, <3>1 DEF Exists
  <2> QED
    BY <2>1, <2>2, <2>3, <2>4 DEF Known, Exists
<1>9. NobodyAhead'
  <2> SUFFICES ASSUME NEW g \in FlowId, NEW h \in FlowId,
                      flow'[g].at \in Passed, h < g
               PROVE  flow'[h].at \notin Living
    BY DEF NobodyAhead
  <2>1. g # f
    BY <1>1, <1>3 DEF Passed, Conducting
  <2>2. Exists(g) /\ flow[g].at \in Passed
    BY <1>3, <2>1 DEF Known, Passed, Conducting
  <2>3. h # f
    BY <1>2, <2>2 DEF FlowId
  <2> QED
    BY <1>3, <2>2, <2>3 DEF NobodyAhead
<1>10. BuildsOfBegun'
  <2>1. \A b \in Created : row[b].flow # f
    BY <1>4, FlowAssumption DEF BuildsOfBegun, FlowId
  <2> QED
    BY <1>2, <1>3, <1>7, <2>1 DEF BuildsOfBegun, lifeVars, Created, Exists
<1>11. \A g \in FlowId : Owns(g)'
  <2>1. Owns(f)'
    BY <1>1, <1>3, OwnsByEnd DEF Conducting
  <2>2. ASSUME NEW g \in FlowId, g # f PROVE Owns(g)'
    <3>1. flow'[g] = flow[g] /\ UNCHANGED <<life, row>>
      BY <1>2, <1>3, <2>2 DEF lifeVars
    <3> QED
      BY <3>1 DEF Owns, Concerns, Conducts, IsStore, Active
  <2> QED
    BY <2>1, <2>2
<1> QED
  BY <1>5, <1>6, <1>8, <1>9, <1>10, <1>11

\* A query that is answered, or forgotten.
LEMMA AheadInv ==
  ASSUME FlowsInv, NEW f \in FlowId, flow[f].at = "queue", NEW g \in 0..MaxFlow,
         g # 0 => Exists(g), Conduct(f, [flow[f] EXCEPT !.ahead = g])
  PROVE  FlowsInv'
<1> DEFINE r == [flow[f] EXCEPT !.ahead = g]
<1>1. /\ r \in FlowState /\ r.at = "queue" /\ r.status = flow[f].status
      /\ r.fin = flow[f].fin /\ r.ahead = g /\ r.build = flow[f].build
  BY FlowFacts DEF FlowState
<1> HIDE DEF r
<1>2. Fits(f, r) /\ Exists(f)
  BY <1>1, FlowFacts DEF Fits, Exists, Passed, Conducting
<1>3. r.at \notin Conducting
  BY <1>1 DEF Conducting
<1> QED
  BY <1>2, <1>3, ConductInv DEF r

LEMMA QueueInv ==
  ASSUME FlowsInv, NEW f \in FlowId,
         \/ RegisterFlow(f) \/ CancelCreateFlow(f) \/ BeginFlow(f) \/ QueuePassed(f)
         \/ QueueWaits(f) \/ PassDrainGate(f) \/ KeepDraining(f)
         \/ \E g \in FlowId : QueueSees(f, g)
  PROVE  FlowsInv'
<1> DEFINE at == flow[f].at
<1> USE DEF At
<1>1. at \in Living /\ at \in Early => flow[f].build = 0 /\ flow[f].fin = "none"
  BY FlowFacts DEF Early, Queued, Ends
<1> USE DEF Living, Early, Queued, Conducting, Passed, Positions
<1>2. CASE RegisterFlow(f)
  BY <1>1, <1>2, GoInv DEF RegisterFlow
<1>3. CASE CancelCreateFlow(f)
  BY <1>1, <1>3, GoInv DEF CancelCreateFlow
<1>4. CASE BeginFlow(f)
  BY <1>1, <1>4, GoInv DEF BeginFlow
<1>5. CASE QueuePassed(f)
  BY <1>1, <1>5, GoInv DEF QueuePassed
<1>6. CASE PassDrainGate(f)
  BY <1>1, <1>6, GoInv DEF PassDrainGate
<1>7. CASE KeepDraining(f)
  BY <1>1, <1>7, GoInv DEF KeepDraining
<1>8. CASE QueueWaits(f)
  <2>1. 0 \in 0..MaxFlow
    BY FlowAssumption
  <2>2. Conduct(f, [flow[f] EXCEPT !.ahead = 0]) /\ at = "queue"
    BY <1>8 DEF QueueWaits
  <2> QED
    BY <2>1, <2>2, AheadInv
<1>9. ASSUME NEW g \in FlowId, QueueSees(f, g) PROVE FlowsInv'
  <2>1. g \in 0..MaxFlow /\ Exists(g)
    BY <1>9, FlowAssumption
    DEF QueueSees, AheadOf, OpenFlow, OpenFlowStatuses, FlowId, Exists
  <2> QED
    BY <1>9, <2>1, AheadInv DEF QueueSees
<1> QED
  BY <1>2, <1>3, <1>4, <1>5, <1>6, <1>7, <1>8, <1>9

\* An orphan gets its stop row: nobody runs it, so nothing else changes.
LEMMA ReconcileInv ==
  ASSUME FlowsInv, NEW f \in FlowId, QueueReconciles(f)
  PROVE  FlowsInv'
<1> DEFINE g == flow[f].ahead
<1>1. /\ flow[f].at = "queue" /\ g # 0 /\ flow[g].at = "none"
      /\ flow' = [flow EXCEPT ![g].status = "stop", ![f].ahead = 0]
      /\ UNCHANGED <<lifeVars, cmd, asked, crashes>>
  BY DEF QueueReconciles, At, Claimed
<1>2. g \in FlowId /\ Exists(g) /\ g # f
  BY <1>1, FlowFacts, FlowAssumption DEF FlowState, FlowId
<1> HIDE DEF g
<1>3. /\ flow' \in [FlowId -> FlowState]
      /\ \A h \in FlowId :
           /\ flow'[h].at = flow[h].at /\ flow'[h].fin = flow[h].fin
           /\ flow'[h].build = flow[h].build
           /\ flow'[h].pos = flow[h].pos /\ flow'[h].plan = flow[h].plan
           /\ flow'[h].ahead \in {0, flow[h].ahead}
           /\ flow'[h].status # flow[h].status => h = g
      /\ flow'[g].status = "stop"
  <2> DEFINE rf == [flow[f] EXCEPT !.ahead = 0]
             rg == [flow[g] EXCEPT !.status = "stop"]
  <2>1. /\ rf \in FlowState /\ rf.at = flow[f].at /\ rf.fin = flow[f].fin
        /\ rf.build = flow[f].build /\ rf.ahead = 0 /\ rf.status = flow[f].status
        /\ rf.pos = flow[f].pos /\ rf.plan = flow[f].plan
    BY FlowFacts, FlowAssumption DEF FlowState
  <2>2. /\ rg \in FlowState /\ rg.at = flow[g].at /\ rg.fin = flow[g].fin
        /\ rg.build = flow[g].build /\ rg.ahead = flow[g].ahead /\ rg.status = "stop"
        /\ rg.pos = flow[g].pos /\ rg.plan = flow[g].plan
    BY <1>2, FlowFacts DEF FlowState, FinalFlowStatuses
  <2>3. flow' = [flow EXCEPT ![g] = rg, ![f] = rf]
    BY <1>1, <1>2 DEF FlowsInv, FlowsTypeOK
  <2> HIDE DEF rf, rg
  <2>4. /\ flow' \in [FlowId -> FlowState] /\ flow'[f] = rf /\ flow'[g] = rg
        /\ \A h \in FlowId : h # f /\ h # g => flow'[h] = flow[h]
    BY <1>2, <2>1, <2>2, <2>3 DEF FlowsInv, FlowsTypeOK
  <2> QED
    BY <1>2, <2>1, <2>2, <2>4
<1>4. \A h \in FlowId : Exists(h)' <=> Exists(h)
  BY <1>2, <1>3 DEF Exists
<1> USE DEF FlowsInv
<1>5. FlowsTypeOK'
  BY <1>1, <1>3 DEF FlowsTypeOK, lifeVars, Created
<1>6. LivingIsOpen' /\ StopsAtEnd' /\ StepInPlan' /\ NobodyAhead'
  BY <1>1, <1>3, <1>4
  DEF LivingIsOpen, StopsAtEnd, StepInPlan, NobodyAhead, OpenFlow, Living, Early,
      Queued, Conducting
<1>7. Known'
  <2>1. ASSUME NEW h \in FlowId, flow'[h].ahead # 0
        PROVE  flow'[flow'[h].ahead].status # "none"
    <3>1. flow'[h].ahead = flow[h].ahead /\ flow[h].ahead # 0
      BY <1>3, <2>1
    <3>2. flow[h].ahead \in FlowId /\ Exists(flow[h].ahead)
      BY <3>1, FlowFacts, FlowAssumption DEF FlowState, FlowId
    <3> QED
      BY <1>4, <3>1, <3>2 DEF Exists
  <2>2. ASSUME NEW c \in Clients, cmd'[c].kind # "idle"
        PROVE  flow'[cmd'[c].flow].status # "none"
    <3>1. cmd' = cmd /\ Exists(cmd[c].flow) /\ cmd[c].flow \in FlowId
      BY <1>1, <2>2 DEF Known, FlowsTypeOK, Commands
    <3> QED
      BY <1>4, <3>1 DEF Exists
  <2>3. \A h \in FlowId : flow'[h].at # "none" => Exists(h)'
    BY <1>3, <1>4 DEF Known
  <2>4. \A h, k \in FlowId : Exists(h)' /\ k < h => Exists(k)'
    BY <1>4 DEF Known
  <2> QED
    BY <2>1, <2>2, <2>3, <2>4 DEF Known, Exists
<1>8. BuildsOfBegun' /\ \A h \in FlowId : Owns(h)'
  BY <1>1, <1>3, <1>4
  DEF BuildsOfBegun, Owns, Conducts, Concerns, IsStore, Active, Created, Exists, lifeVars
<1> QED
  BY <1>5, <1>6, <1>7, <1>8

-----------------------------------------------------------------------------
(* The wave.                                                               *)

\* What the steps of a conductor make of its record.
Becomes(r, s, p, st, b) ==
  /\ r \in FlowState /\ r.at = p /\ r.status = st /\ r.build = b
  /\ r.fin = s.fin /\ r.ahead = s.ahead

LEMMA WaveRecords ==
  ASSUME NEW s \in FlowState, NEW p \in Positions
  PROVE  /\ Becomes([s EXCEPT !.at = p], s, p, s.status, s.build)
         /\ Becomes([s EXCEPT !.at = p, !.started = TRUE], s, p, s.status, s.build)
         /\ \E st \in {s.status, "exec"} :
              Becomes([s EXCEPT !.at = p, !.told = TRUE,
                                !.status = IF s.told THEN @ ELSE "exec"],
                      s, p, st, s.build)
         /\ Becomes([s EXCEPT !.at = p, !.pos = @ + 1, !.build = 0], s, p, s.status, 0)
         /\ Becomes([s EXCEPT !.at = p, !.build = 0], s, p, s.status, 0)
         /\ \A st \in OpenFlowStatuses \cup FinalFlowStatuses :
              Becomes([s EXCEPT !.at = p, !.status = st], s, p, st, s.build)
         /\ \A plan \in Plans :
              Becomes([s EXCEPT !.at = p, !.status = "exec", !.plan = plan],
                      s, p, "exec", s.build)
<1> USE FlowAssumption DEF Becomes, FlowState
<1>0. 0 \in 0..MaxBuild
  OBVIOUS
<1>1. Becomes([s EXCEPT !.at = p], s, p, s.status, s.build)
  OBVIOUS
<1>2. Becomes([s EXCEPT !.at = p, !.started = TRUE], s, p, s.status, s.build)
  OBVIOUS
<1>3. \E st \in {s.status, "exec"} :
        Becomes([s EXCEPT !.at = p, !.told = TRUE,
                          !.status = IF s.told THEN @ ELSE "exec"], s, p, st, s.build)
  <2>1. CASE s.told
    <3>1. Becomes([s EXCEPT !.at = p, !.told = TRUE, !.status = s.status],
                  s, p, s.status, s.build)
      OBVIOUS
    <3> QED
      BY <2>1, <3>1
  <2>2. CASE ~s.told
    <3>1. Becomes([s EXCEPT !.at = p, !.told = TRUE, !.status = "exec"],
                  s, p, "exec", s.build)
      BY DEF OpenFlowStatuses
    <3> QED
      BY <2>2, <3>1
  <2> QED
    BY <2>1, <2>2
<1>4. Becomes([s EXCEPT !.at = p, !.pos = @ + 1, !.build = 0], s, p, s.status, 0)
  <2>1. s.pos + 1 \in Nat \ {0}
    OBVIOUS
  <2> QED
    BY <1>0, <2>1
<1>5. Becomes([s EXCEPT !.at = p, !.build = 0], s, p, s.status, 0)
  BY <1>0
<1>6. ASSUME NEW st \in OpenFlowStatuses \cup FinalFlowStatuses
      PROVE  Becomes([s EXCEPT !.at = p, !.status = st], s, p, st, s.build)
  OBVIOUS
<1>7. ASSUME NEW plan \in Plans
      PROVE  Becomes([s EXCEPT !.at = p, !.status = "exec", !.plan = plan],
                     s, p, "exec", s.build)
  BY DEF OpenFlowStatuses
<1> QED
  BY <1>1, <1>2, <1>3, <1>4, <1>5, <1>6, <1>7

\* A step of a conductor that owns no active build, to a record r.
LEMMA WaveStep ==
  ASSUME FlowsInv, NEW f \in FlowId, NEW r, NEW p, NEW st, NEW bd,
         Conduct(f, r), Becomes(r, flow[f], p, st, bd),
         flow[f].at \in Passed,
         p \in {"plan", "step", "creating", "held", "closing"},
         st = flow[f].status \/ st = "exec" \/ (p = "closing" /\ st = "done"),
         bd = 0 \/ (p = "held" /\ bd = flow[f].build),
         p = "creating" => r.pos <= Len(r.plan),
         \A b \in BuildId : ~Concerns(b, f)
  PROVE  FlowsInv'
<1> USE DEF Living, Early, Queued, Conducting, Passed, Ends
<1>1. Exists(f) /\ flow[f].fin = "none" /\ flow[f].at \in Living
  BY FlowFacts DEF Exists
<1>2. st \in OpenFlowStatuses \/ (p = "closing" /\ st = "done")
  BY <1>1, FlowFacts DEF OpenFlowStatuses
<1>3. Fits(f, r)
  BY <1>1, <1>2, FlowFacts DEF Fits, Becomes, OpenFlowStatuses
<1> QED
  BY <1>1, <1>3, ConductInv

LEMMA WaveInv ==
  ASSUME FlowsInv, NEW f \in FlowId,
         \/ StartConducting(f) \/ PassGate(f) \/ StepRefused(f)
         \/ StepDone(f) \/ StepFailed(f) \/ StepFixed(f) \/ FlowDone(f)
         \/ \E p \in Plans : MakePlan(f, p)
  PROVE  FlowsInv'
<1> DEFINE s == flow[f]
<1> USE DEF At
<1>1. s \in FlowState
  BY FlowFacts
<1>2. s.at \in {"count", "plan", "step", "creating"} => s.build = 0
  BY FlowFacts DEF Ends
<1>3. s.at \in {"plan", "step", "creating", "held"} => \A b \in BuildId : ~Concerns(b, f)
  BY OwnsIs DEF Conducting
<1>4. s.at = "await" /\ ~Active(s.build) => \A b \in BuildId : ~Concerns(b, f)
  BY OwnsIs DEF Conducting, Concerns
<1>5. /\ {"plan", "step", "creating", "held", "closing"} \subseteq Positions
      /\ {"count", "plan", "step", "creating", "await", "held"} \subseteq Passed
      /\ "exec" \in OpenFlowStatuses /\ "done" \in FinalFlowStatuses
  BY DEF Positions, Conducting, Passed, OpenFlowStatuses, FinalFlowStatuses
<1>6. CASE StartConducting(f)
  <2>1. s.at = "count" /\ Conduct(f, [s EXCEPT !.at = "plan", !.started = TRUE])
    BY <1>6 DEF StartConducting
  <2>2. ASSUME NEW b \in BuildId PROVE ~Concerns(b, f)
    <3>1. Active(b) => b \in Created
      BY DEF Active, Created
    <3>2. Active(b) => ~IsStore(b)
      BY <1>6, <3>1 DEF StartConducting, Drained
    <3>3. Active(b) => row[b].flow # f
      BY <2>1, <3>1, FlowAssumption DEF FlowsInv, BuildsOfBegun, FlowId, Early, Queued
    <3> QED
      BY <3>2, <3>3 DEF Concerns
  <2>3. Becomes([s EXCEPT !.at = "plan", !.started = TRUE], s, "plan", s.status, s.build)
    BY <1>1, <1>5, WaveRecords
  <2> QED
    BY <1>2, <1>5, <2>1, <2>2, <2>3, WaveStep
<1>7. CASE PassGate(f)
  <2>1. /\ s.at = "step" /\ Conduct(f, [s EXCEPT !.at = "creating"])
        /\ [s EXCEPT !.at = "creating"].pos <= Len([s EXCEPT !.at = "creating"].plan)
    BY <1>1, <1>7 DEF PassGate, Go, FlowState
  <2>2. Becomes([s EXCEPT !.at = "creating"], s, "creating", s.status, s.build)
    BY <1>1, <1>5, WaveRecords
  <2> QED
    BY <1>2, <1>3, <1>5, <2>1, <2>2, WaveStep
<1>8. CASE StepRefused(f)
  <2> DEFINE r == [s EXCEPT !.at = "step", !.told = TRUE,
                            !.status = IF s.told THEN @ ELSE "exec"]
  <2>1. s.at = "creating" /\ Conduct(f, r)
    BY <1>8 DEF StepRefused
  <2>2. "step" \in Positions
    BY <1>5
  <2>3. \E st \in {s.status, "exec"} : Becomes(r, s, "step", st, s.build)
    BY ONLY ZenonT(30), <1>1, <2>2, WaveRecords
  <2> HIDE DEF r
  <2>4. PICK st \in {s.status, "exec"} : Becomes(r, s, "step", st, s.build)
    BY <2>3
  <2> QED
    BY <1>2, <1>3, <1>5, <2>1, <2>4, WaveStep
<1>9. CASE StepDone(f)
  <2>1. /\ s.at = "await" /\ ~Active(s.build)
        /\ Conduct(f, [s EXCEPT !.at = "step", !.pos = @ + 1, !.build = 0])
    BY <1>9 DEF StepDone, Active
  <2>2. Becomes([s EXCEPT !.at = "step", !.pos = @ + 1, !.build = 0],
                s, "step", s.status, 0)
    BY <1>1, <1>5, WaveRecords
  <2> QED
    BY <1>4, <1>5, <2>1, <2>2, WaveStep
<1>10. CASE StepFailed(f)
  <2>1. /\ s.at = "await" /\ ~Active(s.build)
        /\ Conduct(f, [s EXCEPT !.at = "held", !.status = "exec"])
    BY <1>10 DEF StepFailed, Active
  <2>2. Becomes([s EXCEPT !.at = "held", !.status = "exec"], s, "held", "exec", s.build)
    BY <1>1, <1>5, WaveRecords
  <2> QED
    BY <1>4, <1>5, <2>1, <2>2, WaveStep
<1>11. CASE StepFixed(f)
  <2>1. s.at = "held" /\ Conduct(f, [s EXCEPT !.at = "step", !.build = 0])
    BY <1>11 DEF StepFixed
  <2>2. Becomes([s EXCEPT !.at = "step", !.build = 0], s, "step", s.status, 0)
    BY <1>1, <1>5, WaveRecords
  <2> QED
    BY <1>3, <1>5, <2>1, <2>2, WaveStep
<1>12. CASE FlowDone(f)
  <2>1. s.at = "step" /\ Conduct(f, [s EXCEPT !.at = "closing", !.status = "done"])
    BY <1>12 DEF FlowDone
  <2>2. Becomes([s EXCEPT !.at = "closing", !.status = "done"],
                s, "closing", "done", s.build)
    BY <1>1, <1>5, WaveRecords
  <2> QED
    BY <1>2, <1>3, <1>5, <2>1, <2>2, WaveStep
<1>13. ASSUME NEW p \in Plans, MakePlan(f, p) PROVE FlowsInv'
  <2>1. /\ s.at = "plan"
        /\ Conduct(f, [s EXCEPT !.at = "step", !.status = "exec", !.plan = p])
    BY <1>13 DEF MakePlan
  <2>2. Becomes([s EXCEPT !.at = "step", !.status = "exec", !.plan = p],
                s, "step", "exec", s.build)
    BY <1>1, <1>5, WaveRecords
  <2> QED
    BY <1>2, <1>3, <1>5, <2>1, <2>2, WaveStep
<1> QED
  BY <1>6, <1>7, <1>8, <1>9, <1>10, <1>11, <1>12, <1>13

-----------------------------------------------------------------------------
(* The build of a step.                                                    *)

\* What one more build leaves of the others.
LEMMA AppearIs ==
  ASSUME FlowsTypeOK, NEW b \in BuildId, NEW r \in LifeRow, Appear(b, r)
  PROVE  /\ Grows /\ life[b] = "none" /\ row'[b] = r
         /\ \A d \in BuildId \ {b} : life'[d] = life[d] /\ row'[d] = row[d]
         /\ Created' = Created \cup {b} /\ b \notin Created
<1> USE DEF FlowsTypeOK
<1>1. /\ life[b] = "none" /\ life' = [life EXCEPT ![b] = "active"]
      /\ row' = [row EXCEPT ![b] = r] /\ runs' = runs /\ full' \subseteq full \cup {b}
  BY DEF Appear, Move
<1>2. /\ life' \in [BuildId -> LifeStates] /\ life'[b] = "active"
      /\ \A d \in BuildId \ {b} : life'[d] = life[d]
  BY <1>1 DEF LifeStates
<1>3. /\ row' \in [BuildId -> LifeRow \cup {NoRow}] /\ row'[b] = r
      /\ \A d \in BuildId \ {b} : row'[d] = row[d]
  BY <1>1
<1>4. Created' = Created \cup {b} /\ b \notin Created
  BY <1>1, <1>2 DEF Created
<1> QED
  BY <1>1, <1>2, <1>3, <1>4 DEF Grows

\* While a flow conducts, no other does.
LEMMA OneConducts ==
  ASSUME FlowsInv, NEW f \in FlowId, NEW g \in FlowId, Conducts(f), Conducts(g)
  PROVE  f = g
BY DEF FlowsInv, NobodyAhead, Conducts, Passed, Living, FlowId

LEMMA StepIsIn ==
  ASSUME NEW f \in FlowId, flow[f] \in FlowState, flow[f].pos <= Len(flow[f].plan)
  PROVE  CurrentStep(f) \in Step
<1> DEFINE s == flow[f]
<1>1. s.plan \in Plans \/ s.plan = <<>>
  BY DEF FlowState
<1>2. s.pos \in Nat \ {0}
  BY DEF FlowState
<1>3. s.plan \in Seq(Step)
  <2>1. << >> \in Seq(Step)
    OBVIOUS
  <2>2. Plans \subseteq Seq(Step)
    BY FlowAssumption
  <2> HIDE DEF s
  <2> QED
    BY <1>1, <2>1, <2>2
<1> QED
  BY <1>2, <1>3 DEF CurrentStep

LEMMA CreateStepInv ==
  ASSUME FlowsInv, NEW f \in FlowId, CreateStep(f)
  PROVE  FlowsInv'
<1> DEFINE s == flow[f]
           step == CurrentStep(f)
<1>1. s \in FlowState /\ s.at = "creating" /\ s.pos <= Len(s.plan)
  BY FlowFacts DEF CreateStep, At
<1>2. step \in Step
  BY <1>1, StepIsIn
<1> DEFINE r == [spec |-> step.spec, mode |-> step.mode, flow |-> f]
<1>3. r \in LifeRow
  BY <1>2 DEF Step, LifeRow, FlowId
<1>4. PICK b \in BuildId : Appear(b, r)
  BY DEF CreateStep, Insert
<1>5. r.flow = f
  OBVIOUS
<1> HIDE DEF r, step
<1>6. /\ Grows /\ life[b] = "none" /\ row'[b] = r
      /\ \A d \in BuildId \ {b} : life'[d] = life[d] /\ row'[d] = row[d]
      /\ Created' = Created \cup {b} /\ b \notin Created
  BY <1>3, <1>4, AppearIs DEF FlowsInv
<1> DEFINE q == [s EXCEPT !.at = "inserting"]
<1>7. Becomes(q, s, "inserting", s.status, s.build)
  BY <1>1, WaveRecords DEF Positions, Conducting
<1>8. flow' = [flow EXCEPT ![f] = q]
  BY DEF CreateStep
<1> HIDE DEF q
<1>9. Fits(f, q) /\ Exists(f)
  BY <1>1, <1>7, FlowFacts
  DEF Becomes, Fits, Exists, Living, Early, Queued, Conducting, Passed, Ends
<1>10. Moves(f) /\ flow'[f] = q
  BY <1>8, <1>9, FitsMoves DEF FlowsInv
<1>11. Talk
  BY CalmTalk DEF CreateStep, Calm
<1>12. /\ FlowsTypeOK' /\ LivingIsOpen' /\ StopsAtEnd' /\ StepInPlan'
       /\ Known' /\ NobodyAhead'
  BY <1>6, <1>9, <1>10, <1>11, OneFlowGrows
<1>13. BuildsOfBegun'
  <2>1. \A g \in FlowId : Exists(g)' <=> Exists(g)
    BY <1>9, <1>10 DEF Moves, Exists
  <2>2. \A g \in FlowId : flow'[g].at \in Early => flow[g].at \in Early
    BY <1>10 DEF Moves
  <2>3. flow'[f].at \notin Early
    BY <1>7, <1>10 DEF Becomes, Early, Queued
  <2>4. \A d \in Created : row'[d] = row[d]
    BY <1>6 DEF Created
  <2> QED
    BY <1>5, <1>6, <1>9, <2>1, <2>2, <2>3, <2>4 DEF FlowsInv, BuildsOfBegun, Exists
<1>14. Owns(f)'
  <2>1. ASSUME NEW d \in BuildId, d # b PROVE ~Concerns(d, f)'
    <3>1. ~Concerns(d, f)
      BY <1>1, OwnsIs DEF Conducting
    <3> QED
      BY <1>6, <2>1, <3>1 DEF Concerns, Active, IsStore
  <2> QED
    BY <1>5, <1>6, <1>7, <1>10, <2>1 DEF Owns, Becomes
<1>15. ASSUME NEW g \in FlowId, g # f PROVE Owns(g)'
  <2>1. ~Conducts(g)
    BY <1>1, <1>15, OneConducts DEF Conducts, Conducting
  <2> QED
    BY <1>10, <1>15, <2>1 DEF Moves, Conducts, Owns
<1> QED
  BY <1>12, <1>13, <1>14, <1>15 DEF FlowsInv

LEMMA RegisterStepInv ==
  ASSUME FlowsInv, NEW f \in FlowId, NEW b \in BuildId, RegisterStep(f, b)
  PROVE  FlowsInv'
<1> DEFINE s == flow[f]
           r == [s EXCEPT !.at = "report", !.build = b, !.told = FALSE]
<1>1. s \in FlowState /\ s.at = "inserting"
  BY FlowFacts DEF RegisterStep, At
<1>2. b \in 0..MaxBuild /\ b # 0
  BY FlowAssumption DEF BuildId
<1>3. Becomes(r, s, "report", s.status, b)
  BY <1>1, <1>2 DEF Becomes, FlowState, Positions, Conducting
<1>4. /\ flow' = [flow EXCEPT ![f] = r] /\ Calm
      /\ Active(b) /\ row[b].flow = f /\ b \in Created
      /\ runs' = runs \cup {b} /\ UNCHANGED <<life, row, full>>
  BY DEF RegisterStep, Calm, Enroll, Created
<1> HIDE DEF r
<1>5. Quiet
  BY <1>4 DEF FlowsInv, FlowsTypeOK, Quiet, Created, Active
<1>6. Fits(f, r) /\ Exists(f)
  BY <1>1, <1>3, <1>4, FlowFacts
  DEF Becomes, Fits, Exists, Living, Early, Queued, Conducting, Passed, Ends
<1>7. Moves(f) /\ flow'[f] = r
  BY <1>4, <1>6, FitsMoves DEF FlowsInv
<1>8. Owns(f)'
  <2>1. Conducts(f) /\ Owns(f) /\ Concerns(b, f)
    BY <1>1, <1>4 DEF FlowsInv, Conducts, Conducting, Concerns
  <2>2. \A d \in BuildId : Concerns(d, f)' => d = b
    BY <1>4, <2>1 DEF Owns, Concerns, Active, IsStore
  <2> QED
    BY <1>3, <1>4, <1>7, <2>2 DEF Owns, Becomes
<1> QED
  BY <1>4, <1>5, <1>6, <1>7, <1>8, OneFlow, CalmTalk

LEMMA ReportStepInv ==
  ASSUME FlowsInv, NEW f \in FlowId, ReportStep(f)
  PROVE  FlowsInv'
<1> DEFINE s == flow[f]
           r == [s EXCEPT !.at = "await", !.status = "exec"]
<1>1. s \in FlowState /\ s.at = "report"
  BY FlowFacts DEF ReportStep, At
<1>2. Becomes(r, s, "await", "exec", s.build)
  BY <1>1, WaveRecords DEF Positions, Conducting, OpenFlowStatuses
<1>3. flow' = [flow EXCEPT ![f] = r] /\ Calm /\ UNCHANGED lifeVars
  BY DEF ReportStep, Conduct, Calm, lifeVars
<1> HIDE DEF r
<1>4. Quiet
  BY <1>3, StaysQuiet DEF FlowsInv
<1>5. Fits(f, r) /\ Exists(f)
  BY <1>1, <1>2, FlowFacts
  DEF Becomes, Fits, Exists, Living, Early, Queued, Conducting, Passed, Ends,
      OpenFlowStatuses
<1>6. Moves(f) /\ flow'[f] = r
  BY <1>3, <1>5, FitsMoves DEF FlowsInv
<1>7. Owns(f)'
  <2>1. Conducts(f) /\ Owns(f)
    BY <1>1 DEF FlowsInv, Conducts, Conducting
  <2>2. \A d \in BuildId : Concerns(d, f)' = Concerns(d, f)
    BY <1>3 DEF Concerns, Active, IsStore, lifeVars
  <2> QED
    BY <1>1, <1>2, <1>3, <1>6, <2>1, <2>2 DEF Owns, Becomes, lifeVars
<1> QED
  BY <1>3, <1>4, <1>5, <1>6, <1>7, OneFlow, CalmTalk

-----------------------------------------------------------------------------
(* The end of a conductor.                                                 *)

\* A record of a flow that conducts no more, or never did.
Resting(r, s) ==
  /\ r \in FlowState /\ r.at \notin Living
  /\ r.status \in {s.status} \cup OpenFlowStatuses \cup FinalFlowStatuses
  /\ r.ahead \in {0, s.ahead}
  /\ r.fin # "none" => r.at \in Ends
  /\ r.fin = "fixing" => r.build # 0
  /\ r.build # 0 => r.build = s.build /\ r.fin # "none"

LEMMA RestInv ==
  ASSUME FlowsInv, NEW f \in FlowId, NEW r, Resting(r, flow[f]), Exists(f),
         flow' = [flow EXCEPT ![f] = r], Quiet, Talk
  PROVE  FlowsInv'
<1> USE DEF Living, Early, Queued, Conducting, Passed
<1>1. r.status # "none"
  BY DEF Resting, Exists, OpenFlowStatuses, FinalFlowStatuses
<1>2. Fits(f, r)
  BY <1>1, FlowFacts DEF Resting, Fits
<1>3. Moves(f) /\ flow'[f] = r
  BY <1>2, FitsMoves DEF FlowsInv
<1>4. Owns(f)'
  BY <1>3, OwnsByEnd DEF Resting
<1> QED
  BY <1>3, <1>4, OneFlow

LEMMA FinishingIs ==
  ASSUME NEW s \in FlowState PROVE Resting(Finishing(s), s)
<1> DEFINE b == IF s.at \in {"report", "await"} THEN s.build ELSE 0
           r == [NewFlow EXCEPT !.at = "finishing", !.fin = "opening",
                   !.status = s.status, !.paused = s.paused,
                   !.started = s.started, !.build = b]
<1>1. b \in 0..MaxBuild /\ b \in {0, s.build}
  BY FlowAssumption DEF FlowState
<1> HIDE DEF b
<1>2. /\ r \in FlowState /\ r.at = "finishing" /\ r.fin = "opening" /\ r.build = b
      /\ r.status = s.status /\ r.ahead = 0
  <2>1. NewFlow \in FlowState /\ NewFlow.ahead = 0
    BY NewFlowIs DEF NewFlow
  <2> HIDE DEF NewFlow
  <2> QED
    BY ZenonT(30), <1>1, <2>1 DEF FlowState, Positions
<1>3. r = Finishing(s)
  BY DEF Finishing, b
<1> HIDE DEF r
<1>4. Resting(r, s)
  BY <1>1, <1>2 DEF Resting, Ends, Living, Early, Queued, Conducting
<1> QED
  BY <1>3, <1>4

LEMMA LeftIs ==
  ASSUME NEW s \in FlowState, s.build # 0 => s.fin # "none",
         s.fin = "fixing" => s.build # 0
  PROVE  Resting(Left(s), s)
<1>1. /\ Left(s) \in FlowState /\ Left(s).at = "leaving" /\ Left(s).fin = s.fin
      /\ Left(s).build = s.build /\ Left(s).status = s.status /\ Left(s).ahead = 0
  <2>1. NewFlow \in FlowState /\ NewFlow.ahead = 0
    BY NewFlowIs DEF NewFlow
  <2> QED
    BY <2>1 DEF Left, FlowState, Positions
<1> QED
  BY <1>1 DEF Resting, Ends, Living, Early, Queued, Conducting

\* The records of a stop.
LEMMA StopRecords ==
  ASSUME NEW s \in FlowState, s.at \in Ends, s.fin # "none"
  PROVE  /\ s.build # 0 => Resting([s EXCEPT !.fin = "fixing"], s)
         /\ Resting([s EXCEPT !.fin = "writing"], s)
         /\ Resting(Finished(s), s)
         /\ Resting([Finished(s) EXCEPT !.status = "stop"], s)
<1> USE DEF Ends, Living, Early, Queued, Conducting
<1>1. s.build # 0 => Resting([s EXCEPT !.fin = "fixing"], s)
  BY DEF Resting, FlowState
<1>9. Resting([s EXCEPT !.fin = "writing"], s)
  BY DEF Resting, FlowState
<1> DEFINE q == IF s.at = "finishing" THEN "ended" ELSE s.at
           r == [s EXCEPT !.fin = "none", !.build = 0, !.at = q]
           t == [r EXCEPT !.status = "stop"]
<1>2. q \in Ends /\ q \in Positions /\ q \notin Living
  BY DEF Positions
<1>3. 0 \in 0..MaxBuild
  BY FlowAssumption
<1> HIDE DEF q
<1>4. /\ r \in FlowState /\ r.at = q /\ r.fin = "none" /\ r.build = 0
      /\ r.status = s.status /\ r.ahead = s.ahead
  BY <1>2, <1>3 DEF FlowState
<1>5. /\ t \in FlowState /\ t.at = q /\ t.fin = "none" /\ t.build = 0
      /\ t.status = "stop" /\ t.ahead = s.ahead
  BY <1>2, <1>3 DEF FlowState, FinalFlowStatuses
<1>6. r = Finished(s)
  BY DEF Finished, q, FlowState
<1>7. t = [Finished(s) EXCEPT !.status = "stop"]
  BY <1>6
<1> HIDE DEF r, t
<1>8. Resting(r, s) /\ Resting(t, s)
  BY <1>2, <1>4, <1>5 DEF Resting, FinalFlowStatuses
<1> QED
  BY <1>1, <1>6, <1>7, <1>8, <1>9

\* What a build does after it appeared.
LEMMA QuietSteps ==
  ASSUME FlowsTypeOK, NEW b \in BuildId,
         Land(b) \/ Finish(b) \/ Break(b) \/ Fix(b) \/ Retire(b)
  PROVE  Quiet
<1> USE DEF FlowsTypeOK, Quiet, Created, Active
<1>1. CASE Land(b)
  BY <1>1 DEF Land
<1>2. CASE Finish(b)
  BY <1>2 DEF Finish, Move, LifeStates
<1>3. CASE Break(b)
  BY <1>3 DEF Break, Move, LifeStates
<1>4. CASE Fix(b)
  BY <1>4 DEF Fix, Move, LifeStates
<1>5. CASE Retire(b)
  BY <1>5 DEF Retire
<1> QED
  BY <1>1, <1>2, <1>3, <1>4, <1>5

LEMMA EndInv ==
  ASSUME FlowsInv, NEW f \in FlowId,
         \/ FlowError(f) \/ KillActive(f) \/ NothingToKill(f) \/ SystemFix(f)
         \/ NoSystemFix(f) \/ WriteStop(f) \/ LoseStop(f) \/ LeaveFlow(f) \/ FreeFlow(f)
  PROVE  FlowsInv'
<1> DEFINE s == flow[f]
<1>1. /\ s \in FlowState
      /\ s.at # "none" => Exists(f)
      /\ s.fin # "none" => s.at \in Ends /\ Exists(f)
      /\ s.build # 0 => s.at \in {"report", "await", "held"} \/ s.fin # "none"
  BY FlowFacts DEF Exists
<1>2. ASSUME NEW r, Conduct(f, r), Resting(r, s), Exists(f) PROVE FlowsInv'
  <2>1. Quiet /\ Talk
    BY <1>2, StaysQuiet, CalmTalk DEF Conduct, FlowsInv, lifeVars, Calm
  <2> QED
    BY <1>2, <2>1, RestInv DEF Conduct
<1>3. CASE FlowError(f)
  BY <1>1, <1>2, <1>3, FinishingIs DEF FlowError, Queued, Conducting
<1>4. CASE KillActive(f)
  <2>1. s.fin = "opening" /\ s.build \in runs /\ Conduct(f, [s EXCEPT !.fin = "fixing"])
    BY <1>4 DEF KillActive
  <2>2. s.build # 0
    BY <2>1, FlowAssumption DEF FlowsInv, FlowsTypeOK, Created, BuildId
  <2>3. Resting([s EXCEPT !.fin = "fixing"], s) /\ Exists(f)
    BY <1>1, <2>1, <2>2, StopRecords
  <2> QED
    BY <1>2, <2>1, <2>3
<1>5. CASE NothingToKill(f) \/ NoSystemFix(f)
  <2>1. s.fin # "none" /\ Conduct(f, [s EXCEPT !.fin = "writing"])
    BY <1>5 DEF NothingToKill, NoSystemFix
  <2>2. Resting([s EXCEPT !.fin = "writing"], s) /\ Exists(f)
    BY <1>1, <2>1, StopRecords
  <2> QED
    BY <1>2, <2>1, <2>2
<1>6. CASE SystemFix(f)
  <2>1. /\ s.fin = "fixing" /\ s.build \in BuildId
        /\ flow' = [flow EXCEPT ![f] = [s EXCEPT !.fin = "writing"]] /\ Calm
    BY <1>6, FlowFacts DEF SystemFix, Calm, Created
  <2>2. Resting([s EXCEPT !.fin = "writing"], s) /\ Exists(f)
    BY <1>1, <2>1, StopRecords
  <2>3. Quiet
    BY <1>6, <2>1, QuietSteps DEF SystemFix, FlowsInv
  <2> QED
    BY <2>1, <2>2, <2>3, CalmTalk, RestInv
<1>7. CASE WriteStop(f) \/ LoseStop(f) \/ LeaveFlow(f)
  <2>1. CASE WriteStop(f)
    <3>1. s.fin # "none" /\ Conduct(f, [Finished(s) EXCEPT !.status = "stop"])
      BY <2>1 DEF WriteStop
    <3>2. Resting([Finished(s) EXCEPT !.status = "stop"], s) /\ Exists(f)
      BY <1>1, <3>1, StopRecords
    <3> QED
      BY <1>2, <3>1, <3>2
  <2>2. CASE LoseStop(f)
    <3>1. s.fin # "none" /\ Conduct(f, Finished(s))
      BY <2>2 DEF LoseStop
    <3>2. Resting(Finished(s), s) /\ Exists(f)
      BY <1>1, <3>1, StopRecords
    <3> QED
      BY <1>2, <3>1, <3>2
  <2>3. CASE LeaveFlow(f)
    <3>1. s.at \in {"closing", "ended"} /\ Conduct(f, Left(s))
      BY <2>3 DEF LeaveFlow
    <3>2. Resting(Left(s), s) /\ Exists(f)
      BY <1>1, <3>1, LeftIs, FlowFacts
    <3> QED
      BY <1>2, <3>1, <3>2
  <2> QED
    BY <1>7, <2>1, <2>2, <2>3
<1>8. CASE FreeFlow(f)
  <2>1. Go(f, "none") /\ s.at = "leaving"
    BY <1>8 DEF FreeFlow, At
  <2> QED
    BY <1>1, <2>1, GoInv
    DEF Positions, Living, Early, Queued, Conducting, Passed, Ends
<1> QED
  BY <1>3, <1>4, <1>5, <1>6, <1>7, <1>8

-----------------------------------------------------------------------------
(* Commands.                                                               *)

\* A row or a gate: the conductor is where it was.
Alike(r, s) ==
  /\ r \in FlowState /\ r.at = s.at /\ r.fin = s.fin /\ r.build = s.build
  /\ r.ahead = s.ahead /\ r.pos = s.pos /\ r.plan = s.plan
  /\ r.status \in {s.status} \cup OpenFlowStatuses

LEMMA AlikeInv ==
  ASSUME FlowsInv, NEW f \in FlowId, NEW r, Alike(r, flow[f]), Exists(f),
         flow' = [flow EXCEPT ![f] = r], UNCHANGED lifeVars, Talk
  PROVE  FlowsInv'
<1>1. /\ r.status # "none"
      /\ r.at \in Living => r.status \in OpenFlowStatuses
  BY FlowFacts DEF Alike, Exists, OpenFlowStatuses
<1>2. Fits(f, r)
  BY <1>1, FlowFacts DEF Alike, Fits
<1>3. Moves(f) /\ flow'[f] = r
  BY <1>2, FitsMoves DEF FlowsInv
<1>4. Owns(f)'
  <2>1. Owns(f)
    BY DEF FlowsInv
  <2>2. \A d \in BuildId : Concerns(d, f)' = Concerns(d, f)
    BY DEF Concerns, Active, IsStore, lifeVars
  <2> QED
    BY <1>3, <2>1, <2>2 DEF Owns, Alike, Conducts, lifeVars
<1>5. Quiet
  BY StaysQuiet DEF FlowsInv
<1> QED
  BY <1>3, <1>4, <1>5, OneFlow

LEMMA AlikeRecords ==
  ASSUME NEW s \in FlowState
  PROVE  /\ Alike(s, s)
         /\ \A p \in BOOLEAN : Alike([s EXCEPT !.paused = p], s)
         /\ \A st \in OpenFlowStatuses : Alike([s EXCEPT !.status = st], s)
BY DEF Alike, FlowState

LEMMA CancelledIs ==
  ASSUME NEW s \in FlowState, s.fin # "none" => s.at \in Ends,
         s.fin = "fixing" => s.build # 0,
         s.build # 0 => s.at \in {"report", "await", "held"} \/ s.fin # "none"
  PROVE  Resting(Cancelled(s), s) \/ Alike(Cancelled(s), s)
<1>1. CASE s.at \in Queued \cup Conducting \cup {"closing"}
  <2>1. Cancelled(s) = Finishing(s)
    BY <1>1 DEF Cancelled, Queued, Conducting
  <2> QED
    BY <2>1, FinishingIs
<1>2. CASE s.at = "finishing"
  <2>1. Cancelled(s) = [s EXCEPT !.at = "ended"]
    BY <1>2 DEF Cancelled, Queued, Conducting
  <2>2. Resting([s EXCEPT !.at = "ended"], s)
    BY <1>2 DEF Resting, FlowState, Positions, Ends, Living, Early, Queued, Conducting
  <2> QED
    BY <2>1, <2>2
<1>3. CASE s.at = "born"
  <2>1. Cancelled(s) = [s EXCEPT !.at = "lost"]
    BY <1>3 DEF Cancelled, Queued, Conducting
  <2>2. Resting([s EXCEPT !.at = "lost"], s)
    BY <1>3 DEF Resting, FlowState, Positions, Ends, Living, Early, Queued, Conducting
  <2> QED
    BY <2>1, <2>2
<1>4. CASE s.at \notin Queued \cup Conducting \cup {"closing", "finishing", "born"}
  <2>1. Cancelled(s) = s
    BY <1>4 DEF Cancelled
  <2> QED
    BY <2>1, AlikeRecords
<1> QED
  BY <1>1, <1>2, <1>3, <1>4

LEMMA TalkBegins ==
  ASSUME FlowsInv, NEW c \in Clients, NEW f \in FlowId, Exists(f),
         NEW k \in {"stop", "pause", "resume"}, NEW r, Say(c, k, f, r)
  PROVE  Talk /\ UNCHANGED lifeVars
<1>1. [kind |-> k, flow |-> f] \in Commands
  BY DEF Commands
<1>2. asked' \in 0..MaxCommand
  BY FlowAssumption DEF Say, FlowsInv, FlowsTypeOK
<1>3. cmd' = [cmd EXCEPT ![c] = [kind |-> k, flow |-> f]] /\ UNCHANGED <<lifeVars, crashes>>
  BY DEF Say
<1>4. cmd' \in [Clients -> Commands] /\ cmd'[c].flow = f
      /\ \A d \in Clients \ {c} : cmd'[d] = cmd[d]
  BY <1>1, <1>3 DEF FlowsInv, FlowsTypeOK
<1>5. \A d \in Clients : cmd'[d].kind # "idle" => Exists(cmd'[d].flow)
  BY <1>4 DEF FlowsInv, Known
<1> QED
  BY <1>2, <1>3, <1>4, <1>5 DEF Talk

LEMMA TalkEnds ==
  ASSUME FlowsInv, NEW c \in Clients, NEW k \in {"stop", "pause", "resume"},
         NEW r, Said(c, k, r)
  PROVE  /\ Talk /\ UNCHANGED lifeVars
         /\ cmd[c].flow \in FlowId /\ Exists(cmd[c].flow)
         /\ flow' = [flow EXCEPT ![cmd[c].flow] = r]
<1>1. Idle \in Commands /\ Idle.kind = "idle"
  BY FlowAssumption DEF Commands, Idle, FlowId
<1>2. cmd' = [cmd EXCEPT ![c] = Idle] /\ UNCHANGED <<lifeVars, asked, crashes>>
  BY DEF Said
<1>3. cmd' \in [Clients -> Commands] /\ cmd'[c] = Idle
      /\ \A d \in Clients \ {c} : cmd'[d] = cmd[d]
  BY <1>1, <1>2 DEF FlowsInv, FlowsTypeOK
<1>4. \A d \in Clients : cmd'[d].kind # "idle" => Exists(cmd'[d].flow)
  BY <1>1, <1>3 DEF FlowsInv, Known
<1>5. cmd[c].flow \in FlowId /\ Exists(cmd[c].flow)
  <2>1. cmd[c] \in Commands /\ cmd[c].kind # "idle"
    BY DEF Said, FlowsInv, FlowsTypeOK
  <2> QED
    BY <2>1 DEF Commands, FlowsInv, Known
<1> QED
  BY <1>2, <1>3, <1>4, <1>5 DEF Talk, Said, FlowsInv, FlowsTypeOK

LEMMA CommandInv ==
  ASSUME FlowsInv, NEW c \in Clients, Command(c)
  PROVE  FlowsInv'
<1>1. ASSUME NEW f \in FlowId,
             StopFlowRead(c, f) \/ PauseFlow(c, f) \/ ResumeFlow(c, f)
      PROVE  FlowsInv'
  <2> DEFINE s == flow[f]
  <2>1. s \in FlowState /\ Exists(f)
    BY <1>1, FlowFacts
    DEF StopFlowRead, PauseFlow, ResumeFlow, OpenFlow, OpenFlowStatuses, Registered, Exists
  <2>2. PICK k \in {"stop", "pause", "resume"} :
          \/ Say(c, k, f, s)
          \/ \E p \in BOOLEAN : Say(c, k, f, [s EXCEPT !.paused = p])
    BY <1>1 DEF StopFlowRead, PauseFlow, ResumeFlow
  <2>3. ASSUME NEW r, Say(c, k, f, r), Alike(r, s) PROVE FlowsInv'
    <3>1. Talk /\ UNCHANGED lifeVars
      BY <2>1, <2>3, TalkBegins
    <3> QED
      BY <2>1, <2>3, <3>1, AlikeInv DEF Say
  <2> QED
    BY <2>1, <2>2, <2>3, AlikeRecords
<1> DEFINE f == cmd[c].flow
           s == flow[f]
<1>2. ASSUME NEW k \in {"stop", "pause", "resume"}, NEW r, Said(c, k, r)
      PROVE  /\ f \in FlowId /\ Exists(f) /\ s \in FlowState
             /\ Alike(r, s) => FlowsInv'
             /\ Resting(r, s) => FlowsInv'
  <2>1. /\ Talk /\ UNCHANGED lifeVars /\ f \in FlowId /\ Exists(f)
        /\ flow' = [flow EXCEPT ![f] = r]
    BY <1>2, TalkEnds
  <2>2. s \in FlowState
    BY <2>1, FlowFacts
  <2>3. Quiet
    BY <2>1, StaysQuiet DEF FlowsInv
  <2>4. Alike(r, s) => FlowsInv'
    BY <2>1, AlikeInv
  <2>5. Resting(r, s) => FlowsInv'
    BY <2>1, <2>3, RestInv
  <2> QED
    BY <2>1, <2>2, <2>4, <2>5
<1>3. CASE StopFlowAct(c)
  <2>1. CASE Registered(f) /\ Said(c, "stop", Cancelled(s))
    <3>1. f \in FlowId /\ s \in FlowState
      BY <1>2, <2>1
    <3>2. Resting(Cancelled(s), s) \/ Alike(Cancelled(s), s)
      BY <3>1, FlowFacts, CancelledIs
    <3> QED
      BY <1>2, <2>1, <3>2
  <2>2. CASE ~Claimed(f) /\ Said(c, "stop", [s EXCEPT !.status = "stop"])
    <3>1. f \in FlowId /\ s \in FlowState /\ s.at = "none"
      BY <1>2, <2>2 DEF Claimed, At
    <3>2. s.build # 0 => s.fin # "none"
      BY <3>1, FlowFacts
    <3>3. s.fin = "fixing" => s.build # 0
      BY <3>1, FlowFacts
    <3>4. Resting([s EXCEPT !.status = "stop"], s)
      BY <3>1, <3>2, <3>3
      DEF Resting, FlowState, FinalFlowStatuses, Ends, Living, Early, Queued, Conducting
    <3> QED
      BY <1>2, <2>2, <3>4
  <2>3. CASE Said(c, "stop", s)
    BY <1>2, <2>3, AlikeRecords
  <2> QED
    BY <1>3, <2>1, <2>2, <2>3 DEF StopFlowAct
<1>4. CASE PauseRow(c) \/ ResumeRow(c)
  <2>1. PICK k \in {"pause", "resume"}, st \in OpenFlowStatuses :
          Said(c, k, [s EXCEPT !.status = st])
    <3>1. CASE PauseRow(c)
      BY <3>1 DEF PauseRow, OpenFlowStatuses
    <3>2. CASE ResumeRow(c)
      <4>1. CASE s.started
        BY <3>2, <4>1 DEF ResumeRow, OpenFlowStatuses
      <4>2. CASE ~s.started
        BY <3>2, <4>2 DEF ResumeRow, OpenFlowStatuses
      <4> QED
        BY <4>1, <4>2
    <3> QED
      BY <1>4, <3>1, <3>2
  <2> QED
    BY <1>2, <2>1, AlikeRecords
<1>5. CASE LoseRow(c)
  BY <1>2, <1>5, AlikeRecords DEF LoseRow
<1> QED
  BY <1>1, <1>3, <1>4, <1>5 DEF Command

-----------------------------------------------------------------------------
(* Builds beside the conductors, and crashes.                              *)

LEMMA BuildStepInv ==
  ASSUME FlowsInv, BuildStep
  PROVE  FlowsInv'
<1> USE DEF FlowsInv
<1>1. UNCHANGED <<flow, cmd, asked, crashes>>
  BY DEF BuildStep
<1>2. ASSUME Grows
      PROVE  /\ FlowsTypeOK' /\ LivingIsOpen' /\ StopsAtEnd' /\ StepInPlan'
             /\ Known' /\ NobodyAhead'
  <2>1. FlowsTypeOK'
    BY <1>1, <1>2 DEF FlowsTypeOK, Grows
  <2> QED
    BY <1>1, <2>1
    DEF LivingIsOpen, StopsAtEnd, StepInPlan, Known, NobodyAhead, OpenFlow, Exists
<1>3. ASSUME NEW b \in BuildId,
             Land(b) \/ Finish(b) \/ Break(b) \/ Fix(b) \/ Retire(b)
      PROVE  FlowsInv'
  <2>1. Quiet
    BY <1>3, QuietSteps
  <2>2. Grows
    BY <2>1 DEF Quiet, Grows, FlowsTypeOK
  <2>3. BuildsOfBegun'
    BY <1>1, <2>1 DEF BuildsOfBegun, Quiet, Exists
  <2>4. ASSUME NEW f \in FlowId PROVE Owns(f)'
    <3>1. \A d \in BuildId : Concerns(d, f)' => Concerns(d, f)
      BY <2>1 DEF Concerns, Quiet, IsStore
    <3> QED
      BY <1>1, <2>1, <3>1 DEF Owns, Quiet, Conducts
  <2> QED
    BY <1>2, <2>2, <2>3, <2>4
<1>4. ASSUME NEW s \in Specs, NEW m \in Modes, CreateManual(s, m)
      PROVE  FlowsInv'
  <2> DEFINE r == [spec |-> s, mode |-> m, flow |-> 0]
  <2>1. PICK b \in BuildId : Appear(b, r)
    BY <1>4 DEF CreateManual, Insert
  <2>2. r \in LifeRow /\ r.flow = 0 /\ r.spec = s
    BY FlowAssumption DEF LifeRow
  <2> HIDE DEF r
  <2>3. /\ Grows /\ row'[b] = r
        /\ \A d \in BuildId \ {b} : life'[d] = life[d] /\ row'[d] = row[d]
        /\ Created' = Created \cup {b} /\ b \notin Created
    BY <2>1, <2>2, AppearIs
  <2>4. BuildsOfBegun'
    BY <1>1, <2>2, <2>3 DEF BuildsOfBegun, Exists, Created
  <2>5. ASSUME NEW f \in FlowId, Conducts(f) PROVE Owns(f)'
    <3>1. s \notin StoreSpecs
      BY <1>4, <2>5 DEF CreateManual, LivingIsOpen, Conducts, Living
    <3>2. ~Concerns(b, f)'
      BY <2>2, <2>3, <3>1, FlowAssumption DEF Concerns, IsStore, FlowId
    <3>3. \A d \in BuildId \ {b} : Concerns(d, f)' = Concerns(d, f)
      BY <2>3 DEF Concerns, Active, IsStore
    <3> QED
      BY <1>1, <2>3, <2>5, <3>2, <3>3 DEF Owns, Conducts
  <2>6. \A f \in FlowId : Owns(f)'
    BY <1>1, <2>5 DEF Owns, Conducts
  <2> QED
    BY <1>2, <2>3, <2>4, <2>6
<1> QED
  BY <1>3, <1>4 DEF BuildStep

LEMMA CrashInv ==
  ASSUME FlowsInv, Crash
  PROVE  FlowsInv'
<1> USE DEF FlowsInv
<1>1. /\ life' = life /\ row' = row /\ full' = full /\ runs' = {}
      /\ flow' = [f \in FlowId |-> [NewFlow EXCEPT !.status = flow[f].status]]
      /\ cmd' = [c \in Clients |-> Idle] /\ asked' = asked
      /\ crashes' \in 0..MaxCrash
  BY FlowAssumption DEF Crash, Restart, FlowsTypeOK
<1>2. ASSUME NEW f \in FlowId
      PROVE  /\ flow'[f] \in FlowState /\ flow'[f].status = flow[f].status
             /\ flow'[f].at = "none" /\ flow'[f].fin = "none"
             /\ flow'[f].build = 0 /\ flow'[f].ahead = 0
  <2>1. /\ NewFlow \in FlowState /\ NewFlow.at = "none" /\ NewFlow.fin = "none"
        /\ NewFlow.build = 0 /\ NewFlow.ahead = 0
    BY NewFlowIs DEF NewFlow
  <2>2. flow'[f] = [NewFlow EXCEPT !.status = flow[f].status]
    BY <1>1
  <2>3. flow[f] \in FlowState
    BY DEF FlowsTypeOK
  <2> HIDE DEF NewFlow
  <2> QED
    BY <2>1, <2>2, <2>3 DEF FlowState
<1>3. FlowsTypeOK'
  <2>1. Idle \in Commands
    BY FlowAssumption DEF Commands, Idle, FlowId
  <2>2. flow' \in [FlowId -> FlowState]
    BY <1>1, <1>2
  <2>3. cmd' \in [Clients -> Commands]
    BY <1>1, <2>1
  <2> QED
    BY <1>1, <1>2, <2>2, <2>3 DEF FlowsTypeOK, Created
<1>4. \A f \in FlowId : flow'[f].at \notin Living /\ (Exists(f)' <=> Exists(f))
  BY <1>2 DEF Living, Early, Queued, Conducting, Exists
<1>5. LivingIsOpen' /\ StopsAtEnd' /\ StepInPlan' /\ NobodyAhead'
  BY <1>2, <1>4
  DEF LivingIsOpen, StopsAtEnd, StepInPlan, NobodyAhead, Living, Passed, Early, Queued
<1>6. Known'
  BY <1>1, <1>2, <1>4 DEF Known, Idle
<1>7. BuildsOfBegun'
  BY <1>1, <1>2, <1>4 DEF BuildsOfBegun, Created, Living, Exists
<1>8. \A f \in FlowId : Owns(f)'
  BY <1>4 DEF Owns, Conducts, Living
<1> QED
  BY <1>3, <1>5, <1>6, <1>7, <1>8

-----------------------------------------------------------------------------
(* Every step.                                                             *)

LEMMA NextInv ==
  ASSUME FlowsInv, FlowsNext
  PROVE  FlowsInv'
<1>1. ASSUME NEW f \in FlowId, FlowStep(f) PROVE FlowsInv'
  <2>1. CASE CreateFlow(f)
    BY <2>1, CreateFlowInv
  <2>2. CASE RegisterFlow(f) \/ CancelCreateFlow(f) \/ BeginFlow(f)
    BY <2>2, QueueInv
  <2>3. CASE Turn(f)
    BY <2>3, QueueInv, ReconcileInv DEF Turn
  <2>4. CASE Wave(f)
    <3>1. CASE PassDrainGate(f) \/ KeepDraining(f)
      BY <3>1, QueueInv
    <3>2. CASE CreateStep(f)
      BY <3>2, CreateStepInv
    <3>3. CASE ReportStep(f)
      BY <3>3, ReportStepInv
    <3>4. ASSUME NEW b \in BuildId, RegisterStep(f, b) PROVE FlowsInv'
      BY <3>4, RegisterStepInv
    <3>5. CASE \/ StartConducting(f) \/ PassGate(f) \/ StepRefused(f)
               \/ StepDone(f) \/ StepFailed(f) \/ StepFixed(f) \/ FlowDone(f)
               \/ \E p \in Plans : MakePlan(f, p)
      BY <3>5, WaveInv
    <3> QED
      BY <2>4, <3>1, <3>2, <3>3, <3>4, <3>5 DEF Wave
  <2>5. CASE FlowError(f) \/ EndFlow(f) \/ LoseStop(f)
    BY <2>5, EndInv DEF EndFlow
  <2> QED
    BY <1>1, <2>1, <2>2, <2>3, <2>4, <2>5 DEF FlowStep
<1> QED
  BY <1>1, BuildStepInv, CommandInv, CrashInv DEF FlowsNext

LEMMA StutterInv == FlowsInv /\ UNCHANGED allVars => FlowsInv'
BY DEF allVars, lifeVars, FlowsInv, FlowsTypeOK, LivingIsOpen, StopsAtEnd,
       StepInPlan, Known, NobodyAhead, BuildsOfBegun, Owns, Conducts, Concerns,
       IsStore, Active, Created, Exists, OpenFlow

\* The flows that live are open, whatever rows come late, so whoever waits for
\* its turn waits for them; the active builds of stores are the step's own.
THEOREM FlowsInvariant == FlowsSpec => []FlowsInv
<1>1. FlowsInv /\ [FlowsNext]_allVars => FlowsInv'
  BY NextInv, StutterInv
<1> QED
  BY InitInv, <1>1, PTL DEF FlowsSpec

\* Conductors, commands and journals stay within their types, and a build that
\* a conductor holds exists.
THEOREM FlowsTypes == FlowsSpec => []FlowsTypeOK
<1>1. FlowsInv => FlowsTypeOK
  BY DEF FlowsInv
<1> QED
  BY <1>1, FlowsInvariant, PTL

\* One flow at a time, in the order of flow_id (_flow_wait_turn): while one
\* conducts no other does, and none ahead of it is still to come.
THEOREM WaveInOrderHolds == FlowsSpec => []WaveInOrder
<1>1. FlowsInv => WaveInOrder
  <2> SUFFICES ASSUME FlowsInv, NEW f \in FlowId, NEW g \in FlowId,
                      Conducts(f), g # f
               PROVE  /\ ~Conducts(g)
                      /\ g < f => flow[g].at \notin Queued \cup {"committed", "born"}
    BY DEF WaveInOrder
  <2>1. ~Conducts(g)
    BY OneConducts
  <2>2. g < f => flow[g].at \notin Living
    BY DEF FlowsInv, NobodyAhead, Conducts, Passed
  <2> QED
    BY <2>1, <2>2 DEF Living, Early
<1> QED
  BY <1>1, FlowsInvariant, PTL

\* During a wave only the wave writes stores (_require_no_open_flow, the drain
\* of _flow_wait_turn): an active store build is of the flow that conducts, and
\* there is one at most.
THEOREM WaveOwnsStoresHolds == FlowsSpec => []WaveOwnsStores
<1>1. FlowsInv => WaveOwnsStores
  <2> SUFFICES ASSUME FlowsInv, NEW f \in FlowId, Conducts(f),
                      NEW b \in Created, NEW d \in Created,
                      IsStore(b), IsStore(d), Active(b), Active(d)
               PROVE  row[b].flow = f /\ d = b
    BY DEF WaveOwnsStores
  <2>1. b \in BuildId /\ d \in BuildId
    BY DEF Created
  <2> QED
    BY <2>1 DEF FlowsInv, Owns, Concerns
<1> QED
  BY <1>1, FlowsInvariant, PTL
=============================================================================
