----------------------------- MODULE WaveProofs -----------------------------
(***************************************************************************)
(* Proofs about Flows, for any specs, plans, clients and any number of     *)
(* flows, builds, commands and crashes: no wave goes past a step that was  *)
(* not built.                                                              *)
(***************************************************************************)
EXTENDS FlowsProofs

Waving == Conducting \cup {"closing"}  \* where a wave has gone past steps
Awaits == {"report", "await"}          \* where it waits for a build

\* A build is done only after its whole slice has landed.
DoneIsFull == \A b \in BuildId : life[b] = "done" => b \in full

\* Until it has a plan a conductor is at its first step.
FirstStep(s) == s.at \in Early \cup {"plan"} => s.pos = 1

RowOf(step, f) == [spec |-> step.spec, mode |-> step.mode, flow |-> f]

\* Builds of the first n steps of the plan of f, in its order.
Built(f, n, ids) ==
  /\ \A i, j \in 1..n : i < j => ids[i] < ids[j]
  /\ \A i \in 1..n : row[ids[i]] = RowOf(flow[f].plan[i], f)

\* Build b is of the step after those, and behind them.
IsNext(f, n, ids, b) ==
  /\ b \in Created /\ row[b] = RowOf(flow[f].plan[n + 1], f)
  /\ \A i \in 1..n : ids[i] < b

\* The steps that a wave has gone past are built, n of them; the build that it
\* is about to register, or waits for, is the one of the next step.
SoFar(f, n, ids) ==
  /\ Built(f, n, ids)
  /\ flow[f].at = "inserting" =>
       \A b \in BuildId : Active(b) /\ row[b].flow = f => IsNext(f, n, ids, b)
  /\ flow[f].at \in Awaits => IsNext(f, n, ids, flow[f].build)

WaveSoFar(f) ==
  flow[f].at \in Waving =>
    \E ids \in [1..(flow[f].pos - 1) -> full] : SoFar(f, flow[f].pos - 1, ids)

WaveBuilt ==
  /\ FlowsInv
  /\ DoneIsFull
  /\ \A f \in FlowId : FirstStep(flow[f]) /\ WaveSoFar(f)

-----------------------------------------------------------------------------
(* What a step leaves of the builds.                                       *)

\* What has landed and what was created stays; no build of flow f becomes
\* active.
Holds(f) ==
  /\ full \subseteq full' /\ Created \subseteq Created'
  /\ \A b \in Created : row'[b] = row[b]
  /\ \A b \in BuildId : Active(b)' /\ row'[b].flow = f => Active(b) /\ row[b].flow = f

\* One build appears, in row r.
LEMMA AppearHolds ==
  ASSUME FlowsTypeOK, NEW b \in BuildId, NEW r \in LifeRow, Appear(b, r),
         NEW f \in FlowId, r.flow # f
  PROVE  Holds(f)
<1>1. full \subseteq full'
  BY DEF Appear
<1>2. /\ row'[b] = r /\ b \notin Created
      /\ \A d \in BuildId \ {b} : life'[d] = life[d] /\ row'[d] = row[d]
  BY AppearIs
<1> QED
  BY <1>1, <1>2 DEF Holds, Created, Active, Grows

LEMMA AppearDone ==
  ASSUME FlowsTypeOK, DoneIsFull, NEW b \in BuildId, NEW r, Appear(b, r)
  PROVE  DoneIsFull'
BY DEF Appear, Move, DoneIsFull, FlowsTypeOK

LEMMA BuildMoves ==
  ASSUME FlowsTypeOK, DoneIsFull, NEW b \in BuildId,
         \/ Land(b) \/ Finish(b) \/ Break(b) \/ Fix(b) \/ Retire(b) \/ Enroll(b)
  PROVE  DoneIsFull' /\ \A f \in FlowId : Holds(f)
BY DEF Land, Finish, Break, Fix, Retire, Enroll, Move, DoneIsFull, Holds,
       FlowsTypeOK, Active, Created

LEMMA BuildsAlone ==
  ASSUME DoneIsFull, UNCHANGED <<life, row, full>>
  PROVE  DoneIsFull' /\ \A f \in FlowId : Holds(f)
BY DEF DoneIsFull, Holds, Active, Created

-----------------------------------------------------------------------------
(* What a step leaves of a conductor.                                      *)

\* Record r is at no step that s was not at, and waits for no other build.
Rides(r, s) ==
  r.at \in Waving =>
    /\ s.at \in Waving /\ r.pos = s.pos /\ r.plan = s.plan
    /\ r.at = "inserting" => s.at = "inserting"
    /\ r.at \in Awaits => s.at \in Awaits /\ r.build = s.build

\* It is at its first step.
Fresh(r) == r.at \in {"plan", "step"} /\ r.pos = 1

Keeps(r, s) == FirstStep(r) /\ (Rides(r, s) \/ Fresh(r))

LEMMA RidesInv ==
  ASSUME FlowsInv, NEW f \in FlowId, WaveSoFar(f), Holds(f),
         Rides(flow'[f], flow[f])
  PROVE  WaveSoFar(f)'
<1> SUFFICES ASSUME flow'[f].at \in Waving PROVE WaveSoFar(f)'
  BY DEF WaveSoFar
<1>1. /\ flow[f].at \in Waving /\ flow'[f].pos = flow[f].pos
      /\ flow'[f].plan = flow[f].plan
      /\ flow'[f].at = "inserting" => flow[f].at = "inserting"
      /\ flow'[f].at \in Awaits => flow[f].at \in Awaits /\ flow'[f].build = flow[f].build
  BY DEF Rides
<1>2. PICK n \in Nat : n = flow[f].pos - 1
  BY FlowFacts DEF FlowState
<1>3. PICK ids \in [1..n -> full] : SoFar(f, n, ids)
  BY <1>1, <1>2 DEF WaveSoFar
<1>4. /\ ids \in [1..n -> full'] /\ \A i \in 1..n : row'[ids[i]] = row[ids[i]]
      /\ \A b \in Created : row'[b] = row[b] /\ b \in Created'
  BY DEF Holds, FlowsInv, FlowsTypeOK
<1>5. SoFar(f, n, ids)'
  <2>1. Built(f, n, ids)'
    BY <1>1, <1>3, <1>4 DEF SoFar, Built
  <2>2. ASSUME NEW b, IsNext(f, n, ids, b) PROVE IsNext(f, n, ids, b)'
    BY <1>1, <1>4, <2>2 DEF IsNext
  <2>3. ASSUME flow'[f].at = "inserting", NEW b \in BuildId, Active(b)', row'[b].flow = f
        PROVE  IsNext(f, n, ids, b)'
    BY <1>1, <1>3, <2>2, <2>3 DEF SoFar, Holds
  <2>4. ASSUME flow'[f].at \in Awaits
        PROVE  IsNext(f, n, ids, flow[f].build)'
    BY <1>1, <1>3, <2>2, <2>4 DEF SoFar
  <2> QED
    BY <1>1, <2>1, <2>3, <2>4 DEF SoFar
<1> QED
  BY <1>1, <1>2, <1>4, <1>5 DEF WaveSoFar

LEMMA FreshInv ==
  ASSUME NEW f \in FlowId, Fresh(flow'[f])
  PROVE  WaveSoFar(f)'
<1> DEFINE ids == [i \in 1..0 |-> 0]
<1>1. ids \in [1..0 -> full'] /\ flow'[f].pos - 1 = 0
  BY DEF Fresh
<1>2. SoFar(f, 0, ids)'
  BY DEF Fresh, SoFar, Built, Awaits
<1> QED
  BY <1>1, <1>2 DEF WaveSoFar

-----------------------------------------------------------------------------
(* The build of a step: created, registered, done.                         *)

LEMMA CreateStepWave ==
  ASSUME WaveBuilt, NEW f \in FlowId, CreateStep(f)
  PROVE  DoneIsFull' /\ \A g \in FlowId : FirstStep(flow'[g]) /\ WaveSoFar(g)'
<1> DEFINE s == flow[f]
           r == RowOf(CurrentStep(f), f)
<1> USE DEF WaveBuilt
<1>1. s \in FlowState /\ s.at = "creating" /\ s.pos <= Len(s.plan)
  BY FlowFacts DEF CreateStep, At
<1>2. r \in LifeRow /\ r.flow = f
  BY <1>1, StepIsIn DEF RowOf, Step, LifeRow, FlowId
<1>3. PICK b \in BuildId : Appear(b, r)
  BY DEF CreateStep, Insert, RowOf
<1>4. /\ row'[b] = r /\ b \notin Created /\ Created' = Created \cup {b}
      /\ \A d \in BuildId \ {b} : life'[d] = life[d] /\ row'[d] = row[d]
      /\ full \subseteq full' /\ full \subseteq Created
  BY <1>2, <1>3, AppearIs DEF FlowsInv, FlowsTypeOK, Appear
<1>5. /\ flow' = [flow EXCEPT ![f].at = "inserting"]
      /\ flow'[f].at = "inserting" /\ flow'[f].pos = s.pos /\ flow'[f].plan = s.plan
      /\ \A g \in FlowId \ {f} : flow'[g] = flow[g]
  BY <1>1 DEF CreateStep, FlowsInv, FlowsTypeOK, FlowState
<1>6. DoneIsFull'
  BY <1>3, AppearDone DEF FlowsInv
<1>7. ASSUME NEW g \in FlowId, g # f PROVE FirstStep(flow'[g]) /\ WaveSoFar(g)'
  <2>1. Holds(g)
    BY <1>2, <1>3, <1>7, AppearHolds DEF FlowsInv
  <2>2. Rides(flow'[g], flow[g])
    BY <1>5, <1>7 DEF Rides
  <2> QED
    BY <1>5, <1>7, <2>1, <2>2, RidesInv
<1>8. FirstStep(flow'[f])
  BY <1>5 DEF FirstStep, Early, Queued
<1>9. WaveSoFar(f)'
  <2>1. PICK n \in Nat : n = s.pos - 1
    BY <1>1 DEF FlowState
  <2>2. PICK ids \in [1..n -> full] : SoFar(f, n, ids)
    BY <1>1, <2>1 DEF WaveSoFar, Waving, Conducting
  <2>3. /\ ids \in [1..n -> full']
        /\ \A i \in 1..n : ids[i] \in Created /\ ids[i] # b /\ row'[ids[i]] = row[ids[i]]
    BY <1>4 DEF Created
  <2>4. Built(f, n, ids)'
    BY <1>5, <2>2, <2>3 DEF SoFar, Built
  <2>5. IsNext(f, n, ids, b)'
    <3>1. row'[b] = RowOf(flow'[f].plan[n + 1], f)
      BY <1>1, <1>4, <1>5, <2>1 DEF CurrentStep, FlowState
    <3>2. \A i \in 1..n : ids[i] < b
      BY <1>3, <2>3 DEF Appear
    <3> QED
      BY <1>4, <3>1, <3>2 DEF IsNext
  <2>6. ASSUME NEW d \in BuildId, Active(d)', row'[d].flow = f PROVE d = b
    BY <1>1, <1>4, <2>6, OwnsIs DEF Concerns, Active, Conducting
  <2>7. SoFar(f, n, ids)'
    BY <1>5, <2>4, <2>5, <2>6 DEF SoFar, Awaits
  <2> QED
    BY <1>5, <2>1, <2>3, <2>7 DEF WaveSoFar
<1> QED
  BY <1>6, <1>7, <1>8, <1>9

LEMMA RegisterStepWave ==
  ASSUME WaveBuilt, NEW f \in FlowId, NEW b \in BuildId, RegisterStep(f, b)
  PROVE  DoneIsFull' /\ \A g \in FlowId : FirstStep(flow'[g]) /\ WaveSoFar(g)'
<1> DEFINE s == flow[f]
<1> USE DEF WaveBuilt
<1>1. s \in FlowState /\ s.at = "inserting"
  BY FlowFacts DEF RegisterStep, At
<1>2. /\ flow'[f].at = "report" /\ flow'[f].build = b
      /\ flow'[f].pos = s.pos /\ flow'[f].plan = s.plan
      /\ \A g \in FlowId \ {f} : flow'[g] = flow[g]
      /\ UNCHANGED <<life, row, full>> /\ Active(b) /\ row[b].flow = f
  BY <1>1 DEF RegisterStep, Enroll, FlowsInv, FlowsTypeOK, FlowState
<1>3. DoneIsFull' /\ \A g \in FlowId : Holds(g)
  BY <1>2, BuildsAlone
<1>4. ASSUME NEW g \in FlowId, g # f PROVE FirstStep(flow'[g]) /\ WaveSoFar(g)'
  BY <1>2, <1>3, <1>4, RidesInv DEF Rides
<1>5. FirstStep(flow'[f])
  BY <1>2 DEF FirstStep, Early, Queued
<1>6. WaveSoFar(f)'
  <2>1. PICK n \in Nat : n = s.pos - 1
    BY <1>1 DEF FlowState
  <2>2. PICK ids \in [1..n -> full] : SoFar(f, n, ids)
    BY <1>1, <2>1 DEF WaveSoFar, Waving, Conducting
  <2>3. Built(f, n, ids)'
    BY <1>2, <2>2 DEF SoFar, Built
  <2>4. IsNext(f, n, ids, b)'
    BY <1>1, <1>2, <2>2 DEF SoFar, IsNext, Created
  <2>5. SoFar(f, n, ids)'
    BY <1>2, <2>3, <2>4 DEF SoFar, Awaits
  <2> QED
    BY <1>2, <2>1, <2>2, <2>5 DEF WaveSoFar
<1> QED
  BY <1>3, <1>4, <1>5, <1>6

\* The build of the step landed: it is the last of those the wave has built.
LEMMA StepDoneWave ==
  ASSUME WaveBuilt, NEW f \in FlowId, StepDone(f)
  PROVE  DoneIsFull' /\ \A g \in FlowId : FirstStep(flow'[g]) /\ WaveSoFar(g)'
<1> DEFINE s == flow[f]
           b == s.build
<1> USE DEF WaveBuilt
<1>1. s \in FlowState /\ s.at = "await" /\ life[b] = "done"
  BY FlowFacts DEF StepDone, At
<1>2. /\ flow'[f].at = "step" /\ flow'[f].pos = s.pos + 1 /\ flow'[f].plan = s.plan
      /\ \A g \in FlowId \ {f} : flow'[g] = flow[g]
      /\ UNCHANGED lifeVars
  BY <1>1 DEF StepDone, Conduct, FlowsInv, FlowsTypeOK, FlowState
<1>3. DoneIsFull' /\ \A g \in FlowId : Holds(g)
  BY <1>2, BuildsAlone DEF lifeVars
<1>4. ASSUME NEW g \in FlowId, g # f PROVE FirstStep(flow'[g]) /\ WaveSoFar(g)'
  BY <1>2, <1>3, <1>4, RidesInv DEF Rides
<1>5. FirstStep(flow'[f])
  BY <1>2 DEF FirstStep, Early, Queued
<1>6. WaveSoFar(f)'
  <2>1. PICK n \in Nat : n = s.pos - 1
    BY <1>1 DEF FlowState
  <2>2. PICK ids \in [1..n -> full] : SoFar(f, n, ids)
    BY <1>1, <2>1 DEF WaveSoFar, Waving, Conducting
  <2>3. b \in full /\ IsNext(f, n, ids, b)
    BY <1>1, <2>2 DEF SoFar, Awaits, DoneIsFull, IsNext, Created
  <2>4. PICK more \in [1..(n + 1) -> full] :
          more = [i \in 1..(n + 1) |-> IF i <= n THEN ids[i] ELSE b]
    <3>1. \A i \in 1..(n + 1) : i <= n => i \in 1..n
      OBVIOUS
    <3>2. [i \in 1..(n + 1) |-> IF i <= n THEN ids[i] ELSE b] \in [1..(n + 1) -> full]
      BY <2>3, <3>1
    <3> QED
      BY <3>2
  <2>5. /\ \A i \in 1..n : more[i] = ids[i]
        /\ more[n + 1] = b
        /\ \A i \in 1..(n + 1) : i \in 1..n \/ i = n + 1
    BY <2>4
  <2>6. \A i, j \in 1..(n + 1) : i < j => more[i] < more[j]
    <3> SUFFICES ASSUME NEW i \in 1..(n + 1), NEW j \in 1..(n + 1), i < j
                 PROVE  more[i] < more[j]
      OBVIOUS
    <3>1. i \in 1..n
      OBVIOUS
    <3>2. CASE j \in 1..n
      BY <2>2, <2>5, <3>1, <3>2 DEF SoFar, Built
    <3>3. CASE j = n + 1
      BY <2>3, <2>5, <3>1, <3>3 DEF IsNext
    <3> QED
      BY <2>5, <3>2, <3>3
  <2>7. \A i \in 1..(n + 1) : row[more[i]] = RowOf(s.plan[i], f)
    <3> SUFFICES ASSUME NEW i \in 1..(n + 1) PROVE row[more[i]] = RowOf(s.plan[i], f)
      OBVIOUS
    <3>1. CASE i \in 1..n
      BY <2>2, <2>5, <3>1 DEF SoFar, Built
    <3>2. CASE i = n + 1
      BY <2>3, <2>5, <3>2 DEF IsNext
    <3> QED
      BY <2>5, <3>1, <3>2
  <2>8. SoFar(f, n + 1, more)'
    BY <1>2, <2>6, <2>7 DEF SoFar, Built, Awaits, lifeVars
  <2>9. flow'[f].pos - 1 = n + 1 /\ full' = full
    BY <1>1, <1>2, <2>1 DEF FlowState, lifeVars
  <2> QED
    BY <2>4, <2>8, <2>9 DEF WaveSoFar
<1> QED
  BY <1>3, <1>4, <1>5, <1>6
-----------------------------------------------------------------------------
(* Every other step.                                                       *)

\* A step of flow f alone, to a record r.
LEMMA OneKeeps ==
  ASSUME WaveBuilt, NEW f \in FlowId, NEW r, flow' = [flow EXCEPT ![f] = r],
         Keeps(r, flow[f])
  PROVE  \A g \in FlowId : Keeps(flow'[g], flow[g])
<1>1. flow'[f] = r /\ \A g \in FlowId \ {f} : flow'[g] = flow[g]
  BY DEF WaveBuilt, FlowsInv, FlowsTypeOK
<1> QED
  BY <1>1 DEF WaveBuilt, Keeps, Rides

\* A conductor that has ended, or was never run, has gone past nothing.
Out(r) == r.at \in {"none", "finishing", "ended", "leaving", "lost"}

LEMMA OutKeeps == ASSUME NEW r, NEW s, Out(r) PROVE Keeps(r, s)
BY DEF Out, Keeps, FirstStep, Rides, Early, Queued, Waving, Conducting

LEMMA EndRecords ==
  ASSUME NEW s \in FlowState
  PROVE  /\ Out(Finishing(s)) /\ Out(Left(s))
         /\ s.at \in Ends => /\ Out(Finished(s))
                             /\ Out([Finished(s) EXCEPT !.status = "stop"])
                             /\ \A q : Out([s EXCEPT !.fin = q])
         /\ Cancelled(s) = s \/ Out(Cancelled(s))
<1>1. Out(Finishing(s)) /\ Out(Left(s))
  BY DEF Out, Finishing, Left, NewFlow
<1>2. CASE s.at \in Ends
  BY <1>1, <1>2 DEF Out, Finished, FlowState, Ends, Cancelled, Queued, Conducting
<1>3. Cancelled(s) = s \/ Out(Cancelled(s))
  <2>1. CASE s.at \in Queued \cup Conducting \cup {"closing"}
    <3>1. Cancelled(s) = Finishing(s)
      BY <2>1 DEF Cancelled, Queued, Conducting
    <3> QED
      BY <1>1, <3>1
  <2>2. CASE s.at \notin Queued \cup Conducting \cup {"closing"}
    BY <2>2 DEF Cancelled, FlowState, Out
  <2> QED
    BY <2>1, <2>2
<1> QED
  BY <1>1, <1>2, <1>3

\* A conductor that goes from s to position p, at the same step of the same
\* plan.
LEMMA WalkRecords ==
  ASSUME NEW s \in FlowState, FirstStep(s), NEW p \in Positions,
         p \in Early \cup {"plan"} => s.at \in Early,
         p \in Waving \ {"plan"} => s.at \in Waving,
         p # "inserting",
         p \in Awaits => s.at \in Awaits
  PROVE  /\ Keeps([s EXCEPT !.at = p], s)
         /\ \A q : Keeps([s EXCEPT !.at = p, !.started = q], s)
         /\ \A q, st : Keeps([s EXCEPT !.at = p, !.told = q, !.status = st], s)
         /\ \A st : Keeps([s EXCEPT !.at = p, !.status = st], s)
         /\ p \notin Awaits => Keeps([s EXCEPT !.at = p, !.build = 0], s)
BY DEF Keeps, FirstStep, Rides, Fresh, Early, Queued, Waving, Conducting, Awaits, FlowState
LEMMA KeepsInv ==
  ASSUME WaveBuilt, DoneIsFull', \A g \in FlowId : Holds(g),
         \A g \in FlowId : Keeps(flow'[g], flow[g])
  PROVE  DoneIsFull' /\ \A g \in FlowId : FirstStep(flow'[g]) /\ WaveSoFar(g)'
BY RidesInv, FreshInv DEF WaveBuilt, Keeps

LEMMA FlowStepKeeps ==
  ASSUME WaveBuilt, NEW f \in FlowId, FlowStep(f), ~CreateStep(f), ~StepDone(f),
         \A b \in BuildId : ~RegisterStep(f, b)
  PROVE  \A g \in FlowId : Keeps(flow'[g], flow[g])
<1> DEFINE s == flow[f]
<1> USE DEF At
<1>0. /\ s \in FlowState /\ FirstStep(s) /\ FlowsInv
      /\ s.fin # "none" => s.at \in Ends
  BY FlowFacts DEF WaveBuilt
<1>1. ASSUME NEW r, Conduct(f, r), Keeps(r, s)
      PROVE  \A g \in FlowId : Keeps(flow'[g], flow[g])
  BY <1>1, OneKeeps DEF Conduct
<1> DEFINE Fine == \A g \in FlowId : Keeps(flow'[g], flow[g])
<1> HIDE DEF Fine
<1>2. CASE CreateFlow(f)
  <2>1. Keeps([NewFlow EXCEPT !.status = "wait", !.at = "committed"], s)
    BY DEF NewFlow, Keeps, FirstStep, Rides, Waving, Conducting
  <2> QED
    BY <1>1, <1>2, <2>1 DEF CreateFlow, Fine
<1> USE DEF Early, Queued, Conducting, Waving, Awaits, Positions
<1>3. ASSUME NEW p, Go(f, p), p \in Positions,
             p \in Early \cup {"plan"} => s.at \in Early,
             p \in Waving \ {"plan"} => s.at \in Waving,
             p # "inserting", p \in Awaits => s.at \in Awaits
      PROVE  Fine
  <2>1. Keeps([s EXCEPT !.at = p], s)
    BY <1>0, <1>3, WalkRecords
  <2> QED
    BY <1>1, <1>3, <2>1 DEF Go, Fine
<1>4. CASE \/ RegisterFlow(f) \/ CancelCreateFlow(f) \/ BeginFlow(f)
           \/ QueuePassed(f) \/ PassDrainGate(f) \/ KeepDraining(f)
           \/ PassGate(f) \/ FreeFlow(f)
  <2>1. CASE RegisterFlow(f) \/ BeginFlow(f) \/ QueuePassed(f)
    BY <1>3, <2>1 DEF RegisterFlow, BeginFlow, QueuePassed, Fine
  <2>2. CASE PassDrainGate(f) \/ KeepDraining(f)
    BY <1>3, <2>2 DEF PassDrainGate, KeepDraining, Fine
  <2>3. CASE CancelCreateFlow(f) \/ FreeFlow(f)
    BY <1>3, <2>3 DEF CancelCreateFlow, FreeFlow, Fine
  <2>4. CASE PassGate(f)
    BY <1>3, <2>4 DEF PassGate, Fine
  <2> QED
    BY <1>4, <2>1, <2>2, <2>3, <2>4
<1>5. CASE QueueWaits(f) \/ \E g \in FlowId : QueueSees(f, g)
  <2>1. PICK g : Conduct(f, [s EXCEPT !.ahead = g]) /\ s.at = "queue"
    BY <1>5 DEF QueueWaits, QueueSees
  <2>2. Keeps([s EXCEPT !.ahead = g], s)
    BY <1>0, <2>1 DEF Keeps, FirstStep, Rides, FlowState
  <2> QED
    BY <1>1, <2>1, <2>2 DEF Fine
<1>6. CASE QueueReconciles(f)
  <2>0. s.ahead \in FlowId
    BY <1>0, <1>6, FlowAssumption DEF QueueReconciles, FlowState, FlowId
  <2>1. /\ flow' = [flow EXCEPT ![s.ahead].status = "stop", ![f].ahead = 0]
        /\ \A g \in FlowId : flow[g] \in FlowState
    BY <1>0, <1>6 DEF QueueReconciles, FlowsInv, FlowsTypeOK
  <2>2. ASSUME NEW g \in FlowId
        PROVE  /\ flow'[g].at = flow[g].at /\ flow'[g].pos = flow[g].pos
               /\ flow'[g].plan = flow[g].plan /\ flow'[g].build = flow[g].build
    BY <1>0, <2>0, <2>1 DEF FlowsInv, FlowsTypeOK, FlowState
  <2> QED
    BY <2>2 DEF WaveBuilt, Fine, Keeps, Rides, FirstStep
<1>7. CASE StartConducting(f)
  <2>1. /\ s.at = "count" /\ Conduct(f, [s EXCEPT !.at = "plan", !.started = TRUE])
    BY <1>7 DEF StartConducting
  <2>2. Keeps([s EXCEPT !.at = "plan", !.started = TRUE], s)
    BY <1>0, <2>1 DEF Keeps, FirstStep, Fresh, FlowState
  <2> QED
    BY <1>1, <2>1, <2>2 DEF Fine
<1>8. ASSUME NEW p \in Plans, MakePlan(f, p) PROVE Fine
  <2> DEFINE r == [s EXCEPT !.at = "step", !.status = "exec", !.plan = p]
  <2>1. r.at = "step" /\ r.pos = 1 /\ Conduct(f, r)
    BY <1>0, <1>8 DEF MakePlan, FirstStep, FlowState
  <2>2. Keeps(r, s)
    BY <2>1 DEF Keeps, FirstStep, Fresh
  <2> HIDE DEF r
  <2> QED
    BY <1>1, <2>1, <2>2 DEF Fine
<1>9. CASE StepRefused(f)
  <2>1. PICK st \in {s.status, "exec"} :
          Conduct(f, [s EXCEPT !.at = "step", !.told = TRUE, !.status = st])
    BY <1>9 DEF StepRefused
  <2>2. Keeps([s EXCEPT !.at = "step", !.told = TRUE, !.status = st], s)
    BY <1>0, <1>9, WalkRecords DEF StepRefused
  <2> QED
    BY <1>1, <2>1, <2>2 DEF Fine
<1>10. CASE ReportStep(f) \/ StepFailed(f) \/ FlowDone(f)
  <2>1. PICK p \in {"await", "held", "closing"}, st \in {"exec", "done"} :
          /\ Conduct(f, [s EXCEPT !.at = p, !.status = st])
          /\ s.at \in Conducting \ {"plan"}
          /\ p = "await" => s.at = "report"
    BY <1>10 DEF ReportStep, StepFailed, FlowDone
  <2>2. Keeps([s EXCEPT !.at = p, !.status = st], s)
    BY <1>0, <2>1, WalkRecords
  <2> QED
    BY <1>1, <2>1, <2>2 DEF Fine
<1>11. CASE StepFixed(f)
  <2>1. s.at = "held" /\ Conduct(f, [s EXCEPT !.at = "step", !.build = 0])
    BY <1>11 DEF StepFixed
  <2>2. Keeps([s EXCEPT !.at = "step", !.build = 0], s)
    BY <1>0, <2>1, WalkRecords
  <2> QED
    BY <1>1, <2>1, <2>2 DEF Fine
<1>12. CASE FlowError(f) \/ LeaveFlow(f)
  <2>1. Keeps(Finishing(s), s) /\ Keeps(Left(s), s)
    BY <1>0, EndRecords, OutKeeps
  <2> QED
    BY <1>1, <1>12, <2>1 DEF FlowError, LeaveFlow, Fine
<1>13. CASE \/ KillActive(f) \/ NothingToKill(f) \/ SystemFix(f) \/ NoSystemFix(f)
            \/ WriteStop(f) \/ LoseStop(f)
  <2>1. s.at \in Ends
    BY <1>0, <1>13
    DEF KillActive, NothingToKill, SystemFix, NoSystemFix, WriteStop, LoseStop
  <2>2. /\ \A q : Keeps([s EXCEPT !.fin = q], s)
        /\ Keeps(Finished(s), s) /\ Keeps([Finished(s) EXCEPT !.status = "stop"], s)
    BY <1>0, <2>1, EndRecords, OutKeeps
  <2>3. CASE WriteStop(f) \/ LoseStop(f)
    BY <1>1, <2>2, <2>3 DEF WriteStop, LoseStop, Fine
  <2>4. CASE KillActive(f) \/ NothingToKill(f) \/ NoSystemFix(f)
    BY <1>1, <2>2, <2>4 DEF KillActive, NothingToKill, NoSystemFix, Fine
  <2>5. CASE SystemFix(f)
    BY <2>2, <2>5, OneKeeps DEF SystemFix, Fine
  <2> QED
    BY <1>13, <2>3, <2>4, <2>5
<1> QED
  BY <1>2, <1>4, <1>5, <1>6, <1>7, <1>8, <1>9, <1>10, <1>11, <1>12, <1>13
  DEF Fine, FlowStep, Turn, Wave, EndFlow
LEMMA FlowStepWave ==
  ASSUME WaveBuilt, NEW f \in FlowId, FlowStep(f)
  PROVE  DoneIsFull' /\ \A g \in FlowId : FirstStep(flow'[g]) /\ WaveSoFar(g)'
<1>1. CASE CreateStep(f) \/ StepDone(f) \/ \E b \in BuildId : RegisterStep(f, b)
  BY <1>1, CreateStepWave, StepDoneWave, RegisterStepWave
<1>2. CASE ~(CreateStep(f) \/ StepDone(f) \/ \E b \in BuildId : RegisterStep(f, b))
  <2>1. \A g \in FlowId : Keeps(flow'[g], flow[g])
    BY <1>2, FlowStepKeeps
  <2>2. CASE SystemFix(f)
    <3>1. flow[f].build \in BuildId
      BY <2>2, FlowFacts DEF SystemFix, Created, WaveBuilt
    <3> QED
      BY <2>1, <2>2, <3>1, BuildMoves, KeepsInv
      DEF SystemFix, WaveBuilt, FlowsInv
  <2>3. CASE ~SystemFix(f)
    <3>1. UNCHANGED lifeVars
      <4>1. CASE \/ CreateFlow(f) \/ RegisterFlow(f) \/ CancelCreateFlow(f)
                 \/ BeginFlow(f) \/ Turn(f) \/ FlowError(f) \/ LoseStop(f)
        BY <4>1
        DEF CreateFlow, RegisterFlow, CancelCreateFlow, BeginFlow, Turn, QueuePassed,
            QueueWaits, QueueReconciles, QueueSees, FlowError, LoseStop, Go, Conduct
      <4>2. CASE Wave(f)
        BY <1>2, <4>2
        DEF Wave, PassDrainGate, KeepDraining, StartConducting, PassGate, StepRefused,
            ReportStep, StepFailed, StepFixed, FlowDone, MakePlan, Go, Conduct
      <4>3. CASE EndFlow(f)
        BY <2>3, <4>3
        DEF EndFlow, KillActive, NothingToKill, NoSystemFix, WriteStop, LeaveFlow,
            FreeFlow, Go, Conduct
      <4> QED
        BY <4>1, <4>2, <4>3 DEF FlowStep
    <3> QED
      BY <2>1, <3>1, BuildsAlone, KeepsInv DEF WaveBuilt, lifeVars
  <2> QED
    BY <2>2, <2>3
<1> QED
  BY <1>1, <1>2

LEMMA CommandWave ==
  ASSUME WaveBuilt, NEW c \in Clients, Command(c)
  PROVE  DoneIsFull' /\ \A g \in FlowId : FirstStep(flow'[g]) /\ WaveSoFar(g)'
<1>1. ASSUME NEW f \in FlowId, NEW r, flow' = [flow EXCEPT ![f] = r],
             UNCHANGED lifeVars, r = flow[f] \/ Out(r) \/ Alike(r, flow[f])
      PROVE  DoneIsFull' /\ \A g \in FlowId : FirstStep(flow'[g]) /\ WaveSoFar(g)'
  <2>1. Keeps(r, flow[f])
    BY <1>1, OutKeeps DEF WaveBuilt, Alike, Keeps, FirstStep, Rides
  <2> QED
    BY <1>1, <2>1, OneKeeps, BuildsAlone, KeepsInv DEF WaveBuilt, lifeVars
<1>2. \A f \in FlowId : flow[f] \in FlowState
  BY FlowFacts DEF WaveBuilt
<1>3. ASSUME NEW f \in FlowId,
             StopFlowRead(c, f) \/ PauseFlow(c, f) \/ ResumeFlow(c, f)
      PROVE  DoneIsFull' /\ \A g \in FlowId : FirstStep(flow'[g]) /\ WaveSoFar(g)'
  <2>1. PICK r : /\ flow' = [flow EXCEPT ![f] = r] /\ UNCHANGED lifeVars
                 /\ r = flow[f] \/ \E p \in BOOLEAN : r = [flow[f] EXCEPT !.paused = p]
    BY <1>3 DEF StopFlowRead, PauseFlow, ResumeFlow, Say
  <2> QED
    BY <1>1, <1>2, <2>1, AlikeRecords
<1> DEFINE f == cmd[c].flow
           s == flow[f]
<1>4. CASE StopFlowAct(c) \/ PauseRow(c) \/ ResumeRow(c) \/ LoseRow(c)
  <2>1. f \in FlowId
    BY DEF WaveBuilt, FlowsInv, FlowsTypeOK, Commands
  <2>2. PICK r : /\ flow' = [flow EXCEPT ![f] = r] /\ UNCHANGED lifeVars
                 /\ \/ r = s \/ r = Cancelled(s)
                    \/ \E st : r = [s EXCEPT !.status = st]
    BY <1>4 DEF StopFlowAct, PauseRow, ResumeRow, LoseRow, Said
  <2>3. s \in FlowState /\ Keeps(s, s)
    BY <1>2, <2>1 DEF WaveBuilt, Keeps, Rides
  <2>4. Keeps(r, s)
    <3>1. CASE r = s \/ r = Cancelled(s)
      BY <2>3, <3>1, EndRecords, OutKeeps
    <3>2. ASSUME NEW st, r = [s EXCEPT !.status = st] PROVE Keeps(r, s)
      BY <2>3, <3>2 DEF Keeps, FirstStep, Rides, FlowState
    <3> QED
      BY <2>2, <3>1, <3>2
  <2> QED
    BY <2>1, <2>2, <2>4, OneKeeps, BuildsAlone, KeepsInv DEF WaveBuilt, lifeVars
<1> QED
  BY <1>3, <1>4 DEF Command

LEMMA BuildStepWave ==
  ASSUME WaveBuilt, BuildStep
  PROVE  DoneIsFull' /\ \A g \in FlowId : FirstStep(flow'[g]) /\ WaveSoFar(g)'
<1>1. \A g \in FlowId : Keeps(flow'[g], flow[g])
  BY DEF BuildStep, WaveBuilt, Keeps, Rides
<1>2. ASSUME NEW s \in Specs, NEW m \in Modes, CreateManual(s, m)
      PROVE  DoneIsFull' /\ \A g \in FlowId : Holds(g)
  <2> DEFINE r == [spec |-> s, mode |-> m, flow |-> 0]
  <2>1. PICK b \in BuildId : Appear(b, r)
    BY <1>2 DEF CreateManual, Insert
  <2>2. r \in LifeRow /\ r.flow = 0
    BY FlowAssumption DEF LifeRow
  <2> HIDE DEF r
  <2>3. \A g \in FlowId : r.flow # g
    BY <2>2 DEF FlowId
  <2> QED
    BY <2>1, <2>2, <2>3, AppearDone, AppearHolds DEF WaveBuilt, FlowsInv
<1>3. ASSUME NEW b \in BuildId,
             Land(b) \/ Finish(b) \/ Break(b) \/ Fix(b) \/ Retire(b)
      PROVE  DoneIsFull' /\ \A g \in FlowId : Holds(g)
  BY <1>3, BuildMoves DEF WaveBuilt, FlowsInv
<1> QED
  BY <1>1, <1>2, <1>3, KeepsInv DEF BuildStep

LEMMA CrashWave ==
  ASSUME WaveBuilt, Crash
  PROVE  DoneIsFull' /\ \A g \in FlowId : FirstStep(flow'[g]) /\ WaveSoFar(g)'
<1>1. \A g \in FlowId : Out(flow'[g])
  BY DEF Crash, Out, NewFlow
<1>2. \A g \in FlowId : Keeps(flow'[g], flow[g])
  BY <1>1, OutKeeps
<1> QED
  BY <1>2, BuildsAlone, KeepsInv DEF WaveBuilt, Crash, Restart

LEMMA WaveNext ==
  ASSUME WaveBuilt, [FlowsNext]_allVars
  PROVE  WaveBuilt'
<1>1. FlowsInv'
  BY NextInv, StutterInv DEF WaveBuilt
<1>2. DoneIsFull' /\ \A g \in FlowId : FirstStep(flow'[g]) /\ WaveSoFar(g)'
  <2>1. CASE UNCHANGED allVars
    <3>1. \A g \in FlowId : Keeps(flow'[g], flow[g])
      BY <2>1 DEF WaveBuilt, Keeps, Rides, allVars
    <3> QED
      BY <2>1, <3>1, BuildsAlone, KeepsInv DEF WaveBuilt, allVars, lifeVars
  <2> QED
    BY <2>1, FlowStepWave, CommandWave, BuildStepWave, CrashWave DEF FlowsNext
<1> QED
  BY <1>1, <1>2 DEF WaveBuilt

LEMMA WaveInit == FlowsInit => WaveBuilt
<1> SUFFICES ASSUME FlowsInit PROVE WaveBuilt
  OBVIOUS
<1>1. DoneIsFull
  BY DEF FlowsInit, Init, DoneIsFull
<1>2. \A f \in FlowId : flow[f].at = "none"
  BY DEF FlowsInit, NewFlow
<1> QED
  BY <1>1, <1>2, InitInv
  DEF WaveBuilt, FirstStep, WaveSoFar, Early, Queued, Waving, Conducting

\* A build done has landed its slice; the steps that a wave has gone past have
\* such builds, in order, and the build it waits for is of the next step.
THEOREM WaveBuiltInvariant == FlowsSpec => []WaveBuilt
BY WaveInit, WaveNext, PTL DEF FlowsSpec

\* Every step a wave has gone past was built (_flow_step), whatever failed, was
\* stopped, fixed or refused on the way: a build of the flow landed the whole
\* slice of each of them, in the order of the plan.
THEOREM WaveCompleteHolds == FlowsSpec => []WaveComplete
<1>1. WaveBuilt => WaveComplete
  <2> SUFFICES ASSUME WaveBuilt, NEW f \in FlowId, flow[f].at \in Waving
               PROVE  \E ids \in [1..(flow[f].pos - 1) -> full] :
                        /\ \A i, j \in DOMAIN ids : i < j => ids[i] < ids[j]
                        /\ \A i \in DOMAIN ids :
                             row[ids[i]] = RowOf(flow[f].plan[i], f)
    BY DEF WaveComplete, Conducts, At, Waving, RowOf
  <2> QED
    BY DEF WaveBuilt, WaveSoFar, SoFar, Built
<1> QED
  BY <1>1, WaveBuiltInvariant, PTL
=============================================================================
