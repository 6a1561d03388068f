----------------------------- MODULE BuildLife -----------------------------
(***************************************************************************)
(* What a build of datapulse promises to those who command it and wait for *)
(* it, without claims, supervisors, chunks or delta windows.  Builds       *)
(* appear one at a time, with growing ids, only while no build of a        *)
(* conflicting spec is active; one that is no longer active is never       *)
(* active again; it is done only after its whole slice has landed; fail    *)
(* may come late, even over done, and is fixed by hand.                    *)
(***************************************************************************)
EXTENDS Naturals

CONSTANTS Specs, Modes, StoreSpecs, \* build specs, the ones of stores
          Feeders,                  \* spec -> specs that write what it reads
          MaxFlow, MaxBuild,        \* bounds on flow_id and build_id
          NoRow

BuildId  == 1..MaxBuild
LifeRow  == [spec : Specs, mode : Modes, flow : 0..MaxFlow]  \* 0: manual
LifeStates == {"none", "active", "fail", "fix", "done"}

VARIABLES life, \* build -> what its last journal row says of it
          row,  \* build -> its row
          runs, \* the builds the registry knows
          full  \* the builds whose whole slice has landed

lifeVars == <<life, row, runs, full>>

Init ==
  /\ life = [b \in BuildId |-> "none"]
  /\ row = [b \in BuildId |-> NoRow]
  /\ runs = {}
  /\ full = {}

Created   == {b \in BuildId : life[b] # "none"}
Active(b) == life[b] = "active"
Move(b, from, to) ==
  /\ life[b] \in from
  /\ life' = [life EXCEPT ![b] = to]

\* Two specs whose builds may not be active together: the same spec, or a
\* store spec and one that writes what it reads.
Conflict(s, t) ==
  \/ s = t
  \/ s \in StoreSpecs /\ t \in Feeders[s]
  \/ t \in StoreSpecs /\ s \in Feeders[t]

\* A build in mode skip lands nothing.
Appear(b, r) ==
  /\ Move(b, {"none"}, "active")
  /\ \A d \in Created : d < b /\ (Active(d) => ~Conflict(r.spec, row[d].spec))
  /\ row' = [row EXCEPT ![b] = r]
  /\ full' = IF r.mode = "skip" THEN full \cup {b} ELSE full
  /\ UNCHANGED runs

Enroll(b) ==
  /\ Active(b) /\ b \notin runs
  /\ runs' = runs \cup {b}
  /\ UNCHANGED <<life, row, full>>

Land(b) ==
  /\ Active(b)
  /\ full' = full \cup {b}
  /\ UNCHANGED <<life, row, runs>>

Finish(b) ==
  /\ Move(b, {"active"}, "done") /\ b \in full
  /\ UNCHANGED <<row, runs, full>>

Break(b) ==
  /\ Move(b, {"active", "done", "fail", "fix"}, "fail")
  /\ UNCHANGED <<row, runs, full>>

Fix(b) ==
  /\ Move(b, {"fail", "fix"}, "fix")
  /\ UNCHANGED <<row, runs, full>>

Retire(b) ==
  /\ b \in runs
  /\ runs' = runs \ {b}
  /\ UNCHANGED <<life, row, full>>

Restart ==
  /\ runs' = {}
  /\ UNCHANGED <<life, row, full>>

Proceed(b) ==
  \/ Enroll(b) \/ Land(b) \/ Finish(b) \/ Break(b) \/ Fix(b) \/ Retire(b)

Next ==
  \/ \E b \in BuildId : Proceed(b) \/ \E r \in LifeRow : Appear(b, r)
  \/ Restart

Spec == Init /\ [][Next]_lifeVars
=============================================================================
