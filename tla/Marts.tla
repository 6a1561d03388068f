------------------------------- MODULE Marts -------------------------------
(***************************************************************************)
(* The delta windows of builds (engine.py, _window_from and _window_to)    *)
(* over the flows and builds of Flows.  A window is given to a build when  *)
(* it appears and says which builds of its sources it reads: those above   *)
(* from, up to to.  Stores are protected by the locks of their builds,     *)
(* which BuildsProofs shows enough for their windows; marts take none and  *)
(* rely on the order of the waves and on the boundary of the flows.        *)
(***************************************************************************)
EXTENDS Flows

\* What a build reads are stores.
ASSUME MartsAssumption == \A s \in Specs : Feeders[s] \subseteq StoreSpecs

VARIABLE window  \* build -> its window

martVars == <<allVars, window>>

WindowModes == {"initial", "increment", "skip"}
NoWindow    == [from |-> 0, to |-> 0]

MartsTypeOK == window \in [BuildId -> [from : 0..MaxBuild, to : 0..MaxBuild]]

MartsInit == FlowsInit /\ window = [b \in BuildId |-> NoWindow]

\* coalesce(max(S), 0)
Last(S) == CHOOSE n \in S \cup {0} : \A i \in S : i <= n

\* The last build of the spec that moved its window and is done.
WindowFrom(s) ==
  Last({b \in Created : /\ row[b].spec = s /\ row[b].mode \in WindowModes
                        /\ life[b] = "done"})

\* Mutant: the flows that were stopped count as well.
MutBoundary ==
  Last({b \in Created : /\ row[b].flow # 0
                        /\ flow[row[b].flow].status \in FinalFlowStatuses})

\* The last build of the flows that are done.
Boundary ==
  Last({b \in Created : row[b].flow # 0 /\ flow[row[b].flow].status = "done"})

\* Mutant: a manual build of a mart reads up to itself.
MutWindowTo(r, b) == b
\* Mutant: the upper bound is taken for an exclusive one.
MutExclusiveTo(r, b) ==
  IF r.spec \notin StoreSpecs /\ r.flow = 0 THEN Boundary ELSE b + 1

\* A build r with id b reads up to itself; a manual one of a mart, up to the
\* boundary.
WindowTo(r, b) ==
  IF r.spec \notin StoreSpecs /\ r.flow = 0 THEN Boundary ELSE b

\* A build that appears gets its window in the same transaction.
GiveWindows ==
  window' = [b \in BuildId |->
               IF life[b] = "none" /\ life'[b] # "none"
               THEN [from |-> WindowFrom(row'[b].spec), to |-> WindowTo(row'[b], b)]
               ELSE window[b]]

MartsNext == FlowsNext /\ GiveWindows

MartsSpec == MartsInit /\ [][MartsNext]_martVars

-----------------------------------------------------------------------------
(* Properties.                                                             *)

Marts  == {b \in Created : row[b].spec \notin StoreSpecs}
Feeds(b, r) == row[b].spec \in Feeders[row[r].spec]

\* What a mart reads has come to rest (_window_to, _flow_wait_turn): although
\* marts take no locks, no build of a source inside the window of a mart is
\* active, so none lands rows there while the mart is built or afterwards.
MartReadsSettled ==
  \A r \in Marts, b \in Created :
    b <= window[r].to /\ Feeds(b, r) => ~Active(b)

\* Rows land in a source only above the windows already given to its marts.
LandsAboveMarts ==
  [][\A b \in full' \ full : b \in Created =>
       \A r \in Marts : Feeds(b, r) => b > window[r].to]_martVars

\* docs/requirements.md, docs/model.md: what a stopped flow left is brought to
\* the marts by the windows of the next flow.
StoppedFlowArrives ==
  \A r \in Marts, b \in Created :
    /\ Feeds(b, r) /\ b < r /\ life[b] = "done"
    /\ row[r].flow # 0
    /\ row[b].flow # 0 /\ flow[row[b].flow].status = "stop"
    => \E d \in Created : /\ d <= r /\ row[d].spec = row[r].spec
                          /\ window[d].from < b /\ b <= window[d].to
=============================================================================
