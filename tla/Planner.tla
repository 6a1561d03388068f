------------------------------ MODULE Planner ------------------------------
(***************************************************************************)
(* The pure algorithms of datapulse over the graph "dataset reads dataset":*)
(* the check for cycles when a spec is created (commands.py), the          *)
(* topological order of the datasets and the plan of a flow (engine.py).   *)
(* Datasets are numbers in the order of their codes, a spec is a dataset   *)
(* and its build_spec_num, edges are pairs <<reader, source>>.             *)
(***************************************************************************)
EXTENDS Integers, Sequences, FiniteSets, FiniteSetsExt, SequencesExt

WindowModes == {"initial", "increment", "skip"}

Peers(edges, d) == {e[2] : e \in {x \in edges : x[1] = d}}
Readers(edges)  == {e[1] : e \in edges}

\* A loop: run[k] is what k rounds of step make of x.
Iterate(step, x) ==
  LET run[k \in Nat] == IF k = 0 THEN x ELSE step[run[k - 1]] IN run

-----------------------------------------------------------------------------
(* _find_cycle: a depth-first search with three colours.  A node that reads *)
(* nothing has no colour and is passed over.                                *)

\* path: the calls of visit under way, whose nodes are grey; found: a peer of
\* the last one was grey.
Searches(nodes) == [path : Seq(nodes), black : SUBSET nodes, found : BOOLEAN]

\* The peers that visit(n) has not gone past.
PeersLeft(edges, n, black) == (Peers(edges, n) \cap Readers(edges)) \ black

\* Mutant: a grey peer is passed over like a black one.
MutSearchOn(edges, s) ==
  LET white == Readers(edges) \ (s.black \cup Range(s.path))
      left  == PeersLeft(edges, Last(s.path), s.black) \cap white
  IN  IF s.path = <<>>
      THEN IF white = {} THEN s ELSE [s EXCEPT !.path = <<CHOOSE n \in white : TRUE>>]
      ELSE IF left = {}
      THEN [s EXCEPT !.path = Front(@), !.black = @ \cup {Last(s.path)}]
      ELSE [s EXCEPT !.path = Append(@, CHOOSE n \in left : TRUE)]

\* One call of visit, or the end of one.
SearchOn(edges, s) ==
  LET white == Readers(edges) \ (s.black \cup Range(s.path))
      left  == PeersLeft(edges, Last(s.path), s.black)
      peer  == CHOOSE n \in left : TRUE
  IN  IF s.path = <<>>
      THEN IF white = {} THEN s ELSE [s EXCEPT !.path = <<CHOOSE n \in white : TRUE>>]
      ELSE IF left = {}
      THEN [s EXCEPT !.path = Front(@), !.black = @ \cup {Last(s.path)}]
      ELSE IF peer \in Range(s.path) THEN [s EXCEPT !.found = TRUE]
      ELSE [s EXCEPT !.path = Append(@, peer)]

\* Every node is painted grey once, and black once.
FindCycle(edges) ==
  LET nodes == Readers(edges)
      step  == [s \in Searches(nodes) |-> IF s.found THEN s ELSE SearchOn(edges, s)]
  IN  Iterate(step, [path |-> <<>>, black |-> {}, found |-> FALSE])
        [2 * Cardinality(nodes)].found

-----------------------------------------------------------------------------
(* _topo_datasets (Kahn): of the datasets that are ready, the first one.    *)

\* Mutant: a dataset is ready once one of its sources is in the order.
MutReady(datasets, edges, order) ==
  {d \in datasets \ Range(order) :
     LET deps == Peers(edges, d) \cap datasets
     IN  deps = {} \/ deps \cap Range(order) # {}}

Ready(datasets, edges, order) ==
  {d \in datasets \ Range(order) :
     Peers(edges, d) \cap datasets \subseteq Range(order)}

TopoDatasets(datasets, edges) ==
  LET step == [order \in Seq(datasets) |->
                 LET ready == Ready(datasets, edges, order)
                 IN  IF ready = {} THEN order ELSE Append(order, Min(ready))]
  IN  Iterate(step, <<>>)[Cardinality(datasets)]

-----------------------------------------------------------------------------
(* _flow_plan.  specs: the live specs, as a function to records with fields *)
(* type, sources and codes (of modes); windowed: the specs with a finished  *)
(* clean build; preset: the runs asked for one by one, spec -> mode.        *)

Steps(s, modes) == [i \in DOMAIN modes |-> [spec |-> s, mode |-> modes[i]]]

MartSteps(r, export) ==
  LET mode == IF export = "skip" THEN "skip" ELSE "increment"
  IN  IF export # "pass" /\ mode \in r.codes THEN <<mode>> ELSE <<>>

\* What the wave runs by itself: increment, or initial the first time.
CleanMode(r, windowed) ==
  IF windowed /\ "increment" \in r.codes THEN "increment"
  ELSE IF "initial" \in r.codes THEN "initial"
  ELSE "increment"

\* manual: the mode the preset asks for, as a sequence of at most one.
StoreSteps(r, intake, manual, windowed) ==
  LET closed == r.sources = {} /\ intake = "pass"
      clean  == \E i \in DOMAIN manual : manual[i] \in WindowModes
  IN  IF closed \/ clean THEN manual
      ELSE Append(manual, CleanMode(r, windowed))

\* The specs one after the other, by the order of their datasets and by their
\* numbers.
Before(order, s, t) ==
  \/ \E i, j \in DOMAIN order : i < j /\ order[i] = s[1] /\ order[j] = t[1]
  \/ s[1] = t[1] /\ s[2] < t[2]

\* todo: the specs that are still to come.
PlanOn(order, steps, p) ==
  LET next == CHOOSE s \in p.todo : \A t \in p.todo \ {s} : Before(order, s, t)
  IN  IF p.todo = {} THEN p
      ELSE [todo |-> p.todo \ {next}, plan |-> p.plan \o steps[next]]

\* steps: spec -> its steps.
PlanOf(order, steps) ==
  LET specs == DOMAIN steps
      plans == [todo : SUBSET specs, plan : Seq(UNION {Range(steps[s]) : s \in specs})]
      step  == [p \in plans |-> PlanOn(order, steps, p)]
      start == [todo |-> {s \in specs : s[1] \in Range(order)}, plan |-> <<>>]
  IN  Iterate(step, start)[Cardinality(specs)].plan

SpecSteps(s, r, windowed, preset, intake, export) ==
  Steps(s, IF r.type = "mart" THEN MartSteps(r, export)
           ELSE StoreSteps(r, intake, IF s \in DOMAIN preset THEN <<preset[s]>> ELSE <<>>,
                           s \in windowed))

EdgesOf(specs) ==
  UNION {{<<s[1], d>> : d \in specs[s].sources} : s \in DOMAIN specs}

FlowPlan(specs, windowed, preset, intake, export) ==
  PlanOf(TopoDatasets({s[1] : s \in DOMAIN specs}, EdgesOf(specs)),
         [s \in DOMAIN specs |-> SpecSteps(s, specs[s], windowed, preset, intake, export)])

-----------------------------------------------------------------------------
(* What they are to compute.                                                *)

\* Every set of datasets has one that reads no other of the set.
Acyclic(edges) ==
  \A S \in SUBSET Readers(edges) :
    S # {} => \E d \in S : Peers(edges, d) \cap S = {}
=============================================================================
