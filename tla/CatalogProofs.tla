---------------------------- MODULE CatalogProofs ----------------------------
(***************************************************************************)
(* Proofs about Catalog, for all datasets, specs, shapes, modes, presets   *)
(* and any number of builds.                                               *)
(***************************************************************************)
EXTENDS Catalog, PlannerProofs

(* The parts of the invariant need each other: a replaced spec finds its     *)
(* tables (PhysicsFollow), the lock of a dataset finds the definition an     *)
(* active reader was started with (ActiveRunsCurrent), and a mart is nobody's *)
(* source (RefsSound).                                                       *)
CatalogInv ==
  /\ CatalogTypeOK /\ RefsSound /\ PhysicsFollow
  /\ ActiveRunsCurrent /\ LocksHold

LEMMA InitInv == CatalogInit => CatalogInv
<1> SUFFICES ASSUME CatalogInit PROVE CatalogInv
  OBVIOUS
<1> USE CatalogAssumption DEF CatalogInit, Nothing
<1>1. CatalogTypeOK
  BY DEF CatalogTypeOK
<1>2. RefsSound /\ ActiveRunsCurrent /\ LocksHold
  BY DEF RefsSound, ActiveRunsCurrent, LocksHold, Live, Created
<1>3. PhysicsFollow
  BY DEF PhysicsFollow, Alive, Live
<1> QED
  BY <1>1, <1>2, <1>3 DEF CatalogInv
-----------------------------------------------------------------------------
(* A command that leaves alone what the parts are about.                     *)
LEMMA StutterInv ==
  ASSUME CatalogInv, UNCHANGED <<dataset, spec, view, table, build>>,
         usage' \in (SUBSET Schemas) \cup {None},
         preset' \in [Presets -> Bodies \cup {None}],
         connection' \in [Connections -> Classes \cup {None}],
         \A c \in Connections : connection[c] # None => connection'[c] # None
  PROVE  CatalogInv'
<1> USE DEF CatalogInv
<1>1. CatalogTypeOK'
  BY DEF CatalogTypeOK
<1>2. RefsSound'
  <2>1. \A s \in Specs : Live(s) => spec[s].using \subseteq Connections
    BY DEF CatalogTypeOK, Live, Spec
  <2> QED
    BY <2>1 DEF RefsSound, Alive, Live, Stores
<1>3. PhysicsFollow'
  BY DEF PhysicsFollow, Alive, Live, SpecsOf
<1>4. ActiveRunsCurrent'
  BY DEF ActiveRunsCurrent, Alive, Live, Created, Active
<1>5. LocksHold'
  BY DEF LocksHold, Alive, Stores, Created, Active
<1> QED
  BY <1>1, <1>2, <1>3, <1>4, <1>5

LEMMA OtherInv ==
  ASSUME CatalogInv, Install \/ OtherCommand \/ UNCHANGED catalogVars
  PROVE  CatalogInv'
<1> USE CatalogAssumption DEF CatalogInv
<1>1. ASSUME NEW S \in SUBSET Schemas, CreateDatapulse(S)
      PROVE  CatalogInv'
  BY <1>1, StutterInv DEF CreateDatapulse, CatalogTypeOK
<1>2. CASE DropDatapulse
  <2>1. CatalogInit'
    BY <1>2 DEF DropDatapulse, CatalogInit, Nothing
  <2> QED
    BY <2>1, InitInv, PTL
<1>3. ASSUME NEW x \in Schemas, AlterDatapulseAdd(x)
      PROVE  CatalogInv'
  <2>1. usage \in SUBSET Schemas
    BY <1>3 DEF AlterDatapulseAdd, Installed, CatalogTypeOK
  <2> QED
    BY <1>3, <2>1, StutterInv DEF AlterDatapulseAdd, CatalogTypeOK
<1>4. ASSUME NEW c \in Connections, NEW k \in Classes, NEW o \in BOOLEAN,
             CreateConnection(c, k, o)
      PROVE  CatalogInv'
  <2>1. connection' \in [Connections -> Classes \cup {None}]
    BY <1>4 DEF CreateConnection, CatalogTypeOK
  <2>2. \A e \in Connections : connection[e] # None => connection'[e] # None
    BY <1>4 DEF CreateConnection, CatalogTypeOK
  <2> QED
    BY <1>4, <2>1, <2>2, StutterInv DEF CreateConnection, CatalogTypeOK
<1>5. ASSUME NEW p \in Presets,
             DropFlowSpec(p) \/ \E q \in Bodies, o \in BOOLEAN :
                                  CreateFlowSpec(p, q, o)
      PROVE  CatalogInv'
  <2>1. preset' \in [Presets -> Bodies \cup {None}]
    BY <1>5 DEF DropFlowSpec, CreateFlowSpec, CatalogTypeOK
  <2> QED
    BY <1>5, <2>1, StutterInv DEF DropFlowSpec, CreateFlowSpec, CatalogTypeOK
<1>6. CASE UNCHANGED catalogVars
  BY <1>6, StutterInv DEF catalogVars, CatalogTypeOK
<1> QED
  BY <1>1, <1>2, <1>3, <1>4, <1>5, <1>6 DEF Install, OtherCommand
-----------------------------------------------------------------------------
(* Commands on a dataset.                                                    *)

\* What may be replaced under live specs is nothing but the comments.
LEMMA SameShape ==
  ASSUME NEW old \in Shapes, NEW new \in Shapes, KeepsLiveSpecs(old, new)
  PROVE  old = new
<1>1. old.key = new.key /\ DOMAIN old.type = DOMAIN new.type
  BY DEF KeepsLiveSpecs, NamesOf
<1>2. /\ old.type = [n \in DOMAIN old.type |-> old.type[n]]
      /\ new.type = [n \in DOMAIN new.type |-> new.type[n]]
  BY CatalogAssumption
<1>3. \A n \in DOMAIN old.type : old.type[n] = new.type[n]
  BY <1>1 DEF KeepsLiveSpecs, NamesOf
<1>4. [n \in DOMAIN old.type |-> old.type[n]] = [n \in DOMAIN old.type |-> new.type[n]]
  BY <1>3
<1>5. old.type = new.type
  BY <1>1, <1>2, <1>4, Zenon
<1>6. /\ old = [type |-> old.type, key |-> old.key]
      /\ new = [type |-> new.type, key |-> new.key]
  BY CatalogAssumption
<1> QED
  BY <1>1, <1>5, <1>6, Zenon

\* Create, or replace.
LEMMA CreateDatasetInv ==
  ASSUME CatalogInv,
         NEW d \in Datasets, NEW t \in Types, NEW sh \in Shapes,
         NEW o \in BOOLEAN, CreateDataset(d, t, sh, o)
  PROVE  CatalogInv'
<1> USE DEF CatalogInv
<1> DEFINE new == [type |-> t, shape |-> sh,
                   descr |-> IF Alive(d) THEN dataset[d].descr ELSE FALSE,
                   notes |-> IF Alive(d) THEN dataset[d].notes \cap NamesOf(sh)
                             ELSE {}]
<1>1. /\ dataset' = [dataset EXCEPT ![d] = new]
      /\ UNCHANGED <<usage, spec, connection, preset, table, build>>
  BY DEF CreateDataset
<1>2. new \in Dataset /\ new.notes \subseteq DOMAIN sh.type
  <2>1. Alive(d) => dataset[d] \in Dataset
    BY DEF Alive, CatalogTypeOK
  <2> QED
    BY <2>1 DEF Dataset, Types, NamesOf, Names
<1>3. /\ dataset' \in [Datasets -> Dataset \cup {None}] /\ dataset'[d] = new
      /\ \A e \in Datasets \ {d} : dataset'[e] = dataset[e]
  BY <1>1, <1>2 DEF CatalogTypeOK
<1>4. ASSUME Alive(d)
      PROVE  /\ new.type = dataset[d].type
             /\ SpecsOf(d) # {} => new.shape = dataset[d].shape
                                  /\ new.notes = dataset[d].notes
  <2>1. dataset[d] \in Dataset /\ dataset[d].notes \subseteq DOMAIN dataset[d].shape.type
    BY <1>4 DEF Alive, CatalogTypeOK
  <2>2. SpecsOf(d) # {} => KeepsLiveSpecs(dataset[d].shape, sh)
    BY <1>4 DEF CreateDataset
  <2>3. SpecsOf(d) # {} => dataset[d].shape = sh
    BY <2>1, <2>2, SameShape DEF Dataset
  <2>4. dataset[d].type = t
    BY <1>4 DEF CreateDataset
  <2> QED
    BY <1>4, <2>1, <2>3, <2>4 DEF NamesOf
<1>5. new # None
  BY <1>2, NoneAssumption
<1>6. \A s \in Specs : s[1] \in Datasets /\ (Live(s) => s \in SpecsOf(s[1]))
  BY CatalogAssumption DEF SpecsOf
<1>7. /\ \A e \in Datasets : Alive(e) => /\ Alive(e)' /\ dataset'[e].type = dataset[e].type
      /\ \A s \in Specs : Live(s) => /\ dataset'[s[1]].shape = dataset[s[1]].shape
                                     /\ dataset'[s[1]].notes = dataset[s[1]].notes
                                     /\ Alive(s[1])
  BY <1>3, <1>4, <1>5, <1>6 DEF Alive, RefsSound
<1>8. CatalogTypeOK'
  <2>1. view' = [view EXCEPT ![d] = ViewOf(new, IF Alive(d) THEN SpecsOf(d) ELSE {})]
    BY <1>3 DEF CreateDataset
  <2>2. ViewOf(new, IF Alive(d) THEN SpecsOf(d) ELSE {}) \in View
    BY <1>2 DEF ViewOf, View, Dataset, SpecsOf
  <2> QED
    BY <1>1, <1>2, <1>3, <2>1, <2>2 DEF CatalogTypeOK
<1>9. RefsSound'
  <2>1. Stores \subseteq Stores'
    BY <1>7 DEF Stores, Alive
  <2>2. \A s \in Specs : Live(s)' <=> Live(s)
    BY <1>1 DEF Live
  <2> QED
    BY <1>1, <1>6, <1>7, <2>1, <2>2 DEF RefsSound
<1>10. PhysicsFollow'
  <2>1. /\ \A s \in Specs : Live(s)' <=> Live(s)
        /\ \A e \in Datasets : SpecsOf(e)' = SpecsOf(e)
    BY <1>1 DEF Live, SpecsOf
  <2>2. \A s \in Specs :
          IF Live(s)' THEN /\ Alive(s[1])' /\ table'[s] # None
                           /\ table'[s].shape = dataset'[s[1]].shape
                           /\ table'[s].notes = dataset'[s[1]].notes
          ELSE table'[s] = None
    BY <1>1, <1>6, <1>7, <2>1 DEF PhysicsFollow
  <2>3. ASSUME NEW e \in Datasets
        PROVE  view'[e] = IF Alive(e)' THEN ViewOf(dataset'[e], SpecsOf(e)') ELSE None
    <3>1. CASE e = d
      <4>1. ~Alive(d) => SpecsOf(d) = {}
        BY DEF RefsSound, SpecsOf
      <4> QED
        BY <1>3, <1>5, <2>1, <3>1, <4>1 DEF CreateDataset, CatalogTypeOK, Alive
    <3>2. CASE e # d
      BY <1>3, <2>1, <3>2 DEF CreateDataset, CatalogTypeOK, Alive, PhysicsFollow
    <3> QED
      BY <3>1, <3>2
  <2> QED
    BY <2>2, <2>3 DEF PhysicsFollow, ViewOf
<1>11. ActiveRunsCurrent'
  <2>1. \A b \in Created : build[b].spec \in Specs
    BY DEF CatalogTypeOK, Created, Build
  <2> QED
    BY <1>1, <1>6, <1>7, <2>1 DEF ActiveRunsCurrent, Created, Active, Live
<1>12. LocksHold'
  <2>1. \A b \in Created : build[b].spec \in Specs
    BY DEF CatalogTypeOK, Created, Build
  <2>2. \A b \in Created : Active(b) => Alive(build[b].spec[1])
    BY DEF ActiveRunsCurrent
  <2>3. \A e \in Datasets : Alive(e) => (e \in Stores' <=> e \in Stores)
    BY <1>7 DEF Stores, Alive
  <2> QED
    BY <1>1, <1>6, <2>1, <2>2, <2>3 DEF LocksHold, Created, Active
<1> QED
  BY <1>8, <1>9, <1>10, <1>11, <1>12

LEMMA DropDatasetInv ==
  ASSUME CatalogInv, NEW d \in Datasets, DropDataset(d)
  PROVE  CatalogInv'
<1> USE DEF CatalogInv
<1>1. /\ dataset' = [dataset EXCEPT ![d] = None] /\ view' = [view EXCEPT ![d] = None]
      /\ UNCHANGED <<usage, spec, connection, preset, table, build>>
      /\ \A s \in Specs : Live(s) => d \notin spec[s].sources
  BY DEF DropDataset
<1>2. \A s \in Specs : s[1] \in Datasets /\ (Live(s) => s[1] # d)
  BY CatalogAssumption DEF DropDataset, SpecsOf
<1>3. /\ \A s \in Specs : Live(s)' <=> Live(s)
      /\ \A e \in Datasets : SpecsOf(e)' = SpecsOf(e)
      /\ \A e \in Datasets \ {d} : dataset'[e] = dataset[e] /\ view'[e] = view[e]
      /\ dataset'[d] = None /\ view'[d] = None
  BY <1>1 DEF Live, SpecsOf, CatalogTypeOK
<1>4. CatalogTypeOK'
  BY <1>1 DEF CatalogTypeOK
<1>5. Stores' = Stores \ {d}
  BY <1>3 DEF Stores, Alive
<1>6. RefsSound'
  <2>1. \A s \in Specs : Live(s) => spec[s].sources \subseteq Stores' \ {s[1]}
    BY <1>1, <1>5 DEF RefsSound
  <2> QED
    BY <1>1, <1>2, <1>3, <2>1 DEF RefsSound, Alive
<1>7. PhysicsFollow'
  BY <1>1, <1>2, <1>3 DEF PhysicsFollow, Alive, ViewOf
<1>8. /\ \A b \in Created : build[b].spec \in Specs
      /\ \A b \in Created : Active(b) => build[b].spec[1] # d
  BY <1>2 DEF ActiveRunsCurrent, CatalogTypeOK, Created, Build
<1>9. ActiveRunsCurrent'
  BY <1>1, <1>2, <1>3, <1>8 DEF ActiveRunsCurrent, Created, Active, Live, Alive
<1>10. LocksHold'
  BY <1>1, <1>5 DEF LocksHold, Created, Active
<1> QED
  BY <1>4, <1>6, <1>7, <1>9, <1>10

\* Comments change neither what specs refer to nor what builds run.
LEMMA CommentInv ==
  ASSUME CatalogInv, NEW d \in Datasets, Alive(d),
         NEW new \in Dataset, new.notes \subseteq DOMAIN new.shape.type,
         new.type = dataset[d].type, new.shape = dataset[d].shape,
         dataset' = [dataset EXCEPT ![d] = new],
         table' \in [Specs -> Table \cup {None}],
         \A s \in Specs : /\ table'[s] = None <=> table[s] = None
                          /\ Live(s) => table'[s].shape = table[s].shape,
         UNCHANGED <<usage, spec, connection, preset, build>>
  PROVE  RefsSound' /\ ActiveRunsCurrent' /\ LocksHold'
         /\ (view' \in [Datasets -> View \cup {None}] => CatalogTypeOK')
<1> USE DEF CatalogInv
<1>1. /\ new # None /\ dataset'[d] = new
      /\ \A e \in Datasets \ {d} : dataset'[e] = dataset[e]
  BY NoneAssumption DEF CatalogTypeOK
<1>2. /\ \A s \in Specs : s[1] \in Datasets
      /\ \A b \in Created : build[b].spec \in Specs
  BY CatalogAssumption DEF CatalogTypeOK, Created, Build
<1>3. /\ \A e \in Datasets : Alive(e)' <=> Alive(e)
      /\ \A e \in Datasets : Alive(e) => /\ dataset'[e].type = dataset[e].type
                                         /\ dataset'[e].shape = dataset[e].shape
      /\ \A s \in Specs : Live(s)' <=> Live(s)
  BY <1>1 DEF Alive, Live
<1>4. Stores' = Stores
  BY <1>3 DEF Stores
<1>5. RefsSound'
  BY <1>2, <1>3, <1>4 DEF RefsSound
<1>6. ActiveRunsCurrent'
  <2> SUFFICES ASSUME NEW b \in Created, Active(b)
               PROVE  LET s == build[b].spec
                      IN  /\ Live(s)' /\ spec[s] = build[b].runs
                          /\ table'[s] # None /\ table'[s].shape = build[b].runs.shape
                          /\ Alive(s[1])' /\ dataset'[s[1]].shape = build[b].runs.shape
    BY DEF ActiveRunsCurrent, Created, Active
  <2> QED
    BY <1>2, <1>3 DEF ActiveRunsCurrent
<1>7. LocksHold'
  BY <1>4 DEF LocksHold, Created, Active
<1>8. ASSUME view' \in [Datasets -> View \cup {None}]
      PROVE  CatalogTypeOK'
  <2>1. dataset' \in [Datasets -> Dataset \cup {None}]
    BY DEF CatalogTypeOK
  <2>2. \A e \in Datasets : dataset'[e] # None =>
          dataset'[e].notes \subseteq DOMAIN dataset'[e].shape.type
    BY <1>1 DEF CatalogTypeOK
  <2> QED
    BY <1>8, <2>1, <2>2 DEF CatalogTypeOK
<1> QED
  BY <1>5, <1>6, <1>7, <1>8

LEMMA CommentDatasetInv ==
  ASSUME CatalogInv, NEW d \in Datasets, NEW c \in Comments, CommentDataset(d, c)
  PROVE  CatalogInv'
<1> DEFINE new == [dataset[d] EXCEPT !.descr = c]
<1>1. /\ dataset[d] \in Dataset /\ view[d] = ViewOf(dataset[d], SpecsOf(d))
      /\ dataset[d].notes \subseteq DOMAIN dataset[d].shape.type
  BY DEF CatalogInv, CatalogTypeOK, PhysicsFollow, CommentDataset, Alive
<1>2. /\ new \in Dataset /\ new.type = dataset[d].type
      /\ new.shape = dataset[d].shape /\ new.notes = dataset[d].notes
      /\ new.descr = c
  BY <1>1, CatalogAssumption DEF Dataset
<1>3. dataset' = [dataset EXCEPT ![d] = new]
  BY DEF CommentDataset
<1>4. view'[d] = ViewOf(new, SpecsOf(d))
      /\ \A e \in Datasets \ {d} : view'[e] = view[e]
  BY <1>1, <1>2 DEF CommentDataset, ViewOf, CatalogInv, CatalogTypeOK
<1>5. view' \in [Datasets -> View \cup {None}]
  <2>1. ViewOf(new, SpecsOf(d)) \in View
    BY <1>2 DEF ViewOf, View, Dataset, SpecsOf
  <2> QED
    BY <1>4, <2>1 DEF CommentDataset, CatalogInv, CatalogTypeOK
<1>6. RefsSound' /\ ActiveRunsCurrent' /\ LocksHold' /\ CatalogTypeOK'
  BY <1>1, <1>2, <1>3, <1>5, CommentInv DEF CommentDataset, CatalogInv, CatalogTypeOK
<1>7. PhysicsFollow'
  <2>1. /\ \A e \in Datasets : SpecsOf(e)' = SpecsOf(e)
        /\ \A s \in Specs : Live(s)' <=> Live(s)
        /\ \A e \in Datasets \ {d} : dataset'[e] = dataset[e]
        /\ dataset'[d] = new /\ new # None /\ dataset[d] # None
    BY <1>1, <1>2, <1>3, NoneAssumption
    DEF CommentDataset, SpecsOf, Live, CatalogInv, CatalogTypeOK
  <2>2. \A s \in Specs : s[1] \in Datasets /\ table'[s] = table[s]
    BY CatalogAssumption DEF CommentDataset
  <2>3. \A e \in Datasets :
          view'[e] = IF Alive(e)' THEN ViewOf(dataset'[e], SpecsOf(e)') ELSE None
    BY <1>4, <2>1 DEF CatalogInv, PhysicsFollow, Alive
  <2>4. \A e \in Datasets : Alive(e) => /\ Alive(e)'
                                        /\ dataset'[e].shape = dataset[e].shape
                                        /\ dataset'[e].notes = dataset[e].notes
    BY <1>2, <2>1 DEF Alive
  <2>5. \A s \in Specs :
          IF Live(s)' THEN /\ Alive(s[1])' /\ table'[s] # None
                           /\ table'[s].shape = dataset'[s[1]].shape
                           /\ table'[s].notes = dataset'[s[1]].notes
          ELSE table'[s] = None
    BY <2>1, <2>2, <2>4 DEF CatalogInv, PhysicsFollow
  <2> QED
    BY <2>3, <2>5 DEF PhysicsFollow, ViewOf
<1> QED
  BY <1>6, <1>7 DEF CatalogInv

LEMMA CommentAttrInv ==
  ASSUME CatalogInv, NEW d \in Datasets, NEW a \in Names, NEW c \in Comments,
         CommentAttr(d, a, c)
  PROVE  CatalogInv'
<1> DEFINE new == WithNote(dataset[d], a, c)
<1>1. /\ Alive(d) /\ a \in DOMAIN dataset[d].shape.type
      /\ dataset' = [dataset EXCEPT ![d] = new]
      /\ view' = [view EXCEPT ![d] = WithNote(view[d], a, c)]
      /\ table' = [s \in Specs |-> IF s \in SpecsOf(d) THEN WithNote(table[s], a, c)
                                   ELSE table[s]]
      /\ UNCHANGED <<usage, spec, connection, preset, build>>
  BY DEF CommentAttr, NamesOf
<1>2. /\ dataset[d] \in Dataset /\ view[d] = ViewOf(dataset[d], SpecsOf(d))
      /\ dataset[d].notes \subseteq DOMAIN dataset[d].shape.type
  BY <1>1 DEF CatalogInv, CatalogTypeOK, PhysicsFollow, Alive
<1>3. /\ new \in Dataset /\ new.type = dataset[d].type
      /\ new.shape = dataset[d].shape /\ new.descr = dataset[d].descr
      /\ new.notes = IF c THEN dataset[d].notes \cup {a} ELSE dataset[d].notes \ {a}
  BY <1>2 DEF Dataset, WithNote
<1>4. WithNote(view[d], a, c) = ViewOf(new, SpecsOf(d))
  BY <1>2, <1>3 DEF ViewOf, WithNote
<1>5. view' \in [Datasets -> View \cup {None}]
  <2>1. ViewOf(new, SpecsOf(d)) \in View
    BY <1>3 DEF ViewOf, View, Dataset, SpecsOf
  <2> QED
    BY <1>1, <1>4, <2>1 DEF CatalogInv, CatalogTypeOK
<1>6. ASSUME NEW s \in SpecsOf(d)
      PROVE  /\ table[s] \in Table /\ WithNote(table[s], a, c) \in Table
             /\ table[s].shape = dataset[d].shape
             /\ WithNote(table[s], a, c).shape = dataset[d].shape
             /\ WithNote(table[s], a, c).notes = new.notes
  <2>1. table[s] \in Table /\ table[s].shape = dataset[d].shape
        /\ table[s].notes = dataset[d].notes
    BY <1>6 DEF SpecsOf, CatalogInv, PhysicsFollow, CatalogTypeOK
  <2> QED
    BY <1>3, <2>1 DEF Table, WithNote
<1>7. \A s \in Specs : s[1] \in Datasets /\ (Live(s) /\ s[1] = d <=> s \in SpecsOf(d))
  BY CatalogAssumption DEF SpecsOf
<1>8. table' \in [Specs -> Table \cup {None}]
  BY <1>1, <1>6 DEF CatalogInv, CatalogTypeOK
<1>9. \A s \in Specs : /\ (table'[s] = None <=> table[s] = None)
                       /\ (Live(s) => table'[s].shape = table[s].shape)
  BY <1>1, <1>6, NoneAssumption
<1>10. RefsSound' /\ ActiveRunsCurrent' /\ LocksHold' /\ CatalogTypeOK'
  BY <1>1, <1>2, <1>3, <1>5, <1>8, <1>9, CommentInv
<1>11. PhysicsFollow'
  <2>1. /\ \A e \in Datasets : SpecsOf(e)' = SpecsOf(e)
        /\ \A s \in Specs : Live(s)' <=> Live(s)
        /\ \A e \in Datasets \ {d} : dataset'[e] = dataset[e] /\ view'[e] = view[e]
        /\ dataset'[d] = new /\ new # None /\ dataset[d] # None
        /\ view'[d] = ViewOf(new, SpecsOf(d))
    BY <1>1, <1>2, <1>3, <1>4, NoneAssumption
    DEF SpecsOf, Live, CatalogInv, CatalogTypeOK
  <2>2. \A e \in Datasets :
          view'[e] = IF Alive(e)' THEN ViewOf(dataset'[e], SpecsOf(e)') ELSE None
    BY <2>1 DEF CatalogInv, PhysicsFollow, Alive
  <2>3. ASSUME NEW s \in Specs
        PROVE  IF Live(s)' THEN /\ Alive(s[1])' /\ table'[s] # None
                                /\ table'[s].shape = dataset'[s[1]].shape
                                /\ table'[s].notes = dataset'[s[1]].notes
               ELSE table'[s] = None
    <3>1. CASE s \in SpecsOf(d)
      BY <1>1, <1>3, <1>6, <1>7, <2>1, <3>1, NoneAssumption DEF Alive
    <3>2. CASE s \notin SpecsOf(d)
      BY <1>1, <1>7, <2>1, <3>2 DEF CatalogInv, PhysicsFollow, Alive
    <3> QED
      BY <3>1, <3>2
  <2> QED
    BY <2>2, <2>3 DEF PhysicsFollow, ViewOf
<1> QED
  BY <1>10, <1>11 DEF CatalogInv
-----------------------------------------------------------------------------
(* Commands on a spec.                                                       *)

\* A spec that may be replaced or dropped has no active build.
LEMMA ReplacedIsIdle ==
  ASSUME CatalogInv, NEW s \in Specs, Live(s) => NoOpenBuild(s)
  PROVE  \A b \in Created : build[b].spec \in Specs /\ (Active(b) => build[b].spec # s)
  BY DEF CatalogInv, CatalogTypeOK, ActiveRunsCurrent, NoOpenBuild, BuildsOf,
         Active, IsOpen, Created, Build

LEMMA CreateBuildSpecInv ==
  ASSUME CatalogInv, NEW s \in Specs, NEW r \in Definitions(s), NEW o \in BOOLEAN,
         CreateBuildSpec(s, r, o)
  PROVE  CatalogInv'
<1> DEFINE d == s[1]
<1>1. /\ SpecFits(s, r)
      /\ spec' = [spec EXCEPT ![s] = r]
      /\ table' = [table EXCEPT ![s] = IF Live(s) THEN table[s] ELSE NewTable(d)]
      /\ view' = [view EXCEPT ![d] = ViewOf(dataset[d], SpecsOf(d) \cup {s})]
      /\ UNCHANGED <<usage, dataset, connection, preset, build>>
      /\ Live(s) => NoOpenBuild(s)
  BY DEF CreateBuildSpec
<1>2. \A t \in Specs : t[1] \in Datasets
  BY CatalogAssumption
<1>3. /\ Alive(d) /\ r.shape = dataset[d].shape /\ r.chunk \in dataset[d].shape.key
      /\ ModesFit(r.modes, dataset[d].type)
      /\ r.sources \subseteq Stores /\ d \notin r.sources
      /\ \A c \in r.using : connection[c] # None
  BY <1>1 DEF SpecFits, HeadFits
<1>4. dataset[d] \in Dataset
  BY <1>2, <1>3 DEF Alive, CatalogInv, CatalogTypeOK
<1>5. r \in Spec /\ r # None
  <2>1. r \in [shape : Shapes, chunk : Names, sources : SUBSET Datasets,
               using : SUBSET Connections, modes : ModeLists]
    BY <1>3, <1>4 DEF Definitions, Dataset
  <2> QED
    BY <2>1, CatalogAssumption, NoneAssumption DEF Spec
<1>6. /\ NewTable(d) \in Table /\ NewTable(d) # None
      /\ NewTable(d).shape = dataset[d].shape /\ NewTable(d).notes = dataset[d].notes
  BY <1>4, NoneAssumption DEF NewTable, Table, Dataset
<1>7. /\ \A t \in Specs \ {s} : spec'[t] = spec[t] /\ table'[t] = table[t]
      /\ spec'[s] = r /\ table'[s] = IF Live(s) THEN table[s] ELSE NewTable(d)
      /\ view'[d] = ViewOf(dataset[d], SpecsOf(d) \cup {s})
      /\ \A e \in Datasets \ {d} : view'[e] = view[e]
      /\ \A t \in Specs : Live(t)' <=> Live(t) \/ t = s
  BY <1>1, <1>2, <1>5 DEF CatalogInv, CatalogTypeOK, Live
<1>8. CatalogTypeOK'
  <2>1. ViewOf(dataset[d], SpecsOf(d) \cup {s}) \in View
    BY <1>4 DEF ViewOf, View, Dataset, SpecsOf
  <2> QED
    BY <1>1, <1>5, <1>6, <2>1 DEF CatalogInv, CatalogTypeOK
<1>9. RefsSound'
  <2>1. Stores' = Stores
    BY <1>1 DEF Stores, Alive
  <2>2. \A t \in Specs : Alive(t[1])' <=> Alive(t[1])
    BY <1>1 DEF Alive
  <2> QED
    BY <1>1, <1>3, <1>7, <2>1, <2>2 DEF CatalogInv, RefsSound
<1>10. PhysicsFollow'
  <2>1. \A e \in Datasets : SpecsOf(e)' = IF e = d THEN SpecsOf(d) \cup {s} ELSE SpecsOf(e)
    BY <1>7 DEF SpecsOf
  <2>2. ASSUME NEW e \in Datasets
        PROVE  view'[e] = IF Alive(e)' THEN ViewOf(dataset'[e], SpecsOf(e)') ELSE None
    <3>1. CASE e = d
      <4>1. Alive(e)' /\ dataset' = dataset
        BY <1>1, <1>3, <3>1 DEF Alive
      <4> QED
        BY <1>7, <2>1, <3>1, <4>1
    <3>2. CASE e # d
      BY <1>1, <1>7, <2>1, <3>2 DEF CatalogInv, PhysicsFollow, Alive
    <3> QED
      BY <3>1, <3>2
  <2>3. \A t \in Specs :
          IF Live(t)' THEN /\ Alive(t[1])' /\ table'[t] # None
                           /\ table'[t].shape = dataset'[t[1]].shape
                           /\ table'[t].notes = dataset'[t[1]].notes
          ELSE table'[t] = None
    BY <1>1, <1>3, <1>6, <1>7 DEF CatalogInv, PhysicsFollow, Alive
  <2> QED
    BY <2>2, <2>3 DEF PhysicsFollow, ViewOf
<1>11. \A b \in Created : build[b].spec \in Specs /\ (Active(b) => build[b].spec # s)
  BY <1>1, ReplacedIsIdle
<1>12. ActiveRunsCurrent'
  BY <1>1, <1>7, <1>11 DEF CatalogInv, ActiveRunsCurrent, Created, Active, Alive
<1>13. LocksHold'
  BY <1>1 DEF CatalogInv, LocksHold, Created, Active, Stores, Alive
<1> QED
  BY <1>8, <1>9, <1>10, <1>12, <1>13 DEF CatalogInv

LEMMA DropBuildSpecInv ==
  ASSUME CatalogInv, NEW s \in Specs, DropBuildSpec(s)
  PROVE  CatalogInv'
<1> DEFINE d == s[1]
<1>1. /\ Live(s) /\ NoOpenBuild(s)
      /\ spec' = [spec EXCEPT ![s] = None]
      /\ table' = [table EXCEPT ![s] = None]
      /\ view' = [view EXCEPT ![d] = ViewOf(dataset[d], SpecsOf(d) \ {s})]
      /\ UNCHANGED <<usage, dataset, connection, preset, build>>
  BY DEF DropBuildSpec
<1>2. \A t \in Specs : t[1] \in Datasets
  BY CatalogAssumption
<1>3. Alive(d) /\ dataset[d] \in Dataset
  BY <1>1, <1>2 DEF CatalogInv, RefsSound, Alive, CatalogTypeOK
<1>4. /\ \A t \in Specs \ {s} : spec'[t] = spec[t] /\ table'[t] = table[t]
      /\ spec'[s] = None /\ table'[s] = None
      /\ view'[d] = ViewOf(dataset[d], SpecsOf(d) \ {s})
      /\ \A e \in Datasets \ {d} : view'[e] = view[e]
      /\ \A t \in Specs : Live(t)' <=> Live(t) /\ t # s
  BY <1>1, <1>2 DEF CatalogInv, CatalogTypeOK, Live
<1>5. CatalogTypeOK'
  <2>1. ViewOf(dataset[d], SpecsOf(d) \ {s}) \in View
    BY <1>3 DEF ViewOf, View, Dataset, SpecsOf
  <2> QED
    BY <1>1, <2>1 DEF CatalogInv, CatalogTypeOK
<1>6. RefsSound'
  BY <1>1, <1>4 DEF CatalogInv, RefsSound, Alive, Stores
<1>7. PhysicsFollow'
  <2>1. \A e \in Datasets : SpecsOf(e)' = IF e = d THEN SpecsOf(d) \ {s} ELSE SpecsOf(e)
    BY <1>4 DEF SpecsOf
  <2>2. \A e \in Datasets :
          view'[e] = IF Alive(e)' THEN ViewOf(dataset'[e], SpecsOf(e)') ELSE None
    BY ZenonT(30), <1>1, <1>3, <1>4, <2>1 DEF CatalogInv, PhysicsFollow, Alive
  <2> QED
    BY SMTT(30), <1>1, <1>4, <2>2 DEF CatalogInv, PhysicsFollow, Alive, ViewOf
<1>8. \A b \in Created : build[b].spec \in Specs /\ (Active(b) => build[b].spec # s)
  BY <1>1, ReplacedIsIdle
<1>9. ActiveRunsCurrent'
  BY <1>1, <1>4, <1>8 DEF CatalogInv, ActiveRunsCurrent, Created, Active, Alive
<1>10. LocksHold'
  BY <1>1 DEF CatalogInv, LocksHold, Created, Active, Stores, Alive
<1> QED
  BY <1>5, <1>6, <1>7, <1>9, <1>10 DEF CatalogInv
-----------------------------------------------------------------------------
(* Builds.                                                                   *)

LEMMA StartBuildInv ==
  ASSUME CatalogInv, NEW s \in Specs, NEW code \in Codes, StartBuild(s, code)
  PROVE  CatalogInv'
<1> DEFINE b == Cardinality(Created) + 1
           new == [spec |-> s, mode |-> code, runs |-> spec[s], status |-> "active"]
<1>1. /\ Live(s) /\ NoOpenBuild(s)
      /\ s[1] \in Stores => FreeSources(s) /\ NoActiveReaders(s)
      /\ b \in BuildId
      /\ build' = [build EXCEPT ![b] = new]
      /\ UNCHANGED <<usage, dataset, spec, connection, preset, view, table>>
  BY DEF StartBuild
<1> HIDE DEF b
<1>2. /\ \A e \in Created : build[e] \in Build /\ build[e].spec \in Specs
      /\ \A t \in Specs : t[1] \in Datasets
  BY CatalogAssumption DEF CatalogInv, CatalogTypeOK, Created, Build
<1>3. new \in Build
  BY <1>1 DEF CatalogInv, CatalogTypeOK, Live, Build
<1>4. /\ \A e \in BuildId \ {b} : build'[e] = build[e]
      /\ build'[b] = new
      /\ Created' \subseteq Created \cup {b}
  BY <1>1 DEF CatalogInv, CatalogTypeOK, Created
<1>5. CatalogTypeOK'
  BY <1>1, <1>3 DEF CatalogInv, CatalogTypeOK
<1>6. RefsSound'
  BY <1>1 DEF CatalogInv, RefsSound, Alive, Live, Stores
<1>7. PhysicsFollow'
  BY <1>1 DEF CatalogInv, PhysicsFollow, Alive, Live, SpecsOf, ViewOf
<1>8. ActiveRunsCurrent'
  <2>1. /\ Live(s) /\ table[s] # None /\ table[s].shape = spec[s].shape
        /\ Alive(s[1]) /\ dataset[s[1]].shape = spec[s].shape
    BY <1>1 DEF CatalogInv, RefsSound, PhysicsFollow
  <2> QED
    BY <1>1, <1>4, <2>1 DEF CatalogInv, ActiveRunsCurrent, Created, Active, Alive, Live
<1>9. LocksHold'
  <2>1. \A e \in Created \ {b} : Active(e) => build[e].spec # s
    BY <1>1, <1>2 DEF NoOpenBuild, BuildsOf, Active, IsOpen
  <2>2. s[1] \in Stores => \A e \in Created : Active(e) => build[e].spec[1] \notin spec[s].sources
    BY <1>1 DEF FreeSources, Active, IsOpen
  <2>3. ASSUME NEW e \in Created, Active(e), build[e].spec[1] \in Stores
        PROVE  s[1] \notin build[e].runs.sources
    <3> DEFINE t == build[e].spec
    <3>1. t \in Specs /\ Live(t) /\ spec[t] = build[e].runs
      BY <1>2, <2>3 DEF CatalogInv, ActiveRunsCurrent
    <3>2. CASE s[1] \in Stores
      BY <1>1, <2>3, <3>1, <3>2 DEF NoActiveReaders, BuildsOf
    <3>3. CASE s[1] \notin Stores
      BY <3>1, <3>3 DEF CatalogInv, RefsSound
    <3> QED
      BY <3>2, <3>3
  <2>4. Stores' = Stores
    BY <1>1 DEF Stores, Alive
  <2> SUFFICES ASSUME NEW e \in Created', NEW f \in Created', e # f,
                      Active(e)', Active(f)'
               PROVE  /\ build'[e].spec # build'[f].spec
                      /\ build'[e].spec[1] \in Stores =>
                           build'[f].spec[1] \notin build'[e].runs.sources
    BY <2>4 DEF LocksHold
  <2>5. CASE e # b /\ f # b
    BY <1>4, <2>5 DEF CatalogInv, LocksHold, Created, Active
  <2>6. CASE e = b
    BY <1>4, <2>1, <2>2, <2>6 DEF Created, Active
  <2>7. CASE f = b
    BY <1>4, <2>1, <2>3, <2>7 DEF Created, Active
  <2> QED
    BY <2>5, <2>6, <2>7
<1> QED
  BY <1>5, <1>6, <1>7, <1>8, <1>9 DEF CatalogInv

\* The ends of builds.
LEMMA EndsInv ==
  ASSUME CatalogInv, NEW b \in BuildId, EndBuild(b) \/ FailBuild(b) \/ FixBuild(b)
  PROVE  CatalogInv'
<1> DEFINE s == build[b].spec
<1>1. PICK st \in {"done", "fail", "fix"} : build' = [build EXCEPT ![b].status = st]
  BY DEF EndBuild, FailBuild, FixBuild
<1>2. b \in Created /\ UNCHANGED <<usage, dataset, spec, connection, preset, view>>
  BY DEF EndBuild, FailBuild, FixBuild
<1>3. build[b] \in Build /\ s \in Specs
  BY <1>2 DEF CatalogInv, CatalogTypeOK, Created, Build
<1>4. /\ build' \in [BuildId -> Build \cup {None}]
      /\ \A e \in Created : build'[e].spec = build[e].spec /\ build'[e].runs = build[e].runs
      /\ \A e \in BuildId : build[e] = None => build'[e] = None
      /\ \A e \in Created : build'[e].status = "active" => build[e].status = "active"
  <2>1. [build[b] EXCEPT !.status = st] \in Build
    BY <1>3 DEF Build
  <2> QED
    BY <1>1, <1>2, <1>3, <2>1 DEF CatalogInv, CatalogTypeOK, Created, Build
<1>5. /\ table' \in [Specs -> Table \cup {None}]
      /\ \A t \in Specs : /\ (table'[t] = None <=> table[t] = None)
                          /\ (table[t] # None => /\ table'[t].shape = table[t].shape
                                                 /\ table'[t].notes = table[t].notes)
  <2>1. CASE table' = table
    BY <2>1 DEF CatalogInv, CatalogTypeOK
  <2>2. CASE EndBuild(b)
    <3> DEFINE new == [table[s] EXCEPT !.rows = table[s].rows \cup {b}]
    <3>1. table[s] \in Table
      BY <1>2, <1>3, <2>2 DEF EndBuild, CatalogInv, ActiveRunsCurrent, CatalogTypeOK
    <3>2. new \in Table /\ new # None /\ new.shape = table[s].shape /\ new.notes = table[s].notes
      BY <3>1, NoneAssumption DEF Table
    <3>3. table' = [table EXCEPT ![s] = new]
      BY <2>2 DEF EndBuild
    <3> QED
      BY <1>3, <3>1, <3>2, <3>3, NoneAssumption DEF CatalogInv, CatalogTypeOK
  <2> QED
    BY <2>1, <2>2 DEF FailBuild, FixBuild
<1>6. Created' \subseteq Created
  BY <1>4 DEF Created
<1>7. CatalogTypeOK'
  BY <1>2, <1>4, <1>5 DEF CatalogInv, CatalogTypeOK
<1>8. RefsSound'
  BY <1>2 DEF CatalogInv, RefsSound, Alive, Live, Stores
<1>9. PhysicsFollow'
  BY <1>2, <1>5 DEF CatalogInv, PhysicsFollow, Alive, Live, SpecsOf, ViewOf
<1>10. ActiveRunsCurrent'
  <2>1. \A e \in Created : build[e].spec \in Specs
    BY DEF CatalogInv, CatalogTypeOK, Created, Build
  <2> QED
    BY <1>2, <1>4, <1>5, <1>6, <2>1
    DEF CatalogInv, ActiveRunsCurrent, Active, Alive, Live
<1>11. LocksHold'
  BY <1>2, <1>4, <1>6 DEF CatalogInv, LocksHold, Active, Stores, Alive
<1> QED
  BY <1>7, <1>8, <1>9, <1>10, <1>11 DEF CatalogInv
-----------------------------------------------------------------------------
\* Every step keeps the invariant.
LEMMA NextInv == CatalogInv /\ [CatalogNext]_catalogVars => CatalogInv'
  BY OtherInv, CreateDatasetInv, DropDatasetInv, CommentDatasetInv,
     CommentAttrInv, CreateBuildSpecInv, DropBuildSpecInv, StartBuildInv, EndsInv
  DEF CatalogNext, DatasetCommand, SpecCommand, BuildStep

\* The inductive invariant (commands.py, and _prepare of engine.py).
THEOREM CatalogInvariant == CatalogSpec => []CatalogInv
  BY InitInv, NextInv, PTL DEF CatalogSpec

\* The state keeps its types; comments are of attributes that are there.
THEOREM CatalogTypes == CatalogSpec => []CatalogTypeOK
  BY CatalogInvariant, PTL DEF CatalogInv

\* Views, tables and comments follow the catalog (_create_dataset_view,
\* _create_spec_tables, _comment_attr).
THEOREM PhysicsFollowHolds == CatalogSpec => []PhysicsFollow
  BY CatalogInvariant, PTL DEF CatalogInv

\* What specs refer to is there and fits (_create_build_spec, _drop_dataset,
\* _check_live_specs_diff).
THEOREM RefsSoundHolds == CatalogSpec => []RefsSound
  BY CatalogInvariant, PTL DEF CatalogInv

\* An active build runs the live definition of its spec, over its tables
\* (_require_no_open_builds).
THEOREM ActiveRunsCurrentHolds == CatalogSpec => []ActiveRunsCurrent
  BY CatalogInvariant, PTL DEF CatalogInv

\* The locks of _prepare, which look at live definitions, hold for what active
\* builds were started with.
THEOREM LocksHoldHolds == CatalogSpec => []LocksHold
  BY CatalogInvariant, PTL DEF CatalogInv
-----------------------------------------------------------------------------
(* The graph: a spec comes with a search that finds no cycle (FindCycleIs),  *)
(* every other command leaves edges away at most.  The search ends because   *)
(* there are finitely many live specs, however many there may be.            *)
Lives == {s \in Specs : Live(s)}
GraphInv == CatalogInv /\ IsFiniteSet(Lives) /\ Acyclic(LiveEdges)

LEMMA InitGraph == CatalogInit => IsFiniteSet(Lives) /\ Acyclic(LiveEdges)
<1> SUFFICES ASSUME CatalogInit PROVE IsFiniteSet(Lives) /\ Acyclic(LiveEdges)
  OBVIOUS
<1>1. Lives = {}
  BY DEF CatalogInit, Nothing, Lives, Live
<1>2. LiveEdges = {}
  BY <1>1 DEF LiveEdges, Lives
<1> QED
  BY <1>1, <1>2, FS_EmptySet DEF Acyclic, Readers

\* Every reader is the dataset of a live spec.
LEMMA ReadersAreFinite ==
  ASSUME NEW L, IsFiniteSet(L), NEW edges,
         \A e \in edges : \E s \in L : e[1] = s[1]
  PROVE  IsFiniteSet(Readers(edges))
<1> DEFINE f == [s \in L |-> s[1]]
           T == {f[s] : s \in L}
<1>1. f \in Surjection(L, T)
  BY DEF Surjection
<1>2. IsFiniteSet(T)
  BY <1>1, FS_Surjection
<1>3. Readers(edges) \in SUBSET T
  BY DEF Readers
<1> QED
  BY <1>2, <1>3, FS_Subset

LEMMA CreateBuildSpecGraph ==
  ASSUME GraphInv, NEW s \in Specs, NEW r \in Definitions(s), NEW o \in BOOLEAN,
         CreateBuildSpec(s, r, o)
  PROVE  IsFiniteSet(Lives') /\ Acyclic(LiveEdges')
<1> DEFINE edges == {<<s[1], d>> : d \in r.sources}
                    \cup (UNION {{<<t[1], d>> : d \in spec[t].sources} :
                                   t \in {u \in Specs : Live(u) /\ u # s}})
           L == Lives \cup {s}
<1>1. spec' = [spec EXCEPT ![s] = r] /\ ~FindCycle(edges)
  BY DEF CreateBuildSpec, SpecFits, ClosesCycle
<1>2. spec'[s] = r /\ \A t \in Specs \ {s} : spec'[t] = spec[t]
  BY <1>1 DEF GraphInv, CatalogInv, CatalogTypeOK
<1>3. Lives' \in SUBSET L
  BY <1>2 DEF Lives, Live
<1>4. LiveEdges' \in SUBSET edges
  BY <1>2 DEF LiveEdges, Live
<1>5. IsFiniteSet(L)
  BY FS_AddElement DEF GraphInv
<1>6. \A e \in edges : \E t \in L : e[1] = t[1]
  BY DEF Lives
<1> HIDE DEF edges, L
<1>7. IsFiniteSet(Readers(edges))
  BY <1>5, <1>6, ReadersAreFinite
<1>8. Acyclic(edges)
  BY <1>1, <1>7, FindCycleIs
<1> QED
  BY <1>3, <1>4, <1>5, <1>8, FS_Subset, FewerEdges

\* Any other step.
LEMMA OtherGraph ==
  ASSUME GraphInv, \A s \in Specs : Live(s)' => spec'[s] = spec[s]
  PROVE  IsFiniteSet(Lives') /\ Acyclic(LiveEdges')
<1>1. Lives' \in SUBSET Lives
  BY DEF Lives, Live
<1>2. LiveEdges' \in SUBSET LiveEdges
  BY DEF LiveEdges, Live
<1> QED
  BY <1>1, <1>2, FS_Subset, FewerEdges DEF GraphInv

LEMMA NextGraph == GraphInv /\ [CatalogNext]_catalogVars => GraphInv'
<1> SUFFICES ASSUME GraphInv, [CatalogNext]_catalogVars
             PROVE  IsFiniteSet(Lives') /\ Acyclic(LiveEdges')
  BY NextInv DEF GraphInv
<1>1. CASE \E s \in Specs : \E r \in Definitions(s), o \in BOOLEAN :
             CreateBuildSpec(s, r, o)
  BY <1>1, CreateBuildSpecGraph
<1>2. ASSUME \E s \in Specs : DropBuildSpec(s)
      PROVE  \A s \in Specs : Live(s)' => spec'[s] = spec[s]
  BY <1>2 DEF DropBuildSpec, Live, GraphInv, CatalogInv, CatalogTypeOK
<1>3. ASSUME DropDatapulse
      PROVE  \A s \in Specs : Live(s)' => spec'[s] = spec[s]
  BY <1>3 DEF DropDatapulse, Nothing, Live
<1>4. ASSUME \/ \E S \in (SUBSET Schemas) \ {{}} : CreateDatapulse(S)
             \/ \E x \in Schemas : AlterDatapulseAdd(x)
             \/ DatasetCommand \/ OtherCommand \/ BuildStep
             \/ UNCHANGED catalogVars
      PROVE  spec' = spec
  BY <1>4 DEF CreateDatapulse, AlterDatapulseAdd, DatasetCommand, CreateDataset,
     DropDataset, CommentDataset, CommentAttr, OtherCommand, CreateConnection,
     CreateFlowSpec, DropFlowSpec, BuildStep, StartBuild, EndBuild, FailBuild,
     FixBuild, catalogVars
<1> QED
  BY <1>1, <1>2, <1>3, <1>4, OtherGraph DEF CatalogNext, Install, SpecCommand

\* The inductive invariant with the graph: finitely many live specs, no cycle.
THEOREM GraphInvariant == CatalogSpec => []GraphInv
  BY InitInv, InitGraph, NextGraph, PTL DEF CatalogSpec, GraphInv

\* The graph stays sound, however it is built up and torn down: what specs
\* refer to is there, and no cycle gets in (_check_source_cycle).
THEOREM GraphSoundHolds == CatalogSpec => []GraphSound
  BY GraphInvariant, PTL DEF GraphInv, CatalogInv, GraphSound
-----------------------------------------------------------------------------
(* The plan of a flow, over the graph as it is.                              *)

LEMMA PlanWave == GraphInv => PlanIsWave
<1> SUFFICES ASSUME GraphInv,
               NEW body \in {{}} \cup {preset[p] : p \in {q \in Presets : preset[q] # None}},
               NEW intake \in {"calc", "pass"}, NEW export \in {"calc", "pass", "skip"},
               NEW plan, plan = Plan(body, intake, export)
             PROVE
               /\ \A i, j \in DOMAIN plan :
                    plan[i].spec[1] \in spec[plan[j].spec].sources => i < j
               /\ \A i, j \in DOMAIN plan : plan[i] = plan[j] => i = j
               /\ \A s \in Specs : Live(s) /\ s[1] \in Stores
                                   /\ (intake = "calc" \/ spec[s].sources # {}) =>
                    \E i \in DOMAIN plan :
                      /\ plan[i].spec = s
                      /\ plan[i].mode \in WindowModes
                      /\ s \notin {r.spec : r \in body} =>
                           plan[i].mode \in CodesOf(spec[s])
                      /\ \A j \in DOMAIN plan : plan[j].spec = s => j <= i
               /\ \A i \in DOMAIN plan : plan[i].spec[1] \notin Stores =>
                    plan[i].mode \in CodesOf(spec[plan[i].spec])
  BY SMTT(30) DEF PlanIsWave
<1> DEFINE specs == LiveSpecs
           asked == PresetOf(body)
<1>1. /\ DOMAIN specs = Lives
      /\ \A s \in Lives : /\ specs[s].type = dataset[s[1]].type
                          /\ specs[s].sources = spec[s].sources
                          /\ specs[s].codes = CodesOf(spec[s])
  BY DEF LiveSpecs, Lives
<1>2. DOMAIN asked = {r.spec : r \in body}
  BY DEF PresetOf
<1>3. plan = FlowPlan(specs, Windowed, asked, intake, export)
  BY DEF Plan
<1> HIDE DEF specs, asked
<1>4. DOMAIN specs \subseteq Nat \X Nat
  BY <1>1, CatalogAssumption DEF Lives
<1>5. Acyclic(EdgesOf(specs))
  <2>1. LiveEdges = UNION {{<<s[1], d>> : d \in spec[s].sources} : s \in Lives}
    BY DEF LiveEdges, Lives
  <2>2. EdgesOf(specs) = UNION {{<<s[1], d>> : d \in spec[s].sources} : s \in Lives}
    BY <1>1 DEF EdgesOf
  <2> QED
    BY <2>1, <2>2 DEF GraphInv
<1>6. IsFiniteSet(DOMAIN specs)
  BY <1>1 DEF GraphInv
<1>7. \A s \in Lives :
        /\ s[1] \in Stores <=> specs[s].type # "mart"
        /\ s[1] \in Stores => {"initial", "increment"} \cap specs[s].codes # {}
  <2> TAKE s \in Lives
  <2>1. /\ s[1] \in Datasets /\ Alive(s[1]) /\ dataset[s[1]] \in Dataset
        /\ ModesFit(spec[s].modes, dataset[s[1]].type)
    BY CatalogAssumption DEF GraphInv, CatalogInv, RefsSound, Lives, CatalogTypeOK, Alive
  <2>2. dataset[s[1]].type \in {"store", "mart"}
    BY <2>1 DEF Dataset, Types
  <2>3. s[1] \in Stores <=> dataset[s[1]].type = "store"
    BY <2>1 DEF Stores
  <2>4. ASSUME s[1] \in Stores PROVE {"initial", "increment"} \cap CodesOf(spec[s]) # {}
    <3>1. PICK m \in spec[s].modes : m.code \in {"initial", "increment"}
      BY <2>1, <2>3, <2>4 DEF ModesFit
    <3> QED
      BY <3>1 DEF CodesOf
  <2> QED
    BY <1>1, <2>2, <2>3, <2>4
<1>8. IsWave(specs, asked, intake, plan)
  BY <1>3, <1>4, <1>5, <1>6, FlowPlanIs
<1>9. \A s \in Specs : Live(s) <=> s \in Lives
  BY DEF Lives
<1> QED
  BY <1>1, <1>2, <1>7, <1>8, <1>9 DEF IsWave

\* Every plan is a wave from the sources to the marts, whatever the taps and
\* the preset (_flow_plan): by FlowPlanIs, over a graph without cycles.
THEOREM PlanIsWaveHolds == CatalogSpec => []PlanIsWave
  BY GraphInvariant, PlanWave, PTL
=============================================================================
