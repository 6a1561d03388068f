------------------------------ MODULE Catalog ------------------------------
(***************************************************************************)
(* The catalog of datapulse (commands.py) and the builds that run over it. *)
(* A command on the catalog is one transaction under the catalog lock, and *)
(* so is the creation of a build: each is one action here.  The catalog    *)
(* keeps versions of datasets, specs, connections and presets; a tombstone *)
(* is treated like no version at all, so only the last version is kept.    *)
(* Beside the catalog stand what it makes of the database: a view for each *)
(* dataset, two tables for each spec.  Of a build the life is kept, and    *)
(* the definition it was started with.                                     *)
(***************************************************************************)
EXTENDS Planner

CONSTANTS Schemas, Datasets, SchemaOf, \* SchemaOf: a dataset lies in a schema
          Specs,         \* pairs of a dataset and a build_spec_num
          Shapes,        \* attribute lists that commands bring
          ModeLists,     \* mode lists that commands bring
          Connections, Classes,
          Presets, Bodies,  \* names of presets, what their SQL answers
          Comments,      \* comments that commands bring, as: is there one
          MaxBuild, None

BuildId == 1..MaxBuild
Types == {"store", "mart"}
Codes == WindowModes \cup {"clean"}           \* clean: any other name
TransferTypes == {"init", "incr", "sect", "appd", "skip"}
Mode  == [code : Codes, type : TransferTypes]
Names == UNION {DOMAIN sh.type : sh \in Shapes}

\* A shape: the types of the attributes, and the key.  A body: the rows of
\* the preset, each with a spec and a mode.
ASSUME CatalogAssumption ==
  /\ Datasets \subseteq Nat /\ Specs \subseteq Datasets \X (Nat \ {0})
  /\ SchemaOf \in [Datasets -> Schemas]
  /\ \A sh \in Shapes :
       /\ sh = [type |-> sh.type, key |-> sh.key]
       /\ sh.type = [n \in DOMAIN sh.type |-> sh.type[n]]
       /\ sh.key \subseteq DOMAIN sh.type /\ sh.key # {}
  /\ ModeLists \subseteq SUBSET Mode
  /\ Bodies \subseteq SUBSET [spec : Specs, mode : Codes]
  /\ Comments \subseteq BOOLEAN /\ MaxBuild \in Nat

VARIABLES usage,       \* data schemas; None: not installed
          dataset,     \* dataset -> its attributes and comments
          spec,        \* spec -> its definition
          connection,  \* connection -> its class
          preset,      \* preset -> its body
          view, table, \* dataset -> its view; spec -> its pair of tables
          build        \* build -> its row, its status and what it runs

catalogVars == <<usage, dataset, spec, connection, preset, view, table, build>>

Dataset == [type : Types, shape : Shapes, descr : BOOLEAN, notes : SUBSET Names]
Spec    == [shape : Shapes, chunk : Names, sources : SUBSET Datasets,
            using : SUBSET Connections, modes : SUBSET Mode]
View    == [specs : SUBSET Specs, shape : Shapes, descr : BOOLEAN,
            notes : SUBSET Names]
Table   == [shape : Shapes, notes : SUBSET Names, rows : SUBSET BuildId]
Build   == [spec : Specs, mode : Codes, runs : Spec,
            status : {"active", "fail", "fix", "done"}]

\* None stands for what is not there.
ASSUME NoneAssumption ==
  None \notin Dataset /\ None \notin Spec /\ None \notin Table

CatalogTypeOK ==
  /\ usage \in (SUBSET Schemas) \cup {None}
  /\ dataset \in [Datasets -> Dataset \cup {None}]
  /\ \A d \in Datasets : dataset[d] # None =>
       dataset[d].notes \subseteq DOMAIN dataset[d].shape.type
  /\ spec \in [Specs -> Spec \cup {None}]
  /\ connection \in [Connections -> Classes \cup {None}]
  /\ preset \in [Presets -> Bodies \cup {None}]
  /\ view \in [Datasets -> View \cup {None}]
  /\ table \in [Specs -> Table \cup {None}]
  /\ build \in [BuildId -> Build \cup {None}]

Nothing ==
  [usage |-> None,
   dataset |-> [d \in Datasets |-> None], spec |-> [s \in Specs |-> None],
   connection |-> [c \in Connections |-> None],
   preset |-> [p \in Presets |-> None],
   view |-> [d \in Datasets |-> None], table |-> [s \in Specs |-> None],
   build |-> [b \in BuildId |-> None]]

CatalogInit ==
  /\ usage = Nothing.usage /\ dataset = Nothing.dataset /\ spec = Nothing.spec
  /\ connection = Nothing.connection /\ preset = Nothing.preset
  /\ view = Nothing.view /\ table = Nothing.table /\ build = Nothing.build

-----------------------------------------------------------------------------
Installed == usage # None
Alive(d)  == dataset[d] # None
Live(s)   == spec[s] # None
Stores    == {d \in Datasets : Alive(d) /\ dataset[d].type = "store"}
SpecsOf(d) == {s \in Specs : s[1] = d /\ Live(s)}
NamesOf(shape) == DOMAIN shape.type
CodesOf(r) == {m.code : m \in r.modes}

Created     == {b \in BuildId : build[b] # None}
Active(b)   == build[b].status = "active"
IsOpen(b)     == build[b].status \in {"active", "fail"}
BuildsOf(s) == {b \in Created : build[b].spec = s}

\* _require_no_open_build(s)
NoOpenBuild(s) == \A b \in BuildsOf(s) : ~IsOpen(b)

\* _live_spec_sources
LiveEdges == UNION {{<<s[1], d>> : d \in spec[s].sources} :
                      s \in {t \in Specs : Live(t)}}

\* _create_dataset_view: what a view is made of, from a dataset and the specs
\* that are live after the command.
ViewOf(r, specs) ==
  [specs |-> specs, shape |-> r.shape, descr |-> r.descr, notes |-> r.notes]

-----------------------------------------------------------------------------
(* The installation.                                                        *)

CreateDatapulse(S) ==
  /\ ~Installed
  /\ usage' = S
  /\ UNCHANGED <<dataset, spec, connection, preset, view, table, build>>

\* Schemas go with everything in them, the journal of the builds included.
DropDatapulse ==
  /\ Installed
  /\ usage' = Nothing.usage /\ dataset' = Nothing.dataset
  /\ spec' = Nothing.spec /\ connection' = Nothing.connection
  /\ preset' = Nothing.preset
  /\ view' = Nothing.view /\ table' = Nothing.table /\ build' = Nothing.build

AlterDatapulseAdd(x) ==
  /\ Installed /\ x \notin usage
  /\ usage' = usage \cup {x}
  /\ UNCHANGED <<dataset, spec, connection, preset, view, table, build>>

-----------------------------------------------------------------------------
(* Datasets and comments.                                                   *)

\* Mutant: the set of attributes may change under live specs.
MutKeepsLiveSpecs(old, new) ==
  /\ old.key = new.key
  /\ \A n \in NamesOf(old) \cap NamesOf(new) : old.type[n] = new.type[n]

\* _check_live_specs_diff: the key, the types and the set stay.
KeepsLiveSpecs(old, new) ==
  /\ old.key = new.key
  /\ \A n \in NamesOf(old) \cap NamesOf(new) : old.type[n] = new.type[n]
  /\ NamesOf(old) = NamesOf(new)

\* Mutant: comments on attributes that went away stay.
MutCreateDataset(d, t, shape, orReplace) ==
  /\ Installed /\ SchemaOf[d] \in usage
  /\ Alive(d) => /\ orReplace /\ dataset[d].type = t
                 /\ SpecsOf(d) # {} => KeepsLiveSpecs(dataset[d].shape, shape)
  /\ dataset' = [dataset EXCEPT ![d] =
       [type |-> t, shape |-> shape,
        descr |-> IF Alive(d) THEN dataset[d].descr ELSE FALSE,
        notes |-> IF Alive(d) THEN dataset[d].notes ELSE {}]]
  /\ view' = [view EXCEPT ![d] =
                ViewOf(dataset'[d], IF Alive(d) THEN SpecsOf(d) ELSE {})]
  /\ UNCHANGED <<usage, spec, connection, preset, table, build>>

\* Create, or replace: comments go over by name.
CreateDataset(d, t, shape, orReplace) ==
  /\ Installed /\ SchemaOf[d] \in usage
  /\ Alive(d) => /\ orReplace /\ dataset[d].type = t
                 /\ SpecsOf(d) # {} => KeepsLiveSpecs(dataset[d].shape, shape)
  /\ dataset' = [dataset EXCEPT ![d] =
       [type |-> t, shape |-> shape,
        descr |-> IF Alive(d) THEN dataset[d].descr ELSE FALSE,
        notes |-> IF Alive(d) THEN dataset[d].notes \cap NamesOf(shape) ELSE {}]]
  /\ view' = [view EXCEPT ![d] =
                ViewOf(dataset'[d], IF Alive(d) THEN SpecsOf(d) ELSE {})]
  /\ UNCHANGED <<usage, spec, connection, preset, table, build>>

DropDataset(d) ==
  /\ Installed /\ Alive(d)
  /\ SpecsOf(d) = {}
  /\ \A s \in Specs : Live(s) => d \notin spec[s].sources
  /\ dataset' = [dataset EXCEPT ![d] = None]
  /\ view' = [view EXCEPT ![d] = None]
  /\ UNCHANGED <<usage, spec, connection, preset, table, build>>

CommentDataset(d, c) ==
  /\ Installed /\ Alive(d)
  /\ dataset' = [dataset EXCEPT ![d].descr = c]
  /\ view' = [view EXCEPT ![d].descr = c]
  /\ UNCHANGED <<usage, spec, connection, preset, table, build>>

WithNote(r, a, c) ==
  [r EXCEPT !.notes = IF c THEN @ \cup {a} ELSE @ \ {a}]

\* Mutant: the tables of the specs keep their comments.
MutCommentAttr(d, a, c) ==
  /\ Installed /\ Alive(d) /\ a \in NamesOf(dataset[d].shape)
  /\ dataset' = [dataset EXCEPT ![d] = WithNote(@, a, c)]
  /\ view' = [view EXCEPT ![d] = WithNote(@, a, c)]
  /\ UNCHANGED <<usage, spec, connection, preset, table, build>>

\* The comment goes to the view and to the tables of the live specs.
CommentAttr(d, a, c) ==
  /\ Installed /\ Alive(d) /\ a \in NamesOf(dataset[d].shape)
  /\ dataset' = [dataset EXCEPT ![d] = WithNote(@, a, c)]
  /\ view' = [view EXCEPT ![d] = WithNote(@, a, c)]
  /\ table' = [s \in Specs |-> IF s \in SpecsOf(d) THEN WithNote(table[s], a, c)
                               ELSE table[s]]
  /\ UNCHANGED <<usage, spec, connection, preset, build>>

-----------------------------------------------------------------------------
(* Specs.                                                                   *)

\* _check_spec_modes: the transfer types of a dataset, what the reserved names
\* mean, and the modes a spec must have.
ModesFit(modes, t) ==
  /\ \A m \in modes :
       /\ m.type \in (IF t = "store" THEN {"init", "incr", "sect"}
                      ELSE {"appd", "init", "skip"})
       /\ m.code = "initial" => m.type = "init"
       /\ m.code = "increment" => m.type \in (IF t = "store" THEN {"incr", "sect"}
                                              ELSE {"appd"})
       /\ m.code = "skip" => m.type = "skip"
  /\ IF t = "store"
     THEN \E m \in modes : m.code \in {"initial", "increment"}
     ELSE \E m \in modes : m.code = "skip"

\* _check_source_cycle: the edges of the other live specs and the new ones.
ClosesCycle(s, sources) ==
  FindCycle({<<s[1], d>> : d \in sources}
            \cup (UNION {{<<t[1], d>> : d \in spec[t].sources} :
                           t \in {u \in Specs : Live(u) /\ u # s}}))

\* _check_spec_head, without the catalog: the number, and no name twice.
HeadFits(s, r) ==
  /\ s[2] >= 1 /\ s[1] \notin r.sources
  /\ \A m, n \in r.modes : m.code = n.code => m = n

\* What the command must bring: the definition r of spec s.
SpecFits(s, r) ==
  LET d == s[1]
  IN  /\ HeadFits(s, r)
      /\ Alive(d) /\ r.shape = dataset[d].shape
      /\ ModesFit(r.modes, dataset[d].type)
      /\ dataset[d].type = "store" => r.using = {} \/ r.sources = {}
      /\ r.chunk \in dataset[d].shape.key
      /\ \A c \in r.using : connection[c] # None
      /\ r.sources \subseteq Stores
      /\ ~ClosesCycle(s, r.sources)

NewTable(d) == [shape |-> dataset[d].shape, notes |-> dataset[d].notes, rows |-> {}]

\* Mutant: a spec is replaced under its open build.
MutCreateBuildSpec(s, r, orReplace) ==
  /\ Installed /\ SpecFits(s, r)
  /\ Live(s) => orReplace
  /\ spec' = [spec EXCEPT ![s] = r]
  /\ table' = [table EXCEPT ![s] = IF Live(s) THEN @ ELSE NewTable(s[1])]
  /\ view' = [view EXCEPT ![s[1]] = ViewOf(dataset[s[1]], SpecsOf(s[1]) \cup {s})]
  /\ UNCHANGED <<usage, dataset, connection, preset, build>>

\* Create, or replace: the tables of a live spec stay.  The dataset gets a
\* version with the same attributes, the one the builds of the spec read.
CreateBuildSpec(s, r, orReplace) ==
  /\ Installed /\ SpecFits(s, r)
  /\ Live(s) => orReplace /\ NoOpenBuild(s)
  /\ spec' = [spec EXCEPT ![s] = r]
  /\ table' = [table EXCEPT ![s] = IF Live(s) THEN @ ELSE NewTable(s[1])]
  /\ view' = [view EXCEPT ![s[1]] = ViewOf(dataset[s[1]], SpecsOf(s[1]) \cup {s})]
  /\ UNCHANGED <<usage, dataset, connection, preset, build>>

\* Mutant: a spec is dropped under its open build.
MutDropBuildSpec(s) ==
  /\ Installed /\ Live(s)
  /\ spec' = [spec EXCEPT ![s] = None]
  /\ view' = [view EXCEPT ![s[1]] = ViewOf(dataset[s[1]], SpecsOf(s[1]) \ {s})]
  /\ table' = [table EXCEPT ![s] = None]
  /\ UNCHANGED <<usage, dataset, connection, preset, build>>

\* The view first, without the spec, then its tables with all their rows.
DropBuildSpec(s) ==
  /\ Installed /\ Live(s) /\ NoOpenBuild(s)
  /\ spec' = [spec EXCEPT ![s] = None]
  /\ view' = [view EXCEPT ![s[1]] = ViewOf(dataset[s[1]], SpecsOf(s[1]) \ {s})]
  /\ table' = [table EXCEPT ![s] = None]
  /\ UNCHANGED <<usage, dataset, connection, preset, build>>

-----------------------------------------------------------------------------
(* Connections and presets.                                                 *)

\* The class of a connection stays; connections are never dropped.
CreateConnection(c, class, orReplace) ==
  /\ Installed
  /\ connection[c] # None => orReplace /\ connection[c] = class
  /\ connection' = [connection EXCEPT ![c] = class]
  /\ UNCHANGED <<usage, dataset, spec, preset, view, table, build>>

CreateFlowSpec(p, body, orReplace) ==
  /\ Installed
  /\ preset[p] # None => orReplace
  /\ preset' = [preset EXCEPT ![p] = body]
  /\ UNCHANGED <<usage, dataset, spec, connection, view, table, build>>

DropFlowSpec(p) ==
  /\ Installed /\ preset[p] # None
  /\ preset' = [preset EXCEPT ![p] = None]
  /\ UNCHANGED <<usage, dataset, spec, connection, view, table, build>>

-----------------------------------------------------------------------------
(* Builds: _prepare, which reads the catalog and the journal, and what      *)
(* becomes of a build.                                                      *)

\* _require_free_sources
FreeSources(s) ==
  \A b \in Created : build[b].spec[1] \in spec[s].sources => ~IsOpen(b)

\* _require_no_active_readers: the readers are the specs that read the dataset
\* of s now, as stores.
NoActiveReaders(s) ==
  \A t \in Specs : Live(t) /\ s[1] \in spec[t].sources /\ t[1] \in Stores =>
    \A b \in BuildsOf(t) : ~Active(b)

\* has_window of _flow_plan.
WindowBuilds(s) ==
  {b \in BuildsOf(s) : build[b].mode \in WindowModes /\ build[b].status = "done"}

\* The window it is given is in Builds and Marts.
StartBuild(s, code) ==
  /\ Installed /\ Live(s) /\ code \in CodesOf(spec[s])
  /\ NoOpenBuild(s)
  /\ s[1] \in Stores => FreeSources(s) /\ NoActiveReaders(s)
  /\ LET b == Cardinality(Created) + 1
     IN  /\ b \in BuildId
         /\ build' = [build EXCEPT ![b] =
              [spec |-> s, mode |-> code, runs |-> spec[s], status |-> "active"]]
  /\ UNCHANGED <<usage, dataset, spec, connection, preset, view, table>>

\* A build ends well: its rows are in the main table.
EndBuild(b) ==
  /\ b \in Created /\ Active(b)
  /\ build' = [build EXCEPT ![b].status = "done"]
  /\ table' = [table EXCEPT ![build[b].spec].rows = @ \cup {b}]
  /\ UNCHANGED <<usage, dataset, spec, connection, preset, view>>

\* A fail may come late, over any end; a fail is fixed by hand.
FailBuild(b) ==
  /\ b \in Created
  /\ build' = [build EXCEPT ![b].status = "fail"]
  /\ UNCHANGED <<usage, dataset, spec, connection, preset, view, table>>

FixBuild(b) ==
  /\ b \in Created /\ build[b].status = "fail"
  /\ build' = [build EXCEPT ![b].status = "fix"]
  /\ UNCHANGED <<usage, dataset, spec, connection, preset, view, table>>

-----------------------------------------------------------------------------
Install ==
  \/ \E S \in (SUBSET Schemas) \ {{}} : CreateDatapulse(S)
  \/ DropDatapulse
  \/ \E x \in Schemas : AlterDatapulseAdd(x)

DatasetCommand ==
  \E d \in Datasets :
    \/ \E t \in Types, sh \in Shapes, o \in BOOLEAN : CreateDataset(d, t, sh, o)
    \/ DropDataset(d)
    \/ \E c \in Comments : CommentDataset(d, c)
    \/ \E a \in Names, c \in Comments : CommentAttr(d, a, c)

\* The definitions a command may bring for spec s: the attributes are those
\* the dataset has.
Definitions(s) ==
  {[shape |-> sh, chunk |-> a, sources |-> src, using |-> use, modes |-> m] :
     sh \in IF Alive(s[1]) THEN {dataset[s[1]].shape} ELSE {},
     a \in Names, src \in SUBSET Datasets, use \in SUBSET Connections,
     m \in ModeLists}

SpecCommand ==
  \E s \in Specs :
    \/ \E r \in Definitions(s), o \in BOOLEAN : CreateBuildSpec(s, r, o)
    \/ DropBuildSpec(s)

OtherCommand ==
  \/ \E c \in Connections, k \in Classes, o \in BOOLEAN : CreateConnection(c, k, o)
  \/ \E p \in Presets :
       DropFlowSpec(p) \/ \E q \in Bodies, o \in BOOLEAN : CreateFlowSpec(p, q, o)

BuildStep ==
  \/ \E s \in Specs, code \in Codes : StartBuild(s, code)
  \/ \E b \in BuildId : EndBuild(b) \/ FailBuild(b) \/ FixBuild(b)

CatalogNext ==
  Install \/ DatasetCommand \/ SpecCommand \/ OtherCommand \/ BuildStep

CatalogSpec == CatalogInit /\ [][CatalogNext]_catalogVars

-----------------------------------------------------------------------------
(* Properties.                                                              *)

\* A build runs what the catalog says (_require_no_open_builds): as long as it
\* is active, its spec is live and defined as when it started, its tables are
\* there, and they and the dataset have the attributes it was started with.
\* The locks of later builds look at the live definition alone.
ActiveRunsCurrent ==
  \A b \in Created : Active(b) =>
    LET s == build[b].spec
    IN  /\ Live(s) /\ spec[s] = build[b].runs
        /\ table[s] # None /\ table[s].shape = build[b].runs.shape
        /\ Alive(s[1]) /\ dataset[s[1]].shape = build[b].runs.shape

\* The locks of builds hold although the catalog changes (_prepare against the
\* commands on specs and datasets): no two active builds of one spec, no
\* active build of a dataset that an active store build was started to read.
LocksHold ==
  \A b, d \in Created : b # d /\ Active(b) /\ Active(d) =>
    /\ build[b].spec # build[d].spec
    /\ build[b].spec[1] \in Stores =>
         build[d].spec[1] \notin build[b].runs.sources

\* The graph stays sound whatever is dropped, replaced and made anew
\* (_create_build_spec, _drop_dataset): live specs belong to live datasets
\* with the attributes they were made for and a type their modes fit, read
\* live stores by live connections, split their work by an attribute of the
\* present key, and close no cycle.
RefsSound ==
  \A s \in Specs : Live(s) =>
    /\ Alive(s[1]) /\ spec[s].shape = dataset[s[1]].shape
    /\ ModesFit(spec[s].modes, dataset[s[1]].type)
    /\ spec[s].sources \subseteq Stores \ {s[1]}
    /\ \A c \in spec[s].using : connection[c] # None
    /\ spec[s].chunk \in dataset[s[1]].shape.key
GraphSound == RefsSound /\ Acyclic(LiveEdges)

\* The database follows the catalog, comments included (docs/model.md): a view
\* for each live dataset over the tables of its live specs, and for each live
\* spec a pair of tables with the attributes of its dataset.
PhysicsFollow ==
  /\ \A d \in Datasets :
       view[d] = IF Alive(d) THEN ViewOf(dataset[d], SpecsOf(d)) ELSE None
  /\ \A s \in Specs :
       IF Live(s)
       THEN /\ Alive(s[1]) /\ table[s] # None
            /\ table[s].shape = dataset[s[1]].shape
            /\ table[s].notes = dataset[s[1]].notes
       ELSE table[s] = None

\* The rows a valid preset asks for, as a function (_flow_preset).
PresetFits(body) ==
  /\ \A r \in body : Live(r.spec) /\ r.spec[1] \in Stores
  /\ \A r, q \in body : r.spec = q.spec => r = q
PresetOf(body) ==
  [s \in {r.spec : r \in body} |-> (CHOOSE r \in body : r.spec = s).mode]

LiveSpecs ==
  [s \in {t \in Specs : Live(t)} |->
     [type |-> dataset[s[1]].type, sources |-> spec[s].sources,
      codes |-> CodesOf(spec[s])]]
Windowed == {s \in Specs : WindowBuilds(s) # {}}
Plan(body, intake, export) ==
  FlowPlan(LiveSpecs, Windowed, PresetOf(body), intake, export)

\* The plan of a flow (_flow_plan) is a wave from the sources to the marts,
\* whatever the taps and the preset: no spec is built before a spec of a
\* dataset it reads; of every store spec the tap lets through the last build
\* is a clean one, in a mode the spec has; marts run in declared modes.
PlanIsWave ==
  \A body \in {{}} \cup {preset[p] : p \in {q \in Presets : preset[q] # None}},
     intake \in {"calc", "pass"}, export \in {"calc", "pass", "skip"} :
    PresetFits(body) =>
      LET plan == Plan(body, intake, export)
      IN  /\ \A i, j \in DOMAIN plan :
               plan[i].spec[1] \in spec[plan[j].spec].sources => i < j
          /\ \A i, j \in DOMAIN plan : plan[i] = plan[j] => i = j
          /\ \A s \in Specs : Live(s) /\ s[1] \in Stores
                              /\ (intake = "calc" \/ spec[s].sources # {}) =>
               \E i \in DOMAIN plan :
                 /\ plan[i].spec = s
                 /\ plan[i].mode \in WindowModes
                 /\ s \notin {r.spec : r \in body} =>
                      plan[i].mode \in CodesOf(spec[s])
                 /\ \A j \in DOMAIN plan : plan[j].spec = s => j <= i
          /\ \A i \in DOMAIN plan : plan[i].spec[1] \notin Stores =>
               plan[i].mode \in CodesOf(spec[plan[i].spec])
=============================================================================
