----------------------------- MODULE MCCatalog -----------------------------
(***************************************************************************)
(* Small catalogs: datasets 1, 2 and 3 in one schema or two; attributes k  *)
(* (a key) and v.                                                          *)
(***************************************************************************)
EXTENDS Catalog

CONSTANTS k, v, x, y

Narrow == [type |-> [n \in {k} |-> "int"], key |-> {k}]
Wide   == [type |-> [n \in {k, v} |-> "int"], key |-> {k}]
Retyped == [type |-> [n \in {k, v} |-> IF n = k THEN "int" ELSE "text"],
            key |-> {k}]
Keyed  == [type |-> [n \in {k, v} |-> "int"], key |-> {v}]

ModesOf(r) == {[code |-> c, type |-> r[c]] : c \in DOMAIN r}
StoreModes == ModesOf([initial |-> "init", increment |-> "incr"])
MartModes  == ModesOf([skip |-> "skip", increment |-> "appd"])
DirtyModes == ModesOf([initial |-> "init", increment |-> "sect", clean |-> "init"])

\* The changes of one dataset and its two specs, with comments.
OneDataset == {1}
TwoSpecs   == {<<1, 1>>, <<1, 2>>}
InX        == [d \in Datasets |-> x]
AllShapes  == {Narrow, Wide, Retyped, Keyed}

OneShape    == {Narrow}
Layers      == {StoreModes, MartModes}

\* A graph of three datasets, with every order of commands around one build, and
\* around two of a source and its reader: the second build is for the locks,
\* which ask about pairs.  Presets are made and dropped before the first build.
ThreeDatasets == {1, 2, 3}
GraphSpecs    == {<<1, 1>>, <<2, 1>>, <<3, 1>>}
GraphModes    == {MartModes, DirtyModes}
GraphBodies   == {{[spec |-> <<2, 1>>, mode |-> "initial"],
                   [spec |-> <<1, 1>>, mode |-> "clean"]}}
MCBound ==
  \/ Created = {}
  \/ /\ \A p \in Presets : preset[p] = None
     /\ \/ Cardinality(Created) <= 1
        \/ /\ ~Alive(3)
           /\ \A b \in Created : build[b].mode = "increment"
=============================================================================
