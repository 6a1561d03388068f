------------------------------ MODULE Transfer ------------------------------
(***************************************************************************)
(* The comp phase of a build (engine.py, _transfer): the interface table   *)
(* of a spec is carried, chunk by chunk, into its main table, an SCD2      *)
(* table whose rows hold the first and the last build (inclusive) they are *)
(* valid in.  One spec, whose builds run one after the other.              *)
(***************************************************************************)
EXTENDS Naturals, FiniteSets, Functions

CONSTANTS Keys, Sections, SectionOf, \* primary keys and their chunk_attr value
          Chunks, ChunkOf,           \* chunks, section -> its chunk
          Values,                    \* values of the attributes outside the key
          Deleted,                   \* the value of a row with is_active false
          Kinds,                     \* store, mart
          Indexes,                   \* indexes made on the main table
          MaxBuild, MaxRows,         \* bounds: builds, rows of the interface
          MayCrash,                  \* may the proxy crash
          SectDuplicates             \* may a slice of mode sect repeat a key

ASSUME TransferAssumption ==
  /\ SectionOf \in [Keys -> Sections]
  /\ ChunkOf \in [Sections -> Chunks]
  /\ MaxBuild \in Nat /\ MaxRows \in Nat
  /\ MayCrash \in BOOLEAN /\ SectDuplicates \in BOOLEAN
  /\ Kinds \subseteq {"store", "mart"}
  /\ Deleted \notin Values

Types == [store |-> {"init", "incr", "sect"}, mart |-> {"init", "appd", "skip"}]

\* A row of the interface table (equal rows differ in copy), and one of the
\* main table (end 0: null).
IfaceRow == [key : Keys, val : Values \cup {Deleted}, copy : 1..MaxRows]
MainRow  == [key : Keys, val : Values, active : BOOLEAN,
             build : 1..MaxBuild, end : 0..MaxBuild]

VARIABLES kind,       \* of the dataset
          main,       \* the main table
          indexed,    \* the indexes the main table has
          iface,      \* the interface table: keys, and whole rows, may repeat
          cur,        \* id of the last build
          type,       \* its transfer type
          phase,      \* where the last build stands
          way,        \* "merge", "bulk" or "reissue"
          snapshot,   \* indexes it drops, to create them again
          todo,       \* chunks not committed yet
          before      \* the main table when the build started

transferVars == <<kind, main, indexed, iface, cur, type, phase, way, snapshot,
                  todo, before>>

\* "drop" before the chunks and "restore" after them are outside the try of
\* _transfer, "repair" is its except branch.
Phases == {"idle", "check", "drop", "chunks", "restore", "repair", "done", "fail"}

TransferTypeOK ==
  /\ kind \in Kinds
  /\ main \subseteq MainRow /\ before \subseteq MainRow
  /\ indexed \subseteq Indexes /\ snapshot \subseteq Indexes
  /\ iface \subseteq IfaceRow
  /\ cur \in 0..MaxBuild
  /\ type \in Types["store"] \cup Types["mart"]
  /\ phase \in Phases
  /\ way \in {"merge", "bulk", "reissue"}
  /\ todo \subseteq Chunks

TransferInit ==
  /\ kind \in Kinds
  /\ main = {} /\ before = {} /\ iface = {} /\ todo = {}
  /\ indexed = Indexes /\ snapshot = {}
  /\ cur = 0 /\ type = "init" /\ phase = "idle" /\ way = "merge"

-----------------------------------------------------------------------------
IsActive(i) == i.val # Deleted
InChunk(k, c) == ChunkOf[SectionOf[k]] = c
\* Mutant: end_build_id is null is not asked for.
MutOpenRows == main
OpenRows == {r \in main : r.end = 0}
\* Rows visible to a reader at build p.
AsOf(p) == {[key |-> r.key, val |-> r.val, active |-> r.active] :
              r \in {x \in main : x.build <= p /\ (x.end = 0 \/ x.end >= p)}}
SliceOf(t) == {<<r.key, r.val>> : r \in {x \in t : x.end = 0 /\ x.active}}

Repeats(s) == \E i, j \in s : i # j /\ i.key = j.key
ActiveRows == {i \in iface : IsActive(i)}

\* Mutant: closed one build too late.
MutCloseAtOwnId(r) == [r EXCEPT !.end = cur]
Close(r) == [r EXCEPT !.end = cur - 1]
Version(k, v, a) ==
  [key |-> k, val |-> v, active |-> a, build |-> cur, end |-> 0]

-----------------------------------------------------------------------------
(* _sql_merge on one chunk.                                                *)

\* distinct on (key) .. order by key, is_active desc: of the rows of one key,
\* one of the active ones if there are any; which one is not specified.
Kept(i) == \A j \in iface : j.key = i.key /\ IsActive(j) => IsActive(i)
Picks(c) ==
  LET keys == {i.key : i \in {j \in iface : InChunk(j.key, c)}}
  IN  {f \in [keys -> iface] : \A k \in keys : f[k].key = k /\ Kept(f[k])}

\* row_number() over (partition by section order by is_active desc) is
\* computed before distinct on: row number 1 of a section is any of its active
\* rows, or any row if none is active.
Firsts(c) ==
  LET Of(x) == {i \in iface : SectionOf[i.key] = x}
      secs  == {x \in Sections : ChunkOf[x] = c /\ Of(x) # {}}
  IN  {f \in [secs -> iface] :
         \A x \in secs :
           f[x] \in (IF Of(x) \cap ActiveRows # {} THEN Of(x) \cap ActiveRows ELSE Of(x))}

\* Mutant: sect compares the whole table.
MutTargets(pick, first) == Sections
\* Sections whose open rows the merge looks at: for sect the ones whose row
\* number 1 is among the rows distinct on kept, for the others all.
Targets(pick, first) ==
  IF type = "sect"
  THEN {x \in DOMAIN first : \E k \in DOMAIN pick : pick[k] = first[x]}
  ELSE Sections

\* Mutant: a deleted row takes its values from the source.
MutNewVal(i, r) == i.val
\* Values of the version that source row i gives open row r.
NewVal(i, r) == IF IsActive(i) THEN i.val ELSE r.val

\* target: the open rows of the chunk, of those sections.
TargetRows(c, pick, first) ==
  {r \in OpenRows : InChunk(r.key, c) /\ SectionOf[r.key] \in Targets(pick, first)}

\* result: the pairs of a kept row (or none) and a target row (or none) whose
\* activity or values differ.  Target rows with a kept row that differs, and
\* active ones without (a left join for incr); kept rows without target row.
Differs(i, r) == \/ IsActive(i) # r.active
                 \/ IsActive(i) /\ i.val # r.val
Changed(pick, target) ==
  {r \in target : r.key \in DOMAIN pick /\ Differs(pick[r.key], r)}
Gone(pick, target) ==
  {r \in target : type # "incr" /\ r.key \notin DOMAIN pick /\ r.active}
Fresh(pick, target) ==
  {k \in DOMAIN pick : IsActive(pick[k]) /\ \A r \in target : r.key # k}

\* Each pair gives a new version, and closes its target row.
NewRows(pick, target) ==
  {Version(r.key, NewVal(pick[r.key], r), IsActive(pick[r.key])) :
     r \in Changed(pick, target)}
  \cup {Version(r.key, r.val, FALSE) : r \in Gone(pick, target)}
  \cup {Version(k, pick[k].val, TRUE) : k \in Fresh(pick, target)}

\* The main table when rows are closed and others inserted.
Replace(closed, new) == (main \ closed) \cup {Close(r) : r \in closed} \cup new

MergeChunk(c, pick, first) ==
  LET target == TargetRows(c, pick, first)
  IN  Replace(Changed(pick, target) \cup Gone(pick, target), NewRows(pick, target))

\* _sql_bulk_insert: the active rows as they are.
BulkRows(c) ==
  {Version(i.key, i.val, TRUE) : i \in {j \in ActiveRows : InChunk(j.key, c)}}

\* _sql_mart_init: close every open row of the chunk, insert the slice.
ReissueChunk(c) == Replace({r \in OpenRows : InChunk(r.key, c)}, BulkRows(c))

-----------------------------------------------------------------------------
\* The mapping has filled the interface table of a new build.
Start(t, s) ==
  /\ phase \in {"idle", "done", "fail"}
  /\ cur < MaxBuild
  /\ t \in Types[kind]
  /\ t = "sect" /\ Repeats(s) => SectDuplicates
  /\ cur' = cur + 1 /\ type' = t /\ iface' = s /\ before' = main
  /\ phase' = IF t = "skip" THEN "done" ELSE "check"
  /\ UNCHANGED <<kind, main, indexed, way, snapshot, todo>>

\* The way of the transfer: a mart's init reissues, appd and a comparing type
\* on an empty table insert, the others merge.
Way == IF kind = "mart" /\ type = "init" THEN "reissue"
       ELSE IF type = "appd" \/ main = {} THEN "bulk" ELSE "merge"

\* _validate_interface: where nothing is compared, repeated keys are fatal.
Valid == Way # "merge" => ~Repeats(ActiveRows)

\* The checks pass, the way is chosen; a bulk load of an empty table reads the
\* indexes the main table has.
BeginChunks ==
  /\ phase = "check"
  /\ Valid
  /\ way' = Way
  /\ snapshot' = IF Way = "bulk" /\ type # "appd" THEN indexed ELSE {}
  /\ todo' = Chunks
  /\ phase' = "drop"
  /\ UNCHANGED <<kind, main, indexed, iface, cur, type, before>>

\* Each index is dropped, and later created, by a statement of its own that is
\* committed at once.
DropIndex(i) ==
  /\ phase = "drop"
  /\ i \in snapshot \cap indexed
  /\ indexed' = indexed \ {i}
  /\ UNCHANGED <<kind, main, iface, cur, type, phase, way, snapshot, todo, before>>

EnterTry ==
  /\ phase = "drop"
  /\ snapshot \cap indexed = {}
  /\ phase' = "chunks"
  /\ UNCHANGED <<kind, main, indexed, iface, cur, type, way, snapshot, todo, before>>

\* The transaction of one chunk, committed.
LandChunk(c) ==
  /\ phase = "chunks"
  /\ c \in todo
  /\ \/ /\ way = "bulk"
        /\ main' = main \cup BulkRows(c)
     \/ /\ way = "reissue"
        /\ main' = ReissueChunk(c)
     \/ /\ way = "merge"
        /\ \E pick \in Picks(c), first \in Firsts(c) :
             main' = MergeChunk(c, pick, first)
  /\ todo' = todo \ {c}
  /\ UNCHANGED <<kind, indexed, iface, cur, type, phase, way, snapshot, before>>

ChunksDone ==
  /\ phase = "chunks" /\ todo = {}
  /\ phase' = "restore"
  /\ UNCHANGED <<kind, main, indexed, iface, cur, type, way, snapshot, todo, before>>

\* A chunk or a commit fails, or a stop cancels it: the chunks not committed are
\* rolled back.
FailChunks ==
  /\ phase = "chunks"
  /\ phase' = "repair"
  /\ UNCHANGED <<kind, main, indexed, iface, cur, type, way, snapshot, todo, before>>

\* The indexes dropped are created again, after success as after a failure.
CreateIndex(i) ==
  /\ phase \in {"restore", "repair"}
  /\ i \in snapshot \ indexed
  /\ indexed' = indexed \cup {i}
  /\ UNCHANGED <<kind, main, iface, cur, type, phase, way, snapshot, todo, before>>

Finish ==
  /\ phase = "restore" /\ snapshot \subseteq indexed
  /\ phase' = "done"
  /\ UNCHANGED <<kind, main, indexed, iface, cur, type, way, snapshot, todo, before>>

\* A slice that is refused, an error or a stop at any statement outside the try,
\* and the end of the except branch, whether it created every index or broke off.
Break ==
  /\ phase \in {"check", "drop", "restore", "repair"}
  /\ phase' = "fail"
  /\ UNCHANGED <<kind, main, indexed, iface, cur, type, way, snapshot, todo, before>>

\* A crash of the proxy; the build is closed later.
Crash ==
  /\ MayCrash
  /\ phase \notin {"idle", "done", "fail"}
  /\ phase' = "fail"
  /\ UNCHANGED <<kind, main, indexed, iface, cur, type, way, snapshot, todo, before>>

Slices ==
  {s \in {Range(f) : f \in [1..MaxRows -> IfaceRow]} \cup {{}} :
     \A i \in s : i.copy > 1 => [i EXCEPT !.copy = i.copy - 1] \in s}

TransferNext ==
  \/ \E t \in Types[kind], s \in Slices : Start(t, s)
  \/ BeginChunks \/ EnterTry \/ ChunksDone \/ FailChunks \/ Finish
  \/ Break \/ Crash
  \/ \E i \in Indexes : DropIndex(i) \/ CreateIndex(i)
  \/ \E c \in Chunks : LandChunk(c)

TransferSpec == TransferInit /\ [][TransferNext]_transferVars

-----------------------------------------------------------------------------
(* Properties.                                                             *)

\* A landing never rewrites the past (_sql_merge, end_build_id): what a reader
\* at an earlier build sees stays, through merges, reissues, failures between
\* two chunks, and the builds that follow.
PastIsStable ==
  [][\A p \in 0..MaxBuild : p < cur' => AsOf(p)' = AsOf(p)]_transferVars

\* _validate_interface: a merge rids its slice of repeated keys, so the
\* versions of one key of a store are never valid at the same build.
VersionsDisjoint ==
  kind = "store" =>
    \A r, q \in main : r.key = q.key /\ r # q =>
      \/ r.end # 0 /\ r.end < q.build
      \/ q.end # 0 /\ q.end < r.build

\* What each transfer type promises of key k: init the slice of the interface,
\* incr the keys it names, sect the sections it names, appd one more portion, a
\* mart's init nothing but the new portion.
Named(k)  == {i.val : i \in {j \in ActiveRows : j.key = k}}
IsNamed(k) == \E i \in iface : i.key = k
Untouched(k) ==
  \/ type = "incr" /\ ~IsNamed(k)
  \/ type = "sect" /\ \A h \in Keys : IsNamed(h) => SectionOf[h] # SectionOf[k]
ValuesOf(t, k) == {v \in Values : <<k, v>> \in SliceOf(t)}
Promised(k, new) ==
  LET old == ValuesOf(before, k)
  IN  CASE type = "skip" \/ Untouched(k) -> new = old
        [] type = "appd" -> new = old \cup Named(k)
        [] OTHER -> /\ new \subseteq Named(k)
                    /\ Cardinality(new) = IF Named(k) = {} THEN 0 ELSE 1

\* A build that is done leaves the current slice that its transfer type promises
\* (_transfer), key by key, whatever earlier builds left half landed.
SliceMeansSource ==
  phase = "done" => \A k \in Keys : Promised(k, ValuesOf(main, k))

\* engine.py:990: a bulk load drops the indexes of an empty table and creates
\* them again afterwards.  When no build is at work the main table has all its
\* indexes, however the last one ended (_transfer).
IndexesKept == phase \in {"idle", "done", "fail"} => indexed = Indexes
=============================================================================
