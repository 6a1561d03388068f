--------------------------- MODULE TransferProofs ---------------------------
(***************************************************************************)
(* Proofs about Transfer, for any keys, sections, chunks, values, rows and *)
(* any number of builds and crashes: a landing leaves the past as it *)
(* was, keeps one version of a key at a time, and the slice of a build     *)
(* that is done is the one its type promises.                              *)
(***************************************************************************)
EXTENDS Transfer, FiniteSetTheorems, TLAPS

InTodo(k) == ChunkOf[SectionOf[k]] \in todo
Opening   == phase \in {"check", "drop"}    \* no chunk has landed yet
Begun     == Opening \/ phase = "chunks"

\* Rows are of builds so far, closed before the last one, which has written
\* nothing yet into the chunks that are still to be committed.
RowTimes ==
  /\ Begun => cur # 0
  /\ \A r \in main :
       /\ r.build <= cur /\ r.end < cur
       /\ Opening \/ (phase = "chunks" /\ InTodo(r.key)) => r.build < cur

\* What the way of a transfer says about its type, its source and its target.
Ways ==
  /\ Begun => type \in Types[kind] \ {"skip"}
  /\ Opening => before = main
  /\ phase = "drop" => todo = Chunks
  /\ phase = "restore" => todo = {}
  /\ phase \in {"drop", "chunks"} =>
       /\ way = "merge" => kind = "store"
       /\ way = "reissue" => kind = "mart" /\ type = "init"
       /\ way # "merge" => ~Repeats(ActiveRows)
       /\ type = "appd" => way = "bulk"
       /\ way = "bulk" /\ type # "appd" =>
            before = {} /\ \A r \in main : r.build = cur

TransferInv == TransferTypeOK /\ RowTimes /\ Ways

\* The chunks that are still to be committed are as they were, the others as
\* promised.
SliceSoFar ==
  phase \in {"chunks", "restore"} => \A k \in Keys :
    IF InTodo(k) THEN ValuesOf(main, k) = ValuesOf(before, k)
                 ELSE Promised(k, ValuesOf(main, k))

\* A slice of mode sect repeats no key.
SectDistinct == Begun /\ type = "sect" => ~Repeats(iface)

SliceInv ==
  /\ TransferInv /\ SectDistinct
  /\ VersionsDisjoint /\ SliceSoFar /\ SliceMeansSource

-----------------------------------------------------------------------------
(* Rows.                                                                   *)

LEMMA VersionIs ==
  ASSUME cur \in 1..MaxBuild, NEW k \in Keys, NEW v \in Values, NEW a \in BOOLEAN
  PROVE  /\ Version(k, v, a) \in MainRow
         /\ Version(k, v, a).key = k /\ Version(k, v, a).val = v
         /\ Version(k, v, a).active = a
         /\ Version(k, v, a).build = cur /\ Version(k, v, a).end = 0
BY TransferAssumption DEF Version, MainRow

LEMMA CloseIs ==
  ASSUME cur \in 1..MaxBuild, NEW r \in MainRow
  PROVE  /\ Close(r) \in MainRow /\ Close(r).end = cur - 1
         /\ Close(r).key = r.key /\ Close(r).val = r.val
         /\ Close(r).active = r.active /\ Close(r).build = r.build
BY TransferAssumption DEF Close, MainRow

\* The rows of the active part of an interface table.
LEMMA ActiveIs ==
  ASSUME TransferTypeOK, NEW i \in ActiveRows
  PROVE  i \in iface /\ i.key \in Keys /\ i.val \in Values
BY DEF TransferTypeOK, ActiveRows, IsActive, IfaceRow

-----------------------------------------------------------------------------
(* A landing closes open rows of its chunk and inserts rows of the build.  *)

Lands(closed, new, c) ==
  /\ closed \subseteq {r \in OpenRows : InChunk(r.key, c)}
  /\ new \subseteq {n \in MainRow : n.build = cur /\ n.end = 0 /\ InChunk(n.key, c)}
  /\ main' = Replace(closed, new)

LEMMA BulkRowsAre ==
  ASSUME TransferTypeOK, cur # 0, NEW c \in Chunks
  PROVE  BulkRows(c) \subseteq
           {n \in MainRow : n.build = cur /\ n.end = 0 /\ InChunk(n.key, c)}
<1> SUFFICES ASSUME NEW i \in ActiveRows, InChunk(i.key, c)
             PROVE  /\ Version(i.key, i.val, TRUE) \in MainRow
                    /\ Version(i.key, i.val, TRUE).build = cur
                    /\ Version(i.key, i.val, TRUE).end = 0
                    /\ Version(i.key, i.val, TRUE).key = i.key
  BY DEF BulkRows
<1>1. cur \in 1..MaxBuild
  BY TransferAssumption DEF TransferTypeOK
<1> QED
  BY ZenonT(30), <1>1, ActiveIs, VersionIs

LEMMA PicksAre ==
  ASSUME TransferTypeOK, NEW c \in Chunks, NEW pick \in Picks(c)
  PROVE  /\ \A k \in Keys : InChunk(k, c) => (k \in DOMAIN pick <=> IsNamed(k))
         /\ \A k \in DOMAIN pick :
              /\ k \in Keys /\ InChunk(k, c)
              /\ pick[k] \in iface /\ pick[k].key = k /\ Kept(pick[k])
<1>1. DOMAIN pick = {i.key : i \in {j \in iface : InChunk(j.key, c)}}
  BY DEF Picks
<1>2. \A k \in DOMAIN pick : pick[k] \in iface /\ pick[k].key = k /\ Kept(pick[k])
  BY DEF Picks
<1>3. \A i \in iface : i.key \in Keys
  BY DEF TransferTypeOK, IfaceRow
<1> QED
  BY <1>1, <1>2, <1>3 DEF IsNamed

LEMMA NewRowsAre ==
  ASSUME TransferTypeOK, cur # 0, NEW c \in Chunks,
         NEW pick \in Picks(c), NEW first \in Firsts(c)
  PROVE  NewRows(pick, TargetRows(c, pick, first)) \subseteq
           {n \in MainRow : n.build = cur /\ n.end = 0 /\ InChunk(n.key, c)}
<1> DEFINE target == TargetRows(c, pick, first)
           Fits(n, k) == /\ n \in MainRow /\ n.build = cur /\ n.end = 0
                         /\ n.key = k
<1>1. cur \in 1..MaxBuild
  BY TransferAssumption DEF TransferTypeOK
<1>2. \A r \in target : /\ r.key \in Keys /\ r.val \in Values
                        /\ InChunk(r.key, c)
  BY DEF TargetRows, OpenRows, TransferTypeOK, MainRow
<1>3. \A k \in DOMAIN pick : IsActive(pick[k]) => pick[k].val \in Values
  BY PicksAre, ActiveIs DEF ActiveRows
<1>4. ASSUME NEW r \in Changed(pick, target)
      PROVE  Fits(Version(r.key, NewVal(pick[r.key], r), IsActive(pick[r.key])), r.key)
  <2>1. r \in target /\ r.key \in DOMAIN pick
    BY <1>4 DEF Changed
  <2>2. NewVal(pick[r.key], r) \in Values
    BY <1>2, <1>3, <2>1 DEF NewVal
  <2>3. IsActive(pick[r.key]) \in BOOLEAN
    BY DEF IsActive
  <2> QED
    BY <1>1, <1>2, <2>1, <2>2, <2>3, VersionIs
<1>5. ASSUME NEW r \in Gone(pick, target)
      PROVE  Fits(Version(r.key, r.val, FALSE), r.key)
  BY <1>1, <1>2, <1>5, VersionIs DEF Gone
<1>6. ASSUME NEW k \in Fresh(pick, target)
      PROVE  Fits(Version(k, pick[k].val, TRUE), k)
  BY ZenonT(40), <1>1, <1>3, <1>6, PicksAre, VersionIs DEF Fresh
<1>7. \A k \in DOMAIN pick : InChunk(k, c)
  BY PicksAre
<1> HIDE DEF target
<1>8. ASSUME NEW n \in NewRows(pick, target)
      PROVE  n \in MainRow /\ n.build = cur /\ n.end = 0 /\ InChunk(n.key, c)
  <2>1. \A r \in Changed(pick, target) \cup Gone(pick, target) : InChunk(r.key, c)
    BY <1>2 DEF Changed, Gone
  <2>2. \A k \in Fresh(pick, target) : InChunk(k, c)
    BY <1>7 DEF Fresh
  <2>3. CASE \E r \in Changed(pick, target) :
               n = Version(r.key, NewVal(pick[r.key], r), IsActive(pick[r.key]))
    BY <1>4, <2>1, <2>3
  <2>4. CASE \E r \in Gone(pick, target) : n = Version(r.key, r.val, FALSE)
    BY <1>5, <2>1, <2>4
  <2>5. CASE \E k \in Fresh(pick, target) : n = Version(k, pick[k].val, TRUE)
    BY <1>6, <2>2, <2>5
  <2> QED
    BY <1>8, <2>3, <2>4, <2>5 DEF NewRows
<1> QED
  BY <1>8 DEF target

LEMMA BulkLands ==
  ASSUME TransferInv, NEW c \in Chunks, LandChunk(c), way = "bulk"
  PROVE  Lands({}, BulkRows(c), c)
<1>1. TransferTypeOK /\ cur # 0
  BY DEF TransferInv, RowTimes, Begun, Opening, LandChunk
<1>2. main' = Replace({}, BulkRows(c))
  BY DEF LandChunk, Replace
<1> QED
  BY <1>1, <1>2, BulkRowsAre DEF Lands

LEMMA ReissueLands ==
  ASSUME TransferInv, NEW c \in Chunks, LandChunk(c), way = "reissue"
  PROVE  Lands({r \in OpenRows : InChunk(r.key, c)}, BulkRows(c), c)
<1>1. TransferTypeOK /\ cur # 0
  BY DEF TransferInv, RowTimes, Begun, Opening, LandChunk
<1>2. main' = ReissueChunk(c)
  BY DEF LandChunk
<1> QED
  BY <1>1, <1>2, BulkRowsAre DEF Lands, ReissueChunk

LEMMA MergeLands ==
  ASSUME TransferInv, NEW c \in Chunks, phase = "chunks",
         NEW pick \in Picks(c), NEW first \in Firsts(c),
         main' = MergeChunk(c, pick, first)
  PROVE  LET target == TargetRows(c, pick, first)
         IN  Lands(Changed(pick, target) \cup Gone(pick, target),
                   NewRows(pick, target), c)
<1> DEFINE target == TargetRows(c, pick, first)
<1>1. target \subseteq {r \in OpenRows : InChunk(r.key, c)}
  BY DEF TargetRows
<1>2. Changed(pick, target) \cup Gone(pick, target) \subseteq target
  BY DEF Changed, Gone
<1>3. NewRows(pick, target) \subseteq
        {n \in MainRow : n.build = cur /\ n.end = 0 /\ InChunk(n.key, c)}
  BY NewRowsAre DEF TransferInv, RowTimes, Begun, Opening
<1>4. main' = Replace(Changed(pick, target) \cup Gone(pick, target),
                      NewRows(pick, target))
  BY DEF MergeChunk
<1> HIDE DEF target
<1>5. Lands(Changed(pick, target) \cup Gone(pick, target), NewRows(pick, target), c)
  BY <1>1, <1>2, <1>3, <1>4 DEF Lands
<1> QED
  BY <1>5 DEF target

LEMMA LandIs ==
  ASSUME TransferInv, NEW c \in Chunks, LandChunk(c)
  PROVE  \E closed, new : Lands(closed, new, c)
<1>1. CASE way = "merge"
  <2>1. PICK pick \in Picks(c), first \in Firsts(c) : main' = MergeChunk(c, pick, first)
    BY <1>1 DEF LandChunk
  <2> QED
    BY <2>1, MergeLands DEF LandChunk
<1> QED
  BY <1>1, BulkLands, ReissueLands DEF TransferInv, TransferTypeOK

LEMMA LandedRows ==
  ASSUME TransferInv, NEW c \in todo, phase = "chunks",
         NEW closed, NEW new, Lands(closed, new, c)
  PROVE  /\ cur \in 1..MaxBuild
         /\ closed \subseteq main /\ closed \subseteq MainRow
         /\ \A r \in closed : r.end = 0 /\ r.build < cur /\ InChunk(r.key, c)
         /\ \A x \in main' : \/ (x \in main /\ x \notin closed)
                              \/ (\E r \in closed : x = Close(r))
                              \/ x \in new
<1>1. cur \in 1..MaxBuild
  BY TransferAssumption DEF TransferInv, TransferTypeOK, RowTimes, Begun, Opening
<1>2. closed \subseteq main /\ closed \subseteq MainRow
  BY DEF Lands, OpenRows, TransferInv, TransferTypeOK
<1>3. \A r \in closed : InChunk(r.key, c) /\ r.end = 0
  BY DEF Lands, OpenRows
<1>4. \A r \in closed : r.build < cur
  BY <1>2, <1>3 DEF TransferInv, RowTimes, InTodo, InChunk
<1> QED
  BY <1>1, <1>2, <1>3, <1>4 DEF Lands, Replace

LEMMA LandInv ==
  ASSUME TransferInv, NEW c \in Chunks, LandChunk(c)
  PROVE  TransferInv'
<1>1. PICK closed, new : Lands(closed, new, c)
  BY LandIs
<1>2. /\ phase = "chunks" /\ c \in todo /\ todo' = todo \ {c}
      /\ UNCHANGED <<kind, indexed, iface, cur, type, phase, way, snapshot,
                     before>>
  BY DEF LandChunk
<1>3. /\ cur \in 1..MaxBuild /\ closed \subseteq main /\ closed \subseteq MainRow
      /\ \A r \in closed : r.end = 0 /\ r.build < cur /\ InChunk(r.key, c)
      /\ \A x \in main' : \/ (x \in main /\ x \notin closed)
                           \/ (\E r \in closed : x = Close(r))
                           \/ x \in new
  BY <1>1, <1>2, LandedRows
<1>4. \A n \in new : /\ n \in MainRow /\ n.build = cur /\ n.end = 0
                     /\ InChunk(n.key, c)
  BY <1>1 DEF Lands
<1>5. \A r \in closed : /\ Close(r) \in MainRow /\ Close(r).end = cur - 1
                        /\ Close(r).key = r.key /\ Close(r).build = r.build
  BY <1>3, CloseIs
<1>6. \A r \in main : r \in MainRow
  BY DEF TransferInv, TransferTypeOK
<1>7. TransferTypeOK'
  <2>1. main' \subseteq MainRow
    BY <1>3, <1>4, <1>5, <1>6
  <2> QED
    BY <1>2, <2>1 DEF TransferInv, TransferTypeOK, MainRow, IfaceRow
<1>8. RowTimes'
  <2>1. \A x \in main' : /\ x.build <= cur /\ x.end < cur
                         /\ InTodo(x.key)' => x.build < cur
    <3>1. ASSUME NEW x \in main
          PROVE  /\ x.build <= cur /\ x.end < cur
                 /\ InTodo(x.key)' => x.build < cur
      BY <1>2 DEF TransferInv, RowTimes, InTodo
    <3>2. ASSUME NEW r \in closed
          PROVE  /\ Close(r).build <= cur /\ Close(r).end < cur
                 /\ Close(r).build < cur
      <4>1. r.build \in Nat
        BY <1>3 DEF MainRow
      <4> QED
        BY <1>3, <1>5, <4>1
    <3>3. ASSUME NEW n \in new
          PROVE  n.build <= cur /\ n.end < cur /\ ~InTodo(n.key)'
      BY <1>2, <1>3, <1>4 DEF InTodo, InChunk
    <3> QED
      BY <1>3, <3>1, <3>2, <3>3
  <2> QED
    BY <1>2, <1>3, <2>1 DEF RowTimes, Begun, Opening
<1>9. Ways'
  <2>1. way = "bulk" /\ type # "appd" => \A x \in main' : x.build = cur
    <3> SUFFICES ASSUME way = "bulk", type # "appd" PROVE \A x \in main' : x.build = cur
      OBVIOUS
    <3>1. \A x \in main : x.build = cur
      BY <1>2 DEF TransferInv, Ways
    <3> QED
      BY <1>3, <1>4, <1>5, <3>1
  <2> QED
    BY <1>2, <2>1 DEF TransferInv, Ways, Begun, Opening, Repeats, ActiveRows, IsActive
<1> QED
  BY <1>7, <1>8, <1>9 DEF TransferInv

-----------------------------------------------------------------------------
(* The other steps.                                                        *)

LEMMA TransferInitInv == TransferInit => TransferInv
<1> SUFFICES ASSUME TransferInit PROVE TransferInv
  OBVIOUS
<1>1. TransferTypeOK
  <2>1. 0 \in 0..MaxBuild /\ "init" \in Types["store"]
    BY TransferAssumption DEF Types
  <2> QED
    BY <2>1 DEF TransferInit, TransferTypeOK, Phases
<1>2. RowTimes /\ Ways
  BY DEF TransferInit, RowTimes, Ways, Begun, Opening
<1> QED
  BY <1>1, <1>2 DEF TransferInv

LEMMA KindsAre == TransferTypeOK => kind \in {"store", "mart"}
BY TransferAssumption DEF TransferTypeOK

LEMMA StartInv ==
  ASSUME TransferInv, NEW t \in Types[kind], NEW s \in Slices, Start(t, s)
  PROVE  TransferInv'
<1>1. s \subseteq IfaceRow
  <2>1. s \in {Range(f) : f \in [1..MaxRows -> IfaceRow]} \cup {{}}
    BY DEF Slices
  <2>2. \A f \in [1..MaxRows -> IfaceRow] : Range(f) \subseteq IfaceRow
    BY DEF Range
  <2> QED
    BY <2>1, <2>2
<1>2. t \in Types["store"] \cup Types["mart"]
  BY KindsAre DEF TransferInv
<1>3. /\ cur \in 0..MaxBuild /\ cur' = cur + 1 /\ cur < MaxBuild
      /\ type' = t /\ iface' = s /\ before' = main
      /\ phase' = IF t = "skip" THEN "done" ELSE "check"
      /\ UNCHANGED <<kind, main, indexed, way, snapshot, todo>>
  BY DEF Start, TransferInv, TransferTypeOK
<1>4. TransferTypeOK'
  <2>1. phase' \in {"done", "check"} /\ cur' \in 0..MaxBuild
    BY <1>3, TransferAssumption
  <2> QED
    BY <1>1, <1>2, <1>3, <2>1
    DEF TransferInv, TransferTypeOK, MainRow, IfaceRow, Phases
<1>5. RowTimes'
  <2>1. \A r \in main : r.build < cur' /\ r.end < cur'
    <3>1. \A r \in main : r.build \in Nat /\ r.end \in Nat
      BY TransferAssumption DEF TransferInv, TransferTypeOK, MainRow
    <3> QED
      BY <1>3, <3>1 DEF TransferInv, RowTimes
  <2>2. \A r \in main : r.build <= cur'
    <3>1. \A r \in main : r.build \in Nat
      BY TransferAssumption DEF TransferInv, TransferTypeOK, MainRow
    <3> QED
      BY <1>3, <2>1, <3>1
  <2> QED
    BY <1>3, <2>1, <2>2 DEF RowTimes, Begun, Opening
<1>6. Ways'
  BY <1>3 DEF Ways, Begun, Opening
<1> QED
  BY <1>4, <1>5, <1>6 DEF TransferInv

LEMMA BeginChunksInv ==
  ASSUME TransferInv, BeginChunks
  PROVE  TransferInv'
<1>1. /\ phase = "check" /\ phase' = "drop" /\ Valid /\ way' = Way
      /\ todo' = Chunks /\ snapshot' \subseteq indexed
      /\ UNCHANGED <<kind, main, indexed, iface, cur, type, before>>
  BY DEF BeginChunks
<1>2. Way \in {"merge", "bulk", "reissue"}
  BY DEF Way
<1>3. TransferTypeOK'
  BY <1>1, <1>2 DEF TransferInv, TransferTypeOK, MainRow, IfaceRow, Phases
<1>4. RowTimes'
  BY <1>1 DEF TransferInv, RowTimes, Begun, Opening
<1>5. Ways'
  <2>1. type \in Types[kind] \ {"skip"} /\ before = main
    BY <1>1 DEF TransferInv, Ways, Begun, Opening
  <2>2. Way = "merge" => kind = "store"
    BY <2>1, KindsAre DEF Way, Types, TransferInv
  <2>3. Way = "reissue" => kind = "mart" /\ type = "init"
    BY DEF Way
  <2>4. Way # "merge" => ~Repeats(ActiveRows)
    BY <1>1 DEF Valid
  <2>5. type = "appd" => Way = "bulk"
    BY DEF Way
  <2>6. Way = "bulk" /\ type # "appd" => main = {}
    BY DEF Way
  <2> QED
    BY <1>1, <2>1, <2>2, <2>3, <2>4, <2>5, <2>6
    DEF Ways, Begun, Opening, Repeats, ActiveRows, IsActive
<1> QED
  BY <1>3, <1>4, <1>5 DEF TransferInv

\* The steps that leave the tables, the way and the chunks to be committed alone.
Passes ==
  \/ EnterTry \/ ChunksDone \/ FailChunks \/ Finish \/ Break \/ Crash
  \/ \E i \in Indexes : DropIndex(i) \/ CreateIndex(i)

LEMMA PassesTo ==
  ASSUME Passes
  PROVE  /\ UNCHANGED <<kind, main, iface, cur, type, way, snapshot, todo, before>>
         /\ phase' \in Phases
         /\ phase' # "check"
         /\ phase' = "drop" => phase = "drop"
         /\ phase' = "chunks" => phase = "drop"
         /\ phase' = "restore" =>
              phase = "restore" \/ (phase = "chunks" /\ todo = {})
         /\ phase' = "done" => phase = "restore"
<1>1. CASE EnterTry
  BY <1>1 DEF EnterTry, Phases
<1>2. CASE ChunksDone
  BY <1>2 DEF ChunksDone, Phases
<1>3. CASE FailChunks \/ Break \/ Crash
  BY <1>3 DEF FailChunks, Break, Crash, Phases
<1>4. CASE Finish
  BY <1>4 DEF Finish, Phases
<1>5. CASE \E i \in Indexes : DropIndex(i) \/ CreateIndex(i)
  BY <1>5 DEF DropIndex, CreateIndex, Phases
<1> QED
  BY <1>1, <1>2, <1>3, <1>4, <1>5 DEF Passes

LEMMA PassesInv ==
  ASSUME TransferInv, Passes
  PROVE  TransferInv'
<1>1. indexed' \subseteq Indexes
  BY DEF Passes, EnterTry, ChunksDone, FailChunks, Finish, Break, Crash, DropIndex,
         CreateIndex, TransferInv, TransferTypeOK
<1>2. TransferTypeOK'
  BY <1>1, PassesTo DEF TransferInv, TransferTypeOK, MainRow, IfaceRow
<1>3. RowTimes'
  BY PassesTo DEF TransferInv, RowTimes, Begun, Opening
<1>4. Ways'
  BY PassesTo
  DEF TransferInv, Ways, Begun, Opening, Repeats, ActiveRows, IsActive
<1> QED
  BY <1>2, <1>3, <1>4 DEF TransferInv

LEMMA TransferStutter == TransferInv /\ UNCHANGED transferVars => TransferInv'
BY DEF TransferInv, TransferTypeOK, RowTimes, Ways, transferVars, Begun, Opening,
       InTodo, Repeats, ActiveRows, IsActive

LEMMA TransferNextInv == TransferInv /\ [TransferNext]_transferVars => TransferInv'
BY StartInv, BeginChunksInv, PassesInv, LandInv, TransferStutter
DEF TransferNext, Passes

\* Rows are closed before the last build, the chunks not committed yet hold none
\* of its rows, and the way of a transfer fits its type and its table.
THEOREM TransferInvariant == TransferSpec => []TransferInv
BY TransferInitInv, TransferNextInv, PTL DEF TransferSpec

\* Tables, ways and phases stay within their types.
THEOREM TransferTypes == TransferSpec => []TransferTypeOK
<1>1. TransferInv => TransferTypeOK
  BY DEF TransferInv
<1> QED
  BY <1>1, TransferInvariant, PTL

-----------------------------------------------------------------------------
(* The past.                                                               *)

LEMMA LandPast ==
  ASSUME TransferInv, NEW c \in Chunks, LandChunk(c),
         NEW p \in 0..MaxBuild, p < cur
  PROVE  AsOf(p)' = AsOf(p)
<1> DEFINE Seen(r) == r.build <= p /\ (r.end = 0 \/ r.end >= p)
           View(r) == [key |-> r.key, val |-> r.val, active |-> r.active]
<1>1. PICK closed, new : Lands(closed, new, c)
  BY LandIs
<1>2. /\ cur \in 1..MaxBuild /\ closed \subseteq main /\ closed \subseteq MainRow
      /\ \A r \in closed : r.end = 0 /\ r.build < cur /\ InChunk(r.key, c)
      /\ \A x \in main' : \/ (x \in main /\ x \notin closed)
                           \/ (\E r \in closed : x = Close(r))
                           \/ x \in new
  BY <1>1, LandedRows DEF LandChunk
<1>3. p \in Nat /\ cur \in Nat /\ cur - 1 >= p
  BY <1>2, TransferAssumption
<1>4. \A n \in new : ~Seen(n)
  BY <1>1, <1>3 DEF Lands
<1>5. \A r \in closed : View(Close(r)) = View(r) /\ (Seen(Close(r)) <=> Seen(r))
  <2> SUFFICES ASSUME NEW r \in closed
               PROVE  View(Close(r)) = View(r) /\ (Seen(Close(r)) <=> Seen(r))
    OBVIOUS
  <2>1. /\ Close(r).end = cur - 1 /\ Close(r).build = r.build
        /\ View(Close(r)) = View(r)
    BY <1>2, CloseIs
  <2> QED
    BY <1>2, <1>3, <2>1
<1>6. \A r \in main : r \in main' \/ (r \in closed /\ Close(r) \in main')
  BY <1>1 DEF Lands, Replace
<1>7. AsOf(p) = {View(r) : r \in {x \in main : Seen(x)}}
  BY DEF AsOf
<1>8. AsOf(p)' = {View(r) : r \in {x \in main' : Seen(x)}}
  BY DEF AsOf
<1> HIDE DEF Seen, View
<1>9. ASSUME NEW x \in main', Seen(x)
      PROVE  \E r \in main : Seen(r) /\ View(r) = View(x)
  BY <1>2, <1>4, <1>5, <1>9
<1>10. ASSUME NEW r \in main, Seen(r)
       PROVE  \E x \in main' : Seen(x) /\ View(x) = View(r)
  BY <1>5, <1>6, <1>10
<1> QED
  BY <1>7, <1>8, <1>9, <1>10

\* A landing never rewrites the past: what a reader at an earlier build sees
\* stays (_sql_merge, end_build_id), whatever fails between two chunks.
THEOREM PastIsStableHolds == TransferSpec => PastIsStable
<1>1. ASSUME TransferInv, TransferNext, NEW p \in 0..MaxBuild, p < cur'
      PROVE  AsOf(p)' = AsOf(p)
  <2>1. main' = main => AsOf(p)' = AsOf(p)
    BY DEF AsOf
  <2>2. ASSUME NEW c \in Chunks, LandChunk(c) PROVE AsOf(p)' = AsOf(p)
    BY <1>1, <2>2, LandPast DEF LandChunk
  <2>3. Passes => main' = main
    BY PassesTo
  <2> QED
    BY <1>1, <2>1, <2>2, <2>3 DEF TransferNext, Passes, Start, BeginChunks
<1>2. TransferInv /\ [TransferNext]_transferVars =>
        [\A p \in 0..MaxBuild : p < cur' => AsOf(p)' = AsOf(p)]_transferVars
  BY <1>1
<1> QED
  BY <1>2, TransferInvariant, PTL DEF TransferSpec, PastIsStable

-----------------------------------------------------------------------------
(* One version of a key at a time.                                         *)

Disjoint(r, q) ==
  \/ r.end # 0 /\ r.end < q.build
  \/ q.end # 0 /\ q.end < r.build

\* A landing inserts one row of a key at most, and closes its open row.
Once(closed, new) ==
  /\ \A n, m \in new : n.key = m.key => n = m
  /\ \A n \in new, r \in OpenRows : r.key = n.key => r \in closed

LEMMA OneOpen ==
  ASSUME VersionsDisjoint, kind = "store",
         NEW r \in OpenRows, NEW q \in OpenRows, r.key = q.key
  PROVE  r = q
BY DEF VersionsDisjoint, OpenRows

LEMMA LandDisjoint ==
  ASSUME TransferInv, VersionsDisjoint, kind = "store", kind' = kind,
         NEW c \in todo, phase = "chunks",
         NEW closed, NEW new, Lands(closed, new, c), Once(closed, new)
  PROVE  VersionsDisjoint'
<1>1. /\ cur \in 1..MaxBuild /\ closed \subseteq main /\ closed \subseteq MainRow
      /\ \A r \in closed : r.end = 0 /\ r.build < cur /\ InChunk(r.key, c)
      /\ \A x \in main' : \/ (x \in main /\ x \notin closed)
                           \/ (\E r \in closed : x = Close(r))
                           \/ x \in new
  BY LandedRows
<1>2. \A r \in closed : /\ r.build \in Nat \ {0} /\ Close(r).end = cur - 1
                        /\ Close(r).key = r.key /\ Close(r).build = r.build
  BY <1>1, CloseIs DEF MainRow
<1>3. cur \in Nat /\ \A r \in closed : Close(r).end # 0 /\ Close(r).end < cur
  BY <1>1, <1>2
<1>4. \A n \in new : n.build = cur /\ n.end = 0
  BY DEF Lands
<1>5. \A r, q \in main : r.key = q.key /\ r # q => Disjoint(r, q)
  BY DEF VersionsDisjoint, Disjoint
<1>6. \A r \in main : r.end # 0 => r.end < cur
  BY DEF TransferInv, RowTimes
\* The old rows among each other, and against the new ones.
<1>7. ASSUME NEW r \in closed, NEW q \in main, q \notin closed, q.key = r.key
      PROVE  Disjoint(Close(r), q) /\ Disjoint(q, Close(r))
  BY <1>1, <1>2, <1>5, <1>7 DEF Disjoint
<1>8. ASSUME NEW r \in closed, NEW q \in closed, q.key = r.key
      PROVE  r = q
  BY <1>1, <1>8, OneOpen DEF OpenRows
<1>9. ASSUME NEW r \in main, r \notin closed, NEW n \in new, r.key = n.key
      PROVE  Disjoint(r, n) /\ Disjoint(n, r)
  <2>1. r.end # 0
    BY <1>9 DEF Once, OpenRows
  <2> QED
    BY <1>4, <1>6, <2>1 DEF Disjoint
<1>10. ASSUME NEW r \in closed, NEW n \in new
       PROVE  Disjoint(Close(r), n) /\ Disjoint(n, Close(r))
  BY <1>3, <1>4 DEF Disjoint
<1>11. ASSUME NEW x \in main', NEW y \in main', x.key = y.key, x # y
       PROVE  Disjoint(x, y)
  <2>1. CASE x \in main /\ x \notin closed
    <3>1. CASE y \in main /\ y \notin closed
      BY <1>5, <1>11, <2>1, <3>1
    <3>2. CASE \E r \in closed : y = Close(r)
      BY <1>2, <1>7, <1>11, <2>1, <3>2
    <3>3. CASE y \in new
      BY <1>9, <1>11, <2>1, <3>3
    <3> QED
      BY <1>1, <3>1, <3>2, <3>3
  <2>2. CASE \E r \in closed : x = Close(r)
    <3>1. CASE y \in main /\ y \notin closed
      BY <1>2, <1>7, <1>11, <2>2, <3>1
    <3>2. CASE \E r \in closed : y = Close(r)
      BY <1>2, <1>8, <1>11, <2>2, <3>2
    <3>3. CASE y \in new
      BY <1>10, <2>2, <3>3
    <3> QED
      BY <1>1, <3>1, <3>2, <3>3
  <2>3. CASE x \in new
    <3>1. CASE y \in main /\ y \notin closed
      BY <1>9, <1>11, <2>3, <3>1
    <3>2. CASE \E r \in closed : y = Close(r)
      BY <1>10, <2>3, <3>2
    <3>3. CASE y \in new
      BY <1>11, <2>3, <3>3 DEF Once
    <3> QED
      BY <1>1, <3>1, <3>2, <3>3
  <2> QED
    BY <1>1, <2>1, <2>2, <2>3
<1> QED
  BY <1>11 DEF VersionsDisjoint, Disjoint

-----------------------------------------------------------------------------
(* What a merge closes and inserts.                                        *)

LEMMA FirstsAre ==
  ASSUME TransferTypeOK, NEW c \in Chunks, NEW first \in Firsts(c)
  PROVE  /\ DOMAIN first = {x \in Sections : /\ ChunkOf[x] = c
                                            /\ \E i \in iface : SectionOf[i.key] = x}
         /\ \A x \in DOMAIN first : /\ first[x] \in iface
                                    /\ SectionOf[first[x].key] = x
<1> DEFINE Of(x) == {i \in iface : SectionOf[i.key] = x}
<1>1. DOMAIN first = {x \in Sections : ChunkOf[x] = c /\ Of(x) # {}}
  BY DEF Firsts
<1>2. \A x \in DOMAIN first : first[x] \in Of(x)
  BY DEF Firsts
<1> QED
  BY <1>1, <1>2

\* A merge looks at every open row of its chunk, but for mode sect only in the
\* sections it names.
LEMMA TargetIs ==
  ASSUME TransferInv, SectDistinct, phase = "chunks", NEW c \in Chunks,
         NEW pick \in Picks(c), NEW first \in Firsts(c),
         NEW r \in OpenRows, InChunk(r.key, c)
  PROVE  r \in TargetRows(c, pick, first) <=> ~(type = "sect" /\ Untouched(r.key))
<1> DEFINE x == SectionOf[r.key]
<1>1. r.key \in Keys /\ x \in Sections /\ ChunkOf[x] = c
  BY TransferAssumption DEF OpenRows, InChunk, TransferInv, TransferTypeOK, MainRow
<1>2. r \in TargetRows(c, pick, first) <=> x \in Targets(pick, first)
  BY DEF TargetRows
<1>3. CASE type # "sect"
  BY <1>1, <1>2, <1>3 DEF Targets
<1>4. CASE type = "sect"
  <2> USE DEF TransferInv
  <2>1. x \in Targets(pick, first) <=>
          x \in DOMAIN first /\ \E k \in DOMAIN pick : pick[k] = first[x]
    BY <1>4 DEF Targets
  <2>2. ASSUME x \in DOMAIN first PROVE \E k \in DOMAIN pick : pick[k] = first[x]
    <3>1. first[x] \in iface /\ SectionOf[first[x].key] = x
      BY <2>2, FirstsAre
    <3>2. first[x].key \in Keys /\ InChunk(first[x].key, c) /\ IsNamed(first[x].key)
      BY <1>1, <3>1 DEF TransferTypeOK, IfaceRow, InChunk, IsNamed
    <3>3. /\ first[x].key \in DOMAIN pick
          /\ pick[first[x].key] \in iface
          /\ pick[first[x].key].key = first[x].key
      BY <3>2, PicksAre
    <3>4. ~Repeats(iface)
      BY <1>4 DEF SectDistinct, Begun, Opening
    <3> QED
      BY <3>1, <3>3, <3>4 DEF Repeats
  <2>3. x \in DOMAIN first <=> \E i \in iface : SectionOf[i.key] = x
    <3>1. DOMAIN first = {y \in Sections : /\ ChunkOf[y] = c
                                          /\ \E i \in iface : SectionOf[i.key] = y}
      BY FirstsAre
    <3> QED
      BY <1>1, <3>1
  <2>4. (\E i \in iface : SectionOf[i.key] = x) <=>
          \E h \in Keys : IsNamed(h) /\ SectionOf[h] = x
    BY DEF TransferTypeOK, IfaceRow, IsNamed
  <2>5. Untouched(r.key) <=> ~\E h \in Keys : IsNamed(h) /\ SectionOf[h] = x
    BY <1>4 DEF Untouched
  <2> QED
    BY <1>2, <1>4, <2>1, <2>2, <2>3, <2>4, <2>5
<1> QED
  BY <1>3, <1>4

\* The open rows of a key that the slice names are targets.
LEMMA NamedIsTarget ==
  ASSUME TransferInv, SectDistinct, phase = "chunks", NEW c \in Chunks,
         NEW pick \in Picks(c), NEW first \in Firsts(c),
         NEW r \in OpenRows, r.key \in DOMAIN pick
  PROVE  r \in TargetRows(c, pick, first)
<1>1. r.key \in Keys /\ InChunk(r.key, c) /\ IsNamed(r.key)
  BY PicksAre DEF TransferInv
<1>2. ~(type = "sect" /\ Untouched(r.key))
  BY <1>1 DEF Untouched
<1> QED
  BY <1>1, <1>2, TargetIs

\* Where the rows that a merge inserts come from.
ByChange(n, pick, target) ==
  \E r \in Changed(pick, target) :
    /\ n.key = r.key /\ n.val = NewVal(pick[r.key], r)
    /\ n.active = IsActive(pick[r.key])
    /\ n = Version(r.key, NewVal(pick[r.key], r), IsActive(pick[r.key]))
ByAbsence(n, pick, target) ==
  \E r \in Gone(pick, target) :
    n.key = r.key /\ n.active = FALSE /\ n = Version(r.key, r.val, FALSE)
ByArrival(n, pick, target) ==
  /\ n.key \in Fresh(pick, target) /\ n.val = pick[n.key].val /\ n.active = TRUE
  /\ n = Version(n.key, pick[n.key].val, TRUE)

LEMMA NewRowsFrom ==
  ASSUME NEW pick, NEW target, NEW n \in NewRows(pick, target)
  PROVE  \/ ByChange(n, pick, target) \/ ByAbsence(n, pick, target)
         \/ ByArrival(n, pick, target)
<1>2. CASE \E r \in Changed(pick, target) :
             n = Version(r.key, NewVal(pick[r.key], r), IsActive(pick[r.key]))
  <2>1. PICK r \in Changed(pick, target) :
          n = Version(r.key, NewVal(pick[r.key], r), IsActive(pick[r.key]))
    BY <1>2
  <2>2. /\ n.key = r.key /\ n.val = NewVal(pick[r.key], r)
        /\ n.active = IsActive(pick[r.key])
    BY <2>1 DEF Version
  <2> QED
    BY <2>1, <2>2 DEF ByChange
<1>3. CASE \E r \in Gone(pick, target) : n = Version(r.key, r.val, FALSE)
  <2>1. PICK r \in Gone(pick, target) : n = Version(r.key, r.val, FALSE)
    BY <1>3
  <2>2. n.key = r.key /\ n.active = FALSE
    BY <2>1 DEF Version
  <2> QED
    BY <2>1, <2>2 DEF ByAbsence
<1>4. CASE \E k \in Fresh(pick, target) : n = Version(k, pick[k].val, TRUE)
  <2>1. PICK k \in Fresh(pick, target) : n = Version(k, pick[k].val, TRUE)
    BY <1>4
  <2>2. n.key = k /\ n.val = pick[k].val /\ n.active = TRUE
    BY <2>1 DEF Version
  <2> QED
    BY <2>1, <2>2 DEF ByArrival
<1> QED
  BY <1>2, <1>3, <1>4 DEF NewRows

LEMMA MergeOnce ==
  ASSUME TransferInv, SectDistinct, VersionsDisjoint, kind = "store",
         phase = "chunks", NEW c \in Chunks,
         NEW pick \in Picks(c), NEW first \in Firsts(c)
  PROVE  LET target == TargetRows(c, pick, first)
         IN  Once(Changed(pick, target) \cup Gone(pick, target), NewRows(pick, target))
<1> DEFINE target == TargetRows(c, pick, first)
           closed == Changed(pick, target) \cup Gone(pick, target)
           new == NewRows(pick, target)
<1>1. target \subseteq OpenRows
  BY DEF TargetRows
<1>2. \A n \in new : \/ ByChange(n, pick, target) \/ ByAbsence(n, pick, target)
                     \/ ByArrival(n, pick, target)
  BY NewRowsFrom
<1>3. \A r \in Changed(pick, target) : r \in target /\ r.key \in DOMAIN pick
  BY DEF Changed
<1>4. \A r \in Gone(pick, target) : r \in target /\ r.key \notin DOMAIN pick
  BY DEF Gone
<1>5. \A k \in Fresh(pick, target) : k \in DOMAIN pick /\ \A r \in target : r.key # k
  BY DEF Fresh
<1>6. \A r, q \in target : r.key = q.key => r = q
  BY <1>1, OneOpen
<1>7. \A r \in OpenRows : r.key \in DOMAIN pick => r \in target
  BY NamedIsTarget
<1> HIDE DEF target, new
<1>8. ASSUME NEW n \in new, NEW m \in new, n.key = m.key
      PROVE  n = m
  <2>1. CASE ByChange(n, pick, target)
    <3>1. PICK r \in Changed(pick, target) :
            /\ n.key = r.key
            /\ n = Version(r.key, NewVal(pick[r.key], r), IsActive(pick[r.key]))
      BY <2>1 DEF ByChange
    <3>2. r \in target /\ r.key \in DOMAIN pick
      BY <1>3
    <3>3. ~ByAbsence(m, pick, target) /\ ~ByArrival(m, pick, target)
      BY <1>4, <1>5, <1>8, <3>1, <3>2 DEF ByAbsence, ByArrival
    <3>4. PICK q \in Changed(pick, target) :
            /\ m.key = q.key
            /\ m = Version(q.key, NewVal(pick[q.key], q), IsActive(pick[q.key]))
      BY <1>2, <3>3 DEF ByChange
    <3>5. q = r
      BY <1>3, <1>6, <1>8, <3>1, <3>2, <3>4
    <3> QED
      BY <3>1, <3>4, <3>5
  <2>2. CASE ByAbsence(n, pick, target)
    <3>1. PICK r \in Gone(pick, target) :
            n.key = r.key /\ n = Version(r.key, r.val, FALSE)
      BY <2>2 DEF ByAbsence
    <3>2. r \in target /\ r.key \notin DOMAIN pick
      BY <1>4
    <3>3. ~ByChange(m, pick, target) /\ ~ByArrival(m, pick, target)
      BY <1>3, <1>5, <1>8, <3>1, <3>2 DEF ByChange, ByArrival
    <3>4. PICK q \in Gone(pick, target) :
            m.key = q.key /\ m = Version(q.key, q.val, FALSE)
      BY <1>2, <3>3 DEF ByAbsence
    <3>5. q = r
      BY <1>4, <1>6, <1>8, <3>1, <3>2, <3>4
    <3> QED
      BY <3>1, <3>4, <3>5
  <2>3. CASE ByArrival(n, pick, target)
    <3>1. n.key \in Fresh(pick, target) /\ n = Version(n.key, pick[n.key].val, TRUE)
      BY <2>3 DEF ByArrival
    <3>2. ~ByChange(m, pick, target) /\ ~ByAbsence(m, pick, target)
      BY <1>3, <1>4, <1>5, <1>8, <3>1 DEF ByChange, ByAbsence
    <3>3. m = Version(m.key, pick[m.key].val, TRUE)
      BY <1>2, <3>2 DEF ByArrival
    <3> QED
      BY <1>8, <3>1, <3>3
  <2> QED
    BY <1>2, <2>1, <2>2, <2>3
<1>9. ASSUME NEW n \in new, NEW r \in OpenRows, r.key = n.key
      PROVE  r \in closed
  <2>1. CASE ByChange(n, pick, target) \/ ByAbsence(n, pick, target)
    BY <1>1, <1>3, <1>4, <1>9, <2>1, OneOpen DEF ByChange, ByAbsence
  <2>2. CASE ByArrival(n, pick, target)
    BY <1>5, <1>7, <1>9, <2>2 DEF ByArrival
  <2> QED
    BY <1>2, <2>1, <2>2
<1>10. Once(closed, new)
  BY <1>8, <1>9 DEF Once
<1> QED
  BY <1>10 DEF target, new

\* The rows that are inserted as they are repeat no key, and a store that takes
\* them has no open row in the chunk.
LEMMA BulkOnce ==
  ASSUME TransferInv, kind = "store", phase = "chunks", way = "bulk", NEW c \in todo
  PROVE  Once({}, BulkRows(c))
<1>1. type # "appd"
  BY KindsAre DEF TransferInv, Ways, Begun, Opening, Types
<1>2. ~Repeats(ActiveRows) /\ \A r \in main : r.build = cur
  BY <1>1 DEF TransferInv, Ways
<1>3. \A n \in BulkRows(c) : \E i \in ActiveRows :
         /\ n = Version(i.key, i.val, TRUE) /\ n.key = i.key /\ InChunk(n.key, c)
  BY DEF BulkRows, Version
<1>4. ASSUME NEW n \in BulkRows(c), NEW m \in BulkRows(c), n.key = m.key
      PROVE  n = m
  <2>1. PICK i \in ActiveRows : n = Version(i.key, i.val, TRUE) /\ n.key = i.key
    BY <1>3
  <2>2. PICK j \in ActiveRows : m = Version(j.key, j.val, TRUE) /\ m.key = j.key
    BY <1>3
  <2>3. i = j
    BY <1>2, <1>4, <2>1, <2>2 DEF Repeats
  <2> QED
    BY <2>1, <2>2, <2>3
<1>5. \A r \in OpenRows : ~InChunk(r.key, c)
  <2> SUFFICES ASSUME NEW r \in OpenRows, InChunk(r.key, c) PROVE FALSE
    OBVIOUS
  <2>1. r \in main /\ r.build < cur
    BY DEF OpenRows, InChunk, InTodo, TransferInv, RowTimes
  <2>2. r.build = cur /\ cur \in Nat
    BY <1>2, <2>1, TransferAssumption DEF TransferInv, TransferTypeOK
  <2> QED
    BY <2>1, <2>2
<1> QED
  BY <1>3, <1>4, <1>5 DEF Once

LEMMA LandVersions ==
  ASSUME SliceInv, NEW c \in Chunks, LandChunk(c)
  PROVE  VersionsDisjoint'
<1>1. CASE kind = "store"
  <2>1. TransferInv /\ VersionsDisjoint /\ kind' = kind /\ c \in todo
        /\ phase = "chunks" /\ SectDistinct
    BY DEF SliceInv, LandChunk
  <2>2. way \in {"merge", "bulk"}
    BY <1>1, <2>1 DEF TransferInv, TransferTypeOK, Ways
  <2>3. CASE way = "bulk"
    BY <1>1, <2>1, <2>3, BulkLands, BulkOnce, LandDisjoint
  <2>4. CASE way = "merge"
    <3>1. PICK pick \in Picks(c), first \in Firsts(c) :
            main' = MergeChunk(c, pick, first)
      BY <2>4 DEF LandChunk
    <3> DEFINE target == TargetRows(c, pick, first)
               closed == Changed(pick, target) \cup Gone(pick, target)
               new == NewRows(pick, target)
    <3>2. Lands(closed, new, c)
      BY <2>1, <3>1, MergeLands
    <3>3. Once(closed, new)
      BY <1>1, <2>1, MergeOnce
    <3> HIDE DEF closed, new
    <3> QED
      BY <1>1, <2>1, <3>2, <3>3, LandDisjoint
  <2> QED
    BY <2>2, <2>3, <2>4
<1>2. CASE kind # "store"
  BY <1>2 DEF VersionsDisjoint, LandChunk
<1> QED
  BY <1>1, <1>2

-----------------------------------------------------------------------------
(* The current slice after a landing.                                      *)

LEMMA ValuesAre ==
  ASSUME NEW t, NEW k
  PROVE  ValuesOf(t, k) =
           {v \in Values : \E r \in t : /\ r.end = 0 /\ r.active
                                        /\ r.key = k /\ r.val = v}
BY DEF ValuesOf, SliceOf

LEMMA LandedValues ==
  ASSUME TransferInv, NEW c \in todo, phase = "chunks", NEW k \in Keys,
         NEW closed, NEW new, Lands(closed, new, c)
  PROVE  ValuesOf(main, k)' =
           {v \in Values : \E r \in (OpenRows \ closed) \cup new :
                             r.active /\ r.key = k /\ r.val = v}
<1>1. /\ closed \subseteq main /\ closed \subseteq MainRow /\ cur \in 1..MaxBuild
      /\ \A r \in closed : r.build < cur
  BY LandedRows
<1>2. \A r \in closed : Close(r).end # 0
  <2> SUFFICES ASSUME NEW r \in closed PROVE Close(r).end # 0
    OBVIOUS
  <2>1. r.build \in Nat \ {0} /\ r.build < cur /\ Close(r).end = cur - 1
    BY <1>1, CloseIs DEF MainRow
  <2> QED
    BY <1>1, <2>1
<1>3. main' = (main \ closed) \cup {Close(r) : r \in closed} \cup new
  BY DEF Lands, Replace
<1>4. \A n \in new : n.end = 0
  BY DEF Lands
<1>5. {r \in main' : r.end = 0} = (OpenRows \ closed) \cup new
  BY <1>2, <1>3, <1>4 DEF OpenRows
<1>6. ValuesOf(main', k) =
        {v \in Values : \E r \in {x \in main' : x.end = 0} :
                          r.active /\ r.key = k /\ r.val = v}
  BY ValuesAre
<1>7. ValuesOf(main, k)' = ValuesOf(main', k)
  BY DEF ValuesOf, SliceOf
<1> QED
  BY <1>5, <1>6, <1>7

\* A landing shows in the keys of its chunk only.
LEMMA OtherValues ==
  ASSUME TransferInv, NEW c \in todo, phase = "chunks",
         NEW closed, NEW new, Lands(closed, new, c),
         NEW k \in Keys, ~InChunk(k, c)
  PROVE  ValuesOf(main, k)' = ValuesOf(main, k)
<1>1. \A r \in closed \cup new : r.key # k
  BY DEF Lands
<1>2. \A r : r \in (OpenRows \ closed) \cup new /\ r.key = k
               <=> r \in main /\ r.end = 0 /\ r.key = k
  BY <1>1 DEF OpenRows
<1>3. \A v : (\E r \in (OpenRows \ closed) \cup new :
                r.active /\ r.key = k /\ r.val = v)
            <=> (\E r \in main : r.end = 0 /\ r.active /\ r.key = k /\ r.val = v)
  BY <1>2
<1>4. ValuesOf(main, k)' = {v \in Values : \E r \in (OpenRows \ closed) \cup new :
                              r.active /\ r.key = k /\ r.val = v}
  BY LandedValues
<1>5. ValuesOf(main, k) = {v \in Values : \E r \in main :
                             r.end = 0 /\ r.active /\ r.key = k /\ r.val = v}
  BY ValuesAre
<1> QED
  BY <1>3, <1>4, <1>5

\* What a slice that is named is to become: one of the values named, if any.
Chosen(new, k) ==
  new \subseteq Named(k) /\ (Named(k) # {} => \E v : new = {v})

LEMMA ChosenPromised ==
  ASSUME NEW k, NEW new, Chosen(new, k), ~Untouched(k), type \notin {"skip", "appd"}
  PROVE  Promised(k, new)
<1>1. CASE Named(k) = {}
  <2>1. new = {} /\ Cardinality({}) = 0
    BY <1>1, FS_EmptySet DEF Chosen
  <2> QED
    BY <1>1, <2>1 DEF Promised
<1>2. CASE Named(k) # {}
  <2>1. PICK v : new = {v}
    BY <1>2 DEF Chosen
  <2>2. Cardinality({v}) = 1
    BY FS_Singleton
  <2> QED
    BY <1>2, <2>1, <2>2 DEF Promised, Chosen
<1> QED
  BY <1>1, <1>2

LEMMA UntouchedPromised ==
  ASSUME NEW k, NEW new, Untouched(k), new = ValuesOf(before, k)
  PROVE  Promised(k, new)
<1>1. type # "appd"
  BY DEF Untouched
<1> QED
  BY <1>1 DEF Promised

LEMMA NamedAre ==
  ASSUME TransferTypeOK, NEW k \in Keys
  PROVE  /\ Named(k) \subseteq Values
         /\ ~Repeats(ActiveRows) /\ Named(k) # {} => \E v : Named(k) = {v}
         /\ Untouched(k) => ~IsNamed(k)
         /\ ~IsNamed(k) => Named(k) = {}
<1>1. Named(k) \subseteq Values
  BY ActiveIs DEF Named
<1>2. ASSUME ~Repeats(ActiveRows), Named(k) # {}
      PROVE  \E v : Named(k) = {v}
  <2>1. PICK i \in ActiveRows : i.key = k
    BY <1>2 DEF Named
  <2>2. \A j \in ActiveRows : j.key = k => j = i
    BY <1>2, <2>1 DEF Repeats
  <2>3. Named(k) = {i.val}
    BY <2>1, <2>2 DEF Named
  <2> QED
    BY <2>3
<1>3. Untouched(k) => ~IsNamed(k)
  BY DEF Untouched
<1>4. ~IsNamed(k) => Named(k) = {}
  BY DEF Named, IsNamed, ActiveRows
<1> QED
  BY <1>1, <1>2, <1>3, <1>4

\* The slice of a key as it stands before the landing of its chunk.
Unlanded(k) == ValuesOf(main, k) = ValuesOf(before, k)

LEMMA BulkValues ==
  ASSUME TransferInv, NEW c \in todo, phase = "chunks", way = "bulk",
         NEW k \in Keys, InChunk(k, c), Unlanded(k),
         Lands({}, BulkRows(c), c)
  PROVE  Promised(k, ValuesOf(main, k)')
<1> DEFINE old == ValuesOf(main, k)
           now == ValuesOf(main, k)'
<1>1. now = {v \in Values : \E r \in (OpenRows \ {}) \cup BulkRows(c) :
                              r.active /\ r.key = k /\ r.val = v}
  BY LandedValues
<1>2. old = {v \in Values : \E r \in OpenRows : r.active /\ r.key = k /\ r.val = v}
  BY ValuesAre DEF OpenRows
<1>3. ASSUME NEW v
      PROVE  (\E r \in BulkRows(c) : r.active /\ r.key = k /\ r.val = v)
               <=> v \in Named(k)
  <2>1. \A r \in BulkRows(c) : \E i \in ActiveRows : i.key = r.key /\ i.val = r.val
    BY DEF BulkRows, Version
  <2>2. ASSUME NEW i \in ActiveRows, i.key = k
        PROVE  \E r \in BulkRows(c) : r.active /\ r.key = k /\ r.val = i.val
    <3>1. Version(i.key, i.val, TRUE) \in BulkRows(c)
      BY <2>2 DEF BulkRows
    <3> QED
      BY <2>2, <3>1 DEF Version
  <2> QED
    BY <2>1, <2>2 DEF Named
<1>4. now = old \cup Named(k)
  <2>1. Named(k) \subseteq Values
    BY NamedAre DEF TransferInv
  <2> QED
    BY <1>1, <1>2, <1>3, <2>1
<1>5. CASE type = "appd"
  <2>1. ~Untouched(k)
    BY <1>5 DEF Untouched
  <2> QED
    BY <1>4, <1>5, <2>1 DEF Promised, Unlanded
<1>6. CASE type # "appd"
  <2>1. ValuesOf({}, k) = {}
    BY ValuesAre
  <2>2. old = {} /\ ValuesOf(before, k) = {} /\ now = Named(k)
    BY <1>4, <1>6, <2>1 DEF Unlanded, TransferInv, Ways
  <2>3. type # "skip"
    BY KindsAre DEF TransferInv, Ways, Begun, Opening, Types
  <2>4. ~Repeats(ActiveRows) /\ TransferTypeOK
    BY <1>6 DEF TransferInv, Ways
  <2>5. Chosen(now, k) /\ (Untouched(k) => now = {})
    BY <2>2, <2>4, NamedAre DEF Chosen
  <2>6. CASE Untouched(k)
    BY <2>2, <2>5, <2>6 DEF Promised
  <2>7. CASE ~Untouched(k)
    BY <1>6, <2>3, <2>5, <2>7, ChosenPromised
  <2> QED
    BY <2>6, <2>7
<1> QED
  BY <1>5, <1>6

LEMMA ReissueValues ==
  ASSUME TransferInv, NEW c \in todo, phase = "chunks", way = "reissue",
         NEW k \in Keys, InChunk(k, c),
         Lands({r \in OpenRows : InChunk(r.key, c)}, BulkRows(c), c)
  PROVE  Promised(k, ValuesOf(main, k)')
<1> DEFINE now == ValuesOf(main, k)'
           closed == {r \in OpenRows : InChunk(r.key, c)}
<1>1. now = {v \in Values : \E r \in (OpenRows \ closed) \cup BulkRows(c) :
                              r.active /\ r.key = k /\ r.val = v}
  BY LandedValues
<1>2. \A r \in OpenRows \ closed : r.key # k
  OBVIOUS
<1>3. ASSUME NEW v, \E r \in BulkRows(c) : r.active /\ r.key = k /\ r.val = v
      PROVE  v \in Named(k)
  BY <1>3 DEF BulkRows, Version, Named
<1>4. ASSUME NEW v \in Named(k)
      PROVE  v \in Values /\ \E r \in BulkRows(c) : r.active /\ r.key = k /\ r.val = v
  <2>1. PICK i \in ActiveRows : i.key = k /\ i.val = v
    BY DEF Named
  <2>2. Version(i.key, i.val, TRUE) \in BulkRows(c)
    BY <2>1 DEF BulkRows
  <2>3. v \in Values
    BY NamedAre DEF TransferInv
  <2> QED
    BY <2>1, <2>2, <2>3 DEF Version
<1>5. now = Named(k)
  BY <1>1, <1>2, <1>3, <1>4
<1>6. type = "init" /\ ~Repeats(ActiveRows) /\ TransferTypeOK
  BY DEF TransferInv, Ways
<1>7. Chosen(now, k)
  BY <1>5, <1>6, NamedAre DEF Chosen
<1> QED
  BY <1>6, <1>7, ChosenPromised DEF Untouched

LEMMA MergeValues ==
  ASSUME TransferInv, SectDistinct, VersionsDisjoint, phase = "chunks", way = "merge",
         NEW c \in todo, NEW k \in Keys, InChunk(k, c), Unlanded(k),
         NEW pick \in Picks(c), NEW first \in Firsts(c),
         main' = MergeChunk(c, pick, first)
  PROVE  Promised(k, ValuesOf(main, k)')
<1> DEFINE target == TargetRows(c, pick, first)
           closed == Changed(pick, target) \cup Gone(pick, target)
           new == NewRows(pick, target)
           old == ValuesOf(main, k)
           now == ValuesOf(main, k)'
           Shows(v) == \E r \in (OpenRows \ closed) \cup new :
                         r.active /\ r.key = k /\ r.val = v
<1>1. kind = "store" /\ TransferTypeOK /\ c \in Chunks /\ type \notin {"skip", "appd"}
  BY DEF TransferInv, TransferTypeOK, Ways, Begun, Opening, Types
<1>2. Lands(closed, new, c)
  BY <1>1, MergeLands
<1>3. now = {v \in Values : Shows(v)}
  BY <1>2, LandedValues
<1>4. old = {v \in Values : \E r \in OpenRows : r.active /\ r.key = k /\ r.val = v}
  BY ValuesAre DEF OpenRows
<1>5. k \in DOMAIN pick <=> IsNamed(k)
  BY <1>1, PicksAre
<1>6. \A r \in OpenRows : r.key = k =>
        (r \in target <=> ~(type = "sect" /\ Untouched(k)))
  BY <1>1, TargetIs
<1>7. \A n \in new : \/ ByChange(n, pick, target) \/ ByAbsence(n, pick, target)
                     \/ ByArrival(n, pick, target)
  BY NewRowsFrom
<1>8. target \subseteq OpenRows
  BY DEF TargetRows
<1> HIDE DEF target
<1>9. CASE k \notin DOMAIN pick
  <2>1. Named(k) = {} /\ ~IsNamed(k)
    BY <1>1, <1>5, <1>9, NamedAre
  <2>2. \A n \in new : n.key = k => ByAbsence(n, pick, target)
    BY ZenonT(30), <1>7, <1>9 DEF ByChange, ByArrival, Changed, Fresh
  <2>3. \A n \in new : n.key = k => ~n.active
    BY <2>2 DEF ByAbsence
  <2>4. CASE Untouched(k)
    <3>1. \A r \in OpenRows : r.key = k => r \notin closed
      BY <1>6, <1>9, <2>4 DEF Changed, Gone, Untouched
    <3>2. now = old
      BY <1>3, <1>4, <1>8, <2>3, <3>1
    <3>3. now = ValuesOf(before, k)
      BY <3>2 DEF Unlanded
    <3> QED
      BY <2>4, <3>3, UntouchedPromised
  <2>5. CASE ~Untouched(k)
    <3>1. type # "incr"
      BY <2>1, <2>5 DEF Untouched
    <3>2. \A r \in OpenRows : r.key = k /\ r.active => r \in closed
      BY <1>6, <1>9, <2>5, <3>1 DEF Gone
    <3>3. now = {}
      BY <1>3, <2>3, <3>2
    <3>4. Chosen(now, k)
      BY <2>1, <3>3 DEF Chosen
    <3> QED
      BY <1>1, <2>5, <3>4, ChosenPromised
  <2> QED
    BY <2>4, <2>5
<1>10. CASE k \in DOMAIN pick
  <2> DEFINE i == pick[k]
  <2>1. i \in iface /\ i.key = k /\ Kept(i)
    BY <1>1, <1>10, PicksAre
  <2>2. ~Untouched(k)
    BY <1>1, <1>5, <1>10, NamedAre
  <2>3. \A r \in OpenRows : r.key = k => r \in target
    BY <1>6, <2>2
  <2>4. \A n \in new : n.key = k => ~ByAbsence(n, pick, target)
    BY <1>10 DEF ByAbsence, Gone
  <2>5. \A r \in OpenRows : r.key = k /\ r \notin closed => ~Differs(i, r)
    BY <1>10, <2>3 DEF Changed
  <2>6. CASE IsActive(i)
    <3>1. i.val \in Named(k) /\ i.val \in Values
      BY <1>1, <2>1, <2>6, NamedAre DEF Named, ActiveRows
    <3>2. ASSUME NEW v, Shows(v) PROVE v = i.val
      <4>1. PICK r \in (OpenRows \ closed) \cup new : r.active /\ r.key = k /\ r.val = v
        BY <3>2
      <4>2. CASE r \in OpenRows \ closed
        BY <2>5, <4>1, <4>2 DEF Differs
      <4>3. CASE r \in new
        BY <1>7, <2>4, <2>6, <4>1, <4>3 DEF ByChange, ByArrival, NewVal
      <4> QED
        BY <4>1, <4>2, <4>3
    <3>3. Shows(i.val)
      <4>1. CASE \A r \in target : r.key # k
        <5>1. Version(k, i.val, TRUE) \in new
          BY <1>10, <2>6, <4>1 DEF NewRows, Fresh
        <5> QED
          BY <5>1 DEF Version
      <4>2. CASE \E r \in target : r.key = k
        <5>1. PICK r \in target : r.key = k
          BY <4>2
        <5>2. CASE Differs(i, r)
          <6>1. r \in Changed(pick, target)
            BY <1>10, <5>1, <5>2 DEF Changed
          <6>2. Version(k, NewVal(i, r), IsActive(i)) \in new
            BY <5>1, <6>1 DEF NewRows
          <6> QED
            BY <2>6, <6>2 DEF Version, NewVal
        <5>3. CASE ~Differs(i, r)
          <6>1. r \in OpenRows /\ r.active /\ r.val = i.val
            BY <1>1, <1>8, <2>6, <5>1, <5>3
            DEF Differs, OpenRows, TransferTypeOK, MainRow, IsActive
          <6>2. r \notin closed
            BY <1>10, <5>1, <5>3 DEF Changed, Gone
          <6> QED
            BY <5>1, <6>1, <6>2
        <5> QED
          BY <5>2, <5>3
      <4> QED
        BY <4>1, <4>2
    <3>4. now = {i.val}
      BY <1>3, <3>1, <3>2, <3>3
    <3>5. Chosen(now, k)
      BY <3>1, <3>4 DEF Chosen
    <3> QED
      BY <1>1, <2>2, <3>5, ChosenPromised
  <2>7. CASE ~IsActive(i)
    <3>1. Named(k) = {}
      BY <2>1, <2>7 DEF Kept, Named, ActiveRows
    <3>2. ASSUME NEW v, Shows(v) PROVE FALSE
      <4>1. PICK r \in (OpenRows \ closed) \cup new : r.active /\ r.key = k /\ r.val = v
        BY <3>2
      <4>2. CASE r \in OpenRows \ closed
        <5>1. ~Differs(i, r)
          BY <2>5, <4>1, <4>2
        <5> QED
          BY <2>7, <4>1, <5>1 DEF Differs
      <4>3. CASE r \in new
        BY <1>7, <2>4, <2>7, <4>1, <4>3 DEF ByChange, ByArrival, Fresh
      <4> QED
        BY <4>1, <4>2, <4>3
    <3>3. now = {}
      BY <1>3, <3>2
    <3>4. Chosen(now, k)
      BY <3>1, <3>3 DEF Chosen
    <3> QED
      BY <1>1, <2>2, <3>4, ChosenPromised
  <2> QED
    BY <2>6, <2>7
<1> QED
  BY <1>9, <1>10

LEMMA LandValues ==
  ASSUME SliceInv, NEW c \in todo, LandChunk(c),
         NEW k \in Keys, InChunk(k, c)
  PROVE  Promised(k, ValuesOf(main, k)')
<1>1. /\ TransferInv /\ SectDistinct /\ VersionsDisjoint /\ phase = "chunks"
      /\ c \in Chunks
  BY DEF SliceInv, TransferInv, TransferTypeOK, LandChunk
<1>2. Unlanded(k)
  BY <1>1 DEF SliceInv, SliceSoFar, InTodo, InChunk, Unlanded
<1>3. CASE way = "bulk"
  BY <1>1, <1>2, <1>3, BulkLands, BulkValues
<1>4. CASE way = "reissue"
  BY <1>1, <1>4, ReissueLands, ReissueValues
<1>5. CASE way = "merge"
  <2>1. PICK pick \in Picks(c), first \in Firsts(c) :
          main' = MergeChunk(c, pick, first)
    BY <1>5 DEF LandChunk
  <2> QED
    BY <1>1, <1>2, <1>5, <2>1, MergeValues
<1> QED
  BY <1>1, <1>3, <1>4, <1>5 DEF TransferInv, TransferTypeOK

-----------------------------------------------------------------------------
(* The slice through a build.                                              *)

\* What a type promises depends on the slice, the type and the old values.
LEMMA PromisedStays ==
  ASSUME NEW k \in Keys, UNCHANGED <<type, iface, before>>,
         Promised(k, ValuesOf(main, k)')
  PROVE  Promised(k, ValuesOf(main, k))'
<1>1. Named(k)' = Named(k)
  BY DEF Named, ActiveRows, IsActive
<1>2. Untouched(k)' = Untouched(k)
  BY DEF Untouched, IsNamed
<1>3. ValuesOf(before, k)' = ValuesOf(before, k)
  BY DEF ValuesOf, SliceOf
<1> QED
  BY <1>1, <1>2, <1>3 DEF Promised

LEMMA LandSlice ==
  ASSUME SliceInv, NEW c \in Chunks, LandChunk(c)
  PROVE  SliceInv'
<1>1. /\ TransferInv /\ phase = "chunks" /\ c \in todo /\ todo' = todo \ {c}
      /\ UNCHANGED <<kind, iface, type, phase, before>>
  BY DEF SliceInv, LandChunk
<1>2. PICK closed, new : Lands(closed, new, c)
  BY <1>1, LandIs
<1>3. ASSUME NEW k \in Keys
      PROVE  IF InTodo(k)' THEN ValuesOf(main, k)' = ValuesOf(before, k)'
                           ELSE Promised(k, ValuesOf(main, k))'
  <2>1. ValuesOf(before, k)' = ValuesOf(before, k)
    BY <1>1 DEF ValuesOf, SliceOf
  <2>2. CASE InChunk(k, c)
    <3>1. Promised(k, ValuesOf(main, k))'
      BY <1>1, <2>2, LandValues, PromisedStays
    <3>2. ~InTodo(k)'
      BY <1>1, <2>2 DEF InTodo, InChunk
    <3> QED
      BY <3>1, <3>2
  <2>3. CASE ~InChunk(k, c)
    <3>1. InTodo(k)' = InTodo(k)
      BY <1>1, <2>3 DEF InTodo, InChunk
    <3>2. ValuesOf(main, k)' = ValuesOf(main, k)
      BY <1>1, <1>2, <2>3, OtherValues
    <3>3. CASE InTodo(k)
      BY <1>1, <2>1, <3>1, <3>2, <3>3 DEF SliceInv, SliceSoFar
    <3>4. CASE ~InTodo(k)
      <4>1. Promised(k, ValuesOf(main, k)')
        BY <1>1, <3>2, <3>4 DEF SliceInv, SliceSoFar
      <4> QED
        BY <1>1, <3>1, <3>4, <4>1, PromisedStays
    <3> QED
      BY <3>3, <3>4
  <2> QED
    BY <2>2, <2>3
<1>4. SliceSoFar'
  BY <1>3 DEF SliceSoFar
<1>5. SectDistinct'
  BY <1>1 DEF SliceInv, SectDistinct, Begun, Opening, Repeats
<1>6. SliceMeansSource'
  BY <1>1 DEF SliceMeansSource
<1> QED
  BY <1>1, <1>4, <1>5, <1>6, LandInv, LandVersions DEF SliceInv

LEMMA StartSlice ==
  ASSUME SliceInv, ~SectDuplicates,
         NEW t \in Types[kind], NEW s \in Slices, Start(t, s)
  PROVE  SliceInv'
<1>1. /\ TransferInv /\ kind' = kind /\ main' = main /\ before' = main
      /\ type' = t /\ iface' = s /\ (t = "sect" /\ Repeats(s) => SectDuplicates)
      /\ phase' = IF t = "skip" THEN "done" ELSE "check"
  BY DEF SliceInv, Start
<1>2. VersionsDisjoint'
  BY <1>1 DEF SliceInv, VersionsDisjoint
<1>3. SectDistinct'
  BY <1>1 DEF SectDistinct, Begun, Opening, Repeats
<1>4. SliceSoFar'
  BY <1>1 DEF SliceSoFar
<1>5. SliceMeansSource'
  <2> SUFFICES ASSUME phase' = "done", NEW k \in Keys
               PROVE  Promised(k, ValuesOf(main, k))'
    BY DEF SliceMeansSource
  <2>1. type' = "skip"
    BY <1>1
  <2>2. ValuesOf(before, k)' = ValuesOf(main, k)'
    BY <1>1 DEF ValuesOf, SliceOf
  <2> QED
    BY <2>1, <2>2 DEF Promised
<1> QED
  BY <1>1, <1>2, <1>3, <1>4, <1>5, StartInv DEF SliceInv

LEMMA BeginChunksSlice ==
  ASSUME SliceInv, BeginChunks
  PROVE  SliceInv'
<1>1. /\ phase = "check" /\ phase' = "drop"
      /\ UNCHANGED <<kind, main, iface, type>>
  BY DEF BeginChunks
<1>2. VersionsDisjoint'
  BY <1>1 DEF SliceInv, VersionsDisjoint
<1>3. SectDistinct'
  BY <1>1 DEF SliceInv, SectDistinct, Begun, Opening, Repeats
<1>4. SliceSoFar' /\ SliceMeansSource'
  BY <1>1 DEF SliceSoFar, SliceMeansSource
<1> QED
  BY <1>2, <1>3, <1>4, BeginChunksInv DEF SliceInv

\* When the chunks begin all is as it was; when none is left all is as promised,
\* and stays so while the indexes are created again.
LEMMA PassesSlice ==
  ASSUME SliceInv, Passes
  PROVE  SliceInv'
<1>1. TransferInv /\ UNCHANGED <<kind, main, iface, type, todo, before>>
  BY PassesTo DEF SliceInv
<1>2. VersionsDisjoint'
  BY <1>1 DEF SliceInv, VersionsDisjoint
<1>3. SectDistinct'
  BY <1>1, PassesTo DEF SliceInv, SectDistinct, Begun, Opening, Repeats
<1>4. ASSUME NEW k \in Keys, phase' \in {"restore", "done"}
      PROVE  Promised(k, ValuesOf(main, k))'
  <2>1. phase \in {"chunks", "restore"} /\ todo = {}
    BY <1>1, <1>4, PassesTo DEF TransferInv, Ways
  <2>2. Promised(k, ValuesOf(main, k))
    BY <2>1 DEF SliceInv, SliceSoFar, InTodo
  <2>3. ValuesOf(main, k)' = ValuesOf(main, k)
    BY <1>1 DEF ValuesOf, SliceOf
  <2> QED
    BY <1>1, <2>2, <2>3, PromisedStays
<1>5. SliceSoFar'
  <2>1. CASE phase' = "chunks"
    <3>1. todo = Chunks /\ before = main
      BY <1>1, <2>1, PassesTo DEF TransferInv, Ways, Opening
    <3>2. \A k \in Keys : InTodo(k)'
      BY <1>1, <3>1, TransferAssumption DEF InTodo
    <3>3. \A k \in Keys : ValuesOf(main, k)' = ValuesOf(before, k)'
      BY <1>1, <3>1 DEF ValuesOf, SliceOf
    <3> QED
      BY <2>1, <3>2, <3>3 DEF SliceSoFar
  <2>2. CASE phase' = "restore"
    <3>1. todo' = {}
      BY <1>1, <2>2, PassesTo DEF TransferInv, Ways
    <3>2. \A k \in Keys : ~InTodo(k)'
      BY <3>1 DEF InTodo
    <3> QED
      BY <1>4, <2>2, <3>2 DEF SliceSoFar
  <2> QED
    BY <2>1, <2>2 DEF SliceSoFar
<1>6. SliceMeansSource'
  BY <1>4 DEF SliceMeansSource
<1> QED
  BY <1>1, <1>2, <1>3, <1>5, <1>6, PassesInv DEF SliceInv

LEMMA SliceStutter ==
  ASSUME SliceInv, UNCHANGED transferVars
  PROVE  SliceInv'
<1> USE DEF transferVars
<1>1. TransferInv'
  BY TransferStutter DEF SliceInv
<1>2. VersionsDisjoint' /\ SectDistinct'
  BY DEF SliceInv, VersionsDisjoint, SectDistinct, Begun, Opening, Repeats
<1>3. ASSUME NEW k \in Keys
      PROVE  /\ Promised(k, ValuesOf(main, k)) => Promised(k, ValuesOf(main, k))'
             /\ ValuesOf(main, k)' = ValuesOf(main, k)
             /\ ValuesOf(before, k)' = ValuesOf(before, k)
             /\ InTodo(k)' = InTodo(k)
  <2>1. /\ ValuesOf(main, k)' = ValuesOf(main, k)
        /\ ValuesOf(before, k)' = ValuesOf(before, k)
    BY DEF ValuesOf, SliceOf
  <2>2. InTodo(k)' = InTodo(k)
    BY DEF InTodo
  <2>3. ASSUME Promised(k, ValuesOf(main, k)) PROVE Promised(k, ValuesOf(main, k))'
    BY <2>1, <2>3, PromisedStays
  <2> QED
    BY <2>1, <2>2, <2>3
<1>4. SliceSoFar' /\ SliceMeansSource'
  BY <1>3 DEF SliceInv, SliceSoFar, SliceMeansSource
<1> QED
  BY <1>1, <1>2, <1>4 DEF SliceInv

\* A build whose slice of mode sect repeats no key, between any others, keeps
\* the invariant of the slice: as long as every build before was such a one.
THEOREM SliceInvariant ==
  ASSUME ~SectDuplicates
  PROVE  TransferSpec => []SliceInv
<1>1. TransferInit => SliceInv
  BY TransferInitInv
  DEF TransferInit, SliceInv, SectDistinct, VersionsDisjoint, SliceSoFar,
      SliceMeansSource, Begun, Opening
<1>2. SliceInv /\ [TransferNext]_transferVars => SliceInv'
  BY LandSlice, StartSlice, BeginChunksSlice, PassesSlice, SliceStutter
  DEF TransferNext, Passes
<1> QED
  BY <1>1, <1>2, PTL DEF TransferSpec

\* _validate_interface: a merge rids its slice of repeated keys, so that, while
\* no slice of mode sect repeats one, the versions of a key of a store are never
\* valid at the same build.
THEOREM VersionsDisjointHolds ==
  ASSUME ~SectDuplicates
  PROVE  TransferSpec => []VersionsDisjoint
BY SliceInvariant, PTL DEF SliceInv

\* _transfer: while no slice of mode sect repeats a key, a build that is done
\* leaves the current slice that its type promises, key by key.
THEOREM SliceMeansSourceHolds ==
  ASSUME ~SectDuplicates
  PROVE  TransferSpec => []SliceMeansSource
BY SliceInvariant, PTL DEF SliceInv
=============================================================================
