--------------------------- MODULE PlannerProofs ---------------------------
(***************************************************************************)
(* Proofs about the algorithms of Planner, for any graph and any specs:    *)
(* the search finds a cycle exactly if there is one, the order of the      *)
(* datasets is topological and complete, and so is the plan.               *)
(***************************************************************************)
EXTENDS Planner, FiniteSetTheorems, WellFoundedInduction, TLAPS

-----------------------------------------------------------------------------
(* Loops.  Nothing is assumed of induction but that every set of naturals   *)
(* has a least element.                                                     *)

LEMMA LeastExists ==
  ASSUME NEW S, S \subseteq Nat, S # {}
  PROVE  \E n \in S : \A m \in S : n <= m
<1> DEFINE below == {p \in Nat \X Nat : p[1] < p[2]}
<1>1. IsWellFoundedOn(below, Nat)
  BY NatLessThanWellFounded DEF OpToRel
<1> HIDE DEF below
<1>2. PICK n \in S : \A m \in S : ~(<<m, n>> \in below)
  BY <1>1, WFMin
<1>3. ASSUME NEW m \in S PROVE n <= m
  <2>1. m \in Nat /\ n \in Nat
    OBVIOUS
  <2>2. m < n => <<m, n>> \in below
    BY <2>1 DEF below
  <2> QED
    BY <1>2, <2>1, <2>2
<1> QED
  BY <1>3

LEMMA EveryNumber ==
  ASSUME NEW S, 0 \in S, \A n \in Nat : n \in S => n + 1 \in S
  PROVE  \A n \in Nat : n \in S
<1> SUFFICES ASSUME Nat \ S # {} PROVE FALSE
  OBVIOUS
<1>1. PICK n \in Nat \ S : \A m \in Nat \ S : n <= m
  BY LeastExists
<1>2. n # 0 /\ n - 1 \in Nat
  BY <1>1
<1>3. n - 1 \in S
  BY <1>1, <1>2
<1>4. (n - 1) + 1 \in S
  BY <1>2, <1>3
<1>5. (n - 1) + 1 = n
  BY <1>2
<1> QED
  BY <1>4, <1>5

\* The first n rounds of a loop.
Rounds(step, x, n, run) ==
  /\ DOMAIN run = 0..n
  /\ run[0] = x
  /\ \A k \in 1..n : run[k] = step[run[k - 1]]

LEMMA RoundsAgree ==
  ASSUME NEW step, NEW x, NEW n \in Nat, NEW m \in Nat, n <= m, NEW f, NEW g,
         Rounds(step, x, n, f), Rounds(step, x, m, g)
  PROVE  \A k \in 0..n : f[k] = g[k]
<1> DEFINE S == {k \in Nat : k <= n => f[k] = g[k]}
<1>1. 0 \in S
  BY DEF Rounds
<1>2. ASSUME NEW k \in Nat, k \in S PROVE k + 1 \in S
  <2> SUFFICES ASSUME k + 1 <= n PROVE f[k + 1] = g[k + 1]
    OBVIOUS
  <2>1. k + 1 \in 1..n /\ k + 1 \in 1..m /\ (k + 1) - 1 = k
    OBVIOUS
  <2>2. f[k] = g[k]
    BY <1>2
  <2> QED
    BY <2>1, <2>2 DEF Rounds
<1> HIDE DEF S
<1>3. \A k \in Nat : k \in S
  BY <1>1, <1>2, EveryNumber
<1> QED
  BY <1>3 DEF S

LEMMA RoundsExist ==
  ASSUME NEW step, NEW x
  PROVE  \A n \in Nat : \E run : Rounds(step, x, n, run)
<1> DEFINE S == {n \in Nat : \E run : Rounds(step, x, n, run)}
<1>1. 0 \in S
  <2>1. Rounds(step, x, 0, [k \in 0..0 |-> x])
    BY DEF Rounds
  <2> QED
    BY <2>1
<1>2. ASSUME NEW n \in Nat, n \in S PROVE n + 1 \in S
  <2>1. PICK run : Rounds(step, x, n, run)
    BY <1>2
  <2> DEFINE more == [k \in 0..(n + 1) |-> IF k <= n THEN run[k] ELSE step[run[n]]]
  <2>2. DOMAIN more = 0..(n + 1) /\ more[0] = x
    BY <2>1 DEF Rounds
  <2>3. ASSUME NEW k \in 1..(n + 1) PROVE more[k] = step[more[k - 1]]
    <3>1. k - 1 \in 0..n /\ k \in 0..(n + 1)
      OBVIOUS
    <3>2. more[k - 1] = run[k - 1]
      BY <3>1
    <3>3. CASE k <= n
      BY <2>1, <3>1, <3>2, <3>3 DEF Rounds
    <3>4. CASE k = n + 1
      BY <3>1, <3>2, <3>4
    <3> QED
      BY <3>3, <3>4
  <2> HIDE DEF more
  <2>4. Rounds(step, x, n + 1, more)
    BY <2>2, <2>3 DEF Rounds
  <2> QED
    BY <2>4
<1> HIDE DEF S
<1>3. \A n \in Nat : n \in S
  BY <1>1, <1>2, EveryNumber
<1> QED
  BY <1>3 DEF S

\* A loop does what it says.
LEMMA LoopIs ==
  ASSUME NEW step, NEW x
  PROVE  /\ Iterate(step, x)[0] = x
         /\ \A k \in Nat : Iterate(step, x)[k + 1] = step[Iterate(step, x)[k]]
<1> DEFINE part(n) == CHOOSE run : Rounds(step, x, n, run)
           all == [n \in Nat |-> part(n)[n]]
<1>1. \A n \in Nat : Rounds(step, x, n, part(n))
  BY RoundsExist
<1> HIDE DEF part
<1>2. all[0] = x
  BY <1>1 DEF Rounds
<1>3. ASSUME NEW n \in Nat, n # 0 PROVE all[n] = step[all[n - 1]]
  <2>1. n - 1 \in Nat /\ n - 1 <= n /\ n \in 1..n /\ n - 1 \in 0..(n - 1)
    BY <1>3
  <2>2. part(n - 1)[n - 1] = part(n)[n - 1]
    BY <1>1, <2>1, RoundsAgree
  <2>3. part(n)[n] = step[part(n)[n - 1]]
    BY <1>1, <2>1 DEF Rounds
  <2> QED
    BY <2>1, <2>2, <2>3
<1>4. all = [n \in Nat |-> IF n = 0 THEN x ELSE step[all[n - 1]]]
  <2> DEFINE rhs == [n \in Nat |-> IF n = 0 THEN x ELSE step[all[n - 1]]]
  <2>1. \A n \in Nat : all[n] = rhs[n]
    BY <1>2, <1>3
  <2>2. DOMAIN all = Nat /\ DOMAIN rhs = Nat
    OBVIOUS
  <2>3. all = [n \in Nat |-> all[n]] /\ rhs = [n \in Nat |-> rhs[n]]
    OBVIOUS
  <2> QED
    BY <2>1
<1> HIDE DEF all
<1> DEFINE it == Iterate(step, x)
<1>5. it = [n \in Nat |-> IF n = 0 THEN x ELSE step[it[n - 1]]]
  BY <1>4 DEF Iterate
<1> HIDE DEF it
<1>6. it[0] = x
  BY <1>5
<1>7. ASSUME NEW k \in Nat PROVE it[k + 1] = step[it[k]]
  <2>1. k + 1 \in Nat /\ k + 1 # 0 /\ (k + 1) - 1 = k
    OBVIOUS
  <2>2. it[k + 1] = step[it[(k + 1) - 1]]
    BY <1>5, <2>1
  <2> QED
    BY <2>1, <2>2
<1> QED
  BY <1>6, <1>7 DEF it
-----------------------------------------------------------------------------
(* _find_cycle.                                                             *)

LEMMA AppendIs ==
  ASSUME NEW S, NEW p \in Seq(S), NEW n \in S
  PROVE  /\ Append(p, n) \in Seq(S) /\ Len(Append(p, n)) = Len(p) + 1
         /\ \A i \in 1..Len(p) : Append(p, n)[i] = p[i]
         /\ Append(p, n)[Len(p) + 1] = n
         /\ Range(Append(p, n)) = Range(p) \cup {n}
<1>1. /\ Append(p, n) \in Seq(S) /\ Len(Append(p, n)) = Len(p) + 1
      /\ \A i \in 1..Len(p) : Append(p, n)[i] = p[i]
      /\ Append(p, n)[Len(p) + 1] = n
  OBVIOUS
<1>2. DOMAIN p = 1..Len(p) /\ DOMAIN Append(p, n) = 1..(Len(p) + 1)
  OBVIOUS
<1>3. \A i \in 1..(Len(p) + 1) : i \in 1..Len(p) \/ i = Len(p) + 1
  OBVIOUS
<1> DEFINE q == Append(p, n)
<1>4. /\ \A i \in DOMAIN q : q[i] \in Range(p) \cup {n}
      /\ \A i \in DOMAIN p : i \in DOMAIN q /\ q[i] = p[i]
      /\ Len(p) + 1 \in DOMAIN q
  BY <1>1, <1>2, <1>3 DEF Range
<1>5. Range(q) = Range(p) \cup {n}
  BY <1>1, <1>4 DEF Range
<1> QED
  BY <1>1, <1>5

LEMMA FrontIs ==
  ASSUME NEW S, NEW p \in Seq(S), p # <<>>
  PROVE  /\ Front(p) \in Seq(S) /\ Len(Front(p)) = Len(p) - 1
         /\ \A i \in 1..(Len(p) - 1) : Front(p)[i] = p[i]
         /\ Len(p) \in 1..Len(p) /\ Last(p) = p[Len(p)] /\ Last(p) \in S
         /\ Range(p) = Range(Front(p)) \cup {Last(p)}
<1>1. Len(p) \in 1..Len(p) /\ Last(p) = p[Len(p)] /\ Last(p) \in S
  BY DEF Last
<1>2. /\ Front(p) \in Seq(S) /\ Len(Front(p)) = Len(p) - 1
      /\ \A i \in 1..(Len(p) - 1) : Front(p)[i] = p[i]
  <2>1. Len(p) - 1 \in Nat /\ \A i \in 1..(Len(p) - 1) : i \in 1..Len(p)
    BY <1>1
  <2>2. Front(p) = SubSeq(p, 1, Len(p) - 1)
    BY DEF Front
  <2>3. Front(p) = [i \in 1..(Len(p) - 1) |-> p[i]]
    BY <2>1, <2>2
  <2>4. Front(p) \in Seq(S)
    BY <2>1, <2>3
  <2> QED
    BY <2>1, <2>3, <2>4
<1>3. DOMAIN p = 1..Len(p) /\ DOMAIN Front(p) = 1..(Len(p) - 1)
  BY <1>2
<1>4. \A i \in 1..Len(p) : i \in 1..(Len(p) - 1) \/ i = Len(p)
  OBVIOUS
<1>5. \A i \in 1..(Len(p) - 1) : i \in 1..Len(p)
  OBVIOUS
<1>6. Range(p) = Range(Front(p)) \cup {Last(p)}
  BY <1>1, <1>2, <1>3, <1>4, <1>5 DEF Range
<1> QED
  BY <1>1, <1>2, <1>6

\* A sequence of different elements is no longer than what it is made of.
Distinct(p) == \A i, j \in 1..Len(p) : p[i] = p[j] => i = j

LEMMA DistinctIsShort ==
  ASSUME NEW S, IsFiniteSet(S), NEW p \in Seq(S), Distinct(p)
  PROVE  /\ Len(p) <= Cardinality(S)
         /\ Len(p) = Cardinality(S) <=> Range(p) = S
<1>1. p \in Injection(1..Len(p), S)
  BY DEF Distinct, Injection, IsInjective
<1>2. Cardinality(1..Len(p)) = Len(p)
  <2>1. Len(p) \in Int /\ 1 \in Int /\ (1 > Len(p) => Len(p) = 0)
    OBVIOUS
  <2> QED
    BY <2>1, FS_Interval
<1>3. /\ Cardinality(1..Len(p)) <= Cardinality(S)
      /\ Cardinality(1..Len(p)) = Cardinality(S) <=> p \in Surjection(1..Len(p), S)
  BY <1>1, FS_Injection
<1>4. p \in Surjection(1..Len(p), S) <=> Range(p) = S
  <2>1. DOMAIN p = 1..Len(p) /\ p \in [1..Len(p) -> S]
    OBVIOUS
  <2> QED
    BY <2>1 DEF Surjection, Range
<1> QED
  BY <1>2, <1>3, <1>4

\* No set of these nodes is without one that reads no other of the set.
Settled(edges, black) ==
  /\ \A n \in black : Peers(edges, n) \cap Readers(edges) \subseteq black
  /\ \A S \in SUBSET black : S # {} => \E d \in S : Peers(edges, d) \cap S = {}

\* The grey nodes are a chain, the black ones are settled.
SearchInv(edges, s) ==
  /\ s \in Searches(Readers(edges))
  /\ Distinct(s.path) /\ Range(s.path) \cap s.black = {}
  /\ \A i \in 1..(Len(s.path) - 1) : s.path[i + 1] \in Peers(edges, s.path[i])
  /\ Settled(edges, s.black)
  /\ s.found => ~Acyclic(edges)

\* Every round of the search paints a node, until there is nothing to paint.
Ended(edges, s) == s.found \/ (s.path = <<>> /\ s.black = Readers(edges))
Painted(s) == Len(s.path) + 2 * Cardinality(s.black)

LEMMA SettledGrows ==
  ASSUME NEW edges, NEW black \in SUBSET Readers(edges), Settled(edges, black),
         NEW n \in Readers(edges) \ black,
         Peers(edges, n) \cap Readers(edges) \subseteq black
  PROVE  Settled(edges, black \cup {n})
<1>1. ASSUME NEW S \in SUBSET (black \cup {n}), S # {}
      PROVE  \E d \in S : Peers(edges, d) \cap S = {}
  <2>1. CASE S \cap black # {}
    <3>1. PICK d \in S \cap black : Peers(edges, d) \cap (S \cap black) = {}
      BY <2>1 DEF Settled
    <3>2. n \notin Peers(edges, d)
      BY DEF Settled
    <3> QED
      BY <3>1, <3>2
  <2>2. CASE S \cap black = {}
    <3>1. S = {n} /\ n \notin Peers(edges, n)
      BY <1>1, <2>2
    <3> QED
      BY <3>1
  <2> QED
    BY <2>1, <2>2
<1> QED
  BY <1>1 DEF Settled

\* A grey peer of the last grey node closes a cycle.
LEMMA GreyPeer ==
  ASSUME NEW edges, NEW s, SearchInv(edges, s), s.path # <<>>,
         NEW peer \in Range(s.path), peer \in Peers(edges, Last(s.path))
  PROVE  ~Acyclic(edges)
<1> DEFINE p == s.path
<1>1. p \in Seq(Readers(edges)) /\ DOMAIN p = 1..Len(p)
  BY DEF SearchInv, Searches
<1>2. PICK j \in 1..Len(p) : peer = p[j]
  BY <1>1 DEF Range
<1> DEFINE S == {p[i] : i \in j..Len(p)}
<1>3. \A i \in j..Len(p) : i \in 1..Len(p) /\ p[i] \in Readers(edges)
  BY <1>1
<1>4. S \in SUBSET Readers(edges) /\ S # {}
  <2>1. j \in j..Len(p)
    OBVIOUS
  <2>2. p[j] \in S
    BY <2>1
  <2> QED
    BY <1>3, <2>2
<1>5. ASSUME NEW d \in S PROVE Peers(edges, d) \cap S # {}
  <2>1. PICK i \in j..Len(p) : d = p[i]
    OBVIOUS
  <2>2. CASE i = Len(p)
    <3>1. d = Last(p)
      BY <2>1, <2>2 DEF Last
    <3>2. peer \in S
      BY <1>1, <1>2
    <3> QED
      BY <3>1, <3>2
  <2>3. CASE i # Len(p)
    <3>1. i \in 1..(Len(p) - 1) /\ i + 1 \in j..Len(p)
      BY <1>1, <2>3
    <3>2. p[i + 1] \in Peers(edges, d) /\ p[i + 1] \in S
      BY <2>1, <3>1 DEF SearchInv
    <3> QED
      BY <3>2
  <2> QED
    BY <2>2, <2>3
<1> QED
  BY <1>4, <1>5 DEF Acyclic

\* visit is called for a white node: from the loop over the nodes, or from the
\* loop over the peers of the last grey one.
LEMMA PushIs ==
  ASSUME NEW edges, IsFiniteSet(Readers(edges)), NEW s, SearchInv(edges, s),
         NEW n \in Readers(edges), n \notin s.black, n \notin Range(s.path),
         s.path # <<>> => n \in Peers(edges, Last(s.path)),
         NEW t, t = [s EXCEPT !.path = Append(s.path, n)]
  PROVE  SearchInv(edges, t) /\ Painted(t) = Painted(s) + 1
<1> DEFINE p == s.path
           q == Append(p, n)
<1>1. p \in Seq(Readers(edges)) /\ s \in Searches(Readers(edges))
  BY DEF SearchInv, Searches
<1>2. /\ q \in Seq(Readers(edges)) /\ Len(q) = Len(p) + 1
      /\ \A i \in 1..Len(p) : q[i] = p[i]
      /\ q[Len(p) + 1] = n /\ Range(q) = Range(p) \cup {n}
  BY <1>1, AppendIs
<1>0. t = [s EXCEPT !.path = q]
  OBVIOUS
<1> HIDE DEF q
<1>3. t.path = q /\ t.black = s.black /\ t.found = s.found /\ t \in Searches(Readers(edges))
  BY <1>0, <1>1, <1>2 DEF Searches
<1>4. /\ Len(p) \in Nat /\ DOMAIN p = 1..Len(p)
      /\ \A i \in 1..Len(q) : i \in 1..Len(p) \/ i = Len(p) + 1
  BY <1>1, <1>2
<1>5. Distinct(q)
  <2>1. \A i \in 1..Len(p) : p[i] # n
    BY <1>4 DEF Range
  <2> QED
    BY <1>2, <1>4, <2>1 DEF SearchInv, Distinct
<1>6. \A i \in 1..(Len(q) - 1) : q[i + 1] \in Peers(edges, q[i])
  <2> SUFFICES ASSUME NEW i \in 1..(Len(q) - 1) PROVE q[i + 1] \in Peers(edges, q[i])
    OBVIOUS
  <2>1. i \in 1..Len(p) /\ q[i] = p[i]
    BY <1>2, <1>4
  <2>2. CASE i = Len(p)
    <3>1. p # <<>> /\ p[i] = Last(p)
      BY <2>1, <2>2 DEF Last
    <3> QED
      BY <1>2, <2>1, <2>2, <3>1
  <2>3. CASE i # Len(p)
    <3>1. i \in 1..(Len(p) - 1) /\ i + 1 \in 1..Len(p)
      BY <1>4, <2>1, <2>3
    <3> QED
      BY <1>2, <2>1, <3>1 DEF SearchInv
  <2> QED
    BY <2>2, <2>3
<1>7. SearchInv(edges, t)
  BY <1>2, <1>3, <1>5, <1>6 DEF SearchInv
<1>8. Painted(t) = Painted(s) + 1
  <2>1. Cardinality(s.black) \in Nat
    BY <1>1, FS_Subset, FS_CardinalityType DEF Searches
  <2> QED
    BY <1>2, <1>3, <1>4, <2>1 DEF Painted
<1> QED
  BY <1>7, <1>8

\* visit ends: the last grey node is painted black.
LEMMA PopIs ==
  ASSUME NEW edges, IsFiniteSet(Readers(edges)), NEW s, SearchInv(edges, s),
         s.path # <<>>, PeersLeft(edges, Last(s.path), s.black) = {},
         NEW t, t = [s EXCEPT !.path = Front(s.path), !.black = s.black \cup {Last(s.path)}]
  PROVE  SearchInv(edges, t) /\ Painted(t) = Painted(s) + 1
<1> DEFINE p == s.path
           n == Last(p)
           q == Front(p)
<1>1. p \in Seq(Readers(edges)) /\ s \in Searches(Readers(edges))
      /\ s.black \in SUBSET Readers(edges)
  BY DEF SearchInv, Searches
<1>2. /\ q \in Seq(Readers(edges)) /\ Len(q) = Len(p) - 1
      /\ \A i \in 1..(Len(p) - 1) : q[i] = p[i]
      /\ Len(p) \in 1..Len(p) /\ n = p[Len(p)] /\ n \in Readers(edges)
      /\ Range(p) = Range(q) \cup {n}
  BY <1>1, FrontIs
<1>0. t = [s EXCEPT !.path = q, !.black = s.black \cup {n}]
  OBVIOUS
<1> HIDE DEF q, n
<1>3. /\ t.path = q /\ t.black = s.black \cup {n} /\ t.found = s.found
      /\ t \in Searches(Readers(edges))
  <2> DEFINE b == s.black \cup {n}
  <2>1. b \in SUBSET Readers(edges)
    BY <1>1, <1>2
  <2>2. t = [s EXCEPT !.path = q, !.black = b]
    BY <1>0
  <2> HIDE DEF b
  <2>3. t.path = q /\ t.black = b /\ t.found = s.found
    BY <1>1, <2>2 DEF Searches
  <2>4. t \in Searches(Readers(edges))
    BY <1>1, <1>2, <2>1, <2>2 DEF Searches
  <2> QED
    BY <2>3, <2>4 DEF b
<1>4. Len(p) \in Nat /\ DOMAIN p = 1..Len(p) /\ DOMAIN q = 1..(Len(p) - 1)
  BY <1>1, <1>2
<1>5. /\ \A i \in 1..(Len(p) - 1) : i \in 1..Len(p)
      /\ \A i \in 1..(Len(q) - 1) : i \in 1..(Len(p) - 1) /\ i + 1 \in 1..(Len(p) - 1)
  BY <1>2, <1>4
<1>6. Distinct(q)
  BY <1>2, <1>5 DEF SearchInv, Distinct
<1>7. n \notin s.black /\ n \notin Range(q)
  <2>1. n \notin s.black
    BY <1>2 DEF SearchInv
  <2>2. \A i \in 1..(Len(p) - 1) : i \in 1..Len(p) /\ i # Len(p)
    BY <1>4
  <2>3. \A i \in 1..(Len(p) - 1) : q[i] # n
    BY <1>2, <2>2 DEF SearchInv, Distinct
  <2> QED
    BY <1>4, <2>1, <2>3 DEF Range
<1>8. \A i \in 1..(Len(q) - 1) : q[i + 1] \in Peers(edges, q[i])
  BY <1>2, <1>5 DEF SearchInv
<1>9. Settled(edges, s.black \cup {n})
  <2>1. Peers(edges, n) \cap Readers(edges) \subseteq s.black
    BY DEF PeersLeft, n
  <2>2. Settled(edges, s.black) /\ n \in Readers(edges) \ s.black
    BY <1>2, <1>7 DEF SearchInv
  <2> QED
    BY <1>1, <2>1, <2>2, SettledGrows
<1>10. SearchInv(edges, t)
  BY <1>2, <1>3, <1>6, <1>7, <1>8, <1>9 DEF SearchInv
<1>11. Painted(t) = Painted(s) + 1
  <2>1. IsFiniteSet(s.black) /\ Cardinality(s.black) \in Nat
    BY <1>1, FS_Subset, FS_CardinalityType
  <2>2. Cardinality(s.black \cup {n}) = Cardinality(s.black) + 1
    BY <1>7, <2>1, FS_AddElement
  <2>3. Cardinality(t.black) = Cardinality(s.black) + 1 /\ Len(t.path) = Len(p) - 1
    BY <1>2, <1>3, <2>2
  <2> QED
    BY <1>4, <2>1, <2>3 DEF Painted
<1> QED
  BY <1>10, <1>11

LEMMA SearchOnIs ==
  ASSUME NEW edges, IsFiniteSet(Readers(edges)), NEW s, SearchInv(edges, s), ~s.found,
         NEW t, t = SearchOn(edges, s)
  PROVE  /\ SearchInv(edges, t)
         /\ Ended(edges, t) \/ (~Ended(edges, s) /\ Painted(t) = Painted(s) + 1)
<1> DEFINE p == s.path
           white == Readers(edges) \ (s.black \cup Range(p))
           left == PeersLeft(edges, Last(p), s.black)
           peer == CHOOSE n \in left : TRUE
<1>1. p \in Seq(Readers(edges)) /\ s \in Searches(Readers(edges))
      /\ s.black \in SUBSET Readers(edges)
  BY DEF SearchInv, Searches
<1>2. CASE p = <<>> /\ white = {}
  <2>1. t = s
    BY <1>2 DEF SearchOn
  <2>2. Range(p) = {}
    BY <1>2 DEF Range
  <2> QED
    BY <1>1, <1>2, <2>1, <2>2 DEF Ended
<1>3. CASE p = <<>> /\ white # {}
  <2> DEFINE n == CHOOSE m \in white : TRUE
  <2>1. n \in white
    BY <1>3
  <2>2. t = [s EXCEPT !.path = <<n>>]
    BY <1>3 DEF SearchOn
  <2> HIDE DEF n
  <2>3. Append(p, n) = <<n>>
    BY <1>3
  <2>4. t = [s EXCEPT !.path = Append(p, n)]
    BY <2>2, <2>3
  <2>5. ~Ended(edges, s)
    BY <2>1 DEF Ended
  <2>6. n \in Readers(edges) /\ n \notin s.black /\ n \notin Range(p)
    BY <2>1
  <2> QED
    BY <1>3, <2>4, <2>5, <2>6, PushIs
<1>4. CASE p # <<>> /\ left = {}
  <2>1. t = [s EXCEPT !.path = Front(p), !.black = s.black \cup {Last(p)}]
    BY <1>4 DEF SearchOn
  <2>2. ~Ended(edges, s)
    BY <1>4 DEF Ended
  <2> QED
    BY <1>4, <2>1, <2>2, PopIs
<1>5. CASE p # <<>> /\ left # {} /\ peer \in Range(p)
  <2>1. t = [s EXCEPT !.found = TRUE]
    BY <1>5 DEF SearchOn
  <2>2. peer \in Peers(edges, Last(p))
    BY <1>5 DEF PeersLeft
  <2>3. ~Acyclic(edges)
    BY <1>5, <2>2, GreyPeer
  <2>4. /\ t.path = p /\ t.black = s.black /\ t.found /\ t \in Searches(Readers(edges))
    BY <1>1, <2>1 DEF Searches
  <2> QED
    BY <2>3, <2>4 DEF SearchInv, Ended
<1>6. CASE p # <<>> /\ left # {} /\ peer \notin Range(p)
  <2>1. t = [s EXCEPT !.path = Append(p, peer)]
    BY <1>6 DEF SearchOn
  <2>2. peer \in Peers(edges, Last(p)) /\ peer \in Readers(edges) /\ peer \notin s.black
    BY <1>6 DEF PeersLeft
  <2>3. ~Ended(edges, s)
    BY <1>6 DEF Ended
  <2> HIDE DEF peer
  <2> QED
    BY <1>6, <2>1, <2>2, <2>3, PushIs
<1> QED
  BY <1>2, <1>3, <1>4, <1>5, <1>6

\* The check of create build_spec (_find_cycle): it reports a cycle exactly if
\* there are nodes of which each one reads another.
THEOREM FindCycleIs ==
  ASSUME NEW edges, IsFiniteSet(Readers(edges))
  PROVE  FindCycle(edges) <=> ~Acyclic(edges)
<1> DEFINE nodes == Readers(edges)
           start == [path |-> <<>>, black |-> {}, found |-> FALSE]
           step == [s \in Searches(nodes) |-> IF s.found THEN s ELSE SearchOn(edges, s)]
           at(k) == Iterate(step, start)[k]
           N == Cardinality(nodes)
           S == {k \in Nat : /\ SearchInv(edges, at(k))
                             /\ Ended(edges, at(k)) \/ Painted(at(k)) = k}
<1>1. at(0) = start /\ \A k \in Nat : at(k + 1) = step[at(k)]
  <2> HIDE DEF start, step
  <2>1. /\ Iterate(step, start)[0] = start
        /\ \A k \in Nat : Iterate(step, start)[k + 1] = step[Iterate(step, start)[k]]
    BY LoopIs
  <2> QED
    BY <2>1
<1> HIDE DEF at
<1>2. 0 \in S
  <2>1. start \in Searches(nodes)
    BY DEF Searches
  <2>2. SearchInv(edges, start)
    BY <2>1 DEF SearchInv, Distinct, Range, Settled
  <2>3. Painted(start) = 0
    BY FS_EmptySet DEF Painted
  <2> QED
    BY <1>1, <2>2, <2>3
<1>3. ASSUME NEW k \in Nat, k \in S PROVE k + 1 \in S
  <2> DEFINE s == at(k)
             t == at(k + 1)
  <2>1. SearchInv(edges, s) /\ (Ended(edges, s) \/ Painted(s) = k)
    BY <1>3
  <2>2. t = IF s.found THEN s ELSE SearchOn(edges, s)
    BY <1>1, <2>1 DEF SearchInv
  <2>3. SearchInv(edges, t) /\ (Ended(edges, t) \/ Painted(t) = k + 1)
    <3> HIDE DEF s, t
    <3>1. CASE s.found
      BY <2>1, <2>2, <3>1 DEF Ended
    <3>2. CASE ~s.found
      <4>1. t = SearchOn(edges, s)
        BY <2>2, <3>2
      <4>2. /\ SearchInv(edges, t)
            /\ Ended(edges, t) \/ (~Ended(edges, s) /\ Painted(t) = Painted(s) + 1)
        BY <2>1, <3>2, <4>1, SearchOnIs
      <4> QED
        BY <2>1, <4>2
    <3> QED
      BY <3>1, <3>2
  <2> QED
    BY <2>3
<1>4. N \in Nat
  BY FS_CardinalityType
<1>5. 2 * N \in S
  <2> HIDE DEF S, N
  <2>1. \A k \in Nat : k \in S
    BY <1>2, <1>3, EveryNumber
  <2> QED
    BY <1>4, <2>1
<1> DEFINE last == at(2 * N)
<1>6. /\ SearchInv(edges, last)
      /\ Ended(edges, last) \/ Painted(last) = 2 * N
  BY <1>5
<1>7. FindCycle(edges) = last.found
  BY DEF FindCycle, at
<1> HIDE DEF last, N
<1>8. CASE last.found
  BY <1>6, <1>7, <1>8 DEF SearchInv
<1>9. CASE ~last.found
  <2>1. /\ last.black \in SUBSET nodes /\ last.path \in Seq(nodes)
        /\ Distinct(last.path) /\ Range(last.path) \cap last.black = {}
    BY <1>6 DEF SearchInv, Searches
  <2>2. last.black = nodes
    <3> DEFINE rest == nodes \ last.black
    <3>1. /\ IsFiniteSet(last.black) /\ IsFiniteSet(rest)
          /\ Cardinality(last.black) \in Nat /\ Cardinality(rest) \in Nat
      BY <2>1, FS_Subset, FS_CardinalityType
    <3>2. N = Cardinality(last.black) + Cardinality(rest)
      <4>1. nodes = last.black \cup rest /\ last.black \cap rest = {}
        BY <2>1
      <4>2. Cardinality(last.black \cup rest)
              = Cardinality(last.black) + Cardinality(rest) - Cardinality(last.black \cap rest)
        BY <3>1, FS_Union
      <4>3. Cardinality(last.black \cap rest) = 0
        BY <4>1, FS_EmptySet
      <4>4. N = Cardinality(last.black \cup rest)
        BY <4>1 DEF N
      <4> HIDE DEF rest
      <4> QED
        BY <3>1, <4>2, <4>3, <4>4
    <3>3. last.path \in Seq(rest)
      <4>1. DOMAIN last.path = 1..Len(last.path) /\ Len(last.path) \in Nat
        BY <2>1
      <4>2. \A i \in 1..Len(last.path) : last.path[i] \in rest
        BY <2>1, <4>1 DEF Range
      <4>3. last.path = [i \in 1..Len(last.path) |-> last.path[i]]
        BY <2>1, <4>1
      <4> QED
        BY <4>1, <4>2, <4>3
    <3>4. Len(last.path) <= Cardinality(rest) /\ Len(last.path) \in Nat
      BY <2>1, <3>1, <3>3, DistinctIsShort
    <3>5. CASE Painted(last) = 2 * N
      <4>1. Cardinality(rest) = 0
        BY <3>1, <3>2, <3>4, <3>5 DEF Painted
      <4>2. rest = {}
        BY <3>1, <4>1, FS_EmptySet
      <4> QED
        BY <2>1, <4>2
    <3>6. CASE Ended(edges, last)
      BY <1>9, <3>6 DEF Ended
    <3> QED
      BY <1>6, <3>5, <3>6
  <2>3. Acyclic(edges)
    BY <1>6, <2>2 DEF SearchInv, Settled, Acyclic
  <2> QED
    BY <1>7, <1>9, <2>3
<1> QED
  BY <1>8, <1>9

\* An edge that goes away closes no cycle.
LEMMA FewerEdges ==
  ASSUME NEW edges, Acyclic(edges), NEW less \in SUBSET edges
  PROVE  Acyclic(less)
<1>1. Readers(less) \subseteq Readers(edges)
  BY DEF Readers
<1>2. \A d : Peers(less, d) \subseteq Peers(edges, d)
  BY DEF Peers
<1> QED
  BY <1>1, <1>2 DEF Acyclic
-----------------------------------------------------------------------------
(* _topo_datasets.                                                          *)

\* A list of datasets in which sources come before their readers.
InOrder(datasets, edges, order) ==
  /\ order \in Seq(datasets) /\ Distinct(order)
  /\ \A j \in 1..Len(order) : \A d \in Peers(edges, order[j]) \cap datasets :
       \E i \in 1..Len(order) : i < j /\ order[i] = d

LEMMA MinIs ==
  ASSUME NEW S \in SUBSET Nat, S # {}
  PROVE  Min(S) \in S
<1>1. \E n \in S : \A m \in S : n <= m
  BY LeastExists
<1> QED
  BY <1>1 DEF Min

\* As long as a dataset is missing, one is ready.
LEMMA OneIsReady ==
  ASSUME NEW datasets, NEW edges, Acyclic(edges), NEW order,
         Ready(datasets, edges, order) = {}
  PROVE  datasets \subseteq Range(order)
<1> DEFINE rest == datasets \ Range(order)
<1> SUFFICES ASSUME rest # {} PROVE FALSE
  OBVIOUS
<1>1. \A d \in rest : Peers(edges, d) \cap rest # {}
  BY DEF Ready
<1>2. rest \in SUBSET Readers(edges)
  BY <1>1 DEF Peers, Readers
<1> QED
  BY <1>1, <1>2 DEF Acyclic

\* The next dataset is one whose sources are all in the list.
LEMMA AddReady ==
  ASSUME NEW datasets, NEW edges, NEW order, InOrder(datasets, edges, order),
         NEW d \in Ready(datasets, edges, order)
  PROVE  /\ InOrder(datasets, edges, Append(order, d))
         /\ Len(Append(order, d)) = Len(order) + 1
<1> DEFINE more == Append(order, d)
<1>1. order \in Seq(datasets) /\ Distinct(order) /\ d \in datasets /\ d \notin Range(order)
  BY DEF InOrder, Ready
<1>2. /\ more \in Seq(datasets) /\ Len(more) = Len(order) + 1
      /\ \A i \in 1..Len(order) : more[i] = order[i]
      /\ more[Len(order) + 1] = d
  BY <1>1, AppendIs
<1> HIDE DEF more
<1>3. /\ Len(order) \in Nat /\ DOMAIN order = 1..Len(order)
      /\ \A i \in 1..Len(more) : i \in 1..Len(order) \/ i = Len(order) + 1
      /\ \A i \in 1..Len(order) : i \in 1..Len(more)
  BY <1>1, <1>2
<1>4. Distinct(more)
  <2>1. \A i \in 1..Len(order) : order[i] # d
    BY <1>1, <1>3 DEF Range
  <2> QED
    BY <1>1, <1>2, <1>3, <2>1 DEF Distinct
<1>5. ASSUME NEW j \in 1..Len(more), NEW e \in Peers(edges, more[j]) \cap datasets
      PROVE  \E i \in 1..Len(more) : i < j /\ more[i] = e
  <2>1. CASE j \in 1..Len(order)
    <3>1. PICK i \in 1..Len(order) : i < j /\ order[i] = e
      BY <1>2, <1>5, <2>1 DEF InOrder
    <3> QED
      BY <1>2, <1>3, <3>1
  <2>2. CASE j = Len(order) + 1
    <3>1. e \in Range(order)
      BY <1>2, <1>5, <2>2 DEF Ready
    <3>2. PICK i \in 1..Len(order) : order[i] = e
      BY <1>3, <3>1 DEF Range
    <3> QED
      BY <1>2, <1>3, <2>2, <3>2
  <2> QED
    BY <1>3, <2>1, <2>2
<1> QED
  BY <1>2, <1>4, <1>5 DEF InOrder, more

\* The order of the datasets (_topo_datasets) is complete, and sources come
\* before their readers.
THEOREM TopoDatasetsIs ==
  ASSUME NEW datasets \in SUBSET Nat, IsFiniteSet(datasets), NEW edges, Acyclic(edges),
         NEW order, order = TopoDatasets(datasets, edges)
  PROVE  InOrder(datasets, edges, order) /\ Range(order) = datasets
<1> DEFINE step == [list \in Seq(datasets) |->
                      LET ready == Ready(datasets, edges, list)
                      IN  IF ready = {} THEN list ELSE Append(list, Min(ready))]
           at(k) == Iterate(step, <<>>)[k]
           N == Cardinality(datasets)
           S == {k \in Nat : /\ InOrder(datasets, edges, at(k))
                             /\ k <= N => Len(at(k)) = k}
<1>1. at(0) = <<>> /\ \A k \in Nat : at(k + 1) = step[at(k)]
  <2> HIDE DEF step
  <2>1. /\ Iterate(step, <<>>)[0] = <<>>
        /\ \A k \in Nat : Iterate(step, <<>>)[k + 1] = step[Iterate(step, <<>>)[k]]
    BY LoopIs
  <2> QED
    BY <2>1
<1>2. order = at(N)
  BY DEF TopoDatasets
<1> HIDE DEF at
<1>3. N \in Nat
  BY FS_CardinalityType
<1>4. 0 \in S
  <2>1. <<>> \in Seq(datasets) /\ Len(<<>>) = 0 /\ 1..0 = {}
    OBVIOUS
  <2>2. InOrder(datasets, edges, <<>>)
    BY <2>1 DEF InOrder, Distinct
  <2> QED
    BY <1>1, <2>1, <2>2
<1>5. ASSUME NEW k \in Nat, k \in S PROVE k + 1 \in S
  <2> DEFINE list == at(k)
             ready == Ready(datasets, edges, list)
  <2>1. InOrder(datasets, edges, list) /\ (k <= N => Len(list) = k)
    BY <1>5
  <2>2. list \in Seq(datasets) /\ Distinct(list)
    BY <2>1 DEF InOrder
  <2>3. at(k + 1) = IF ready = {} THEN list ELSE Append(list, Min(ready))
    BY <1>1, <2>2
  <2>4. ready \in SUBSET Nat
    BY DEF Ready
  <2> HIDE DEF ready, list
  <2>5. CASE ready # {}
    <3>1. Min(ready) \in ready
      BY <2>4, <2>5, MinIs
    <3>2. /\ InOrder(datasets, edges, at(k + 1))
          /\ Len(at(k + 1)) = Len(list) + 1
      BY <2>1, <2>3, <2>5, <3>1, AddReady DEF ready
    <3> QED
      BY <1>3, <2>1, <3>2
  <2>6. CASE ready = {}
    <3>1. datasets \subseteq Range(list)
      BY <2>6, OneIsReady DEF ready
    <3>2. Len(list) = N
      <4>1. list \in [1..Len(list) -> datasets] /\ DOMAIN list = 1..Len(list)
        BY <2>2
      <4>2. \A i \in DOMAIN list : list[i] \in datasets
        BY <4>1
      <4>3. Range(list) \subseteq datasets
        BY <4>2 DEF Range
      <4>4. Range(list) = datasets
        BY <3>1, <4>3
      <4> QED
        BY <2>2, <4>4, DistinctIsShort
    <3>3. ~(k + 1 <= N)
      BY <1>3, <2>1, <3>2
    <3> QED
      BY <2>1, <2>3, <2>6, <3>3
  <2> QED
    BY <2>5, <2>6
<1>6. N \in S
  <2> HIDE DEF S, N
  <2>1. \A k \in Nat : k \in S
    BY <1>4, <1>5, EveryNumber
  <2> QED
    BY <1>3, <2>1
<1>7. InOrder(datasets, edges, order) /\ Len(order) = N
  BY <1>2, <1>3, <1>6
<1> QED
  BY <1>7, DistinctIsShort DEF InOrder
-----------------------------------------------------------------------------
(* _flow_plan: the loop over the datasets and their specs.                  *)

LEMMA ConcatIs ==
  ASSUME NEW S, NEW p \in Seq(S), NEW q \in Seq(S)
  PROVE  /\ p \o q \in Seq(S) /\ Len(p \o q) = Len(p) + Len(q)
         /\ \A i \in 1..Len(p) : (p \o q)[i] = p[i]
         /\ \A i \in 1..Len(q) : (p \o q)[Len(p) + i] = q[i]
<1>1. p \o q \in Seq(S) /\ Len(p \o q) = Len(p) + Len(q)
  OBVIOUS
<1>2. \A i \in 1..Len(p) : (p \o q)[i] = p[i]
  OBVIOUS
<1>3. \A i \in 1..Len(q) : (p \o q)[Len(p) + i] = q[i]
  <2> TAKE i \in 1..Len(q)
  <2>1. /\ Len(p) + i \in 1..(Len(p) + Len(q)) /\ ~(Len(p) + i <= Len(p))
        /\ (Len(p) + i) - Len(p) = i
    OBVIOUS
  <2> QED
    BY <2>1
<1> QED
  BY <1>1, <1>2, <1>3

\* What the loop is given: an order of the datasets, and for each spec its
\* steps.
PlanInput(order, steps) ==
  /\ order \in Seq(Range(order)) /\ Distinct(order)
  /\ IsFiniteSet(DOMAIN steps) /\ DOMAIN steps \subseteq Range(order) \X Nat
  /\ \A s \in DOMAIN steps :
       /\ steps[s] \in Seq(Range(steps[s]))
       /\ \A i \in 1..Len(steps[s]) : steps[s][i].spec = s

\* The steps of spec s stand in the plan one after the other, and nowhere else.
Block(plan, mine, s) ==
  \E k \in Nat :
    /\ k + Len(mine) <= Len(plan)
    /\ \A i \in 1..Len(mine) : plan[k + i] = mine[i]
    /\ \A j \in 1..Len(plan) : plan[j].spec = s => k < j /\ j <= k + Len(mine)

AllSteps(steps) == UNION {Range(steps[s]) : s \in DOMAIN steps}

\* The specs that are done stand in the plan in their order, and before those
\* to come.
PlanInv(order, steps, p) ==
  /\ p \in [todo : SUBSET DOMAIN steps, plan : Seq(AllSteps(steps))]
  /\ \A i \in 1..Len(p.plan) : p.plan[i].spec \in DOMAIN steps \ p.todo
  /\ \A i, j \in 1..Len(p.plan) : i < j =>
       \/ p.plan[i].spec = p.plan[j].spec
       \/ Before(order, p.plan[i].spec, p.plan[j].spec)
  /\ \A i \in 1..Len(p.plan) : \A t \in p.todo : Before(order, p.plan[i].spec, t)
  /\ \A s \in DOMAIN steps \ p.todo : Block(p.plan, steps[s], s)

\* One spec is before all others.
LEMMA FirstExists ==
  ASSUME NEW order, NEW steps, PlanInput(order, steps),
         NEW todo \in SUBSET DOMAIN steps, todo # {}
  PROVE  \E s \in todo : \A t \in todo \ {s} : Before(order, s, t)
<1> DEFINE P == {i \in DOMAIN order : \E s \in todo : order[i] = s[1]}
<1>1. DOMAIN order \subseteq Nat /\ DOMAIN order = 1..Len(order)
  BY DEF PlanInput
<1>2. \A s \in todo : /\ s = <<s[1], s[2]>> /\ s[2] \in Nat
                       /\ \E i \in DOMAIN order : order[i] = s[1]
  BY DEF PlanInput, Range
<1>3. PICK i \in P : \A j \in P : i <= j
  <2>1. P \subseteq Nat /\ P # {}
    BY <1>1, <1>2
  <2> QED
    BY <2>1, LeastExists
<1> DEFINE Q == {n \in Nat : <<order[i], n>> \in todo}
<1>4. PICK n \in Q : \A m \in Q : n <= m
  <2>1. Q \subseteq Nat /\ Q # {}
    BY <1>2, <1>3
  <2> QED
    BY <2>1, LeastExists
<1> DEFINE s == <<order[i], n>>
<1>5. s \in todo
  BY <1>4
<1>6. ASSUME NEW t \in todo \ {s} PROVE Before(order, s, t)
  <2>1. PICK j \in DOMAIN order : order[j] = t[1]
    BY <1>2
  <2>2. i <= j
    BY <1>3, <2>1
  <2>3. CASE i = j
    <3>1. t = <<order[i], t[2]>> /\ t[2] \in Nat
      BY <1>2, <2>1, <2>3
    <3>2. t[2] \in Q /\ t[2] # n
      BY <1>6, <3>1
    <3>3. n < t[2]
      BY <1>4, <3>2
    <3> QED
      BY <2>1, <2>3, <3>3 DEF Before
  <2>4. CASE i # j
    <3>1. i < j
      BY <1>1, <1>3, <2>1, <2>2, <2>4
    <3> QED
      BY <1>3, <2>1, <3>1 DEF Before
  <2> QED
    BY <2>3, <2>4
<1> QED
  BY <1>5, <1>6

\* A block stays when the steps of another spec are appended.
LEMMA BlockStays ==
  ASSUME NEW T, NEW plan \in Seq(T), NEW more \in Seq(T), NEW mine, NEW s,
         Len(mine) \in Nat, Block(plan, mine, s),
         \A i \in 1..Len(more) : more[i].spec # s
  PROVE  Block(plan \o more, mine, s)
<1>1. PICK k \in Nat :
        /\ k + Len(mine) <= Len(plan)
        /\ \A i \in 1..Len(mine) : plan[k + i] = mine[i]
        /\ \A j \in 1..Len(plan) : plan[j].spec = s => k < j /\ j <= k + Len(mine)
  BY DEF Block
<1> DEFINE q == plan \o more
<1>2. /\ Len(q) = Len(plan) + Len(more) /\ Len(plan) \in Nat /\ Len(more) \in Nat
      /\ \A i \in 1..Len(plan) : q[i] = plan[i]
      /\ \A i \in 1..Len(more) : q[Len(plan) + i] = more[i]
  BY ConcatIs
<1> HIDE DEF q
<1>3. \A i \in 1..Len(mine) : k + i \in 1..Len(plan)
  BY <1>1, <1>2
<1>4. ASSUME NEW j \in 1..Len(q), q[j].spec = s PROVE k < j /\ j <= k + Len(mine)
  <2>1. CASE j \in 1..Len(plan)
    BY <1>1, <1>2, <1>4, <2>1
  <2>2. CASE j \notin 1..Len(plan)
    <3>1. j - Len(plan) \in 1..Len(more) /\ Len(plan) + (j - Len(plan)) = j
      BY <1>2, <2>2
    <3> QED
      BY <1>2, <1>4, <3>1
  <2> QED
    BY <2>1, <2>2
<1>5. k + Len(mine) <= Len(q)
  BY <1>1, <1>2
<1>6. \A i \in 1..Len(mine) : q[k + i] = mine[i]
  BY <1>1, <1>2, <1>3
<1> QED
  BY <1>4, <1>5, <1>6 DEF Block, q

\* A round: the steps of the first spec to come are appended.
LEMMA PlanOnIs ==
  ASSUME NEW order, NEW steps, PlanInput(order, steps),
         NEW p, PlanInv(order, steps, p), p.todo # {},
         NEW q, q = PlanOn(order, steps, p)
  PROVE  PlanInv(order, steps, q) /\ \E s \in p.todo : q.todo = p.todo \ {s}
<1> DEFINE next == CHOOSE s \in p.todo : \A t \in p.todo \ {s} : Before(order, s, t)
           mine == steps[next]
           plan == p.plan
           more == plan \o mine
           rest == p.todo \ {next}
           T == AllSteps(steps)
<1>1. p.todo \in SUBSET DOMAIN steps /\ plan \in Seq(T)
  BY DEF PlanInv
<1>2. next \in p.todo /\ \A t \in rest : Before(order, next, t)
  <2>1. \E s \in p.todo : \A t \in p.todo \ {s} : Before(order, s, t)
    BY <1>1, FirstExists
  <2> QED
    BY <2>1
<1>3. q = [todo |-> rest, plan |-> more]
  BY DEF PlanOn
<1> HIDE DEF next
<1>4. /\ mine \in Seq(Range(mine)) /\ Range(mine) \subseteq T
      /\ \A i \in 1..Len(mine) : mine[i].spec = next
      /\ \A s \in DOMAIN steps : Len(steps[s]) \in Nat
  BY <1>1, <1>2 DEF PlanInput, AllSteps
<1>5. mine \in Seq(T)
  BY <1>4
<1> HIDE DEF mine, T
<1>6. /\ more \in Seq(T) /\ Len(more) = Len(plan) + Len(mine)
      /\ Len(plan) \in Nat /\ Len(mine) \in Nat
      /\ \A i \in 1..Len(plan) : more[i] = plan[i]
      /\ \A i \in 1..Len(mine) : more[Len(plan) + i] = mine[i]
  BY <1>1, <1>5, ConcatIs
<1>7. /\ \A i \in 1..Len(plan) : /\ plan[i].spec \in DOMAIN steps \ p.todo
                                 /\ \A t \in p.todo : Before(order, plan[i].spec, t)
      /\ \A i, j \in 1..Len(plan) : i < j =>
           \/ plan[i].spec = plan[j].spec
           \/ Before(order, plan[i].spec, plan[j].spec)
      /\ \A s \in DOMAIN steps \ p.todo : Block(plan, steps[s], s)
  BY DEF PlanInv
<1>8. \A s \in DOMAIN steps \ rest : s = next \/ s \in DOMAIN steps \ p.todo
  OBVIOUS
<1>9. ASSUME NEW s \in DOMAIN steps \ rest PROVE Block(more, steps[s], s)
  <2>1. CASE s = next
    <3>1. ASSUME NEW j \in 1..Len(more), more[j].spec = next
          PROVE  Len(plan) < j /\ j <= Len(plan) + Len(mine)
      <4>1. j \notin 1..Len(plan)
        BY <1>2, <1>6, <1>7, <3>1
      <4> QED
        BY <1>6, <4>1
    <3>2. Block(more, mine, next)
      <4> HIDE DEF more, plan
      <4>1. Len(plan) \in Nat /\ Len(plan) + Len(mine) <= Len(more)
        BY <1>6
      <4> QED
        BY <1>6, <3>1, <4>1 DEF Block
    <3> QED
      BY <2>1, <3>2 DEF mine
  <2>2. CASE s \in DOMAIN steps \ p.todo
    <3>1. s # next
      BY <1>2, <2>2
    <3>2. Block(plan, steps[s], s) /\ Len(steps[s]) \in Nat
      BY <1>4, <1>7, <2>2
    <3>3. \A i \in 1..Len(mine) : mine[i].spec # s
      BY <1>4, <3>1
    <3> QED
      BY <1>1, <1>5, <3>2, <3>3, BlockStays
  <2> QED
    BY <1>8, <2>1, <2>2
<1> HIDE DEF more, plan
<1>10. \A i \in 1..Len(more) :
         \/ i \in 1..Len(plan) /\ more[i] = plan[i]
         \/ i > Len(plan) /\ more[i].spec = next
  <2> TAKE i \in 1..Len(more)
  <2>1. CASE i \notin 1..Len(plan)
    <3>1. i - Len(plan) \in 1..Len(mine) /\ Len(plan) + (i - Len(plan)) = i
      BY <1>6, <2>1
    <3>2. more[i] = mine[i - Len(plan)]
      BY <1>6, <3>1
    <3> QED
      BY <1>4, <1>6, <2>1, <3>1, <3>2
  <2> QED
    BY <1>6, <2>1
<1>11. \A i \in 1..Len(more) : /\ more[i].spec \in DOMAIN steps \ rest
                               /\ \A t \in rest : Before(order, more[i].spec, t)
  BY <1>1, <1>2, <1>7, <1>10
<1>12. \A i, j \in 1..Len(more) : i < j =>
         \/ more[i].spec = more[j].spec
         \/ Before(order, more[i].spec, more[j].spec)
  BY <1>2, <1>6, <1>7, <1>10
<1>13. q.todo = rest /\ q.plan = more
       /\ q \in [todo : SUBSET DOMAIN steps, plan : Seq(T)]
  BY <1>1, <1>3, <1>6 DEF more, plan
<1>14. PlanInv(order, steps, q)
  BY <1>9, <1>11, <1>12, <1>13 DEF PlanInv, T
<1> QED
  BY <1>2, <1>13, <1>14

\* The plan (_flow_plan) holds the steps of every spec, in their order and one
\* after the other; the specs follow the order of their datasets.
THEOREM PlanOfIs ==
  ASSUME NEW order, NEW steps, PlanInput(order, steps),
         NEW plan, plan = PlanOf(order, steps)
  PROVE  /\ plan \in Seq(AllSteps(steps))
         /\ \A i \in 1..Len(plan) : plan[i].spec \in DOMAIN steps
         /\ \A i, j \in 1..Len(plan) : i < j =>
              \/ plan[i].spec = plan[j].spec
              \/ Before(order, plan[i].spec, plan[j].spec)
         /\ \A s \in DOMAIN steps : Block(plan, steps[s], s)
<1> DEFINE specs == DOMAIN steps
           plans == [todo : SUBSET specs, plan : Seq(AllSteps(steps))]
           step == [p \in plans |-> PlanOn(order, steps, p)]
           start == [todo |-> {s \in specs : s[1] \in Range(order)}, plan |-> <<>>]
           at(k) == Iterate(step, start)[k]
           N == Cardinality(specs)
           S == {k \in Nat : /\ PlanInv(order, steps, at(k))
                             /\ k <= N => Cardinality(at(k).todo) = N - k}
<1>1. at(0) = start /\ \A k \in Nat : at(k + 1) = step[at(k)]
  <2> HIDE DEF step, start
  <2>1. /\ Iterate(step, start)[0] = start
        /\ \A k \in Nat : Iterate(step, start)[k + 1] = step[Iterate(step, start)[k]]
    BY LoopIs
  <2> QED
    BY <2>1
<1>2. plan = at(N).plan
  BY DEF PlanOf, AllSteps
<1> HIDE DEF at
<1>3. IsFiniteSet(specs) /\ N \in Nat
  BY FS_CardinalityType DEF PlanInput
<1>4. 0 \in S
  <2>1. start.todo = specs
    BY DEF PlanInput
  <2>2. start \in plans /\ start.plan = <<>> /\ 1..Len(<<>>) = {}
    OBVIOUS
  <2>3. PlanInv(order, steps, start)
    BY <2>1, <2>2 DEF PlanInv
  <2>4. Cardinality(start.todo) = N - 0
    BY <1>3, <2>1
  <2> HIDE DEF start, N
  <2> QED
    BY <1>1, <2>3, <2>4
<1>5. ASSUME NEW k \in Nat, k \in S PROVE k + 1 \in S
  <2> DEFINE p == at(k)
             q == at(k + 1)
  <2>1. PlanInv(order, steps, p) /\ (k <= N => Cardinality(p.todo) = N - k)
    BY <1>5
  <2>2. p \in plans
    BY <2>1 DEF PlanInv
  <2>3. q = PlanOn(order, steps, p)
    BY <1>1, <2>2
  <2>4. IsFiniteSet(p.todo) /\ p.todo \in SUBSET specs
    BY <1>3, <2>2, FS_Subset
  <2> SUFFICES PlanInv(order, steps, q) /\ (k + 1 <= N => Cardinality(q.todo) = N - (k + 1))
    OBVIOUS
  <2> HIDE DEF p, q
  <2>5. CASE p.todo = {}
    <3>1. q = p
      BY <2>3, <2>5 DEF PlanOn
    <3>2. k + 1 <= N => FALSE
      BY <1>3, <2>1, <2>5, FS_EmptySet
    <3> QED
      BY <2>1, <3>1, <3>2
  <2>6. CASE p.todo # {}
    <3>1. PlanInv(order, steps, q) /\ \E s \in p.todo : q.todo = p.todo \ {s}
      BY <2>1, <2>3, <2>6, PlanOnIs
    <3>2. PICK s \in p.todo : q.todo = p.todo \ {s}
      BY <3>1
    <3>3. Cardinality(q.todo) = Cardinality(p.todo) - 1
      BY <2>4, <3>2, FS_RemoveElement
    <3> QED
      BY <1>3, <2>1, <3>1, <3>3
  <2> QED
    BY <2>5, <2>6
<1>6. N \in S
  <2> HIDE DEF S, N
  <2>1. \A k \in Nat : k \in S
    BY <1>4, <1>5, EveryNumber
  <2> QED
    BY <1>3, <2>1
<1> DEFINE last == at(N)
<1>7. PlanInv(order, steps, last) /\ Cardinality(last.todo) = 0
  BY <1>3, <1>6
<1>8. last.todo = {}
  <2>1. last.todo \in SUBSET specs
    BY <1>7 DEF PlanInv
  <2> QED
    BY <1>3, <1>7, <2>1, FS_Subset, FS_EmptySet
<1> HIDE DEF last
<1>9. plan = last.plan
  BY <1>2 DEF last
<1> QED
  BY <1>7, <1>8, <1>9 DEF PlanInv

\* Lists of none, of one and of two.
LEMMA ShortIs ==
  ASSUME NEW p, NEW a, NEW b
  PROVE  /\ p = <<>> => p \in Seq(Range(p)) /\ Len(p) = 0 /\ 1..Len(p) = {}
         /\ p = <<a>> => /\ p \in Seq(Range(p)) /\ Len(p) = 1 /\ 1..Len(p) = {1}
                         /\ p[1] = a
         /\ p = <<a, b>> => /\ p \in Seq(Range(p)) /\ Len(p) = 2 /\ 1..Len(p) = {1, 2}
                            /\ p[1] = a /\ p[2] = b
<1>1. ASSUME p = <<>> PROVE p \in Seq(Range(p)) /\ Len(p) = 0 /\ 1..Len(p) = {}
  BY <1>1
<1>2. ASSUME p = <<a>>
      PROVE  p \in Seq(Range(p)) /\ Len(p) = 1 /\ 1..Len(p) = {1} /\ p[1] = a
  <2>1. DOMAIN p = 1..1 /\ Len(p) = 1 /\ p[1] = a /\ 1..1 = {1}
    BY <1>2
  <2>2. a \in Range(p)
    BY <2>1 DEF Range
  <2>3. p \in Seq(Range(p))
    BY <1>2, <2>2
  <2> QED
    BY <2>1, <2>3
<1>3. ASSUME p = <<a, b>>
      PROVE  /\ p \in Seq(Range(p)) /\ Len(p) = 2 /\ 1..Len(p) = {1, 2}
             /\ p[1] = a /\ p[2] = b
  <2>1. DOMAIN p = 1..2 /\ Len(p) = 2 /\ p[1] = a /\ p[2] = b /\ 1..2 = {1, 2}
    BY <1>3
  <2>2. a \in Range(p) /\ b \in Range(p)
    BY <2>1 DEF Range
  <2>3. p \in Seq(Range(p))
    BY <1>3, <2>2
  <2> QED
    BY <2>1, <2>3
<1> QED
  BY <1>1, <1>2, <1>3

LEMMA AppendTwo ==
  ASSUME NEW a, NEW b
  PROVE  Append(<<a>>, b) = <<a, b>>
<1> DEFINE S == {a, b}
           p == <<a>>
           q == Append(p, b)
           r == <<a, b>>
<1>0. p \in Seq(S) /\ b \in S
  OBVIOUS
<1>1. Len(p) = 1 /\ p[1] = a
  OBVIOUS
<1>2. r \in Seq(S) /\ Len(r) = 2 /\ r[1] = a /\ r[2] = b
  OBVIOUS
<1> HIDE DEF S, p, r
<1>3. q \in Seq(S) /\ Len(q) = 2 /\ q[1] = a /\ q[2] = b
  <2>1. /\ q \in Seq(S) /\ Len(q) = Len(p) + 1
        /\ \A i \in 1..Len(p) : q[i] = p[i]
        /\ q[Len(p) + 1] = b
    BY <1>0, AppendIs
  <2>2. 1 \in 1..Len(p) /\ Len(p) + 1 = 2
    BY <1>1
  <2> QED
    BY <1>1, <2>1, <2>2
<1> HIDE DEF q
<1>4. \A i \in 1..2 : q[i] = r[i]
  BY <1>2, <1>3
<1>5. q = [i \in 1..2 |-> q[i]] /\ r = [i \in 1..2 |-> r[i]]
  BY <1>2, <1>3
<1>6. q = r
  BY <1>4, <1>5
<1> QED
  BY <1>6 DEF p, q, r

\* The steps of one spec: all different; those of a mart are of modes it has,
\* those of a store end clean, unless its tap is closed.
LEMMA SpecStepsAre ==
  ASSUME NEW s, NEW r, NEW windowed, NEW preset, NEW intake, NEW export,
         NEW mine, mine = SpecSteps(s, r, windowed, preset, intake, export)
  PROVE  /\ mine \in Seq(Range(mine))
         /\ \A i \in 1..Len(mine) : mine[i].spec = s
         /\ \A i, j \in 1..Len(mine) : mine[i] = mine[j] => i = j
         /\ r.type = "mart" => \A i \in 1..Len(mine) : mine[i].mode \in r.codes
         /\ r.type # "mart" /\ (intake # "pass" \/ r.sources # {}) =>
              /\ Len(mine) > 0
              /\ mine[Len(mine)].mode \in WindowModes
              /\ s \notin DOMAIN preset /\ {"initial", "increment"} \cap r.codes # {} =>
                   mine[Len(mine)].mode \in r.codes
<1> DEFINE manual == IF s \in DOMAIN preset THEN <<preset[s]>> ELSE <<>>
           clean == CleanMode(r, s \in windowed)
           modes == IF r.type = "mart" THEN MartSteps(r, export)
                    ELSE StoreSteps(r, intake, manual, s \in windowed)
           step(m) == [spec |-> s, mode |-> m]
<1>1. mine = Steps(s, modes)
  BY DEF SpecSteps
<1>2. clean \in WindowModes
      /\ ({"initial", "increment"} \cap r.codes # {} => clean \in r.codes)
  BY DEF CleanMode, WindowModes
<1> HIDE DEF clean
<1>3. ASSUME modes = <<>> PROVE mine = <<>>
  <2>1. mine = [i \in 1..0 |-> step(modes[i])]
    BY <1>1, <1>3 DEF Steps
  <2> QED
    BY <2>1
<1>4. ASSUME NEW a, modes = <<a>> PROVE mine = <<step(a)>>
  BY SMTT(30), <1>1, <1>4 DEF Steps
<1>5. ASSUME NEW a, NEW b, modes = <<a, b>> PROVE mine = <<step(a), step(b)>>
  BY <1>1, <1>5 DEF Steps
<1>6. CASE r.type = "mart"
  <2>1. modes = <<>> \/ \E m \in r.codes : modes = <<m>>
    BY <1>6 DEF MartSteps
  <2>2. mine = <<>> \/ \E m \in r.codes : mine = <<step(m)>>
    BY <1>3, <1>4, <2>1
  <2>3. CASE mine = <<>>
    BY <1>6, <2>3, ShortIs
  <2>4. ASSUME NEW m \in r.codes, mine = <<step(m)>>
        PROVE  /\ mine \in Seq(Range(mine)) /\ 1..Len(mine) = {1}
               /\ mine[1].spec = s /\ mine[1].mode \in r.codes
    BY SMTT(30), <2>4, ShortIs
  <2> QED
    BY <1>6, <2>2, <2>3, <2>4
<1>7. CASE r.type # "mart"
  <2> DEFINE closed == r.sources = {} /\ intake = "pass"
  <2>1. CASE s \notin DOMAIN preset
    <3>1. modes = IF closed THEN <<>> ELSE <<clean>>
      BY <1>7, <2>1 DEF StoreSteps, clean
    <3>2. CASE closed
      <4>1. mine = <<>>
        BY <1>3, <3>1, <3>2
      <4> QED
        BY <1>7, <3>2, <4>1, ShortIs
    <3>3. CASE ~closed
      <4>1. mine = <<step(clean)>>
        BY <1>4, <3>1, <3>3
      <4>2. /\ mine \in Seq(Range(mine)) /\ Len(mine) = 1 /\ 1..Len(mine) = {1}
            /\ mine[1] = step(clean)
        BY <4>1, ShortIs
      <4> QED
        BY <1>2, <1>7, <4>2
    <3> QED
      BY <3>2, <3>3
  <2>2. CASE s \in DOMAIN preset
    <3> DEFINE m == preset[s]
    <3>1. manual = <<m>> /\ DOMAIN manual = {1} /\ manual[1] = m
          /\ Append(manual, clean) = <<m, clean>>
      <4> HIDE DEF m
      <4>1. manual = <<m>>
        BY <2>2 DEF m
      <4> HIDE DEF manual
      <4>2. manual[1] = m /\ DOMAIN manual = 1..1 /\ 1..1 = {1}
        BY <4>1
      <4>3. Append(manual, clean) = <<m, clean>>
        BY <4>1, AppendTwo
      <4> QED
        BY <4>1, <4>2, <4>3
    <3>2. modes = IF closed \/ m \in WindowModes THEN <<m>> ELSE <<m, clean>>
      <4> HIDE DEF manual
      <4> QED
        BY <1>7, <3>1 DEF StoreSteps, clean
    <3> HIDE DEF m
    <3>3. CASE closed \/ m \in WindowModes
      <4>1. mine = <<step(m)>>
        BY <1>4, <3>2, <3>3
      <4>2. /\ mine \in Seq(Range(mine)) /\ Len(mine) = 1 /\ 1..Len(mine) = {1}
            /\ mine[1] = step(m)
        BY <4>1, ShortIs
      <4> QED
        BY <1>7, <2>2, <3>3, <4>2
    <3>4. CASE ~closed /\ m \notin WindowModes
      <4>1. mine = <<step(m), step(clean)>>
        BY <1>5, <3>2, <3>4
      <4>2. /\ mine \in Seq(Range(mine)) /\ Len(mine) = 2 /\ 1..Len(mine) = {1, 2}
            /\ mine[1] = step(m) /\ mine[2] = step(clean)
        BY <4>1, ShortIs
      <4>3. mine[1].mode = m /\ mine[2].mode = clean /\ mine[1] # mine[2]
        BY <1>2, <3>4, <4>2
      <4> QED
        BY <1>2, <1>7, <2>2, <4>2, <4>3
    <3> QED
      BY <3>3, <3>4
  <2> QED
    BY <2>1, <2>2
<1> QED
  BY <1>6, <1>7

\* The plan of a flow is a wave: sources first, no step twice, marts in modes
\* they have, and every store spec the tap lets through ends clean.
IsWave(specs, preset, intake, plan) ==
  /\ \A i, j \in DOMAIN plan :
       plan[i].spec[1] \in specs[plan[j].spec].sources => i < j
  /\ \A i, j \in DOMAIN plan : plan[i] = plan[j] => i = j
  /\ \A i \in DOMAIN plan :
       /\ plan[i].spec \in DOMAIN specs
       /\ specs[plan[i].spec].type = "mart" =>
            plan[i].mode \in specs[plan[i].spec].codes
  /\ \A s \in DOMAIN specs :
       specs[s].type # "mart" /\ (intake # "pass" \/ specs[s].sources # {}) =>
         \E i \in DOMAIN plan :
           /\ plan[i].spec = s
           /\ plan[i].mode \in WindowModes
           /\ s \notin DOMAIN preset
              /\ {"initial", "increment"} \cap specs[s].codes # {} =>
                plan[i].mode \in specs[s].codes
           /\ \A j \in DOMAIN plan : plan[j].spec = s => j <= i

\* The plan of a flow over a graph without cycles (_flow_plan).
THEOREM FlowPlanIs ==
  ASSUME NEW specs, IsFiniteSet(DOMAIN specs), DOMAIN specs \subseteq Nat \X Nat,
         Acyclic(EdgesOf(specs)),
         NEW windowed, NEW preset, NEW intake, NEW export,
         NEW plan, plan = FlowPlan(specs, windowed, preset, intake, export)
  PROVE  IsWave(specs, preset, intake, plan)
<1> DEFINE D == DOMAIN specs
           datasets == {s[1] : s \in D}
           edges == EdgesOf(specs)
           order == TopoDatasets(datasets, edges)
           steps == [s \in D |-> SpecSteps(s, specs[s], windowed, preset, intake, export)]
<1>1. datasets \in SUBSET Nat /\ IsFiniteSet(datasets)
  <2> DEFINE f == [s \in D |-> s[1]]
  <2>1. f \in Surjection(D, datasets)
    BY DEF Surjection
  <2>2. IsFiniteSet(datasets)
    BY <2>1, FS_Surjection
  <2>3. datasets \in SUBSET Nat
    OBVIOUS
  <2> QED
    BY <2>2, <2>3
<1>2. plan = PlanOf(order, steps)
  BY DEF FlowPlan
<1>3. \A s \in D : s[1] \in datasets /\ s \in datasets \X Nat
  OBVIOUS
<1>4. ASSUME NEW s \in D, NEW d \in specs[s].sources PROVE d \in Peers(edges, s[1])
  <2> DEFINE e == <<s[1], d>>
  <2>1. e \in edges
    BY DEF EdgesOf
  <2>2. e[1] = s[1] /\ e[2] = d
    OBVIOUS
  <2> HIDE DEF e, edges
  <2> QED
    BY <2>1, <2>2 DEF Peers
<1>5. Acyclic(edges)
  OBVIOUS
<1> HIDE DEF datasets, edges
<1>6. InOrder(datasets, edges, order) /\ Range(order) = datasets
  BY <1>1, <1>5, TopoDatasetsIs
<1>7. DOMAIN steps = D /\ \A s \in D :
        steps[s] = SpecSteps(s, specs[s], windowed, preset, intake, export)
  OBVIOUS
<1> HIDE DEF order, steps
<1>8. PlanInput(order, steps)
  <2>1. \A s \in D : /\ steps[s] \in Seq(Range(steps[s]))
                     /\ \A i \in 1..Len(steps[s]) : steps[s][i].spec = s
    BY <1>7, SpecStepsAre
  <2> QED
    BY <1>3, <1>6, <1>7, <2>1 DEF InOrder, PlanInput
<1>9. /\ plan \in Seq(AllSteps(steps))
      /\ \A i \in 1..Len(plan) : plan[i].spec \in D
      /\ \A i, j \in 1..Len(plan) : i < j =>
           \/ plan[i].spec = plan[j].spec
           \/ Before(order, plan[i].spec, plan[j].spec)
      /\ \A s \in D : Block(plan, steps[s], s)
  BY <1>2, <1>7, <1>8, PlanOfIs
<1>10. DOMAIN plan = 1..Len(plan) /\ Len(plan) \in Nat
  BY <1>9
<1>11. ASSUME NEW i \in 1..Len(plan), NEW j \in 1..Len(plan),
              plan[i].spec[1] \in specs[plan[j].spec].sources
       PROVE  i < j
  <2> DEFINE s == plan[i].spec
             t == plan[j].spec
  <2>1. s \in D /\ t \in D /\ s[1] \in Peers(edges, t[1]) \cap datasets
    BY <1>3, <1>4, <1>9, <1>11
  <2>2. order \in Seq(datasets) /\ Distinct(order) /\ DOMAIN order = 1..Len(order)
    BY <1>6 DEF InOrder
  <2>3. PICK b \in 1..Len(order) : order[b] = t[1]
    BY <1>3, <1>6, <2>1, <2>2 DEF Range
  <2>4. PICK a \in 1..Len(order) : a < b /\ order[a] = s[1]
    BY <1>6, <2>1, <2>3 DEF InOrder
  <2>5. s[1] # t[1]
    BY <2>2, <2>3, <2>4 DEF Distinct
  <2>6. ~Before(order, t, s)
    BY <2>2, <2>3, <2>4, <2>5 DEF Before, Distinct
  <2> HIDE DEF s, t
  <2>7. ~(j < i) /\ i # j
    BY <1>9, <2>5, <2>6 DEF s, t
  <2> QED
    BY <1>10, <2>7
<1>12. ASSUME NEW i \in 1..Len(plan), NEW j \in 1..Len(plan), plan[i] = plan[j]
       PROVE  i = j
  <2> DEFINE s == plan[i].spec
             mine == steps[s]
  <2>1. s \in D /\ plan[j].spec = s
    BY <1>9, <1>12
  <2>2. /\ mine \in Seq(Range(mine))
        /\ \A a, b \in 1..Len(mine) : mine[a] = mine[b] => a = b
    BY <1>7, <2>1, SpecStepsAre
  <2>3. Block(plan, mine, s)
    BY <1>9, <2>1
  <2> HIDE DEF s, mine
  <2>4. PICK k \in Nat :
          /\ \A a \in 1..Len(mine) : plan[k + a] = mine[a]
          /\ \A a \in 1..Len(plan) : plan[a].spec = s => k < a /\ a <= k + Len(mine)
    BY <2>3 DEF Block
  <2>5. i - k \in 1..Len(mine) /\ j - k \in 1..Len(mine)
        /\ k + (i - k) = i /\ k + (j - k) = j
    BY <1>10, <2>1, <2>2, <2>4 DEF s
  <2>6. mine[i - k] = mine[j - k]
    BY <1>12, <2>4, <2>5
  <2>7. i - k = j - k
    BY <2>2, <2>5, <2>6
  <2> QED
    BY <1>10, <2>7
<1>13. ASSUME NEW i \in 1..Len(plan), specs[plan[i].spec].type = "mart"
       PROVE  plan[i].mode \in specs[plan[i].spec].codes
  <2> DEFINE s == plan[i].spec
             mine == steps[s]
  <2>1. s \in D
    BY <1>9
  <2>2. /\ mine \in Seq(Range(mine))
        /\ \A a \in 1..Len(mine) : mine[a].mode \in specs[s].codes
    BY <1>7, <1>13, <2>1, SpecStepsAre
  <2>3. Block(plan, mine, s)
    BY <1>9, <2>1
  <2> HIDE DEF s, mine
  <2>4. PICK k \in Nat :
          /\ \A a \in 1..Len(mine) : plan[k + a] = mine[a]
          /\ \A a \in 1..Len(plan) : plan[a].spec = s => k < a /\ a <= k + Len(mine)
    BY <2>3 DEF Block
  <2>5. i - k \in 1..Len(mine) /\ k + (i - k) = i
    BY <1>10, <2>2, <2>4 DEF s
  <2> QED
    BY <2>2, <2>4, <2>5 DEF s
<1>14. ASSUME NEW s \in D, specs[s].type # "mart",
              intake # "pass" \/ specs[s].sources # {}
       PROVE  \E i \in 1..Len(plan) :
                /\ plan[i].spec = s
                /\ plan[i].mode \in WindowModes
                /\ s \notin DOMAIN preset
                   /\ {"initial", "increment"} \cap specs[s].codes # {} =>
                     plan[i].mode \in specs[s].codes
                /\ \A j \in 1..Len(plan) : plan[j].spec = s => j <= i
  <2> DEFINE mine == steps[s]
             n == Len(mine)
  <2>1. /\ mine \in Seq(Range(mine)) /\ n > 0
        /\ \A i \in 1..n : mine[i].spec = s
        /\ mine[n].mode \in WindowModes
        /\ s \notin DOMAIN preset
           /\ {"initial", "increment"} \cap specs[s].codes # {} =>
             mine[n].mode \in specs[s].codes
    BY <1>7, <1>14, SpecStepsAre
  <2>2. Block(plan, mine, s)
    BY <1>9
  <2>3. n \in 1..n
    BY <2>1
  <2> HIDE DEF mine
  <2>4. PICK k \in Nat :
          /\ k + n <= Len(plan)
          /\ \A a \in 1..n : plan[k + a] = mine[a]
          /\ \A a \in 1..Len(plan) : plan[a].spec = s => k < a /\ a <= k + n
    BY <2>2 DEF Block
  <2>5. k + n \in 1..Len(plan) /\ plan[k + n] = mine[n]
    BY <1>10, <2>3, <2>4
  <2> QED
    BY <2>1, <2>3, <2>4, <2>5
<1> QED
  BY ZenonT(30), <1>9, <1>10, <1>11, <1>12, <1>13, <1>14 DEF IsWave
=============================================================================
