----------------------------- MODULE PlanProofs -----------------------------
(***************************************************************************)
(* Proofs about JsonPlan for any plan files and queries.                   *)
(*                                                                         *)
(* The walks over a plan are recursive functions.  That one is well        *)
(* defined, and what it computes, is proved by looking at the least number *)
(* for which it is not so, which exists as < is well-founded.              *)
(***************************************************************************)
EXTENDS JsonPlan, SequenceTheorems, WellFoundedInduction, TLAPS

-----------------------------------------------------------------------------
(* Induction.                                                              *)

\* A set of natural numbers that is not empty has a least element.
LEMMA LeastNat ==
    ASSUME NEW T \in SUBSET Nat, T # {}
    PROVE  \E m \in T : \A k \in T : m <= k
<1>. DEFINE R == OpToRel(<, Nat)
<1>1. \A j, k \in Nat : j < k => <<j, k>> \in R
  BY DEF OpToRel
<1>2. IsWellFoundedOn(R, Nat)
  BY NatLessThanWellFounded
<1>. HIDE DEF R
<1>3. PICK m \in T : \A k \in T : <<k, m>> \notin R
  BY <1>2, WFMin
<1>4. ASSUME NEW k \in T PROVE m <= k
  <2>1. k \in Nat /\ m \in Nat
    OBVIOUS
  <2>2. ~(k < m)
    BY <1>1, <1>3, <2>1
  <2>3. QED
    BY <2>1, <2>2
<1>5. QED
  BY <1>4
-----------------------------------------------------------------------------
(* The nodes that can be reached.                                          *)

\* One step of the walk, and the nodes of the first i steps.
Grown(p, s) == s \cup UNION { KidsOf(p, m) : m \in s }

ReachedIn(p, r) ==
    LET reach[i \in 0..Len(p)] ==
          IF i = 0 THEN {r}
          ELSE LET s == reach[i - 1] IN s \cup UNION { KidsOf(p, m) : m \in s }
    IN  reach

\* The walk of Live is well defined.
LEMMA ReachedInSteps ==
    ASSUME NEW p, NEW r, Len(p) \in Nat
    PROVE  \A i \in 0..Len(p) :
             ReachedIn(p, r)[i] = IF i = 0 THEN {r} ELSE Grown(p, ReachedIn(p, r)[i - 1])
<1>. DEFINE Walk(f, n) == f = [i \in 0..n |-> IF i = 0 THEN {r} ELSE Grown(p, f[i - 1])]
            T == { n \in Nat : ~\E f : Walk(f, n) }
<1>1. T = {}
  <2>. SUFFICES ASSUME T # {} PROVE FALSE
    OBVIOUS
  <2>1. PICK n \in T : \A k \in T : n <= k
    BY LeastNat
  <2>2. n # 0
    <3>1. Walk([i \in 0..0 |-> {r}], 0)
      OBVIOUS
    <3>2. QED
      BY <3>1
  <2>3. n - 1 \in Nat /\ n - 1 \notin T
    <3>1. n \in Nat
      OBVIOUS
    <3>. HIDE DEF T
    <3>2. QED
      BY <2>1, <2>2, <3>1
  <2>4. PICK f : Walk(f, n - 1)
    BY <2>3
  <2>. DEFINE g == [i \in 0..n |-> IF i = n THEN Grown(p, f[n - 1]) ELSE f[i]]
  <2>5. ASSUME NEW i \in 0..n PROVE g[i] = IF i = 0 THEN {r} ELSE Grown(p, g[i - 1])
    <3>1. CASE i = n
      BY <2>2, <2>3, <3>1
    <3>2. CASE i # n
      <4>1. i \in 0..(n - 1) /\ (i # 0 => i - 1 \in 0..(n - 1) /\ i - 1 \in 0..n /\ i - 1 # n)
        BY <2>3, <3>2
      <4>2. f[i] = IF i = 0 THEN {r} ELSE Grown(p, f[i - 1])
        BY <2>4, <4>1
      <4>3. g[i] = f[i] /\ (i # 0 => g[i - 1] = f[i - 1])
        BY <3>2, <4>1
      <4>. HIDE DEF g
      <4>4. QED
        BY <4>2, <4>3
    <3>3. QED
      BY <3>1, <3>2
  <2>6. Walk(g, n)
    BY <2>5
  <2>7. QED
    BY <2>1, <2>6
<1>2. PICK f : Walk(f, Len(p))
  BY <1>1
<1>3. Walk(ReachedIn(p, r), Len(p))
  BY <1>2 DEF ReachedIn, Grown
<1>4. QED
  BY <1>3
\* Every pointer leads to an earlier node.
Descending(p) == \A n \in 1..Len(p) : KidsOf(p, n) \subseteq 1..(n - 1)

\* Live is the least set with the root that is closed under pointers.
LEMMA LiveLeast ==
    ASSUME NEW p, NEW r, NEW S, Len(p) \in Nat,
           r \in S, \A m \in S : KidsOf(p, m) \subseteq S
    PROVE  Live(p, r) \subseteq S
<1>. DEFINE w == ReachedIn(p, r)
            T == { i \in 0..Len(p) : ~(w[i] \subseteq S) }
<1>1. \A i \in 0..Len(p) : w[i] = IF i = 0 THEN {r} ELSE Grown(p, w[i - 1])
  BY ReachedInSteps
<1>2. Live(p, r) = w[Len(p)]
  BY DEF Live, ReachedIn
<1>. HIDE DEF w
<1>3. T = {}
  <2>. SUFFICES ASSUME T # {} PROVE FALSE
    OBVIOUS
  <2>1. PICK i \in T : \A k \in T : i <= k
    <3>1. T \in SUBSET Nat
      OBVIOUS
    <3>. HIDE DEF T
    <3>2. QED
      BY <3>1, LeastNat
  <2>2. i # 0
    BY <1>1
  <2>3. i - 1 \in 0..Len(p) /\ ~(i <= i - 1)
    BY <2>2
  <2>4. w[i - 1] \subseteq S
    BY <2>1, <2>3
  <2>5. Grown(p, w[i - 1]) \subseteq S
    BY <2>4 DEF Grown
  <2>6. QED
    BY <1>1, <2>2, <2>5
<1>4. QED
  BY <1>2, <1>3

\* If no pointer leads forward, it is closed itself, and no node lies behind the root.
LEMMA LiveClosed ==
    ASSUME NEW p, NEW r, Len(p) \in Nat, r \in 1..Len(p), Descending(p)
    PROVE  /\ r \in Live(p, r) /\ Live(p, r) \subseteq 1..r
           /\ \A m \in Live(p, r) : KidsOf(p, m) \subseteq Live(p, r)
<1>. DEFINE w == ReachedIn(p, r)
            Late(i) == /\ r \in w[i]
                       /\ \A m \in w[i] : m \in 1..(r - i) \/ KidsOf(p, m) \subseteq w[i]
            T == { i \in 0..Len(p) : ~Late(i) }
<1>1. \A i \in 0..Len(p) : w[i] = IF i = 0 THEN {r} ELSE Grown(p, w[i - 1])
  BY ReachedInSteps
<1>2. Live(p, r) = w[Len(p)]
  BY DEF Live, ReachedIn
<1>3. Live(p, r) \subseteq 1..r
  <2>1. \A m \in 1..r : KidsOf(p, m) \subseteq 1..r
    BY DEF Descending
  <2>2. r \in 1..r
    OBVIOUS
  <2>3. QED
    BY <2>1, <2>2, LiveLeast
<1>. HIDE DEF w
<1>4. T = {}
  <2>. SUFFICES ASSUME T # {} PROVE FALSE
    OBVIOUS
  <2>1. PICK i \in T : \A k \in T : i <= k
    <3>1. T \in SUBSET Nat
      OBVIOUS
    <3>. HIDE DEF T
    <3>2. QED
      BY <3>1, LeastNat
  <2>2. i # 0
    <3>1. Late(0)
      BY <1>1
    <3>2. QED
      BY <3>1
  <2>3. i - 1 \in 0..Len(p) /\ ~(i <= i - 1)
    BY <2>2
  <2>4. Late(i - 1)
    BY <2>1, <2>3
  <2>5. w[i] = Grown(p, w[i - 1])
    BY <1>1, <2>2
  <2>6. ASSUME NEW m \in w[i], ~(KidsOf(p, m) \subseteq w[i]) PROVE m \in 1..(r - i)
    <3>1. m \notin w[i - 1]
      BY <2>5, <2>6 DEF Grown
    <3>2. PICK n \in w[i - 1] : m \in KidsOf(p, n)
      BY <2>5, <3>1 DEF Grown
    <3>3. n \in 1..(r - (i - 1))
      BY <2>4, <3>1, <3>2
    <3>4. n \in 1..Len(p)
      BY <2>3, <3>3
    <3>5. m \in 1..(n - 1)
      BY <3>2, <3>4 DEF Descending
    <3>6. QED
      BY <3>3, <3>5
  <2>7. r \in w[i]
    BY <2>4, <2>5 DEF Grown
  <2>8. QED
    BY <2>6, <2>7
<1>5. Late(Len(p))
  BY <1>4
<1>6. 1..(r - Len(p)) = {}
  OBVIOUS
<1>7. QED
  BY <1>2, <1>3, <1>5, <1>6

\* u is t with the pointers to n, whose only child is k, led to k; its root is q.
WithoutNode(t, r, n, k, u, q) ==
    /\ Len(t) \in Nat /\ Len(u) = Len(t) /\ Descending(t) /\ Descending(u)
    /\ n \in 1..Len(t) /\ k \in 1..(n - 1) /\ KidsOf(t, n) = {k}
    /\ \A m \in 1..Len(t) : \A x \in KidsOf(t, m) :
         /\ x # n => x \in KidsOf(u, m)
         /\ x = n => k \in KidsOf(u, m)
    /\ r \in 1..Len(t) /\ (r = n => q = k) /\ (r # n => q = r)

\* If a node n that has the only child k is cut out, everything else that could be
\* reached still can.
LEMMA CutOut ==
    ASSUME NEW t, NEW u, NEW n, NEW k, NEW r, NEW q, WithoutNode(t, r, n, k, u, q)
    PROVE  Live(t, r) \ {n} \subseteq Live(u, q)
<1>. USE DEF WithoutNode
<1>. DEFINE S == { m \in 1..Len(t) : m \in Live(u, q) \/ (m = n /\ k \in Live(u, q)) }
<1>1. q \in 1..Len(u)
  OBVIOUS
<1>2. /\ q \in Live(u, q) /\ Live(u, q) \subseteq 1..Len(t)
      /\ \A m \in Live(u, q) : KidsOf(u, m) \subseteq Live(u, q)
  BY <1>1, LiveClosed
<1>3. r \in S
  BY <1>2
<1>4. ASSUME NEW m \in S, NEW x \in KidsOf(t, m) PROVE x \in S
  <2>1. x \in 1..Len(t)
    BY <1>4 DEF Descending
  <2>2. CASE m \in Live(u, q)
    BY <1>2, <1>4, <2>1, <2>2
  <2>3. CASE m = n /\ k \in Live(u, q)
    BY <1>4, <2>1, <2>3
  <2>4. QED
    BY <1>4, <2>2, <2>3
<1>. HIDE DEF S
<1>5. Live(t, r) \subseteq S
  BY <1>3, <1>4, LiveLeast
<1>6. QED
  BY <1>5 DEF S

\* The same if n keeps its place and takes over the children of its only child k.
LEMMA TakenOver ==
    ASSUME NEW t, NEW u, Len(t) \in Nat, Len(u) = Len(t), Descending(u),
           NEW n \in 1..Len(t), NEW k \in 1..(n - 1), KidsOf(t, n) = {k},
           KidsOf(u, n) = KidsOf(t, k),
           \A m \in 1..Len(t) \ {n} : KidsOf(u, m) = KidsOf(t, m),
           NEW r \in 1..Len(t), Descending(t)
    PROVE  Live(t, r) \ {k} \subseteq Live(u, r)
<1>. DEFINE S == { m \in 1..Len(t) : m \in Live(u, r) \/ (m = k /\ n \in Live(u, r)) }
<1>1. /\ r \in Live(u, r) /\ Live(u, r) \subseteq 1..Len(t)
      /\ \A m \in Live(u, r) : KidsOf(u, m) \subseteq Live(u, r)
  BY LiveClosed
<1>2. r \in S
  BY <1>1
<1>3. ASSUME NEW m \in S, NEW x \in KidsOf(t, m) PROVE x \in S
  <2>1. x \in 1..Len(t)
    BY <1>3 DEF Descending
  <2>2. CASE m \in Live(u, r) /\ m # n
    BY <1>1, <1>3, <2>1, <2>2
  <2>3. CASE m \in Live(u, r) /\ m = n
    BY <1>3, <2>1, <2>3
  <2>4. CASE m = k /\ n \in Live(u, r)
    BY <1>1, <1>3, <2>1, <2>4
  <2>5. QED
    BY <1>3, <2>2, <2>3, <2>4
<1>. HIDE DEF S
<1>4. Live(t, r) \subseteq S
  BY <1>2, <1>3, LiveLeast
<1>5. QED
  BY <1>4 DEF S

\* Live depends on nothing but the pointers.
LEMMA SameLive ==
    ASSUME NEW t, NEW u, Len(t) \in Nat, Len(u) = Len(t), Descending(t),
           \A m \in 1..Len(t) : KidsOf(u, m) = KidsOf(t, m),
           NEW r \in 1..Len(t)
    PROVE  Live(t, r) \subseteq Live(u, r)
<1>1. Descending(u)
  BY DEF Descending
<1>2. /\ r \in Live(u, r) /\ Live(u, r) \subseteq 1..Len(t)
      /\ \A m \in Live(u, r) : KidsOf(u, m) \subseteq Live(u, r)
  BY <1>1, LiveClosed
<1>3. \A m \in Live(u, r) : KidsOf(t, m) \subseteq Live(u, r)
  BY <1>2
<1>4. QED
  BY <1>2, <1>3, LiveLeast

-----------------------------------------------------------------------------
(* The trees of pruneTree.                                                 *)

Kinds == {"join", "agg", "sort", "source", "result", "empty"}

TreeNode == [type : STRING, kids : Seq(Nat), kind : Kinds, conds : {<<>>},
             table : STRING \cup {"dates"}]

\* A function on 1..n is a sequence.
LEMMA FcnIsSeq ==
    ASSUME NEW S, NEW n \in Nat, NEW f \in [1..n -> S]
    PROVE  f \in Seq(S) /\ Len(f) = n
<1>1. f \in Seq(S)
  BY SeqDef
<1>2. Len(f) \in Nat /\ 1..Len(f) = 1..n
  BY <1>1, LenProperties
<1>3. QED
  BY <1>1, <1>2

\* The children of a node as a set.
LEMMA KidsAre ==
    ASSUME NEW t \in Seq(TreeNode), NEW n \in 1..Len(t)
    PROVE  /\ t[n] \in TreeNode /\ t[n].kids \in Seq(Nat) /\ Len(t[n].kids) \in Nat
           /\ KidsOf(t, n) = { t[n].kids[i] : i \in 1..Len(t[n].kids) }
           /\ Len(t[n].kids) = 1 => KidsOf(t, n) = {t[n].kids[1]}
           /\ t[n].kids # <<>> => t[n].kids[1] \in KidsOf(t, n)
<1>1. t[n] \in TreeNode /\ t[n].kids \in Seq(Nat)
  <2>1. t[n] \in TreeNode
    BY ElementOfSeq
  <2>2. QED
    BY <2>1 DEF TreeNode
<1>2. Len(t[n].kids) \in Nat /\ DOMAIN t[n].kids = 1..Len(t[n].kids)
  BY <1>1, LenProperties
<1>3. KidsOf(t, n) = { t[n].kids[i] : i \in 1..Len(t[n].kids) }
  BY <1>2 DEF KidsOf, ToSet
<1>4. t[n].kids # <<>> => Len(t[n].kids) >= 1
  BY <1>1, EmptySeq, LenProperties
<1>5. QED
  BY <1>1, <1>2, <1>3, <1>4

\* What Rewired does to a tree.
LEMMA RewiredTree ==
    ASSUME NEW t \in Seq(TreeNode), Descending(t), NEW n \in 1..Len(t), NEW k \in 1..n,
           NEW u, u = Rewired(t, n, k)
    PROVE  /\ u \in Seq(TreeNode) /\ Len(u) = Len(t) /\ Descending(u)
           /\ \A m \in 1..Len(t) :
                /\ u[m].type = t[m].type /\ u[m].kind = t[m].kind /\ u[m].table = t[m].table
                /\ Len(u[m].kids) = Len(t[m].kids)
                /\ \A i \in 1..Len(t[m].kids) :
                     u[m].kids[i] = IF t[m].kids[i] = n THEN k ELSE t[m].kids[i]
                /\ KidsOf(u, m) = { IF x = n THEN k ELSE x : x \in KidsOf(t, m) }
<1>1. Len(t) \in Nat /\ DOMAIN t = 1..Len(t)
  BY LenProperties
<1>. DEFINE kids(m) == [i \in DOMAIN t[m].kids |-> IF t[m].kids[i] = n THEN k ELSE t[m].kids[i]]
<1>2. u = [m \in 1..Len(t) |-> [t[m] EXCEPT !.kids = kids(m)]]
  BY <1>1 DEF Rewired
<1>3. ASSUME NEW m \in 1..Len(t)
      PROVE  /\ kids(m) \in Seq(Nat) /\ Len(kids(m)) = Len(t[m].kids)
             /\ \A i \in 1..Len(t[m].kids) :
                  kids(m)[i] = IF t[m].kids[i] = n THEN k ELSE t[m].kids[i]
  <2>1. /\ t[m].kids \in Seq(Nat) /\ Len(t[m].kids) \in Nat
        /\ DOMAIN t[m].kids = 1..Len(t[m].kids)
    BY KidsAre, LenProperties
  <2>2. \A i \in 1..Len(t[m].kids) : t[m].kids[i] \in Nat
    BY <2>1, ElementOfSeq
  <2>3. kids(m) \in [1..Len(t[m].kids) -> Nat]
    BY <2>1, <2>2
  <2>4. QED
    BY <2>1, <2>3, FcnIsSeq
<1>. HIDE DEF kids
<1>4. ASSUME NEW m \in 1..Len(t)
      PROVE  /\ u[m] \in TreeNode /\ u[m].kids = kids(m)
             /\ u[m].type = t[m].type /\ u[m].kind = t[m].kind /\ u[m].table = t[m].table
  <2>1. t[m] \in TreeNode /\ u[m] = [t[m] EXCEPT !.kids = kids(m)]
    BY <1>2, KidsAre
  <2>2. kids(m) \in Seq(Nat)
    BY <1>3
  <2>3. QED
    BY <2>1, <2>2 DEF TreeNode
<1>5. u \in Seq(TreeNode) /\ Len(u) = Len(t)
  <2>1. u \in [1..Len(t) -> TreeNode]
    BY <1>2, <1>4
  <2>2. QED
    BY <1>1, <2>1, FcnIsSeq
<1>6. ASSUME NEW m \in 1..Len(t)
      PROVE  KidsOf(u, m) = { IF x = n THEN k ELSE x : x \in KidsOf(t, m) }
  <2>1. /\ KidsOf(t, m) = { t[m].kids[i] : i \in 1..Len(t[m].kids) }
        /\ KidsOf(u, m) = { u[m].kids[i] : i \in 1..Len(u[m].kids) }
    <3>1. KidsOf(t, m) = { t[m].kids[i] : i \in 1..Len(t[m].kids) }
      BY KidsAre
    <3>2. m \in 1..Len(u)
      BY <1>5
    <3>. HIDE DEF Descending
    <3>3. KidsOf(u, m) = { u[m].kids[i] : i \in 1..Len(u[m].kids) }
      BY <1>5, <3>2, KidsAre
    <3>4. QED
      BY <3>1, <3>3
  <2>2. /\ Len(u[m].kids) = Len(t[m].kids)
        /\ \A i \in 1..Len(t[m].kids) :
             u[m].kids[i] = IF t[m].kids[i] = n THEN k ELSE t[m].kids[i]
    BY <1>3, <1>4
  <2>3. ASSUME NEW y \in KidsOf(u, m)
        PROVE  \E x \in KidsOf(t, m) : y = IF x = n THEN k ELSE x
    <3>1. PICK i \in 1..Len(t[m].kids) : y = u[m].kids[i]
      BY <2>1, <2>2
    <3>2. t[m].kids[i] \in KidsOf(t, m)
      BY <2>1
    <3>3. QED
      BY <2>2, <3>1, <3>2
  <2>4. ASSUME NEW x \in KidsOf(t, m)
        PROVE  (IF x = n THEN k ELSE x) \in KidsOf(u, m)
    <3>1. PICK i \in 1..Len(t[m].kids) : x = t[m].kids[i]
      BY <2>1
    <3>2. u[m].kids[i] \in KidsOf(u, m)
      BY <2>1, <2>2
    <3>3. QED
      BY <2>2, <3>1, <3>2
  <2>5. QED
    BY <2>3, <2>4
<1>7. Descending(u)
  BY <1>1, <1>5, <1>6 DEF Descending
<1>8. QED
  BY <1>3, <1>4, <1>5, <1>6, <1>7

\* FirstBelow goes down from n and finds a node of one of the types, or none.
FirstFcn(t, types) ==
    LET first[m \in 0..Len(t)] ==
          IF m = 0 \/ t[m].type \in types THEN m
          ELSE IF t[m].kids = <<>> THEN 0 ELSE first[t[m].kids[1]]
    IN  first

\* The way down is well defined, as every pointer leads to an earlier node.
LEMMA FirstStep ==
    ASSUME NEW t \in Seq(TreeNode), Descending(t), NEW types
    PROVE  \A m \in 0..Len(t) :
             FirstFcn(t, types)[m] =
               IF m = 0 \/ t[m].type \in types THEN m
               ELSE IF t[m].kids = <<>> THEN 0 ELSE FirstFcn(t, types)[t[m].kids[1]]
<1>. DEFINE Stop(m) == m = 0 \/ t[m].type \in types
            Walk(f, n) == f = [m \in 0..n |-> IF Stop(m) THEN m
                                              ELSE IF t[m].kids = <<>> THEN 0 ELSE f[t[m].kids[1]]]
            T == { n \in 0..Len(t) : ~\E f : Walk(f, n) }
<1>1. Len(t) \in Nat
  BY LenProperties
<1>2. \A m \in 1..Len(t) : t[m].kids # <<>> => t[m].kids[1] \in 1..(m - 1)
  BY KidsAre DEF Descending
<1>3. T = {}
  <2>. SUFFICES ASSUME T # {} PROVE FALSE
    OBVIOUS
  <2>1. PICK n \in T : \A k \in T : n <= k
    <3>1. T \in SUBSET Nat
      BY <1>1
    <3>. HIDE DEF T
    <3>2. QED
      BY <3>1, LeastNat
  <2>2. n # 0
    <3>1. Walk([m \in 0..0 |-> 0], 0)
      OBVIOUS
    <3>2. QED
      BY <3>1
  <2>3. n \in 1..Len(t) /\ n - 1 \in 0..Len(t) /\ n - 1 \notin T
    <3>1. n \in 0..Len(t)
      OBVIOUS
    <3>. HIDE DEF T
    <3>2. QED
      BY <1>1, <2>1, <2>2, <3>1
  <2>4. PICK f : Walk(f, n - 1)
    BY <2>3
  <2>. DEFINE v == IF Stop(n) THEN n ELSE IF t[n].kids = <<>> THEN 0 ELSE f[t[n].kids[1]]
              g == [m \in 0..n |-> IF m = n THEN v ELSE f[m]]
  <2>5. ASSUME NEW m \in 0..n
        PROVE  g[m] = IF Stop(m) THEN m
                      ELSE IF t[m].kids = <<>> THEN 0 ELSE g[t[m].kids[1]]
    <3>. HIDE DEF Stop, T
    <3>1. /\ m # n => m \in 0..(n - 1)
          /\ ~Stop(m) => m \in 1..Len(t)
      BY <1>1, <2>3 DEF Stop
    <3>2. ~Stop(m) /\ t[m].kids # <<>> => g[t[m].kids[1]] = f[t[m].kids[1]]
      <4>1. ~Stop(m) /\ t[m].kids # <<>> => t[m].kids[1] \in 1..(m - 1)
        BY <1>2, <3>1
      <4>2. ~Stop(m) /\ t[m].kids # <<>> => t[m].kids[1] \in 0..n /\ t[m].kids[1] # n
        BY <1>1, <2>3, <4>1
      <4>3. QED
        BY <4>2
    <3>3. CASE m = n
      BY <3>2, <3>3
    <3>4. CASE m # n
      BY <2>4, <3>1, <3>2, <3>4
    <3>5. QED
      BY <3>3, <3>4
  <2>6. Walk(g, n)
    BY <2>5
  <2>7. QED
    BY <2>1, <2>6
<1>4. PICK f : Walk(f, Len(t))
  BY <1>1, <1>3
<1>5. Walk(FirstFcn(t, types), Len(t))
  BY <1>4 DEF FirstFcn
<1>6. QED
  BY <1>5

\* What FirstBelow returns is 0 or a node of one of the types that is not behind n.
LEMMA FirstBelowFinds ==
    ASSUME NEW t \in Seq(TreeNode), Descending(t), NEW types, NEW n \in 1..Len(t)
    PROVE  /\ FirstBelow(t, n, types) \in 0..n
           /\ FirstBelow(t, n, types) # 0 => t[FirstBelow(t, n, types)].type \in types
<1>. DEFINE first == FirstFcn(t, types)
            Found(m) == first[m] \in 0..m /\ (first[m] # 0 => t[first[m]].type \in types)
            T == { m \in 0..Len(t) : ~Found(m) }
<1>1. Len(t) \in Nat
  BY LenProperties
<1>2. \A m \in 1..Len(t) : t[m].kids # <<>> => t[m].kids[1] \in 1..(m - 1)
  BY KidsAre DEF Descending
<1>3. \A m \in 0..Len(t) :
        first[m] = IF m = 0 \/ t[m].type \in types THEN m
                   ELSE IF t[m].kids = <<>> THEN 0 ELSE first[t[m].kids[1]]
  BY FirstStep
<1>4. FirstBelow(t, n, types) = first[n]
  BY DEF FirstBelow, FirstFcn
<1>. HIDE DEF first
<1>5. T = {}
  <2>. SUFFICES ASSUME T # {} PROVE FALSE
    OBVIOUS
  <2>1. PICK m \in T : \A k \in T : m <= k
    <3>1. T \in SUBSET Nat
      BY <1>1
    <3>. HIDE DEF T
    <3>2. QED
      BY <3>1, LeastNat
  <2>2. m \in 0..Len(t) /\ ~Found(m)
    OBVIOUS
  <2>3. m # 0 /\ t[m].type \notin types /\ t[m].kids # <<>>
    BY <1>1, <1>3, <2>2
  <2>4. t[m].kids[1] \in 1..(m - 1) /\ first[m] = first[t[m].kids[1]]
    BY <1>1, <1>2, <1>3, <2>2, <2>3
  <2>5. Found(t[m].kids[1])
    <3>1. t[m].kids[1] \in 0..Len(t) /\ ~(m <= t[m].kids[1])
      BY <1>1, <2>2, <2>4
    <3>2. QED
      BY <2>1, <3>1
  <2>6. QED
    BY <1>1, <2>2, <2>4, <2>5
<1>6. Found(n)
  BY <1>1, <1>5
<1>7. QED
  BY <1>4, <1>6

-----------------------------------------------------------------------------
(* The invariant of pruneTree.                                             *)

\* The nodes that must not get lost.
Kept == FileScans \cup FileKinds("join")

\* The types that Exchanged moves about, and those of the nodes that are cut out.
Moved == {"Aggregate"} \cup Sorts
Dropped == Moved \cup Gather \cup {"Hash"}

\* The tree t with the root r keeps what it must, and its bitmap scans from the
\* node n on have the children they have in the file.
TreeInv(t, r, n) ==
    /\ t \in Seq(TreeNode) /\ Len(t) = Len(file) /\ Descending(t)
    /\ r \in 1..Len(file)
    /\ \A m \in 1..Len(file) : t[m].type # file[m].type => t[m].type \in Moved /\ file[m].type \in Moved
    /\ \A m \in 1..Len(file) : t[m].kind \in {"agg", "sort"} => t[m].type \in Moved
    /\ \A m \in 1..Len(file) :
         n <= m /\ file[m].type \in Bitmap => KidsOf(t, m) \subseteq KidsOf(file, m)
    /\ Kept \subseteq Live(t, r)

PruneInv ==
    phase \in {"prune", "enrich"} =>
      /\ PlanFile(file)
      /\ TreeInv(tree, root, at)
      /\ phase = "prune" => at \in 1..Len(file) /\ root = Len(file)

\* No node that must be kept has a type that pruneTree cuts out.
LEMMA FileTypes ==
    ASSUME PlanFile(file)
    PROVE  /\ Len(file) \in Nat \ {0} /\ DOMAIN file = 1..Len(file)
           /\ Kept \subseteq 1..Len(file)
           /\ \A n \in Kept : file[n].type \notin Dropped
<1>1. Len(file) \in Nat \ {0} /\ DOMAIN file = 1..Len(file)
  BY EmptySeq, LenProperties DEF PlanFile
<1>2. Kept \subseteq 1..Len(file)
  BY <1>1 DEF Kept, FileScans, FileKinds
<1>3. \A x : KindOf(x) \in {"source", "join"} => x \notin Dropped
  BY DEF KindOf, Dropped, Moved, Sorts, Gather, Bitmap
<1>4. \A n \in Kept : KindOf(file[n].type) \in {"source", "join"}
  BY DEF Kept, FileScans, FileKinds
<1>5. QED
  BY <1>1, <1>2, <1>3, <1>4

\* A dropped node with one child is replaced by it.
LEMMA DropKeeps ==
    ASSUME PlanFile(file), NEW t, NEW r, NEW from \in Nat, TreeInv(t, r, from),
           NEW n \in 1..Len(file), t[n].type \in Dropped, Len(t[n].kids) = 1,
           NEW u, u = Rewired(t, n, t[n].kids[1]),
           NEW q, q = IF r = n THEN t[n].kids[1] ELSE r
    PROVE  TreeInv(u, q, from)
<1>. DEFINE k == t[n].kids[1]
<1>1. /\ t \in Seq(TreeNode) /\ Len(t) = Len(file) /\ Len(t) \in Nat /\ Descending(t)
      /\ r \in 1..Len(t) /\ Kept \subseteq Live(t, r)
  BY FileTypes DEF TreeInv
<1>2. KidsOf(t, n) = {k} /\ k \in 1..(n - 1)
  BY <1>1, KidsAre DEF Descending
<1>. HIDE DEF k
<1>3. /\ u \in Seq(TreeNode) /\ Len(u) = Len(t) /\ Descending(u)
      /\ \A m \in 1..Len(t) :
           /\ u[m].type = t[m].type /\ u[m].kind = t[m].kind
           /\ KidsOf(u, m) = { IF x = n THEN k ELSE x : x \in KidsOf(t, m) }
  <2>1. k \in 1..n /\ u = Rewired(t, n, k)
    BY <1>2 DEF k
  <2>2. QED
    BY <1>1, <2>1, RewiredTree
<1>4. file[n].type \in Dropped
  BY DEF TreeInv, Dropped
<1>5. Kept \subseteq Live(u, q)
  <2>1. Live(t, r) \ {n} \subseteq Live(u, q)
    <3>1. (r = n => q = k) /\ (r # n => q = r)
      BY DEF k
    <3>2. \A m \in 1..Len(t) : \A x \in KidsOf(t, m) :
            /\ x # n => x \in KidsOf(u, m)
            /\ x = n => k \in KidsOf(u, m)
      BY <1>3
    <3>3. n \in 1..Len(t)
      BY <1>1
    <3>4. WithoutNode(t, r, n, k, u, q)
      BY <1>1, <1>2, <1>3, <3>1, <3>2, <3>3 DEF WithoutNode
    <3>5. QED
      BY <3>4, CutOut
  <2>2. n \notin Kept
    BY <1>4, FileTypes
  <2>3. QED
    BY <1>1, <2>1, <2>2
<1>6. ASSUME NEW m \in 1..Len(file), from <= m, file[m].type \in Bitmap
      PROVE  KidsOf(u, m) \subseteq KidsOf(file, m)
  <2>1. KidsOf(t, m) \subseteq KidsOf(file, m)
    BY <1>6 DEF TreeInv
  <2>2. n \notin KidsOf(file, m)
    <3>1. \A x \in KidsOf(file, m) : file[x].type \in MakesBitmap
      BY <1>6, FileTypes DEF PlanFile
    <3>2. file[n].type \notin MakesBitmap
      BY <1>4 DEF Dropped, Moved, Sorts, Gather, MakesBitmap
    <3>3. QED
      BY <3>1, <3>2
  <2>3. QED
    BY <1>1, <1>3, <1>6, <2>1, <2>2
<1>7. q \in 1..Len(file)
  BY <1>1, <1>2 DEF k
<1>8. \A m \in 1..Len(file) : /\ u[m].type # file[m].type => u[m].type \in Moved /\ file[m].type \in Moved
                              /\ u[m].kind \in {"agg", "sort"} => u[m].type \in Moved
  BY <1>1, <1>3 DEF TreeInv
<1>9. QED
  BY <1>1, <1>3, <1>5, <1>6, <1>7, <1>8 DEF TreeInv

\* removeDeepAggregate and removeDeepSort keep the invariant, and the type and the
\* number of children of every node, if they start below the root.
LEMMA RemovedKeeps ==
    ASSUME PlanFile(file), NEW t, NEW r, NEW from \in Nat, TreeInv(t, r, from),
           NEW n \in 1..Len(file), n < r, NEW types \in SUBSET Moved
    PROVE  /\ TreeInv(RemovedBelow(t, n, types), r, from)
           /\ \A m \in 1..Len(file) :
                /\ RemovedBelow(t, n, types)[m].type = t[m].type
                /\ Len(RemovedBelow(t, n, types)[m].kids) = Len(t[m].kids)
<1>. DEFINE m == FirstBelow(t, n, types)
            k == t[m].kids[1]
            u == Rewired(t, m, k)
<1>1. /\ t \in Seq(TreeNode) /\ Len(t) = Len(file) /\ Len(t) \in Nat /\ Descending(t)
      /\ r \in 1..Len(t)
  BY FileTypes DEF TreeInv
<1>2. m \in 0..n /\ (m # 0 => t[m].type \in types)
  BY <1>1, FirstBelowFinds
<1>3. RemovedBelow(t, n, types) = IF m # 0 /\ Len(t[m].kids) = 1 THEN u ELSE t
  BY DEF RemovedBelow
<1>4. CASE m # 0 /\ Len(t[m].kids) = 1
  <2>. HIDE DEF m
  <2>1. m \in 1..Len(file) /\ r # m /\ t[m].type \in Dropped
    BY <1>1, <1>2, <1>4 DEF Dropped
  <2>2. TreeInv(u, r, from)
    <3>1. r = IF r = m THEN k ELSE r
      BY <2>1
    <3>. HIDE DEF u
    <3>2. u = Rewired(t, m, k)
      BY DEF u
    <3>. HIDE DEF k
    <3>3. k = t[m].kids[1]
      BY DEF k
    <3>4. QED
      BY <1>4, <2>1, <3>1, <3>2, <3>3, DropKeeps
  <2>3. k \in 1..m
    <3>1. KidsOf(t, m) = {k}
      BY <1>1, <1>4, <2>1, KidsAre
    <3>. HIDE DEF k
    <3>2. k \in 1..(m - 1)
      BY <1>1, <2>1, <3>1 DEF Descending
    <3>3. QED
      BY <2>1, <3>2
  <2>4. \A x \in 1..Len(file) : u[x].type = t[x].type /\ Len(u[x].kids) = Len(t[x].kids)
    <3>. HIDE DEF k
    <3>1. QED
      BY <1>1, <2>1, <2>3, RewiredTree
  <2>5. RemovedBelow(t, n, types) = u
    BY <1>3, <1>4
  <2>6. QED
    BY <2>2, <2>4, <2>5
<1>5. CASE ~(m # 0 /\ Len(t[m].kids) = 1)
  <2>1. RemovedBelow(t, n, types) = t
    BY <1>3, <1>5
  <2>2. QED
    BY <2>1
<1>6. QED
  BY <1>4, <1>5

\* A bitmap scan that takes over the children of its only child keeps everything
\* else, and from the next node on all bitmap scans have the children of the file.
LEMMA CollapsedKeeps ==
    ASSUME PlanFile(file), NEW t, NEW r, NEW n \in 1..Len(file), TreeInv(t, r, n)
    PROVE  /\ TreeInv(Collapsed(t, n), r, n + 1)
           /\ Collapsed(t, n)[n].type = t[n].type
<1>. DEFINE k == t[n].kids[1]
            u == [t EXCEPT ![n].kids = t[k].kids]
<1>1. /\ t \in Seq(TreeNode) /\ Len(t) = Len(file) /\ Len(t) \in Nat /\ Descending(t)
      /\ r \in 1..Len(t) /\ Kept \subseteq Live(t, r) /\ DOMAIN t = 1..Len(t)
  BY FileTypes, LenProperties DEF TreeInv
<1>2. CASE t[n].type \in Bitmap /\ Len(t[n].kids) = 1 /\ t[k].type \in Bitmap
  <2>1. KidsOf(t, n) = {k} /\ k \in 1..(n - 1)
    BY <1>1, <1>2, KidsAre DEF Descending
  <2>. HIDE DEF k
  <2>2. k \in 1..Len(t) /\ k # n
    BY <1>1, <2>1
  <2>3. t[n] \in TreeNode /\ t[k] \in TreeNode /\ t[k].kids \in Seq(Nat)
    BY <1>1, <2>2, KidsAre
  <2>4. /\ u[n] \in TreeNode /\ u[n].kids = t[k].kids
        /\ u[n].type = t[n].type /\ u[n].kind = t[n].kind
        /\ \A m \in 1..Len(t) \ {n} : u[m] = t[m]
    BY <1>1, <2>3 DEF TreeNode
  <2>5. u \in Seq(TreeNode) /\ Len(u) = Len(t)
    <3>1. u = [m \in 1..Len(t) |-> u[m]]
      BY <1>1
    <3>2. \A m \in 1..Len(t) : u[m] \in TreeNode
      BY <1>1, <2>4, ElementOfSeq
    <3>. HIDE DEF u
    <3>3. u \in [1..Len(t) -> TreeNode]
      BY <3>1, <3>2
    <3>4. QED
      BY <1>1, <3>3, FcnIsSeq
  <2>. HIDE DEF u
  <2>6. KidsOf(u, n) = KidsOf(t, k) /\ \A m \in 1..Len(t) \ {n} : KidsOf(u, m) = KidsOf(t, m)
    BY <2>4 DEF KidsOf
  <2>7. Descending(u)
    BY <1>1, <2>1, <2>2, <2>5, <2>6 DEF Descending
  <2>8. k \notin Kept
    <3>1. file[n].type = t[n].type /\ file[k].type = t[k].type
      BY <1>1, <1>2, <2>2 DEF TreeInv, Moved, Sorts, Bitmap
    <3>2. KindOf(file[n].type) = "source" /\ KindOf(file[k].type) = "source"
      BY <1>2, <3>1 DEF KindOf, Bitmap, Sorts
    <3>3. k \in KidsOf(file, n)
      BY <1>1, <1>2, <2>1, <3>1 DEF TreeInv
    <3>4. n \in FileKinds("source")
      BY <3>2, FileTypes DEF FileKinds
    <3>5. k \notin FileScans
      <4>1. Descending(file) /\ Len(file) \in Nat /\ n \in 1..Len(file)
        BY FileTypes DEF PlanFile, Descending
      <4>2. k \in Live(file, n)
        BY <3>3, <4>1, LiveClosed
      <4>3. n \in FileKinds("source") \ {k}
        BY <2>2, <3>4
      <4>4. QED
        BY <4>2, <4>3 DEF FileScans
    <3>6. QED
      BY <3>2, <3>5 DEF Kept, FileKinds
  <2>9. Live(t, r) \ {k} \subseteq Live(u, r)
    BY <1>1, <2>1, <2>5, <2>6, <2>7, TakenOver
  <2>10. \A m \in 1..Len(file) :
           n + 1 <= m /\ file[m].type \in Bitmap => KidsOf(u, m) \subseteq KidsOf(file, m)
    BY <1>1, <2>6 DEF TreeInv
  <2>11. \A m \in 1..Len(file) : u[m].type = t[m].type /\ u[m].kind = t[m].kind
    BY <1>1, <2>4
  <2>12. TreeInv(u, r, n + 1)
    BY <1>1, <2>5, <2>7, <2>8, <2>9, <2>10, <2>11 DEF TreeInv
  <2>13. Collapsed(t, n) = u
    BY <1>2 DEF Collapsed, u, k
  <2>14. QED
    BY <2>11, <2>12, <2>13
<1>3. CASE ~(t[n].type \in Bitmap /\ Len(t[n].kids) = 1 /\ t[k].type \in Bitmap)
  <2>1. Collapsed(t, n) = t
    BY <1>3 DEF Collapsed
  <2>2. TreeInv(t, r, n + 1)
    BY <1>1 DEF TreeInv
  <2>3. QED
    BY <2>1, <2>2
<1>4. QED
  BY <1>2, <1>3

\* The kind that convertToAbstract gives to a node.
LEMMA KindedKeeps ==
    ASSUME PlanFile(file), NEW t, NEW r, NEW from \in Nat, TreeInv(t, r, from),
           NEW n \in 1..Len(file)
    PROVE  TreeInv([t EXCEPT ![n].kind = KindOf(t[n].type)], r, from)
<1>. DEFINE u == [t EXCEPT ![n].kind = KindOf(t[n].type)]
<1>1. /\ t \in Seq(TreeNode) /\ Len(t) = Len(file) /\ Len(t) \in Nat /\ Descending(t)
      /\ r \in 1..Len(t) /\ Kept \subseteq Live(t, r) /\ DOMAIN t = 1..Len(t)
  BY FileTypes, LenProperties DEF TreeInv
<1>2. KindOf(t[n].type) \in Kinds /\ (KindOf(t[n].type) \in {"agg", "sort"} => t[n].type \in Moved)
  <2>1. KindOf(t[n].type) \in Kinds
    BY DEF KindOf, Kinds
  <2>2. KindOf(t[n].type) \in {"agg", "sort"} => t[n].type \in Moved
    BY DEF KindOf, Moved, Sorts, Bitmap
  <2>3. QED
    BY <2>1, <2>2
<1>3. t[n] \in TreeNode
  BY <1>1, KidsAre
<1>4. /\ u[n] \in TreeNode /\ u[n].kids = t[n].kids
      /\ u[n].type = t[n].type /\ u[n].kind = KindOf(t[n].type)
      /\ \A m \in 1..Len(t) \ {n} : u[m] = t[m]
  BY <1>1, <1>2, <1>3 DEF TreeNode
<1>5. u \in Seq(TreeNode) /\ Len(u) = Len(t)
  <2>1. u = [m \in 1..Len(t) |-> u[m]]
    BY <1>1
  <2>2. \A m \in 1..Len(t) : u[m] \in TreeNode
    BY <1>1, <1>4, ElementOfSeq
  <2>. HIDE DEF u
  <2>3. u \in [1..Len(t) -> TreeNode]
    BY <2>1, <2>2
  <2>4. QED
    BY <1>1, <2>3, FcnIsSeq
<1>. HIDE DEF u
<1>6. \A m \in 1..Len(t) : KidsOf(u, m) = KidsOf(t, m)
  BY <1>4 DEF KidsOf
<1>7. Descending(u) /\ Kept \subseteq Live(u, r)
  <2>1. Descending(u)
    BY <1>1, <1>5, <1>6 DEF Descending
  <2>2. Live(t, r) \subseteq Live(u, r)
    BY <1>1, <1>5, <1>6, SameLive
  <2>3. QED
    BY <1>1, <2>1, <2>2
<1>8. \A m \in 1..Len(file) :
        /\ u[m].type = t[m].type
        /\ u[m].kind \in {"agg", "sort"} => u[m].type \in Moved
  BY <1>1, <1>2, <1>4 DEF TreeInv
<1>9. TreeInv(u, r, from)
  BY <1>1, <1>5, <1>6, <1>7, <1>8 DEF TreeInv
<1>10. QED
  BY <1>9 DEF u

\* An aggregate and a sort that change places leave every pointer where it is.
LEMMA ExchangedKeeps ==
    ASSUME PlanFile(file), NEW t, NEW r, NEW from \in Nat, TreeInv(t, r, from),
           NEW n \in 1..Len(file)
    PROVE  TreeInv(Exchanged(t, n), r, from)
<1>. DEFINE k == t[n].kids[1]
            As(m, o) == [t[o] EXCEPT !.kids = t[m].kids]
            u == [t EXCEPT ![n] = As(n, k), ![k] = As(k, n)]
<1>1. /\ t \in Seq(TreeNode) /\ Len(t) = Len(file) /\ Len(t) \in Nat /\ Descending(t)
      /\ r \in 1..Len(t) /\ Kept \subseteq Live(t, r) /\ DOMAIN t = 1..Len(t)
  BY FileTypes, LenProperties DEF TreeInv
<1>2. CASE t[n].kind = "agg" /\ t[n].kids # <<>> /\ t[k].kind = "sort"
  <2>1. k \in 1..(n - 1)
    BY <1>1, <1>2, KidsAre DEF Descending
  <2>. HIDE DEF k
  <2>2. k \in 1..Len(t) /\ k # n
    BY <1>1, <2>1
  <2>3. t[n] \in TreeNode /\ t[k] \in TreeNode
    BY <1>1, <2>2, KidsAre
  <2>4. /\ As(n, k) \in TreeNode /\ As(n, k).kids = t[n].kids
        /\ As(n, k).type = t[k].type /\ As(n, k).kind = t[k].kind
        /\ As(k, n) \in TreeNode /\ As(k, n).kids = t[k].kids
        /\ As(k, n).type = t[n].type /\ As(k, n).kind = t[n].kind
    BY <2>3 DEF TreeNode
  <2>. HIDE DEF As
  <2>5. /\ u[n] = As(n, k) /\ u[k] = As(k, n)
        /\ \A m \in 1..Len(t) \ {n, k} : u[m] = t[m]
    BY <1>1, <2>2
  <2>6. u \in Seq(TreeNode) /\ Len(u) = Len(t)
    <3>1. u = [m \in 1..Len(t) |-> u[m]]
      BY <1>1
    <3>2. \A m \in 1..Len(t) : u[m] \in TreeNode
      BY <1>1, <2>4, <2>5, ElementOfSeq
    <3>. HIDE DEF u
    <3>3. u \in [1..Len(t) -> TreeNode]
      BY <3>1, <3>2
    <3>4. QED
      BY <1>1, <3>3, FcnIsSeq
  <2>. HIDE DEF u
  <2>7. \A m \in 1..Len(t) : KidsOf(u, m) = KidsOf(t, m)
    BY <2>4, <2>5 DEF KidsOf
  <2>8. Descending(u) /\ Kept \subseteq Live(u, r)
    <3>1. Descending(u)
      BY <1>1, <2>6, <2>7 DEF Descending
    <3>2. Live(t, r) \subseteq Live(u, r)
      BY <1>1, <2>6, <2>7, SameLive
    <3>3. QED
      BY <1>1, <3>1, <3>2
  <2>9. t[n].type \in Moved /\ t[k].type \in Moved
    BY <1>1, <1>2, <2>2 DEF TreeInv
  <2>10. file[n].type \in Moved /\ file[k].type \in Moved
    BY <1>1, <2>2, <2>9 DEF TreeInv
  <2>11. \A m \in 1..Len(file) :
           /\ u[m].type # file[m].type => u[m].type \in Moved /\ file[m].type \in Moved
           /\ u[m].kind \in {"agg", "sort"} => u[m].type \in Moved
    <3>1. ASSUME NEW m \in 1..Len(file), m # n, m # k
          PROVE  u[m] = t[m]
      BY <1>1, <2>5, <3>1
    <3>2. u[n].type \in Moved /\ u[k].type \in Moved
      BY <2>4, <2>5, <2>9
    <3>3. QED
      BY <2>10, <3>1, <3>2 DEF TreeInv
  <2>12. TreeInv(u, r, from)
    BY <1>1, <2>6, <2>7, <2>8, <2>11 DEF TreeInv
  <2>13. Exchanged(t, n) = u
    BY <1>2 DEF Exchanged, u, As, k
  <2>14. QED
    BY <2>12, <2>13
<1>3. CASE ~(t[n].kind = "agg" /\ t[n].kids # <<>> /\ t[k].kind = "sort")
  <2>1. Exchanged(t, n) = t
    BY <1>3 DEF Exchanged
  <2>2. QED
    BY <2>1
<1>4. QED
  BY <1>2, <1>3

\* A node that stays is stored where it was.
LEMMA StoredKeeps ==
    ASSUME PlanFile(file), NEW t, NEW r, NEW from \in Nat, TreeInv(t, r, from),
           NEW n \in 1..Len(file)
    PROVE  TreeInv(Rewired(t, n, n), r, from)
<1>. DEFINE u == Rewired(t, n, n)
<1>1. /\ t \in Seq(TreeNode) /\ Len(t) = Len(file) /\ Len(t) \in Nat /\ Descending(t)
      /\ r \in 1..Len(t) /\ Kept \subseteq Live(t, r)
  BY FileTypes DEF TreeInv
<1>2. /\ u \in Seq(TreeNode) /\ Len(u) = Len(t) /\ Descending(u)
      /\ \A m \in 1..Len(t) :
           /\ u[m].type = t[m].type /\ u[m].kind = t[m].kind
           /\ KidsOf(u, m) = { IF x = n THEN n ELSE x : x \in KidsOf(t, m) }
  <2>1. n \in 1..n
    BY <1>1
  <2>. HIDE DEF u
  <2>2. u = Rewired(t, n, n)
    BY DEF u
  <2>3. QED
    BY <1>1, <2>1, <2>2, RewiredTree
<1>. HIDE DEF u
<1>3. \A m \in 1..Len(t) : KidsOf(u, m) = KidsOf(t, m)
  BY <1>2
<1>4. Live(t, r) \subseteq Live(u, r)
  BY <1>1, <1>2, <1>3, SameLive
<1>5. TreeInv(u, r, from)
  BY <1>1, <1>2, <1>3, <1>4 DEF TreeInv
<1>6. QED
  BY <1>5 DEF u

-----------------------------------------------------------------------------
(* The steps.                                                              *)

\* What is left of a step once the call for the node `at` has its result.
LEMMA ReturnKeeps ==
    ASSUME PlanFile(file), phase = "prune", at \in 1..Len(file), root = Len(file),
           NEW t, NEW r,
           TreeInv(Rewired(t, at, r), IF root = at THEN r ELSE root, at + 1),
           PruneReturns(t, r)
    PROVE  PruneInv'
<1>1. /\ tree' = Rewired(t, at, r) /\ root' = (IF root = at THEN r ELSE root)
      /\ at' = at + 1 /\ file' = file
      /\ phase' = IF at = Len(file) THEN "enrich" ELSE "prune"
  BY DEF PruneReturns
<1>2. FileKinds("source")' = FileKinds("source") /\ FileKinds("join")' = FileKinds("join")
  BY <1>1 DEF FileKinds
<1>3. Kept' = Kept
  BY <1>1, <1>2 DEF Kept, FileScans
<1>4. TreeInv(tree', root', at')
  BY <1>1
<1>5. TreeInv(tree, root, at)'
  BY <1>1, <1>3, <1>4 DEF TreeInv
<1>6. PlanFile(file)'
  BY <1>1 DEF PlanFile
<1>7. phase' = "prune" => at' \in 1..Len(file)' /\ root' = Len(file)'
  BY <1>1, FileTypes
<1>8. QED
  BY <1>5, <1>6, <1>7 DEF PruneInv

\* A later start asks for less.
LEMMA TreeInvLater ==
    ASSUME PlanFile(file), NEW t, NEW r, NEW from \in Nat, TreeInv(t, r, from)
    PROVE  TreeInv(t, r, from + 1)
<1>1. \A m \in 1..Len(file) : from + 1 <= m => from <= m
  BY FileTypes
<1>2. QED
  BY <1>1 DEF TreeInv

\* A Hash is replaced by its child.
LEMMA PruneHashKeeps ==
    ASSUME PruneInv, PruneHash
    PROVE  PruneInv'
<1>. DEFINE k == tree[at].kids[1]
<1>1. /\ PlanFile(file) /\ TreeInv(tree, root, at) /\ at \in 1..Len(file) /\ root = Len(file)
      /\ phase = "prune" /\ tree[at].type = "Hash" /\ Len(tree[at].kids) = 1
      /\ PruneReturns(tree, k)
  BY DEF PruneInv, PruneHash, OneKid
<1>2. tree[at].type \in Dropped /\ at \in Nat
  BY <1>1, FileTypes DEF Dropped
<1>3. TreeInv(Rewired(tree, at, k), IF root = at THEN k ELSE root, at)
  BY <1>1, <1>2, DropKeeps
<1>4. TreeInv(Rewired(tree, at, k), IF root = at THEN k ELSE root, at + 1)
  BY <1>1, <1>2, <1>3, TreeInvLater
<1>. HIDE DEF k
<1>5. QED
  BY <1>1, <1>4, ReturnKeeps

\* The first child of the node `at` lies below the root.
LEMMA FirstKid ==
    ASSUME PlanFile(file), TreeInv(tree, root, at), at \in 1..Len(file), root = Len(file),
           OneKid(at)
    PROVE  tree[at].kids[1] \in 1..Len(file) /\ tree[at].kids[1] < root
<1>1. /\ tree \in Seq(TreeNode) /\ Len(tree) = Len(file) /\ Len(file) \in Nat
      /\ Descending(tree)
  BY FileTypes DEF TreeInv
<1>2. tree[at].kids[1] \in KidsOf(tree, at)
  BY <1>1, KidsAre DEF OneKid
<1>3. tree[at].kids[1] \in 1..(at - 1)
  BY <1>1, <1>2 DEF Descending
<1>4. QED
  BY <1>1, <1>3

\* A Gather goes, and the partial aggregate below it.
LEMMA PruneGatherKeeps ==
    ASSUME PruneInv, PruneGather
    PROVE  PruneInv'
<1>. DEFINE t == RemovedBelow(tree, tree[at].kids[1], {"Aggregate"})
            k == t[at].kids[1]
<1>1. /\ PlanFile(file) /\ TreeInv(tree, root, at) /\ at \in 1..Len(file) /\ root = Len(file)
      /\ phase = "prune" /\ tree[at].type \in Gather /\ OneKid(at)
      /\ PruneReturns(t, k)
  BY DEF PruneInv, PruneGather
<1>2. tree[at].type \in Dropped /\ at \in Nat /\ {"Aggregate"} \in SUBSET Moved
  BY <1>1, FileTypes DEF Dropped, Moved
<1>3. /\ TreeInv(t, root, at) /\ t[at].type = tree[at].type
      /\ Len(t[at].kids) = Len(tree[at].kids)
  BY <1>1, <1>2, FirstKid, RemovedKeeps
<1>. HIDE DEF t
<1>4. t[at].type \in Dropped /\ Len(t[at].kids) = 1
  BY <1>1, <1>2, <1>3 DEF OneKid
<1>5. TreeInv(Rewired(t, at, k), IF root = at THEN k ELSE root, at)
  BY <1>1, <1>2, <1>3, <1>4, DropKeeps
<1>. HIDE DEF k
<1>6. TreeInv(Rewired(t, at, k), IF root = at THEN k ELSE root, at + 1)
  BY <1>1, <1>2, <1>5, TreeInvLater
<1>7. QED
  BY <1>1, <1>6, ReturnKeeps

\* A second sort goes, a pair of bitmap scans becomes one, an aggregate and a sort
\* change places.
LEMMA PruneOtherKeeps ==
    ASSUME PruneInv, PruneOther
    PROVE  PruneInv'
<1>. DEFINE single == IF tree[at].type \in Sorts /\ OneKid(at)
                      THEN RemovedBelow(tree, tree[at].kids[1], Sorts) ELSE tree
            flat == Collapsed(single, at)
            kinded == [flat EXCEPT ![at].kind = KindOf(tree[at].type)]
            t == Exchanged(kinded, at)
<1>1. /\ PlanFile(file) /\ TreeInv(tree, root, at) /\ at \in 1..Len(file) /\ root = Len(file)
      /\ phase = "prune" /\ PruneReturns(t, at)
  BY DEF PruneInv, PruneOther
<1>2. at \in Nat /\ at + 1 \in Nat /\ Sorts \in SUBSET Moved
  BY <1>1, FileTypes DEF Moved
<1>3. TreeInv(single, root, at) /\ single[at].type = tree[at].type
  <2>1. CASE tree[at].type \in Sorts /\ OneKid(at)
    <3>1. single = RemovedBelow(tree, tree[at].kids[1], Sorts)
      BY <2>1
    <3>. HIDE DEF single
    <3>2. QED
      BY <1>1, <1>2, <2>1, <3>1, FirstKid, RemovedKeeps
  <2>2. CASE ~(tree[at].type \in Sorts /\ OneKid(at))
    BY <1>1, <2>2
  <2>3. QED
    BY <2>1, <2>2
<1>. HIDE DEF single
<1>4. TreeInv(flat, root, at + 1) /\ flat[at].type = tree[at].type
  BY <1>1, <1>3, CollapsedKeeps
<1>. HIDE DEF flat
<1>5. TreeInv(kinded, root, at + 1)
  BY <1>1, <1>2, <1>4, KindedKeeps
<1>. HIDE DEF kinded
<1>6. TreeInv(t, root, at + 1)
  BY <1>1, <1>2, <1>5, ExchangedKeeps
<1>. HIDE DEF t
<1>7. TreeInv(Rewired(t, at, at), IF root = at THEN at ELSE root, at + 1)
  BY <1>1, <1>2, <1>6, StoredKeeps
<1>8. QED
  BY <1>1, <1>7, ReturnKeeps

\* Every step preserves the invariant; after enrichTree it says nothing.
LEMMA PruneInvStep ==
    ASSUME PruneInv, [Next]_vars
    PROVE  PruneInv'
<1>1. CASE PruneHash
  BY <1>1, PruneHashKeeps
<1>2. CASE PruneGather
  BY <1>2, PruneGatherKeeps
<1>3. CASE PruneOther
  BY <1>3, PruneOtherKeeps
<1>4. CASE Enrich \/ AbstractToIr \/ EnsureCorrectColumnSetup
  <2>1. phase' \notin {"prune", "enrich"}
    BY <1>4 DEF Enrich, AbstractToIr, EnsureCorrectColumnSetup
  <2>2. QED
    BY <2>1 DEF PruneInv
<1>5. CASE UNCHANGED vars
  <2>1. UNCHANGED <<file, phase, at, tree, root>>
    BY <1>5 DEF vars
  <2>2. FileKinds("source")' = FileKinds("source") /\ FileKinds("join")' = FileKinds("join")
    BY <2>1 DEF FileKinds
  <2>3. Kept' = Kept
    BY <2>1, <2>2 DEF Kept, FileScans
  <2>4. PlanFile(file)' = PlanFile(file)
    BY <2>1 DEF PlanFile
  <2>5. TreeInv(tree, root, at)' = TreeInv(tree, root, at)
    BY <2>1, <2>3 DEF TreeInv
  <2>6. QED
    BY <2>1, <2>4, <2>5 DEF PruneInv
<1>6. QED
  BY <1>1, <1>2, <1>3, <1>4, <1>5 DEF Next

\* In the file every node hangs below the last one.
LEMMA AllLive ==
    ASSUME NEW p, Len(p) \in Nat \ {0}, Descending(p),
           \A n \in 1..(Len(p) - 1) : \E m \in 1..Len(p) : n \in KidsOf(p, m)
    PROVE  1..Len(p) \subseteq Live(p, Len(p))
<1>. DEFINE T == { i \in Nat : i < Len(p) /\ Len(p) - i \notin Live(p, Len(p)) }
<1>1. /\ Len(p) \in Live(p, Len(p)) /\ Live(p, Len(p)) \subseteq 1..Len(p)
      /\ \A m \in Live(p, Len(p)) : KidsOf(p, m) \subseteq Live(p, Len(p))
  BY LiveClosed
<1>2. T = {}
  <2>. SUFFICES ASSUME T # {} PROVE FALSE
    OBVIOUS
  <2>1. PICK i \in T : \A k \in T : i <= k
    <3>1. T \in SUBSET Nat
      OBVIOUS
    <3>. HIDE DEF T
    <3>2. QED
      BY <3>1, LeastNat
  <2>2. i \in Nat /\ i < Len(p) /\ Len(p) - i \notin Live(p, Len(p)) /\ i # 0
    BY <1>1
  <2>3. PICK m \in 1..Len(p) : Len(p) - i \in KidsOf(p, m)
    BY <2>2
  <2>4. Len(p) - i < m
    BY <2>2, <2>3 DEF Descending
  <2>5. Len(p) - m \in Nat /\ Len(p) - m < i
    BY <2>2, <2>4
  <2>6. Len(p) - m \notin T
    <3>1. ~(i <= Len(p) - m)
      BY <2>2, <2>5
    <3>. HIDE DEF T
    <3>2. QED
      BY <2>1, <3>1
  <2>7. m \in Live(p, Len(p))
    <3>1. Len(p) - (Len(p) - m) = m
      OBVIOUS
    <3>2. QED
      BY <2>5, <2>6, <3>1
  <2>8. QED
    BY <1>1, <2>2, <2>3, <2>7
<1>3. ASSUME NEW n \in 1..Len(p) PROVE n \in Live(p, Len(p))
  <2>1. Len(p) - n \in Nat /\ Len(p) - n < Len(p) /\ Len(p) - (Len(p) - n) = n
    OBVIOUS
  <2>2. QED
    BY <1>2, <2>1
<1>4. QED
  BY <1>3

\* The tree as the constructor of PlanNode reads it.
LEMMA ReadTree ==
    ASSUME PlanFile(file)
    PROVE  TreeInv(ReadPlan(file), Len(file), 1)
<1>. DEFINE t == ReadPlan(file)
<1>1. Len(file) \in Nat \ {0} /\ DOMAIN file = 1..Len(file) /\ Kept \subseteq 1..Len(file)
  BY FileTypes
<1>2. ASSUME NEW n \in 1..Len(file)
      PROVE  /\ t[n] \in TreeNode /\ t[n].kids = file[n].kids
             /\ t[n].type = file[n].type /\ t[n].kind = "empty"
  <2>1. file[n] \in [type : STRING, table : STRING, kids : Seq(Nat)]
    BY <1>1, ElementOfSeq DEF PlanFile
  <2>2. t[n] = [type |-> file[n].type, kids |-> file[n].kids, kind |-> "empty", conds |-> <<>>,
                table |-> IF file[n].table = "dim_date" THEN "dates" ELSE file[n].table]
    BY <1>1 DEF ReadPlan
  <2>3. (IF file[n].table = "dim_date" THEN "dates" ELSE file[n].table) \in STRING \cup {"dates"}
    BY <2>1
  <2>4. QED
    BY <2>1, <2>2, <2>3 DEF TreeNode, Kinds
<1>3. t \in Seq(TreeNode) /\ Len(t) = Len(file)
  <2>1. t = [n \in 1..Len(file) |-> t[n]]
    BY <1>1 DEF ReadPlan
  <2>. HIDE DEF t
  <2>2. t \in [1..Len(file) -> TreeNode]
    BY <1>2, <2>1
  <2>3. QED
    BY <1>1, <2>2, FcnIsSeq
<1>. HIDE DEF t
<1>4. \A n \in 1..Len(file) : KidsOf(t, n) = KidsOf(file, n)
  BY <1>2 DEF KidsOf
<1>5. Descending(t)
  BY <1>1, <1>3, <1>4 DEF Descending, PlanFile
<1>6. \A n \in 1..(Len(t) - 1) : \E m \in 1..Len(t) : n \in KidsOf(t, m)
  BY <1>1, <1>3, <1>4 DEF PlanFile
<1>7. Kept \subseteq Live(t, Len(t))
  BY <1>1, <1>3, <1>5, <1>6, AllLive
<1>8. TreeInv(t, Len(file), 1)
  BY <1>1, <1>2, <1>3, <1>4, <1>5, <1>7 DEF TreeInv
<1>9. QED
  BY <1>8 DEF t

\* It is true in the beginning.
LEMMA PruneInvInit ==
    ASSUME Init PROVE PruneInv
<1>1. PlanFile(file) /\ tree = ReadPlan(file) /\ root = Len(file) /\ at = 1
  BY InputsAssumption DEF Init, Start
<1>2. 1 \in 1..Len(file)
  BY <1>1, FileTypes
<1>3. QED
  BY <1>1, <1>2, ReadTree DEF PruneInv

\* What TablesKept says of a tree that fulfils the invariant.
LEMMA PruneInvKeeps ==
    ASSUME PruneInv PROVE TablesKept
<1>. SUFFICES ASSUME phase \in {"prune", "enrich"}
              PROVE  LET here == Live(tree, root)
                         scans == { n \in here \cap FileKinds("source") : n \in FileScans }
                     IN  /\ \A n \in here : \A k \in KidsOf(tree, n) : k < n
                         /\ scans = FileScans
                         /\ FileKinds("join") \subseteq here
  BY DEF TablesKept
<1>1. PlanFile(file) /\ TreeInv(tree, root, at)
  BY DEF PruneInv
<1>2. /\ Len(tree) = Len(file) /\ Len(tree) \in Nat /\ Descending(tree) /\ root \in 1..Len(tree)
      /\ FileScans \subseteq Live(tree, root) /\ FileKinds("join") \subseteq Live(tree, root)
  BY <1>1, FileTypes DEF TreeInv, Kept
<1>3. Live(tree, root) \subseteq 1..Len(tree)
  BY <1>2, LiveClosed
<1>4. FileScans \subseteq FileKinds("source")
  BY DEF FileScans
<1>5. \A n \in Live(tree, root) : \A k \in KidsOf(tree, n) : k < n
  BY <1>2, <1>3 DEF Descending
<1>6. QED
  BY <1>2, <1>4, <1>5

-----------------------------------------------------------------------------
\* However many nodes pruneTree cuts out, moves and merges, from the file to
\* enrichTree: the tree that hangs below the root has no cycle, every table is
\* scanned by one of its nodes, and it has every join.
THEOREM PruningKeepsTables == Spec => []TablesKept
<1>1. Init => PruneInv
  BY PruneInvInit
<1>2. PruneInv /\ [Next]_vars => PruneInv'
  BY PruneInvStep
<1>3. PruneInv => TablesKept
  BY PruneInvKeeps
<1>4. QED
  BY <1>1, <1>2, <1>3, PTL DEF Spec

-----------------------------------------------------------------------------
(* Sequences of anything.                                                  *)

IsSeq(s) == Len(s) \in Nat /\ s = [i \in 1..Len(s) |-> s[i]]

\* It is one in the sense of Sequences.
LEMMA SeqOfElements ==
    ASSUME NEW s, IsSeq(s), NEW T, \A i \in 1..Len(s) : s[i] \in T
    PROVE  s \in Seq(T)
<1>1. s \in [1..Len(s) -> T] /\ Len(s) \in Nat
  BY DEF IsSeq
<1>2. QED
  BY <1>1, FcnIsSeq

\* And the other way round.
LEMMA SeqIs ==
    ASSUME NEW T, NEW s \in Seq(T)
    PROVE  IsSeq(s)
<1>1. Len(s) \in Nat /\ DOMAIN s = 1..Len(s) /\ s \in [1..Len(s) -> T]
  BY LenProperties
<1>2. QED
  BY <1>1 DEF IsSeq

\* A function on 1..n is one.
LEMMA FcnIs ==
    ASSUME NEW n \in Nat, NEW f, f = [i \in 1..n |-> f[i]]
    PROVE  IsSeq(f) /\ Len(f) = n
<1>1. f \in [1..n -> {f[i] : i \in 1..n}]
  OBVIOUS
<1>2. f \in Seq({f[i] : i \in 1..n}) /\ Len(f) = n
  BY <1>1, FcnIsSeq
<1>3. QED
  BY <1>2, SeqIs

\* What Append does to one.
LEMMA AppendIs ==
    ASSUME NEW s, NEW x, IsSeq(s)
    PROVE  /\ IsSeq(Append(s, x)) /\ Len(Append(s, x)) = Len(s) + 1
           /\ Append(s, x)[Len(s) + 1] = x
           /\ \A i \in 1..Len(s) : Append(s, x)[i] = s[i]
<1>. DEFINE T == {s[i] : i \in 1..Len(s)} \cup {x}
<1>1. s \in Seq(T)
  <2>1. \A i \in 1..Len(s) : s[i] \in T
    OBVIOUS
  <2>. HIDE DEF T
  <2>2. QED
    BY <2>1, SeqOfElements
<1>2. x \in T
  OBVIOUS
<1>. HIDE DEF T
<1>3. /\ Append(s, x) \in Seq(T) /\ Len(Append(s, x)) = Len(s) + 1
      /\ Append(s, x)[Len(s) + 1] = x
      /\ \A i \in 1..Len(s) : Append(s, x)[i] = s[i]
  BY <1>1, <1>2, AppendProperties
<1>4. QED
  BY <1>3, SeqIs

\* And what the concatenation of two is.
LEMMA ConcatIs ==
    ASSUME NEW s, NEW t, IsSeq(s), IsSeq(t)
    PROVE  /\ IsSeq(s \o t) /\ Len(s \o t) = Len(s) + Len(t)
           /\ \A i \in 1..Len(s) : (s \o t)[i] = s[i]
           /\ \A j \in 1..Len(t) : (s \o t)[Len(s) + j] = t[j]
<1>. DEFINE T == {s[i] : i \in 1..Len(s)} \cup {t[i] : i \in 1..Len(t)}
<1>1. s \in Seq(T) /\ t \in Seq(T)
  <2>1. (\A i \in 1..Len(s) : s[i] \in T) /\ (\A i \in 1..Len(t) : t[i] \in T)
    OBVIOUS
  <2>. HIDE DEF T
  <2>2. QED
    BY <2>1, SeqOfElements
<1>. HIDE DEF T
<1>2. /\ s \o t \in Seq(T) /\ Len(s \o t) = Len(s) + Len(t)
      /\ \A i \in 1..(Len(s) + Len(t)) : (s \o t)[i] = IF i <= Len(s) THEN s[i] ELSE t[i - Len(s)]
  BY <1>1, ConcatProperties
<1>3. Len(s) \in Nat /\ Len(t) \in Nat
  BY DEF IsSeq
<1>4. \A i \in 1..Len(s) : (s \o t)[i] = s[i]
  BY <1>2, <1>3
<1>5. ASSUME NEW j \in 1..Len(t) PROVE (s \o t)[Len(s) + j] = t[j]
  <2>1. Len(s) + j \in 1..(Len(s) + Len(t)) /\ ~(Len(s) + j <= Len(s)) /\ (Len(s) + j) - Len(s) = j
    BY <1>3
  <2>2. QED
    BY <1>2, <2>1
<1>6. QED
  BY <1>2, <1>4, <1>5, SeqIs

\* The pointers of a sequence of nodes as a set.
LEMMA PointersAre ==
    ASSUME NEW p, NEW n, IsSeq(p[n].kids)
    PROVE  /\ KidsOf(p, n) = { p[n].kids[i] : i \in 1..Len(p[n].kids) }
           /\ \A i \in 1..Len(p[n].kids) : p[n].kids[i] \in KidsOf(p, n)
<1>1. DOMAIN p[n].kids = 1..Len(p[n].kids)
  BY DEF IsSeq
<1>2. KidsOf(p, n) = { p[n].kids[i] : i \in 1..Len(p[n].kids) }
  BY <1>1 DEF KidsOf, ToSet
<1>3. QED
  BY <1>2

-----------------------------------------------------------------------------
(* Plans of the optimizer.                                                 *)

IsNode(x) ==
    x \in [op : {x.op}, in : {x.in}, out : {x.out}, kids : {x.kids}, orders : {x.orders},
           posList : {x.posList}, matVals : {x.matVals}]

\* Nodes that lead to earlier ones.
Forest(p) ==
    /\ IsSeq(p) /\ Descending(p)
    /\ \A n \in 1..Len(p) : IsNode(p[n]) /\ IsSeq(p[n].kids)

\* The nodes of q stand in p behind d others, with their pointers moved.
Holds(p, q, d) ==
    /\ d \in Nat /\ Forest(p) /\ Forest(q) /\ d + Len(q) <= Len(p)
    /\ \A j \in 1..Len(q) :
         /\ p[d + j].op = q[j].op /\ p[d + j].in = q[j].in /\ p[d + j].out = q[j].out
         /\ Len(p[d + j].kids) = Len(q[j].kids)
         /\ \A i \in 1..Len(q[j].kids) : p[d + j].kids[i] = q[j].kids[i] + d

\* What is below one of these nodes in q is below it in p.
LEMMA HoldsTables ==
    ASSUME NEW p, NEW q, NEW d, Holds(p, q, d), NEW n \in 1..Len(q)
    PROVE  TablesBelow(q, n) \subseteq TablesBelow(p, d + n)
<1>. DEFINE S == { m \in 1..Len(q) : d + m \in Live(p, d + n) }
<1>1. /\ Len(p) \in Nat /\ Len(q) \in Nat /\ d \in Nat /\ d + n \in 1..Len(p)
      /\ Descending(p) /\ Descending(q)
  BY DEF Holds, Forest, IsSeq
<1>2. /\ d + n \in Live(p, d + n)
      /\ \A m \in Live(p, d + n) : KidsOf(p, m) \subseteq Live(p, d + n)
  BY <1>1, LiveClosed
<1>3. ASSUME NEW m \in S, NEW x \in KidsOf(q, m) PROVE x \in S
  <2>1. m \in 1..Len(q) /\ d + m \in Live(p, d + n) /\ d + m \in 1..Len(p)
    BY <1>1 DEF Holds
  <2>2. IsSeq(q[m].kids) /\ IsSeq(p[d + m].kids)
    BY <2>1 DEF Holds, Forest
  <2>3. PICK i \in 1..Len(q[m].kids) : x = q[m].kids[i]
    BY <2>2, <1>3, PointersAre
  <2>4. i \in 1..Len(p[d + m].kids) /\ p[d + m].kids[i] = x + d
    BY <2>1, <2>3 DEF Holds
  <2>5. x + d \in KidsOf(p, d + m)
    BY <2>2, <2>4, PointersAre
  <2>6. x \in 1..Len(q)
    BY <1>1, <1>3, <2>1 DEF Descending
  <2>7. x + d = d + x
    BY <1>1, <2>6
  <2>8. QED
    BY <1>2, <2>1, <2>5, <2>6, <2>7
<1>4. n \in S
  BY <1>2
<1>. HIDE DEF S
<1>5. Live(q, n) \subseteq S
  BY <1>1, <1>3, <1>4, LiveLeast
<1>6. ASSUME NEW t \in TablesBelow(q, n) PROVE t \in TablesBelow(p, d + n)
  <2>1. PICK m \in Live(q, n) : q[m].op = "table" /\ t = q[m].out[1]
    BY DEF TablesBelow
  <2>2. m \in 1..Len(q) /\ d + m \in Live(p, d + n)
    BY <1>5, <2>1 DEF S
  <2>3. p[d + m].op = "table" /\ t = p[d + m].out[1]
    BY <2>1, <2>2 DEF Holds
  <2>4. QED
    BY <2>2, <2>3 DEF TablesBelow
<1>7. QED
  BY <1>6

\* A column of a base table, by what its record says.
IsColumn(c) == c \in [table : {c.table}, text : {c.text}, type : {c.type}]

\* A table, and not one of the names that stand for none.
IsTable(x) == x \notin {"", "Default"}

\* The node n of p reads its first column from its first child, and so on.
Sided(p, n) ==
    /\ Len(p[n].kids) = 2 /\ IsSeq(p[n].in) /\ Len(p[n].in) = 2
    /\ \A side \in {1, 2} :
         /\ IsColumn(p[n].in[side]) /\ IsTable(p[n].in[side].table)
         /\ p[n].in[side].table \in TablesBelow(p, p[n].kids[side])

JoinsSided(p) == \A n \in 1..Len(p) : p[n].op = "join" => Sided(p, n)

\* A plan of which the last node is the root, with at least the tables T below it.
GoodPlan(p, T) ==
    /\ Forest(p) /\ Len(p) >= 1 /\ JoinsSided(p) /\ T \subseteq TablesBelow(p, Len(p))

\* A join of q that reads its sides still does in p.
LEMMA HoldsSided ==
    ASSUME NEW p, NEW q, NEW d, Holds(p, q, d), NEW n \in 1..Len(q), Sided(q, n)
    PROVE  Sided(p, d + n)
<1>1. /\ Len(p[d + n].kids) = 2 /\ p[d + n].in = q[n].in
      /\ \A i \in {1, 2} : p[d + n].kids[i] = q[n].kids[i] + d
  <2>1. Len(q[n].kids) = 2
    BY DEF Sided
  <2>2. /\ Len(p[d + n].kids) = 2 /\ p[d + n].in = q[n].in
        /\ \A i \in 1..2 : p[d + n].kids[i] = q[n].kids[i] + d
    BY <2>1 DEF Holds
  <2>3. QED
    BY <2>2
<1>2. ASSUME NEW i \in {1, 2}
      PROVE  q[n].kids[i] \in 1..Len(q) /\ p[d + n].kids[i] = d + q[n].kids[i]
  <2>1. IsSeq(q[n].kids) /\ i \in 1..Len(q[n].kids)
    BY DEF Holds, Forest, Sided
  <2>2. q[n].kids[i] \in KidsOf(q, n)
    BY <2>1, PointersAre
  <2>3. Len(q) \in Nat /\ d \in Nat /\ KidsOf(q, n) \subseteq 1..(n - 1)
    BY DEF Holds, Forest, IsSeq, Descending
  <2>4. QED
    BY <1>1, <2>2, <2>3
<1>3. ASSUME NEW i \in {1, 2}
      PROVE  TablesBelow(q, q[n].kids[i]) \subseteq TablesBelow(p, p[d + n].kids[i])
  BY <1>2, HoldsTables
<1>4. QED
  BY <1>1, <1>3 DEF Sided

\* What Shifted does to the nodes.
LEMMA ShiftedIs ==
    ASSUME NEW q, Forest(q), NEW d \in Nat
    PROVE  /\ IsSeq(Shifted(q, d)) /\ Len(Shifted(q, d)) = Len(q)
           /\ \A j \in 1..Len(q) :
                /\ IsNode(Shifted(q, d)[j]) /\ IsSeq(Shifted(q, d)[j].kids)
                /\ Shifted(q, d)[j].op = q[j].op /\ Shifted(q, d)[j].in = q[j].in
                /\ Shifted(q, d)[j].out = q[j].out
                /\ Len(Shifted(q, d)[j].kids) = Len(q[j].kids)
                /\ \A i \in 1..Len(q[j].kids) : Shifted(q, d)[j].kids[i] = q[j].kids[i] + d
<1>. DEFINE moved(j) == [i \in DOMAIN q[j].kids |-> q[j].kids[i] + d]
            u == Shifted(q, d)
<1>1. Len(q) \in Nat /\ DOMAIN q = 1..Len(q)
  BY DEF Forest, IsSeq
<1>2. u = [j \in 1..Len(q) |-> [q[j] EXCEPT !.kids = moved(j)]]
  BY <1>1 DEF Shifted
<1>3. ASSUME NEW j \in 1..Len(q)
      PROVE  /\ IsSeq(moved(j)) /\ Len(moved(j)) = Len(q[j].kids)
             /\ \A i \in 1..Len(q[j].kids) : moved(j)[i] = q[j].kids[i] + d
  <2>1. Len(q[j].kids) \in Nat /\ DOMAIN q[j].kids = 1..Len(q[j].kids)
    BY DEF Forest, IsSeq
  <2>2. moved(j) = [i \in 1..Len(q[j].kids) |-> moved(j)[i]]
    BY <2>1
  <2>3. \A i \in 1..Len(q[j].kids) : moved(j)[i] = q[j].kids[i] + d
    BY <2>1
  <2>. HIDE DEF moved
  <2>4. QED
    BY <2>1, <2>2, <2>3, FcnIs
<1>. HIDE DEF moved
<1>4. ASSUME NEW j \in 1..Len(q)
      PROVE  /\ IsNode(u[j]) /\ u[j].kids = moved(j)
             /\ u[j].op = q[j].op /\ u[j].in = q[j].in /\ u[j].out = q[j].out
  <2>1. IsNode(q[j]) /\ u[j] = [q[j] EXCEPT !.kids = moved(j)]
    BY <1>2 DEF Forest
  <2>2. u[j] \in [op : {q[j].op}, in : {q[j].in}, out : {q[j].out}, kids : {moved(j)},
                  orders : {q[j].orders}, posList : {q[j].posList}, matVals : {q[j].matVals}]
    BY <2>1 DEF IsNode
  <2>3. QED
    BY <2>2 DEF IsNode
<1>5. IsSeq(u) /\ Len(u) = Len(q)
  <2>1. u = [j \in 1..Len(q) |-> u[j]]
    BY <1>2
  <2>. HIDE DEF u
  <2>2. QED
    BY <1>1, <2>1, FcnIs
<1>6. QED
  BY <1>3, <1>4, <1>5

\* Two forests in a row.
LEMMA RowOfForests ==
    ASSUME NEW p, NEW q, Forest(p), Forest(q)
    PROVE  LET r == p \o Shifted(q, Len(p))
           IN  Len(r) = Len(p) + Len(q) /\ Holds(r, p, 0) /\ Holds(r, q, Len(p))
<1>. DEFINE s == Shifted(q, Len(p))
            r == p \o s
<1>1. /\ IsSeq(p) /\ Len(p) \in Nat /\ IsSeq(q) /\ Len(q) \in Nat
      /\ Descending(p) /\ Descending(q)
      /\ \A n \in 1..Len(p) : IsNode(p[n]) /\ IsSeq(p[n].kids)
      /\ \A n \in 1..Len(q) : IsSeq(q[n].kids)
  BY DEF Forest, IsSeq
<1>2. /\ IsSeq(s) /\ Len(s) = Len(q)
      /\ \A j \in 1..Len(q) :
           /\ IsNode(s[j]) /\ IsSeq(s[j].kids)
           /\ s[j].op = q[j].op /\ s[j].in = q[j].in /\ s[j].out = q[j].out
           /\ Len(s[j].kids) = Len(q[j].kids)
           /\ \A i \in 1..Len(q[j].kids) : s[j].kids[i] = q[j].kids[i] + Len(p)
  BY <1>1, ShiftedIs
<1>. HIDE DEF s
<1>3. /\ IsSeq(r) /\ Len(r) = Len(p) + Len(q)
      /\ \A i \in 1..Len(p) : r[i] = p[i]
      /\ \A j \in 1..Len(q) : r[Len(p) + j] = s[j]
  BY <1>1, <1>2, ConcatIs
<1>. HIDE DEF r
<1>4. ASSUME NEW n \in 1..Len(r)
      PROVE  IsNode(r[n]) /\ IsSeq(r[n].kids) /\ KidsOf(r, n) \subseteq 1..(n - 1)
  <2>1. CASE n \in 1..Len(p)
    <3>1. r[n] = p[n]
      BY <1>3, <2>1
    <3>2. KidsOf(r, n) = KidsOf(p, n)
      BY <3>1 DEF KidsOf
    <3>3. QED
      BY <1>1, <2>1, <3>1, <3>2 DEF Descending
  <2>2. CASE n \notin 1..Len(p)
    <3>1. PICK j \in 1..Len(q) : n = Len(p) + j
      <4>1. n - Len(p) \in 1..Len(q) /\ n = Len(p) + (n - Len(p))
        BY <1>1, <1>3, <2>2
      <4>2. QED
        BY <4>1
    <3>2. r[n] = s[j] /\ IsSeq(r[n].kids) /\ IsNode(r[n])
      BY <1>2, <1>3, <3>1
    <3>3. ASSUME NEW x \in KidsOf(r, n) PROVE x \in 1..(n - 1)
      <4>1. PICK i \in 1..Len(r[n].kids) : x = r[n].kids[i]
        BY <3>2, <3>3, PointersAre
      <4>2. i \in 1..Len(q[j].kids) /\ x = q[j].kids[i] + Len(p)
        BY <1>2, <3>2, <4>1
      <4>3. q[j].kids[i] \in KidsOf(q, j)
        BY <1>1, <4>2, PointersAre
      <4>4. q[j].kids[i] \in 1..(j - 1)
        BY <1>1, <4>3 DEF Descending
      <4>5. \A a \in 1..(j - 1) : a + Len(p) \in 1..((Len(p) + j) - 1)
        BY <1>1
      <4>6. q[j].kids[i] + Len(p) \in 1..((Len(p) + j) - 1)
        BY <4>4, <4>5
      <4>7. QED
        BY <3>1, <4>2, <4>6
    <3>4. QED
      BY <3>2, <3>3
  <2>3. QED
    BY <2>1, <2>2
<1>5. Forest(r)
  BY <1>3, <1>4 DEF Forest, Descending
<1>6. Holds(r, p, 0)
  <2>1. \A n \in 1..Len(p) : r[0 + n] = p[n]
    BY <1>1, <1>3
  <2>2. ASSUME NEW n \in 1..Len(p), NEW i \in 1..Len(p[n].kids)
        PROVE  p[n].kids[i] = p[n].kids[i] + 0
    <3>1. p[n].kids[i] \in KidsOf(p, n)
      BY <1>1, PointersAre
    <3>2. p[n].kids[i] \in 1..(n - 1)
      BY <1>1, <3>1 DEF Descending
    <3>3. QED
      BY <3>2
  <2>3. 0 + Len(p) <= Len(r)
    BY <1>1, <1>3
  <2>4. QED
    BY <1>5, <2>1, <2>2, <2>3 DEF Holds
<1>7. Holds(r, q, Len(p))
  <2>1. Len(p) + Len(q) <= Len(r)
    BY <1>1, <1>3
  <2>2. QED
    BY <1>1, <1>2, <1>3, <1>5, <2>1 DEF Holds
<1>8. QED
  BY <1>3, <1>6, <1>7 DEF r, s

\* A node on top of a forest.
LEMMA TopOfForest ==
    ASSUME NEW p, Forest(p), NEW x, IsNode(x), IsSeq(x.kids),
           \A i \in 1..Len(x.kids) : x.kids[i] \in 1..Len(p)
    PROVE  Len(Append(p, x)) = Len(p) + 1 /\ Append(p, x)[Len(p) + 1] = x /\ Holds(Append(p, x), p, 0)
<1>. DEFINE r == Append(p, x)
<1>1. /\ IsSeq(p) /\ Len(p) \in Nat /\ Descending(p)
      /\ \A n \in 1..Len(p) : IsNode(p[n]) /\ IsSeq(p[n].kids)
  BY DEF Forest, IsSeq
<1>2. /\ IsSeq(r) /\ Len(r) = Len(p) + 1 /\ r[Len(p) + 1] = x
      /\ \A i \in 1..Len(p) : r[i] = p[i]
  BY <1>1, AppendIs
<1>. HIDE DEF r
<1>3. ASSUME NEW n \in 1..Len(r)
      PROVE  IsNode(r[n]) /\ IsSeq(r[n].kids) /\ KidsOf(r, n) \subseteq 1..(n - 1)
  <2>1. CASE n \in 1..Len(p)
    <3>1. r[n] = p[n]
      BY <1>2, <2>1
    <3>2. KidsOf(r, n) = KidsOf(p, n)
      BY <3>1 DEF KidsOf
    <3>3. QED
      BY <1>1, <2>1, <3>1, <3>2 DEF Descending
  <2>2. CASE n = Len(p) + 1
    <3>1. r[n] = x
      BY <1>2, <2>2
    <3>2. KidsOf(r, n) = { x.kids[i] : i \in 1..Len(x.kids) }
      BY <3>1, PointersAre
    <3>3. KidsOf(r, n) \subseteq 1..Len(p) /\ n - 1 = Len(p)
      BY <1>1, <2>2, <3>2
    <3>4. QED
      BY <3>1, <3>3
  <2>3. QED
    BY <1>1, <1>2, <2>1, <2>2
<1>4. Forest(r)
  BY <1>2, <1>3 DEF Forest, Descending
<1>5. \A n \in 1..Len(p) : r[0 + n] = p[n]
  BY <1>1, <1>2
<1>6. ASSUME NEW n \in 1..Len(p), NEW i \in 1..Len(p[n].kids)
      PROVE  p[n].kids[i] = p[n].kids[i] + 0
  <2>1. p[n].kids[i] \in KidsOf(p, n)
    BY <1>1, PointersAre
  <2>2. p[n].kids[i] \in 1..(n - 1)
    BY <1>1, <2>1 DEF Descending
  <2>3. QED
    BY <2>2
<1>7. 0 + Len(p) <= Len(r)
  BY <1>1, <1>2
<1>8. Holds(r, p, 0)
  BY <1>4, <1>5, <1>6, <1>7 DEF Holds
<1>9. QED
  BY <1>2, <1>8 DEF r

\* Induction over the numbers up to n.
LEMMA UpToNat ==
    ASSUME NEW n \in Nat, NEW S, 0 \in S, \A i \in 1..n : i - 1 \in S => i \in S
    PROVE  0..n \subseteq S
<1>. DEFINE T == { i \in 0..n : i \notin S }
<1>1. T = {}
  <2>. SUFFICES ASSUME T # {} PROVE FALSE
    OBVIOUS
  <2>1. PICK i \in T : \A k \in T : i <= k
    <3>1. T \in SUBSET Nat
      OBVIOUS
    <3>. HIDE DEF T
    <3>2. QED
      BY <3>1, LeastNat
  <2>2. i \in 1..n /\ i \notin S
    OBVIOUS
  <2>3. i - 1 \in 0..n /\ ~(i <= i - 1)
    BY <2>2
  <2>4. i - 1 \in S
    BY <2>1, <2>3
  <2>5. QED
    BY <2>2, <2>4
<1>2. QED
  BY <1>1

-----------------------------------------------------------------------------
(* A node above plans.                                                     *)

\* The nodes of the first i plans, as Above puts them in a row.
UpTo(subs) ==
    LET upTo[i \in 0..Len(subs)] ==
          IF i = 0 THEN <<>> ELSE upTo[i - 1] \o Shifted(subs[i], Len(upTo[i - 1]))
    IN  upTo

\* It is well defined.
LEMMA UpToSteps ==
    ASSUME NEW subs, Len(subs) \in Nat
    PROVE  /\ UpTo(subs)[0] = <<>>
           /\ \A i \in 1..Len(subs) :
                UpTo(subs)[i] = UpTo(subs)[i - 1] \o Shifted(subs[i], Len(UpTo(subs)[i - 1]))
<1>. DEFINE Row(s, i) == s \o Shifted(subs[i], Len(s))
            Walk(f, n) == f = [i \in 0..n |-> IF i = 0 THEN <<>> ELSE Row(f[i - 1], i)]
            S == { n \in Nat : \E f : Walk(f, n) }
<1>. HIDE DEF Row
<1>1. 0 \in S
  <2>1. Walk([i \in 0..0 |-> <<>>], 0)
    OBVIOUS
  <2>2. QED
    BY <2>1
<1>2. ASSUME NEW n \in 1..Len(subs), n - 1 \in S PROVE n \in S
  <2>1. PICK f : Walk(f, n - 1)
    BY <1>2
  <2>. DEFINE g == [i \in 0..n |-> IF i = n THEN Row(f[n - 1], n) ELSE f[i]]
  <2>2. ASSUME NEW i \in 0..n PROVE g[i] = IF i = 0 THEN <<>> ELSE Row(g[i - 1], i)
    <3>1. CASE i = n
      BY <3>1
    <3>2. CASE i # n
      <4>1. i \in 0..(n - 1) /\ (i # 0 => i - 1 \in 0..(n - 1) /\ i - 1 \in 0..n /\ i - 1 # n)
        BY <3>2
      <4>2. f[i] = IF i = 0 THEN <<>> ELSE Row(f[i - 1], i)
        BY <2>1, <4>1
      <4>3. g[i] = f[i] /\ (i # 0 => g[i - 1] = f[i - 1])
        BY <3>2, <4>1
      <4>. HIDE DEF g
      <4>4. QED
        BY <4>2, <4>3
    <3>3. QED
      BY <3>1, <3>2
  <2>3. Walk(g, n)
    BY <2>2
  <2>4. n \in Nat /\ \E h : Walk(h, n)
    <3>. HIDE DEF Walk, g
    <3>1. QED
      BY <2>3
  <2>5. QED
    BY <2>4
<1>. HIDE DEF S
<1>3. Len(subs) \in S
  <2>1. 0..Len(subs) \subseteq S
    BY <1>1, <1>2, UpToNat
  <2>2. QED
    BY <2>1
<1>4. PICK f : Walk(f, Len(subs))
  BY <1>3 DEF S
<1>5. Walk(UpTo(subs), Len(subs))
  BY <1>4 DEF UpTo, Row
<1>6. \A i \in 0..Len(subs) : UpTo(subs)[i] = IF i = 0 THEN <<>> ELSE Row(UpTo(subs)[i - 1], i)
  BY <1>5
<1>7. 0 \in 0..Len(subs) /\ \A i \in 1..Len(subs) : i \in 0..Len(subs) /\ i # 0
  OBVIOUS
<1>8. QED
  BY <1>6, <1>7 DEF Row

\* Plans with the tables T[i].
GoodSubs(subs, T) == IsSeq(subs) /\ \A i \in 1..Len(subs) : GoodPlan(subs[i], T[i])

\* A forest in which the roots of the first i plans stand at the ends of their rows.
GoodRow(u, T, i) ==
    /\ Forest(u[i]) /\ JoinsSided(u[i])
    /\ \A j \in 1..i : Len(u[j]) \in 1..Len(u[i]) /\ T[j] \subseteq TablesBelow(u[i], Len(u[j]))

\* Nothing about it changes when it becomes a part of a longer one.
LEMMA HoldsJoins ==
    ASSUME NEW p, NEW q, NEW d, Holds(p, q, d), JoinsSided(q), NEW n \in 1..Len(q),
           p[d + n].op = "join"
    PROVE  Sided(p, d + n)
<1>1. q[n].op = "join"
  BY DEF Holds
<1>2. Sided(q, n)
  BY <1>1 DEF JoinsSided
<1>3. QED
  BY <1>2, HoldsSided

\* The empty row.
LEMMA EmptyRow == Forest(<<>>) /\ JoinsSided(<<>>)
<1>1. Len(<<>>) = 0
  BY EmptySeq
<1>2. <<>> = [i \in 1..0 |-> <<>>[i]]
  <2>1. DOMAIN <<>> = 1..0
    BY EmptySeq, LenProperties
  <2>2. <<>> \in Seq({1})
    BY EmptySeq
  <2>3. QED
    BY <1>1, <2>2, SeqIs DEF IsSeq
<1>3. 1..0 = {}
  OBVIOUS
<1>4. IsSeq(<<>>)
  BY <1>1, <1>2 DEF IsSeq
<1>5. QED
  BY <1>1, <1>3, <1>4 DEF Forest, Descending, JoinsSided

\* The plans in a row are a forest in which each keeps its tables.
LEMMA RowsGood ==
    ASSUME NEW subs, NEW T, GoodSubs(subs, T)
    PROVE  \A i \in 0..Len(subs) : GoodRow(UpTo(subs), T, i)
<1>. DEFINE u == UpTo(subs)
            S == { i \in 0..Len(subs) : GoodRow(u, T, i) }
<1>1. Len(subs) \in Nat
  BY DEF GoodSubs, IsSeq
<1>2. /\ u[0] = <<>>
      /\ \A i \in 1..Len(subs) : u[i] = u[i - 1] \o Shifted(subs[i], Len(u[i - 1]))
  BY <1>1, UpToSteps
<1>. HIDE DEF u
<1>3. 0 \in S
  <2>1. 1..0 = {}
    OBVIOUS
  <2>2. GoodRow(u, T, 0)
    BY <1>2, <2>1, EmptyRow DEF GoodRow
  <2>3. QED
    BY <1>1, <2>2
<1>4. ASSUME NEW i \in 1..Len(subs), i - 1 \in S PROVE i \in S
  <2>. DEFINE p == u[i - 1]
              q == subs[i]
              r == u[i]
  <2>1. /\ Forest(p) /\ JoinsSided(p)
        /\ \A j \in 1..(i - 1) : Len(u[j]) \in 1..Len(p) /\ T[j] \subseteq TablesBelow(p, Len(u[j]))
    BY <1>4 DEF GoodRow
  <2>2. Forest(q) /\ Len(q) >= 1 /\ JoinsSided(q) /\ T[i] \subseteq TablesBelow(q, Len(q))
    BY DEF GoodSubs, GoodPlan
  <2>3. r = p \o Shifted(q, Len(p))
    BY <1>2
  <2>. HIDE DEF p, q, r
  <2>4. Len(r) = Len(p) + Len(q) /\ Holds(r, p, 0) /\ Holds(r, q, Len(p))
    BY <2>1, <2>2, <2>3, RowOfForests
  <2>5. Len(p) \in Nat /\ Len(q) \in Nat /\ Len(q) \in 1..Len(q)
    BY <2>1, <2>2 DEF Forest, IsSeq
  <2>6. Forest(r)
    BY <2>4 DEF Holds
  <2>7. ASSUME NEW n \in 1..Len(r), r[n].op = "join" PROVE Sided(r, n)
    <3>1. CASE n \in 1..Len(p)
      <4>1. r[0 + n].op = "join" /\ 0 + n = n
        BY <2>5, <2>7, <3>1
      <4>2. Sided(r, 0 + n)
        BY <2>1, <2>4, <3>1, <4>1, HoldsJoins
      <4>3. QED
        BY <4>1, <4>2
    <3>2. CASE n \notin 1..Len(p)
      <4>1. n - Len(p) \in 1..Len(q) /\ Len(p) + (n - Len(p)) = n
        BY <2>4, <2>5, <3>2
      <4>2. Sided(r, Len(p) + (n - Len(p)))
        BY <2>2, <2>4, <2>7, <4>1, HoldsJoins
      <4>3. QED
        BY <4>1, <4>2
    <3>3. QED
      BY <3>1, <3>2
  <2>8. ASSUME NEW j \in 1..(i - 1)
        PROVE  Len(u[j]) \in 1..Len(r) /\ T[j] \subseteq TablesBelow(r, Len(u[j]))
    <3>1. Len(u[j]) \in 1..Len(p) /\ T[j] \subseteq TablesBelow(p, Len(u[j]))
      BY <2>1
    <3>2. TablesBelow(p, Len(u[j])) \subseteq TablesBelow(r, 0 + Len(u[j]))
      BY <2>4, <3>1, HoldsTables
    <3>3. 0 + Len(u[j]) = Len(u[j]) /\ Len(u[j]) \in 1..Len(r)
      BY <2>4, <2>5, <3>1
    <3>4. QED
      BY <3>1, <3>2, <3>3
  <2>9. Len(r) \in 1..Len(r) /\ T[i] \subseteq TablesBelow(r, Len(r))
    <3>1. TablesBelow(q, Len(q)) \subseteq TablesBelow(r, Len(p) + Len(q))
      BY <2>4, <2>5, HoldsTables
    <3>2. QED
      BY <2>2, <2>4, <2>5, <3>1
  <2>10. GoodRow(u, T, i)
    <3>1. \A j \in 1..i : j \in 1..(i - 1) \/ j = i
      OBVIOUS
    <3>2. JoinsSided(r)
      BY <2>7 DEF JoinsSided
    <3>3. QED
      BY <2>6, <2>8, <2>9, <3>1, <3>2 DEF GoodRow, r
  <2>11. QED
    BY <1>1, <2>10
<1>. HIDE DEF S
<1>5. 0..Len(subs) \subseteq S
  BY <1>1, <1>3, <1>4, UpToNat
<1>6. QED
  BY <1>5 DEF S, u

\* The node that Node makes is one.
LEMMA NodeIs ==
    ASSUME NEW op, NEW in, NEW out, NEW kids, NEW orders
    PROVE  /\ IsNode(Node(op, in, out, kids, orders))
           /\ Node(op, in, out, kids, orders).op = op
           /\ Node(op, in, out, kids, orders).in = in
           /\ Node(op, in, out, kids, orders).out = out
           /\ Node(op, in, out, kids, orders).kids = kids
<1>. DEFINE pos == op \in {"filter", "join", "semijoin", "group", "sort"}
            mat == op \in {"table", "fetch", "map", "sum", "agg", "group", "select"}
            x == Node(op, in, out, kids, orders)
<1>1. x = [op |-> op, in |-> in, out |-> out, kids |-> kids, orders |-> orders,
           posList |-> pos, matVals |-> mat]
  BY DEF Node
<1>. HIDE DEF pos, mat, x
<1>2. x \in [op : {x.op}, in : {x.in}, out : {x.out}, kids : {x.kids}, orders : {x.orders},
             posList : {x.posList}, matVals : {x.matVals}]
  BY <1>1
<1>3. x.op = op /\ x.in = in /\ x.out = out /\ x.kids = kids
  BY <1>1
<1>4. QED
  BY <1>2, <1>3 DEF IsNode, x

\* Two columns as the inputs of a node.
PairOfColumns(in, left, right) ==
    /\ IsSeq(in) /\ Len(in) = 2
    /\ \A side \in {1, 2} : IsColumn(in[side]) /\ IsTable(in[side].table)
    /\ in[1].table \in left /\ in[2].table \in right

\* A node above plans makes one plan with all their tables; if it is a join, its
\* columns must belong to its sides.
LEMMA AboveGood ==
    ASSUME NEW subs, NEW T, GoodSubs(subs, T),
           NEW op, NEW in, NEW out, NEW orders,
           op = "join" => Len(subs) = 2 /\ PairOfColumns(in, T[1], T[2])
    PROVE  GoodPlan(Above(subs, op, in, out, orders), UNION { T[i] : i \in 1..Len(subs) })
<1>. DEFINE u == UpTo(subs)
            n == Len(subs)
            q == u[n]
            kids == [i \in DOMAIN subs |-> Len(u[i])]
            x == Node(op, in, out, kids, orders)
            p == Append(q, x)
<1>1. n \in Nat /\ DOMAIN subs = 1..n
  BY DEF GoodSubs, IsSeq
<1>2. Above(subs, op, in, out, orders) = p
  BY DEF Above, UpTo
<1>3. GoodRow(u, T, n)
  BY <1>1, RowsGood
<1>. HIDE DEF u
<1>4. /\ IsSeq(kids) /\ Len(kids) = n
      /\ \A i \in 1..n : kids[i] = Len(u[i])
  <2>1. kids = [i \in 1..n |-> kids[i]] /\ \A i \in 1..n : kids[i] = Len(u[i])
    BY <1>1
  <2>. HIDE DEF kids
  <2>2. QED
    BY <1>1, <2>1, FcnIs
<1>. HIDE DEF kids
<1>5. /\ IsNode(x) /\ x.kids = kids /\ x.op = op /\ x.in = in
  BY NodeIs
<1>. HIDE DEF x
<1>6. /\ Forest(q) /\ JoinsSided(q) /\ Len(q) \in Nat
      /\ \A i \in 1..n : kids[i] \in 1..Len(q) /\ T[i] \subseteq TablesBelow(q, kids[i])
  BY <1>3, <1>4 DEF GoodRow, Forest, IsSeq
<1>. HIDE DEF q, n
<1>7. Len(p) = Len(q) + 1 /\ p[Len(q) + 1] = x /\ Holds(p, q, 0)
  BY <1>4, <1>5, <1>6, TopOfForest
<1>. HIDE DEF p
<1>8. Forest(p) /\ Len(p) \in Nat /\ Len(p) \in 1..Len(p) /\ Len(p) >= 1 /\ p[Len(p)] = x
  BY <1>6, <1>7 DEF Holds, Forest, IsSeq
<1>9. \A i \in 1..n : T[i] \subseteq TablesBelow(p, kids[i])
  <2>1. ASSUME NEW i \in 1..n PROVE T[i] \subseteq TablesBelow(p, kids[i])
    <3>1. TablesBelow(q, kids[i]) \subseteq TablesBelow(p, 0 + kids[i])
      BY <1>6, <1>7, HoldsTables
    <3>2. 0 + kids[i] = kids[i]
      BY <1>6
    <3>3. QED
      BY <1>6, <3>1, <3>2
  <2>2. QED
    BY <2>1
<1>10. ASSUME NEW k \in 1..Len(p), p[k].op = "join" PROVE Sided(p, k)
  <2>1. CASE k \in 1..Len(q)
    <3>1. 0 + k = k
      BY <1>6, <2>1
    <3>2. Sided(p, 0 + k)
      BY <1>6, <1>7, <1>10, <2>1, <3>1, HoldsJoins
    <3>3. QED
      BY <3>1, <3>2
  <2>2. CASE k \notin 1..Len(q)
    <3>1. k = Len(p) /\ op = "join"
      BY <1>5, <1>6, <1>7, <1>8, <1>10, <2>2
    <3>2. n = 2 /\ PairOfColumns(in, T[1], T[2])
      BY <3>1 DEF n
    <3>3. p[k].kids = kids /\ p[k].in = in
      BY <1>5, <1>8, <3>1
    <3>4. T[1] \subseteq TablesBelow(p, kids[1]) /\ T[2] \subseteq TablesBelow(p, kids[2])
      BY <1>9, <3>2
    <3>5. QED
      BY <1>4, <3>2, <3>3, <3>4 DEF Sided, PairOfColumns
  <2>3. QED
    BY <2>1, <2>2
<1>11. ASSUME NEW i \in 1..n PROVE T[i] \subseteq TablesBelow(p, Len(p))
  <2>1. kids[i] \in KidsOf(p, Len(p))
    <3>1. p[Len(p)].kids = kids
      BY <1>5, <1>8
    <3>2. IsSeq(p[Len(p)].kids) /\ i \in 1..Len(p[Len(p)].kids)
      BY <1>4, <3>1
    <3>3. QED
      BY <3>1, <3>2, PointersAre
  <2>2. /\ Len(p) \in Live(p, Len(p)) /\ Live(p, Len(p)) \subseteq 1..Len(p)
        /\ \A m \in Live(p, Len(p)) : KidsOf(p, m) \subseteq Live(p, Len(p))
    BY <1>8, LiveClosed DEF Forest
  <2>3. Live(p, kids[i]) \subseteq Live(p, Len(p))
    BY <1>8, <2>1, <2>2, LiveLeast
  <2>4. TablesBelow(p, kids[i]) \subseteq TablesBelow(p, Len(p))
    BY <2>3 DEF TablesBelow
  <2>5. QED
    BY <1>9, <2>4
<1>12. GoodPlan(p, UNION { T[i] : i \in 1..n })
  BY <1>8, <1>10, <1>11 DEF GoodPlan, JoinsSided
<1>13. QED
  BY <1>2, <1>12 DEF n, p, q, x, kids

\* One plan alone.
LEMMA AboveOne ==
    ASSUME NEW p, NEW T, GoodPlan(p, T), NEW op, op # "join", NEW in, NEW out, NEW orders
    PROVE  GoodPlan(Above(<<p>>, op, in, out, orders), T)
<1>. DEFINE subs == <<p>>
            U == [i \in {1} |-> T]
<1>1. IsSeq(subs) /\ Len(subs) = 1 /\ subs[1] = p
  <2>1. subs \in Seq({p}) /\ Len(subs) = 1 /\ subs[1] = p
    OBVIOUS
  <2>. HIDE DEF subs
  <2>2. QED
    BY <2>1, SeqIs
<1>. HIDE DEF subs
<1>2. 1..1 = {1}
  OBVIOUS
<1>3. GoodSubs(subs, U)
  BY <1>1, <1>2 DEF GoodSubs
<1>4. UNION { U[i] : i \in 1..Len(subs) } = T
  BY <1>1, <1>2
<1>. HIDE DEF U
<1>5. GoodPlan(Above(subs, op, in, out, orders), UNION { U[i] : i \in 1..Len(subs) })
  BY <1>3, AboveGood
<1>6. QED
  BY <1>4, <1>5 DEF subs

\* A filter above a plan.
LEMMA FilterOverGood ==
    ASSUME NEW p, NEW T, GoodPlan(p, T), NEW table, NEW c
    PROVE  GoodPlan(FilterOver(p, table, c), T)
<1>. DEFINE col == TypedColumn(table, c.left)
<1>. HIDE DEF col
<1>1. "filter" # "join"
  OBVIOUS
<1>2. GoodPlan(Above(<<p>>, "filter", <<col>>, <<col>>, <<>>), T)
  BY <1>1, AboveOne
<1>3. QED
  BY <1>2 DEF FilterOver, col

\* A table without anything.
LEMMA TableGood ==
    ASSUME NEW t
    PROVE  GoodPlan(<< Node("table", <<t>>, <<t>>, <<>>, <<>>) >>, {t})
<1>. DEFINE x == Node("table", <<t>>, <<t>>, <<>>, <<>>)
            p == <<x>>
<1>1. IsNode(x) /\ x.kids = <<>> /\ x.op = "table" /\ x.out = <<t>>
  BY NodeIs
<1>. HIDE DEF x
<1>2. IsSeq(p) /\ Len(p) = 1 /\ p[1] = x
  <2>1. p \in Seq({x}) /\ Len(p) = 1 /\ p[1] = x
    OBVIOUS
  <2>. HIDE DEF p
  <2>2. QED
    BY <2>1, SeqIs
<1>. HIDE DEF p
<1>3. IsSeq(<<>>) /\ Len(<<>>) = 0
  BY EmptyRow, EmptySeq DEF Forest
<1>4. KidsOf(p, 1) = {}
  <2>1. p[1].kids = <<>> /\ 1..0 = {}
    BY <1>1, <1>2
  <2>2. KidsOf(p, 1) = { p[1].kids[i] : i \in 1..Len(p[1].kids) }
    BY <1>3, <2>1, PointersAre
  <2>3. QED
    BY <1>3, <2>1, <2>2
<1>5. \A n \in 1..Len(p) : n = 1
  BY <1>2
<1>6. Forest(p)
  BY <1>1, <1>2, <1>3, <1>4, <1>5 DEF Forest, Descending
<1>7. 1 \in Live(p, 1)
  <2>1. Len(p) \in Nat /\ 1 \in 1..Len(p) /\ Descending(p)
    BY <1>2, <1>6 DEF Forest
  <2>2. QED
    BY <2>1, LiveClosed
<1>8. t \in TablesBelow(p, Len(p))
  <2>1. p[1].op = "table" /\ p[1].out[1] = t
    BY <1>1, <1>2
  <2>2. QED
    BY <1>2, <1>7, <2>1 DEF TablesBelow
<1>9. JoinsSided(p)
  <2>1. \A n \in 1..Len(p) : p[n].op # "join"
    BY <1>1, <1>2, <1>5
  <2>2. QED
    BY <2>1 DEF JoinsSided
<1>10. GoodPlan(p, {t})
  BY <1>2, <1>6, <1>8, <1>9 DEF GoodPlan
<1>11. QED
  BY <1>10 DEF p, x

\* A scan with its filters, one above the other.
Filtered(node) ==
    LET last == Len(node.conds)
        over[i \in 0..last] ==
          IF i = 0 THEN << Node("table", <<node.table>>, <<node.table>>, <<>>, <<>>) >>
          ELSE FilterOver(over[i - 1], node.table, node.conds[last + 1 - i])
    IN  over

\* A scan with its filters is a good plan with its table.
LEMMA SourceGood ==
    ASSUME NEW node, Len(node.conds) \in Nat
    PROVE  GoodPlan(SourcePlan(node), {node.table})
<1>. DEFINE last == Len(node.conds)
            scan == << Node("table", <<node.table>>, <<node.table>>, <<>>, <<>>) >>
            Atop(p, i) == FilterOver(p, node.table, node.conds[last + 1 - i])
            Walk(f, n) == f = [i \in 0..n |-> IF i = 0 THEN scan ELSE Atop(f[i - 1], i)]
            S == { n \in Nat : \E f : Walk(f, n) }
            over == Filtered(node)
            G == { n \in 0..last : GoodPlan(over[n], {node.table}) }
<1>1. GoodPlan(scan, {node.table})
  BY TableGood
<1>2. \A p, i : GoodPlan(p, {node.table}) => GoodPlan(Atop(p, i), {node.table})
  BY FilterOverGood
<1>. HIDE DEF Atop, scan
<1>3. 0 \in S
  <2>1. Walk([i \in 0..0 |-> scan], 0)
    OBVIOUS
  <2>2. QED
    BY <2>1
<1>4. ASSUME NEW n \in 1..last, n - 1 \in S PROVE n \in S
  <2>1. PICK f : Walk(f, n - 1)
    BY <1>4
  <2>. DEFINE g == [i \in 0..n |-> IF i = n THEN Atop(f[n - 1], n) ELSE f[i]]
  <2>2. ASSUME NEW i \in 0..n PROVE g[i] = IF i = 0 THEN scan ELSE Atop(g[i - 1], i)
    <3>1. CASE i = n
      BY <3>1
    <3>2. CASE i # n
      <4>1. i \in 0..(n - 1) /\ (i # 0 => i - 1 \in 0..(n - 1) /\ i - 1 \in 0..n /\ i - 1 # n)
        BY <3>2
      <4>2. f[i] = IF i = 0 THEN scan ELSE Atop(f[i - 1], i)
        BY <2>1, <4>1
      <4>3. g[i] = f[i] /\ (i # 0 => g[i - 1] = f[i - 1])
        BY <3>2, <4>1
      <4>. HIDE DEF g
      <4>4. QED
        BY <4>2, <4>3
    <3>3. QED
      BY <3>1, <3>2
  <2>3. Walk(g, n)
    BY <2>2
  <2>4. n \in Nat /\ \E h : Walk(h, n)
    <3>. HIDE DEF Walk, g
    <3>1. QED
      BY <2>3
  <2>5. QED
    BY <2>4
<1>. HIDE DEF S
<1>5. last \in S
  <2>1. 0..last \subseteq S
    BY <1>3, <1>4, UpToNat
  <2>2. QED
    BY <2>1
<1>6. PICK f : Walk(f, last)
  BY <1>5 DEF S
<1>7. Walk(over, last)
  BY <1>6 DEF Filtered, Atop, scan
<1>. HIDE DEF over
<1>8. \A i \in 0..last : over[i] = IF i = 0 THEN scan ELSE Atop(over[i - 1], i)
  BY <1>7
<1>9. 0 \in G
  BY <1>1, <1>8
<1>10. ASSUME NEW n \in 1..last, n - 1 \in G PROVE n \in G
  <2>1. n \in 0..last /\ n # 0
    OBVIOUS
  <2>2. over[n] = Atop(over[n - 1], n)
    BY <1>8, <2>1
  <2>3. GoodPlan(over[n - 1], {node.table})
    BY <1>10
  <2>4. GoodPlan(Atop(over[n - 1], n), {node.table})
    BY <1>2, <2>3
  <2>5. QED
    BY <2>1, <2>2, <2>4
<1>11. last \in G
  <2>. HIDE DEF G, last
  <2>1. last \in Nat
    BY DEF last
  <2>2. 0..last \subseteq G
    BY <1>9, <1>10, <2>1, UpToNat
  <2>3. QED
    BY <2>1, <2>2
<1>12. GoodPlan(over[last], {node.table})
  BY <1>11
<1>13. QED
  BY <1>12 DEF SourcePlan, Filtered, over

\* The condition c reads a table on each side.
Connects(c, left, right) ==
    /\ ConditionTables(c)[1] \in left /\ IsTable(ConditionTables(c)[1])
    /\ ConditionTables(c)[2] \in right /\ IsTable(ConditionTables(c)[2])

\* All the tables of plans with the tables T[i].
AllOf(subs, T) == UNION { T[i] : i \in 1..Len(subs) }

\* The columns of a join condition.
LEMMA JoinGood ==
    ASSUME NEW node, NEW subs, NEW T, GoodSubs(subs, T), Len(subs) = 2,
           Connects(node.conds[1], T[1], T[2])
    PROVE  GoodPlan(JoinPlan(node, subs), AllOf(subs, T))
<1>. DEFINE c == node.conds[1]
            t == ConditionTables(c)
            left == TypedColumn(t[1], c.left)
            right == TypedColumn(t[2], c.right)
            cols == <<left, right>>
<1>1. \A u, text, type : IsColumn(Column(u, text, type)) /\ Column(u, text, type).table = u
  BY DEF IsColumn, Column
<1>2. \A u, w : IsColumn(TypedColumn(u, w)) /\ TypedColumn(u, w).table = u
  BY <1>1 DEF TypedColumn
<1>3. IsColumn(left) /\ left.table = t[1] /\ IsColumn(right) /\ right.table = t[2]
  BY <1>2
<1>. HIDE DEF t, left, right
<1>4. IsSeq(cols) /\ Len(cols) = 2 /\ cols[1] = left /\ cols[2] = right
  <2>1. cols \in Seq({left, right}) /\ Len(cols) = 2 /\ cols[1] = left /\ cols[2] = right
    OBVIOUS
  <2>. HIDE DEF cols
  <2>2. QED
    BY <2>1, SeqIs
<1>. HIDE DEF cols
<1>5. PairOfColumns(cols, T[1], T[2])
  BY <1>3, <1>4 DEF PairOfColumns, t, Connects
<1>6. GoodPlan(Above(subs, "join", cols, cols, <<>>), UNION { T[i] : i \in 1..Len(subs) })
  BY <1>5, AboveGood
<1>7. QED
  BY <1>6 DEF AllOf, JoinPlan, cols, left, right, t

\* An aggregation, with the arithmetic below it and the groups above it.
LEMMA AggGood ==
    ASSUME NEW sub, NEW T, GoodPlan(sub, T)
    PROVE  GoodPlan(AggPlan(sub), T)
<1>. DEFINE text == TheAggregation.text
            operands == [i \in DOMAIN text.of |->
                           TypedColumn(GetTableName(Word(text.of[i])), text.of[i])]
            mapped == IF ContainsArithMapOp(text)
                      THEN Above(<<sub>>, "map", operands, <<MapColumn>>, <<>>) ELSE sub
            op == IF text.fn \in {"SUM", "sum"} THEN "sum" ELSE "agg"
            summed == Above(<<mapped>>, op, <<ArgumentColumn>>, <<AggColumn>>, <<>>)
            keys == [i \in DOMAIN Query.groupBys |->
                       LET k == Query.groupBys[i]
                       IN  Column(NamedIn(k), k, GetSSBColumnType(NamedIn(k), k))]
            orders == [i \in DOMAIN keys |-> TRUE]
<1>1. AggPlan(sub) = IF keys = <<>> THEN summed
                     ELSE Above(<<summed>>, "group", keys, <<"idx", "srt", "clus">>, orders)
  BY DEF AggPlan
<1>2. op # "join"
  OBVIOUS
<1>. HIDE DEF text, operands, keys, orders, op
<1>3. GoodPlan(mapped, T)
  <2>1. "map" # "join"
    OBVIOUS
  <2>2. GoodPlan(Above(<<sub>>, "map", operands, <<MapColumn>>, <<>>), T)
    BY <2>1, AboveOne
  <2>3. QED
    BY <2>2
<1>. HIDE DEF mapped
<1>4. GoodPlan(summed, T)
  BY <1>2, <1>3, AboveOne
<1>. HIDE DEF summed
<1>5. GoodPlan(Above(<<summed>>, "group", keys, <<"idx", "srt", "clus">>, orders), T)
  <2>1. "group" # "join"
    OBVIOUS
  <2>. DEFINE out == <<"idx", "srt", "clus">>
  <2>. HIDE DEF out
  <2>2. GoodPlan(Above(<<summed>>, "group", keys, out, orders), T)
    BY <1>4, <2>1, AboveOne
  <2>3. QED
    BY <2>2 DEF out
<1>6. QED
  BY <1>1, <1>4, <1>5

-----------------------------------------------------------------------------
(* The walks over the tree.                                                *)

UnderFcn(t) ==
    LET under[n \in DOMAIN t] ==
          IF t[n].kind = "source" THEN {t[n].table}
          ELSE UNION { under[k] : k \in ToSet(t[n].kids) }
    IN  under

\* The tables under a node are well defined.
LEMMA UnderSteps ==
    ASSUME NEW t, IsSeq(t), Descending(t)
    PROVE  \A n \in 1..Len(t) :
             UnderFcn(t)[n] = IF t[n].kind = "source" THEN {t[n].table}
                              ELSE UNION { UnderFcn(t)[k] : k \in KidsOf(t, n) }
<1>. DEFINE Step(f, n) == IF t[n].kind = "source" THEN {t[n].table}
                          ELSE UNION { f[k] : k \in KidsOf(t, n) }
            Walk(f, n) == f = [m \in 1..n |-> Step(f, m)]
            S == { n \in Nat : \E f : Walk(f, n) }
<1>1. Len(t) \in Nat /\ DOMAIN t = 1..Len(t)
  BY DEF IsSeq
<1>2. \A n \in 1..Len(t) : KidsOf(t, n) \subseteq 1..(n - 1)
  BY DEF Descending
<1>3. \A n \in 1..Len(t) : \A f, g :
        (\A k \in 1..(n - 1) : f[k] = g[k]) => Step(f, n) = Step(g, n)
  <2>. TAKE n \in 1..Len(t)
  <2>. TAKE f, g
  <2>. HAVE \A k \in 1..(n - 1) : f[k] = g[k]
  <2>1. \A k \in KidsOf(t, n) : f[k] = g[k]
    BY <1>2
  <2>2. { f[k] : k \in KidsOf(t, n) } = { g[k] : k \in KidsOf(t, n) }
    BY <2>1
  <2>3. QED
    BY <2>2
<1>. HIDE DEF Step
<1>4. 0 \in S
  <2>1. Walk([m \in 1..0 |-> {}], 0)
    OBVIOUS
  <2>2. QED
    BY <2>1
<1>5. ASSUME NEW n \in 1..Len(t), n - 1 \in S PROVE n \in S
  <2>1. PICK f : Walk(f, n - 1)
    BY <1>5
  <2>. DEFINE g == [m \in 1..n |-> IF m = n THEN Step(f, n) ELSE f[m]]
  <2>2. ASSUME NEW m \in 1..n PROVE g[m] = Step(g, m)
    <3>1. m \in 1..Len(t) /\ \A k \in 1..(m - 1) : k \in 1..n /\ k # n
      BY <1>1
    <3>2. \A k \in 1..(m - 1) : f[k] = g[k]
      BY <3>1
    <3>3. Step(f, m) = Step(g, m)
      <4>. HIDE DEF g
      <4>1. QED
        BY <1>3, <3>1, <3>2
    <3>4. g[m] = Step(f, m)
      <4>1. CASE m = n
        BY <4>1
      <4>2. CASE m # n
        <5>1. m \in 1..(n - 1)
          BY <1>1, <4>2
        <5>2. f[m] = Step(f, m)
          BY <2>1, <5>1
        <5>3. QED
          BY <4>2, <5>2
      <4>3. QED
        BY <4>1, <4>2
    <3>5. QED
      BY <3>3, <3>4
  <2>3. Walk(g, n)
    BY <2>2
  <2>4. n \in Nat /\ \E h : Walk(h, n)
    <3>. HIDE DEF Walk, g
    <3>1. QED
      BY <1>1, <2>3
  <2>5. QED
    BY <2>4
<1>. HIDE DEF S
<1>6. Len(t) \in S
  <2>1. 0..Len(t) \subseteq S
    BY <1>1, <1>4, <1>5, UpToNat
  <2>2. QED
    BY <1>1, <2>1
<1>7. PICK f : Walk(f, Len(t))
  BY <1>6 DEF S
<1>8. Walk(UnderFcn(t), Len(t))
  <2>. DEFINE Full(h) == h = [n \in 1..Len(t) |->
                               IF t[n].kind = "source" THEN {t[n].table}
                               ELSE UNION { h[k] : k \in ToSet(t[n].kids) }]
  <2>1. \A h : Full(h) <=> Walk(h, Len(t))
    BY DEF Step, KidsOf
  <2>2. UnderFcn(t) = CHOOSE h : Full(h)
    BY <1>1 DEF UnderFcn
  <2>. HIDE DEF Full, Walk
  <2>3. QED
    BY <1>7, <2>1, <2>2
<1>9. \A n \in 1..Len(t) : UnderFcn(t)[n] = Step(UnderFcn(t), n)
  BY <1>8
<1>10. QED
  BY <1>9 DEF Step

SubFcn ==
    LET sub[n \in DOMAIN tree] ==
          NodePlan(n, [i \in DOMAIN tree[n].kids |-> sub[tree[n].kids[i]]])
    IN  sub

\* And so are the plans of the subtrees.
LEMMA SubSteps ==
    ASSUME IsSeq(tree), Descending(tree), \A n \in 1..Len(tree) : IsSeq(tree[n].kids)
    PROVE  \A n \in 1..Len(tree) :
             SubFcn[n] = NodePlan(n, [i \in 1..Len(tree[n].kids) |-> SubFcn[tree[n].kids[i]]])
<1>. DEFINE Kid(f, n) == [i \in 1..Len(tree[n].kids) |-> f[tree[n].kids[i]]]
            Step(f, n) == NodePlan(n, Kid(f, n))
            Walk(f, n) == f = [m \in 1..n |-> Step(f, m)]
            S == { n \in Nat : \E f : Walk(f, n) }
<1>1. Len(tree) \in Nat /\ DOMAIN tree = 1..Len(tree)
  BY DEF IsSeq
<1>2. \A n \in 1..Len(tree) : \A i \in 1..Len(tree[n].kids) : tree[n].kids[i] \in 1..(n - 1)
  <2>1. ASSUME NEW n \in 1..Len(tree), NEW i \in 1..Len(tree[n].kids)
        PROVE  tree[n].kids[i] \in 1..(n - 1)
    <3>1. tree[n].kids[i] \in KidsOf(tree, n)
      BY PointersAre
    <3>2. QED
      BY <3>1 DEF Descending
  <2>2. QED
    BY <2>1
<1>3. \A n \in 1..Len(tree) : \A f, g :
        (\A k \in 1..(n - 1) : f[k] = g[k]) => Step(f, n) = Step(g, n)
  <2>. TAKE n \in 1..Len(tree)
  <2>. TAKE f, g
  <2>. HAVE \A k \in 1..(n - 1) : f[k] = g[k]
  <2>1. \A i \in 1..Len(tree[n].kids) : f[tree[n].kids[i]] = g[tree[n].kids[i]]
    BY <1>2
  <2>2. Kid(f, n) = Kid(g, n)
    BY <2>1
  <2>. HIDE DEF Kid
  <2>3. QED
    BY <2>2
<1>. HIDE DEF Step
<1>4. 0 \in S
  <2>1. Walk([m \in 1..0 |-> {}], 0)
    OBVIOUS
  <2>2. QED
    BY <2>1
<1>5. ASSUME NEW n \in 1..Len(tree), n - 1 \in S PROVE n \in S
  <2>1. PICK f : Walk(f, n - 1)
    BY <1>5
  <2>. DEFINE g == [m \in 1..n |-> IF m = n THEN Step(f, n) ELSE f[m]]
  <2>2. ASSUME NEW m \in 1..n PROVE g[m] = Step(g, m)
    <3>1. m \in 1..Len(tree) /\ \A k \in 1..(m - 1) : k \in 1..n /\ k # n
      BY <1>1
    <3>2. \A k \in 1..(m - 1) : f[k] = g[k]
      BY <3>1
    <3>3. Step(f, m) = Step(g, m)
      <4>. HIDE DEF g
      <4>1. QED
        BY <1>3, <3>1, <3>2
    <3>4. g[m] = Step(f, m)
      <4>1. CASE m = n
        BY <4>1
      <4>2. CASE m # n
        <5>1. m \in 1..(n - 1)
          BY <1>1, <4>2
        <5>2. f[m] = Step(f, m)
          BY <2>1, <5>1
        <5>3. QED
          BY <4>2, <5>2
      <4>3. QED
        BY <4>1, <4>2
    <3>5. QED
      BY <3>3, <3>4
  <2>3. Walk(g, n)
    BY <2>2
  <2>4. n \in Nat /\ \E h : Walk(h, n)
    <3>. HIDE DEF Walk, g
    <3>1. QED
      BY <1>1, <2>3
  <2>5. QED
    BY <2>4
<1>. HIDE DEF S
<1>6. Len(tree) \in S
  <2>1. 0..Len(tree) \subseteq S
    BY <1>1, <1>4, <1>5, UpToNat
  <2>2. QED
    BY <1>1, <2>1
<1>7. PICK f : Walk(f, Len(tree))
  BY <1>6 DEF S
<1>8. Walk(SubFcn, Len(tree))
  <2>. DEFINE Full(h) == h = [n \in 1..Len(tree) |->
                               NodePlan(n, [i \in DOMAIN tree[n].kids |-> h[tree[n].kids[i]]])]
  <2>1. \A n \in 1..Len(tree) : DOMAIN tree[n].kids = 1..Len(tree[n].kids)
    BY DEF IsSeq
  <2>2. \A h : Full(h) <=> Walk(h, Len(tree))
    BY <2>1 DEF Step, Kid
  <2>3. SubFcn = CHOOSE h : Full(h)
    BY <1>1 DEF SubFcn
  <2>. HIDE DEF Full, Walk
  <2>4. QED
    BY <1>7, <2>2, <2>3
<1>9. \A n \in 1..Len(tree) : SubFcn[n] = Step(SubFcn, n)
  BY <1>8
<1>10. QED
  BY <1>9 DEF Step, Kid

-----------------------------------------------------------------------------
(* abstractToIr.                                                           *)

\* The condition of the join n lies between its children, the way they stand.
JoinFits(t, n) ==
    /\ Len(t[n].kids) = 2
    /\ Connects(t[n].conds[1], UnderFcn(t)[t[n].kids[1]], UnderFcn(t)[t[n].kids[2]])

\* The tree that enrichTree leaves.
EnrichedTree(t, r) ==
    /\ IsSeq(t) /\ Descending(t) /\ r \in 1..Len(t)
    /\ \A n \in 1..Len(t) : IsSeq(t[n].kids) /\ t[n].kind \in Kinds /\ Len(t[n].conds) \in Nat
    /\ \A n \in Live(t, r) : t[n].kind = "join" /\ t[n].conds # <<>> => JoinFits(t, n)

\* A node that does not throw becomes a good plan if its children do.
LEMMA NodeGood ==
    ASSUME EnrichedTree(tree, root), NEW n \in Live(tree, root), ~Throws(n),
           NEW subs, IsSeq(subs), Len(subs) = Len(tree[n].kids),
           \A i \in 1..Len(subs) : GoodPlan(subs[i], UnderFcn(tree)[tree[n].kids[i]])
    PROVE  GoodPlan(NodePlan(n, subs), UnderFcn(tree)[n])
<1>. DEFINE under == UnderFcn(tree)
            node == tree[n]
            T == [i \in 1..Len(subs) |-> under[node.kids[i]]]
            all == UNION { T[i] : i \in 1..Len(subs) }
<1>1. /\ Len(tree) \in Nat /\ IsSeq(tree) /\ Descending(tree)
      /\ n \in 1..Len(tree) /\ IsSeq(node.kids) /\ Len(node.kids) \in Nat /\ node.kind \in Kinds
      /\ Len(node.conds) \in Nat
  <2>1. IsSeq(tree) /\ Len(tree) \in Nat /\ Descending(tree) /\ root \in 1..Len(tree)
    BY DEF EnrichedTree, IsSeq
  <2>2. n \in 1..Len(tree)
    BY <2>1, LiveClosed
  <2>3. QED
    BY <2>1, <2>2 DEF EnrichedTree, IsSeq
<1>2. GoodSubs(subs, T)
  BY DEF GoodSubs
<1>3. under[n] = IF node.kind = "source" THEN {node.table}
                 ELSE UNION { under[k] : k \in KidsOf(tree, n) }
  BY <1>1, UnderSteps
<1>4. node.kind # "source" => under[n] = all
  <2>1. KidsOf(tree, n) = { node.kids[i] : i \in 1..Len(subs) }
    BY <1>1, PointersAre
  <2>2. UNION { under[k] : k \in KidsOf(tree, n) } = all
    BY <2>1
  <2>3. QED
    BY <1>3, <2>2
<1>5. \A op, in, out, orders : op # "join" => GoodPlan(Above(subs, op, in, out, orders), all)
  <2>. HIDE DEF T
  <2>1. QED
    BY <1>2, AboveGood
<1>6. CASE node.kind = "source"
  <2>1. GoodPlan(SourcePlan(node), {node.table})
    BY <1>1, SourceGood
  <2>2. QED
    BY <1>3, <1>6, <2>1 DEF NodePlan
<1>7. CASE node.kind = "join"
  <2>1. node.conds # <<>>
    BY <1>7 DEF Throws
  <2>2. JoinFits(tree, n)
    BY <1>7, <2>1 DEF EnrichedTree
  <2>3. Len(subs) = 2 /\ Connects(node.conds[1], T[1], T[2])
    BY <2>2 DEF JoinFits
  <2>. HIDE DEF T, node
  <2>4. GoodPlan(JoinPlan(node, subs), all)
    <3>1. Len(subs) = 2 /\ Connects(node.conds[1], T[1], T[2]) /\ GoodSubs(subs, T)
      BY <1>2, <2>3
    <3>2. GoodPlan(JoinPlan(node, subs), AllOf(subs, T))
      BY <3>1, JoinGood
    <3>3. QED
      BY <3>2 DEF AllOf
  <2>5. NodePlan(n, subs) = JoinPlan(node, subs)
    BY <1>7 DEF NodePlan, node
  <2>6. node.kind # "source"
    BY <1>7
  <2>7. QED
    BY <1>4, <2>4, <2>5, <2>6
<1>8. CASE node.kind = "agg"
  <2>1. Len(subs) = 1
    BY <1>8 DEF Throws
  <2>2. 1..1 = {1} /\ 1 \in 1..Len(subs)
    BY <2>1
  <2>3. all = under[node.kids[1]]
    BY <2>1, <2>2
  <2>4. GoodPlan(AggPlan(subs[1]), all)
    BY <2>2, <2>3, AggGood
  <2>5. QED
    BY <1>4, <1>8, <2>4 DEF NodePlan
<1>9. CASE node.kind = "sort"
  <2>1. GoodPlan(SortPlan(subs), all)
    BY <1>5 DEF SortPlan
  <2>2. QED
    BY <1>4, <1>9, <2>1 DEF NodePlan
<1>10. CASE node.kind = "result"
  <2>1. GoodPlan(SelectPlan(n, subs), all)
    BY <1>5 DEF SelectPlan
  <2>2. QED
    BY <1>4, <1>10, <2>1 DEF NodePlan
<1>11. CASE node.kind = "empty"
  <2>1. GoodPlan(Above(subs, "empty", <<>>, <<>>, <<>>), all)
    BY <1>5
  <2>2. QED
    BY <1>4, <1>11, <2>1 DEF NodePlan
<1>12. QED
  BY <1>1, <1>6, <1>7, <1>8, <1>9, <1>10, <1>11 DEF Kinds

\* The plan of the whole tree.
LEMMA TreeGood ==
    ASSUME EnrichedTree(tree, root), \A n \in Live(tree, root) : ~Throws(n)
    PROVE  GoodPlan(PlanOfTree, UnderFcn(tree)[root])
<1>. DEFINE Good(n) == GoodPlan(SubFcn[n], UnderFcn(tree)[n])
            T == { n \in Live(tree, root) : ~Good(n) }
<1>1. /\ Len(tree) \in Nat /\ IsSeq(tree) /\ Descending(tree) /\ root \in 1..Len(tree)
      /\ \A n \in 1..Len(tree) : IsSeq(tree[n].kids)
  BY DEF EnrichedTree, IsSeq
<1>2. /\ root \in Live(tree, root) /\ Live(tree, root) \subseteq 1..root
      /\ \A m \in Live(tree, root) : KidsOf(tree, m) \subseteq Live(tree, root)
  BY <1>1, LiveClosed
<1>3. \A n \in 1..Len(tree) :
        SubFcn[n] = NodePlan(n, [i \in 1..Len(tree[n].kids) |-> SubFcn[tree[n].kids[i]]])
  BY <1>1, SubSteps
<1>. HIDE DEF Good
<1>4. T = {}
  <2>. SUFFICES ASSUME T # {} PROVE FALSE
    OBVIOUS
  <2>1. PICK n \in T : \A k \in T : n <= k
    <3>1. T \in SUBSET Nat
      BY <1>1, <1>2
    <3>. HIDE DEF T
    <3>2. QED
      BY <3>1, LeastNat
  <2>2. n \in Live(tree, root) /\ ~Good(n) /\ n \in 1..Len(tree)
    BY <1>1, <1>2
  <2>. DEFINE subs == [i \in 1..Len(tree[n].kids) |-> SubFcn[tree[n].kids[i]]]
  <2>3. ASSUME NEW k \in KidsOf(tree, n) PROVE Good(k)
    <3>1. k \in Live(tree, root)
      BY <1>2, <2>2
    <3>2. k \in 1..(n - 1)
      BY <1>1, <2>2 DEF Descending
    <3>3. ~(n <= k)
      BY <1>1, <2>2, <3>2
    <3>4. QED
      BY <2>1, <3>1, <3>3
  <2>4. IsSeq(subs) /\ Len(subs) = Len(tree[n].kids)
    <3>1. Len(tree[n].kids) \in Nat /\ subs = [i \in 1..Len(tree[n].kids) |-> subs[i]]
      BY <1>1, <2>2 DEF IsSeq
    <3>. HIDE DEF subs
    <3>2. QED
      BY <3>1, FcnIs
  <2>5. ASSUME NEW i \in 1..Len(subs)
        PROVE  GoodPlan(subs[i], UnderFcn(tree)[tree[n].kids[i]])
    <3>1. i \in 1..Len(tree[n].kids)
      BY <2>4
    <3>2. tree[n].kids[i] \in KidsOf(tree, n)
      BY <1>1, <2>2, <3>1, PointersAre
    <3>3. subs[i] = SubFcn[tree[n].kids[i]]
      BY <3>1
    <3>4. QED
      BY <2>3, <3>2, <3>3 DEF Good
  <2>6. SubFcn[n] = NodePlan(n, subs)
    BY <1>3, <2>2
  <2>. HIDE DEF subs, T
  <2>7. GoodPlan(NodePlan(n, subs), UnderFcn(tree)[n])
    BY <2>2, <2>4, <2>5, NodeGood
  <2>8. QED
    BY <2>2, <2>6, <2>7 DEF Good
<1>5. Good(root)
  BY <1>2, <1>4
<1>6. PlanOfTree = SubFcn[root]
  BY DEF PlanOfTree, SubFcn
<1>7. QED
  BY <1>5, <1>6 DEF Good

-----------------------------------------------------------------------------
(* The names of the scanned tables.                                        *)

\* A scan names its table unless it makes a bitmap, and no join makes one.
NodeNamed(x) ==
    /\ x.type \in ReadsTable => x.table # ""
    /\ x.kind = "source" => x.type \in ReadsTable \cup MakesBitmap
    /\ x.kind = "join" => x.type \notin Bitmap \cup MakesBitmap

\* A bitmap heap scan that pruneTree has been at.
HeapDone(x) == x.type = "Bitmap Heap Scan" => x.kind = "source"

\* In the tree, too, bitmaps are made below a bitmap scan and nowhere else; before
\* the node n pruneTree has found every bitmap scan to be a source.
TreeNamed(t, n) ==
    /\ \A m \in 1..Len(t) : \A k \in KidsOf(t, m) :
         t[m].type \notin Bitmap \cup MakesBitmap => t[k].type \notin MakesBitmap
    /\ \A m \in 1..Len(t) : NodeNamed(t[m])
    /\ \A m \in 1..Len(t) : m < n => HeapDone(t[m])

NamesInv ==
    phase \in {"prune", "enrich"} =>
      TreeNamed(tree, at) /\ (phase = "enrich" => at \in Nat /\ at > Len(file))

\* The types that are no bitmap's.
LEMMA NoBitmaps ==
    ASSUME NEW x \in Dropped
    PROVE  x \notin Bitmap \cup MakesBitmap \cup ReadsTable
BY DEF Dropped, Moved, Sorts, Gather, Bitmap, MakesBitmap, ReadsTable

\* A node that is no bitmap's is replaced by its child.
LEMMA DropNamed ==
    ASSUME NEW t \in Seq(TreeNode), Descending(t), NEW from, TreeNamed(t, from),
           NEW n \in 1..Len(t), t[n].type \in Dropped, Len(t[n].kids) = 1,
           NEW u, u = Rewired(t, n, t[n].kids[1])
    PROVE  TreeNamed(u, from)
<1>. DEFINE k == t[n].kids[1]
<1>1. KidsOf(t, n) = {k} /\ k \in 1..(n - 1) /\ k \in 1..n /\ Len(t) \in Nat
  BY KidsAre, LenProperties DEF Descending
<1>2. t[k].type \notin MakesBitmap
  BY <1>1, NoBitmaps DEF TreeNamed
<1>. HIDE DEF k
<1>3. /\ Len(u) = Len(t)
      /\ \A m \in 1..Len(t) :
           /\ u[m].type = t[m].type /\ u[m].kind = t[m].kind /\ u[m].table = t[m].table
           /\ KidsOf(u, m) = { IF x = n THEN k ELSE x : x \in KidsOf(t, m) }
  <2>1. u = Rewired(t, n, k)
    BY DEF k
  <2>2. \A j \in 1..n : u = Rewired(t, n, j) =>
          /\ Len(u) = Len(t)
          /\ \A m \in 1..Len(t) :
               /\ u[m].type = t[m].type /\ u[m].kind = t[m].kind /\ u[m].table = t[m].table
               /\ KidsOf(u, m) = { IF x = n THEN j ELSE x : x \in KidsOf(t, m) }
    BY RewiredTree
  <2>3. QED
    BY <1>1, <2>1, <2>2
<1>4. ASSUME NEW m \in 1..Len(u), NEW y \in KidsOf(u, m), u[m].type \notin Bitmap \cup MakesBitmap
      PROVE  u[y].type \notin MakesBitmap
  <2>1. PICK x \in KidsOf(t, m) : y = IF x = n THEN k ELSE x
    BY <1>3
  <2>2. t[x].type \notin MakesBitmap /\ x \in 1..Len(t)
    <3>1. m \in 1..Len(t) /\ t[m].type \notin Bitmap \cup MakesBitmap
      BY <1>3, <1>4
    <3>2. x \in 1..(m - 1)
      BY <3>1 DEF Descending
    <3>3. x \in 1..Len(t)
      BY <1>1, <3>1, <3>2
    <3>4. t[x].type \notin MakesBitmap
      BY <3>1 DEF TreeNamed
    <3>5. QED
      BY <3>3, <3>4
  <2>3. t[y].type \notin MakesBitmap /\ y \in 1..Len(t)
    BY <1>1, <1>2, <2>1, <2>2
  <2>4. QED
    BY <1>3, <2>3
<1>5. \A m \in 1..Len(t) : NodeNamed(u[m]) /\ (HeapDone(t[m]) => HeapDone(u[m]))
  <2>1. \A m \in 1..Len(t) : NodeNamed(t[m])
    BY DEF TreeNamed
  <2>2. QED
    BY <1>3, <2>1 DEF NodeNamed, HeapDone
<1>6. TreeNamed(u, from)
  BY <1>3, <1>4, <1>5 DEF TreeNamed
<1>7. QED
  BY <1>6

\* removeDeepAggregate and removeDeepSort.
LEMMA RemovedNamed ==
    ASSUME NEW t \in Seq(TreeNode), Descending(t), NEW from, TreeNamed(t, from),
           NEW n \in 1..Len(t), NEW types \in SUBSET Moved
    PROVE  TreeNamed(RemovedBelow(t, n, types), from)
<1>. DEFINE m == FirstBelow(t, n, types)
<1>1. m \in 0..n /\ (m # 0 => t[m].type \in types) /\ Len(t) \in Nat
  BY FirstBelowFinds, LenProperties
<1>2. RemovedBelow(t, n, types) =
        IF m # 0 /\ Len(t[m].kids) = 1 THEN Rewired(t, m, t[m].kids[1]) ELSE t
  BY DEF RemovedBelow
<1>. HIDE DEF m
<1>3. m # 0 => m \in 1..Len(t) /\ t[m].type \in Dropped
  BY <1>1 DEF Dropped
<1>4. QED
  BY <1>2, <1>3, DropNamed

\* Only the children of a bitmap scan may change without anything else.
LEMMA SameNamed ==
    ASSUME NEW t, NEW u, Len(t) \in Nat, Len(u) = Len(t), Descending(t),
           NEW from, TreeNamed(t, from), NEW later,
           \A m \in 1..Len(t) :
             /\ u[m].type = t[m].type
             /\ t[m].type \notin Bitmap => KidsOf(u, m) = KidsOf(t, m)
             /\ NodeNamed(u[m])
             /\ m < later => HeapDone(u[m])
    PROVE  TreeNamed(u, later)
<1>1. ASSUME NEW m \in 1..Len(u), NEW k \in KidsOf(u, m), u[m].type \notin Bitmap \cup MakesBitmap
      PROVE  u[k].type \notin MakesBitmap
  <2>1. m \in 1..Len(t) /\ k \in KidsOf(t, m) /\ t[m].type \notin Bitmap \cup MakesBitmap
    BY <1>1
  <2>2. k \in 1..Len(t)
    <3>1. k \in 1..(m - 1)
      BY <2>1 DEF Descending
    <3>2. \A l \in Nat : \A i \in 1..l : 1..(i - 1) \subseteq 1..l
      OBVIOUS
    <3>3. QED
      BY <2>1, <3>1, <3>2
  <2>3. t[k].type \notin MakesBitmap
    BY <2>1 DEF TreeNamed
  <2>4. QED
    BY <2>2, <2>3
<1>2. QED
  BY <1>1 DEF TreeNamed

\* A bitmap scan takes over the children of its only child.
LEMMA CollapsedNamed ==
    ASSUME NEW t \in Seq(TreeNode), Descending(t), NEW from, TreeNamed(t, from),
           NEW n \in 1..Len(t)
    PROVE  TreeNamed(Collapsed(t, n), from)
<1>. DEFINE k == t[n].kids[1]
            u == [t EXCEPT ![n].kids = t[k].kids]
<1>1. DOMAIN t = 1..Len(t) /\ Len(t) \in Nat /\ t[n] \in TreeNode
  BY LenProperties, ElementOfSeq
<1>2. CASE t[n].type \in Bitmap /\ Len(t[n].kids) = 1 /\ t[k].type \in Bitmap
  <2>. HIDE DEF k
  <2>1. /\ u[n].type = t[n].type /\ u[n].kind = t[n].kind /\ u[n].table = t[n].table
        /\ \A m \in 1..Len(t) \ {n} : u[m] = t[m]
    BY <1>1 DEF TreeNode
  <2>2. Len(u) = Len(t)
    <3>1. u = [m \in 1..Len(t) |-> u[m]]
      BY <1>1
    <3>. HIDE DEF u
    <3>2. QED
      BY <1>1, <3>1, FcnIs
  <2>3. Collapsed(t, n) = u
    BY <1>2 DEF Collapsed, k
  <2>. HIDE DEF u
  <2>4. ASSUME NEW m \in 1..Len(t)
        PROVE  /\ u[m].type = t[m].type /\ u[m].kind = t[m].kind /\ u[m].table = t[m].table
               /\ t[m].type \notin Bitmap => KidsOf(u, m) = KidsOf(t, m)
    BY <1>2, <2>1 DEF KidsOf
  <2>5. \A m \in 1..Len(t) :
          /\ NodeNamed(u[m])
          /\ m < from => HeapDone(u[m])
    BY <2>4 DEF TreeNamed, NodeNamed, HeapDone
  <2>6. TreeNamed(u, from)
    BY <1>1, <2>2, <2>4, <2>5, SameNamed
  <2>7. QED
    BY <2>3, <2>6
<1>3. CASE ~(t[n].type \in Bitmap /\ Len(t[n].kids) = 1 /\ t[k].type \in Bitmap)
  <2>1. Collapsed(t, n) = t
    BY <1>3 DEF Collapsed
  <2>2. QED
    BY <2>1
<1>4. QED
  BY <1>2, <1>3

\* The kind that convertToAbstract gives to a node says what TreeNamed does of it.
LEMMA KindedNamed ==
    ASSUME NEW t \in Seq(TreeNode), Descending(t), NEW n \in 1..Len(t), TreeNamed(t, n)
    PROVE  TreeNamed([t EXCEPT ![n].kind = KindOf(t[n].type)], n + 1)
<1>. DEFINE u == [t EXCEPT ![n].kind = KindOf(t[n].type)]
<1>1. DOMAIN t = 1..Len(t) /\ Len(t) \in Nat /\ t[n] \in TreeNode
  BY LenProperties, ElementOfSeq
<1>2. /\ u[n].type = t[n].type /\ u[n].kind = KindOf(t[n].type) /\ u[n].table = t[n].table
      /\ u[n].kids = t[n].kids
      /\ \A m \in 1..Len(t) \ {n} : u[m] = t[m]
  BY <1>1 DEF TreeNode
<1>3. Len(u) = Len(t)
  <2>1. u = [m \in 1..Len(t) |-> u[m]]
    BY <1>1
  <2>. HIDE DEF u
  <2>2. QED
    BY <1>1, <2>1, FcnIs
<1>. HIDE DEF u
<1>4. \A x : /\ KindOf(x) = "source" => x \in ReadsTable \cup MakesBitmap
             /\ KindOf(x) = "join" => x \notin Bitmap \cup MakesBitmap
             /\ x = "Bitmap Heap Scan" => KindOf(x) = "source"
  BY DEF KindOf, ReadsTable, MakesBitmap, Bitmap, Sorts
<1>5. NodeNamed(u[n]) /\ HeapDone(u[n])
  BY <1>2, <1>4 DEF TreeNamed, NodeNamed, HeapDone
<1>6. ASSUME NEW m \in 1..Len(t)
      PROVE  /\ u[m].type = t[m].type /\ KidsOf(u, m) = KidsOf(t, m) /\ NodeNamed(u[m])
             /\ m < n + 1 => HeapDone(u[m])
  <2>1. CASE m = n
    BY <1>2, <1>5, <2>1 DEF KidsOf
  <2>2. CASE m # n
    <3>1. u[m] = t[m] /\ (m < n + 1 => m < n)
      BY <1>1, <1>2, <2>2
    <3>2. QED
      BY <3>1 DEF KidsOf, TreeNamed
  <2>3. QED
    BY <2>1, <2>2
<1>7. TreeNamed(u, n + 1)
  BY <1>1, <1>3, <1>6, SameNamed
<1>8. QED
  BY <1>7 DEF u

\* An aggregate and a sort are not scans, wherever they stand.
LEMMA ExchangedNamed ==
    ASSUME NEW t \in Seq(TreeNode), Descending(t), NEW from, TreeNamed(t, from),
           NEW n \in 1..Len(t),
           \A m \in 1..Len(t) : t[m].kind \in {"agg", "sort"} => t[m].type \in Moved
    PROVE  TreeNamed(Exchanged(t, n), from)
<1>. DEFINE k == t[n].kids[1]
            As(m, o) == [t[o] EXCEPT !.kids = t[m].kids]
            u == [t EXCEPT ![n] = As(n, k), ![k] = As(k, n)]
<1>1. DOMAIN t = 1..Len(t) /\ Len(t) \in Nat
  BY LenProperties
<1>2. CASE t[n].kind = "agg" /\ t[n].kids # <<>> /\ t[k].kind = "sort"
  <2>1. k \in 1..(n - 1)
    BY <1>2, KidsAre DEF Descending
  <2>. HIDE DEF k
  <2>2. k \in 1..Len(t) /\ k # n
    BY <1>1, <2>1
  <2>3. t[n] \in TreeNode /\ t[k] \in TreeNode
    BY <2>2, KidsAre
  <2>4. /\ As(n, k).kids = t[n].kids /\ As(n, k).type = t[k].type /\ As(n, k).kind = t[k].kind
        /\ As(k, n).kids = t[k].kids /\ As(k, n).type = t[n].type /\ As(k, n).kind = t[n].kind
    BY <2>3 DEF TreeNode
  <2>. HIDE DEF As
  <2>5. /\ u[n] = As(n, k) /\ u[k] = As(k, n)
        /\ \A m \in 1..Len(t) \ {n, k} : u[m] = t[m]
    BY <1>1, <2>2
  <2>6. Len(u) = Len(t)
    <3>1. u = [m \in 1..Len(t) |-> u[m]]
      BY <1>1
    <3>. HIDE DEF u
    <3>2. QED
      BY <1>1, <3>1, FcnIs
  <2>7. Exchanged(t, n) = u
    BY <1>2 DEF Exchanged, k, As
  <2>. HIDE DEF u
  <2>8. /\ t[n].type \in Dropped /\ t[k].type \in Dropped
        /\ u[n].type \in Dropped /\ u[k].type \in Dropped
        /\ u[n].kind \in {"agg", "sort"} /\ u[k].kind \in {"agg", "sort"}
    <3>1. t[n].type \in Moved /\ t[k].type \in Moved
      BY <1>2, <2>2
    <3>2. QED
      BY <1>2, <2>4, <2>5, <3>1 DEF Dropped
  <2>9. \A m \in {n, k} : \A w \in {t[m].type, u[m].type} :
          w \notin Bitmap \cup MakesBitmap \cup ReadsTable
    BY <2>8, NoBitmaps
  <2>10. \A m \in 1..Len(t) : KidsOf(u, m) = KidsOf(t, m)
    BY <2>4, <2>5 DEF KidsOf
  <2>11. \A m \in 1..Len(t) : u[m].type \in Bitmap \cup MakesBitmap <=> t[m].type \in Bitmap \cup MakesBitmap
    BY <2>5, <2>9
  <2>12. \A m \in 1..Len(t) : u[m].type \in MakesBitmap <=> t[m].type \in MakesBitmap
    BY <2>5, <2>9
  <2>13. ASSUME NEW m \in 1..Len(u), NEW x \in KidsOf(u, m),
                u[m].type \notin Bitmap \cup MakesBitmap
         PROVE  u[x].type \notin MakesBitmap
    <3>1. m \in 1..Len(t) /\ x \in KidsOf(t, m) /\ t[m].type \notin Bitmap \cup MakesBitmap
      BY <2>6, <2>10, <2>11, <2>13
    <3>2. x \in 1..Len(t)
      BY <1>1, <3>1 DEF Descending
    <3>3. t[x].type \notin MakesBitmap
      BY <3>1 DEF TreeNamed
    <3>4. QED
      BY <2>12, <3>2, <3>3
  <2>14. ASSUME NEW m \in 1..Len(u)
         PROVE  /\ NodeNamed(u[m])
                /\ m < from => HeapDone(u[m])
    <3>1. CASE m \in {n, k}
      <4>1. u[m].kind \in {"agg", "sort"} /\ u[m].type \notin ReadsTable
        BY <2>8, <2>9, <3>1
      <4>2. "Bitmap Heap Scan" \in ReadsTable
        BY DEF ReadsTable
      <4>3. QED
        BY <4>1, <4>2 DEF NodeNamed, HeapDone
    <3>2. CASE m \notin {n, k}
      BY <2>5, <2>6, <3>2 DEF TreeNamed
    <3>3. QED
      BY <3>1, <3>2
  <2>15. QED
    BY <2>7, <2>13, <2>14 DEF TreeNamed
<1>3. CASE ~(t[n].kind = "agg" /\ t[n].kids # <<>> /\ t[k].kind = "sort")
  <2>1. Exchanged(t, n) = t
    BY <1>3 DEF Exchanged
  <2>2. QED
    BY <2>1
<1>4. QED
  BY <1>2, <1>3

\* A node that stays is stored where it was.
LEMMA StoredNamed ==
    ASSUME NEW t \in Seq(TreeNode), Descending(t), NEW from, TreeNamed(t, from),
           NEW n \in 1..Len(t), NEW u, u = Rewired(t, n, n)
    PROVE  TreeNamed(u, from)
<1>1. n \in 1..n /\ Len(t) \in Nat
  BY LenProperties
<1>2. /\ Len(u) = Len(t)
      /\ \A m \in 1..Len(t) :
           /\ u[m].type = t[m].type /\ u[m].kind = t[m].kind /\ u[m].table = t[m].table
           /\ KidsOf(u, m) = { IF x = n THEN n ELSE x : x \in KidsOf(t, m) }
  BY <1>1, RewiredTree
<1>3. ASSUME NEW m \in 1..Len(t) PROVE KidsOf(u, m) = KidsOf(t, m)
  <2>1. KidsOf(u, m) = { IF x = n THEN n ELSE x : x \in KidsOf(t, m) }
    BY <1>2
  <2>2. QED
    BY <2>1
<1>4. \A m \in 1..Len(t) :
        /\ u[m].type = t[m].type /\ u[m].kind = t[m].kind /\ u[m].table = t[m].table
  BY <1>2
<1>5. \A m \in 1..Len(t) : NodeNamed(u[m]) /\ (HeapDone(t[m]) => HeapDone(u[m]))
  <2>1. \A m \in 1..Len(t) : NodeNamed(t[m])
    BY DEF TreeNamed
  <2>2. QED
    BY <1>4, <2>1 DEF NodeNamed, HeapDone
<1>6. \A m \in 1..Len(t) : NodeNamed(u[m]) /\ (m < from => HeapDone(u[m]))
  BY <1>5 DEF TreeNamed
<1>7. QED
  BY <1>1, <1>2, <1>3, <1>4, <1>6, SameNamed

\* A node that is cut out gets no kind.
LEMMA NamedLater ==
    ASSUME NEW t, NEW n \in 1..Len(t), TreeNamed(t, n), Len(t) \in Nat,
           t[n].type \in Dropped
    PROVE  TreeNamed(t, n + 1)
<1>1. \A i, j \in Nat : i < j + 1 => i < j \/ i = j
  OBVIOUS
<1>2. n \in Nat /\ \A m \in 1..Len(t) : m \in Nat
  OBVIOUS
<1>3. \A m \in 1..Len(t) : m < n + 1 => m < n \/ m = n
  BY <1>1, <1>2
<1>4. HeapDone(t[n])
  BY NoBitmaps DEF HeapDone, Bitmap
<1>5. QED
  BY <1>3, <1>4 DEF TreeNamed

\* A Hash is replaced by its child.
LEMMA HashNamed ==
    ASSUME PruneInv, NamesInv, PruneHash
    PROVE  TreeNamed(tree', at + 1)
<1>. DEFINE k == tree[at].kids[1]
<1>1. /\ PlanFile(file) /\ TreeInv(tree, root, at) /\ at \in 1..Len(file) /\ TreeNamed(tree, at)
      /\ tree[at].type = "Hash" /\ Len(tree[at].kids) = 1 /\ tree' = Rewired(tree, at, k)
  BY DEF PruneInv, NamesInv, PruneHash, OneKid, PruneReturns
<1>2. /\ tree \in Seq(TreeNode) /\ Descending(tree) /\ at \in 1..Len(tree) /\ Len(tree) \in Nat
      /\ tree[at].type \in Dropped
  BY <1>1, FileTypes DEF TreeInv, Dropped
<1>3. TreeNamed(tree, at + 1)
  BY <1>1, <1>2, NamedLater
<1>. HIDE DEF k
<1>4. tree' = Rewired(tree, at, tree[at].kids[1])
  BY <1>1 DEF k
<1>5. QED
  BY <1>1, <1>2, <1>3, <1>4, DropNamed

\* A Gather goes, and the partial aggregate below it.
LEMMA GatherNamed ==
    ASSUME PruneInv, NamesInv, PruneGather
    PROVE  TreeNamed(tree', at + 1)
<1>. DEFINE t == RemovedBelow(tree, tree[at].kids[1], {"Aggregate"})
<1>1. /\ PlanFile(file) /\ TreeInv(tree, root, at) /\ at \in 1..Len(file) /\ TreeNamed(tree, at)
      /\ root = Len(file) /\ tree[at].type \in Gather /\ OneKid(at)
      /\ tree' = Rewired(t, at, t[at].kids[1])
  BY DEF PruneInv, NamesInv, PruneGather, PruneReturns
<1>2. /\ tree \in Seq(TreeNode) /\ Descending(tree) /\ Len(tree) = Len(file)
      /\ tree[at].type \in Dropped /\ at \in Nat /\ {"Aggregate"} \in SUBSET Moved
  BY <1>1, FileTypes DEF TreeInv, Dropped, Moved
<1>3. /\ TreeInv(t, root, at) /\ t[at].type = tree[at].type
      /\ Len(t[at].kids) = Len(tree[at].kids)
  BY <1>1, <1>2, FirstKid, RemovedKeeps
<1>4. TreeNamed(t, at)
  BY <1>1, <1>2, FirstKid, RemovedNamed
<1>. HIDE DEF t
<1>5. /\ t \in Seq(TreeNode) /\ Descending(t) /\ at \in 1..Len(t) /\ Len(t) \in Nat
      /\ t[at].type \in Dropped /\ Len(t[at].kids) = 1
  BY <1>1, <1>2, <1>3, FileTypes DEF TreeInv, OneKid
<1>6. TreeNamed(t, at + 1)
  BY <1>4, <1>5, NamedLater
<1>7. QED
  BY <1>1, <1>5, <1>6, DropNamed

\* A second sort goes, a pair of bitmap scans becomes one, the node gets its kind, an
\* aggregate and a sort change places.
LEMMA OtherNamed ==
    ASSUME PruneInv, NamesInv, PruneOther
    PROVE  TreeNamed(tree', at + 1)
<1>. DEFINE single == IF tree[at].type \in Sorts /\ OneKid(at)
                      THEN RemovedBelow(tree, tree[at].kids[1], Sorts) ELSE tree
            flat == Collapsed(single, at)
            kinded == [flat EXCEPT ![at].kind = KindOf(tree[at].type)]
            t == Exchanged(kinded, at)
<1>1. /\ PlanFile(file) /\ TreeInv(tree, root, at) /\ at \in 1..Len(file) /\ TreeNamed(tree, at)
      /\ root = Len(file) /\ tree' = Rewired(t, at, at)
  BY DEF PruneInv, NamesInv, PruneOther, PruneReturns
<1>2. /\ at \in Nat /\ at + 1 \in Nat /\ Sorts \in SUBSET Moved
      /\ tree \in Seq(TreeNode) /\ Descending(tree) /\ Len(tree) = Len(file)
  BY <1>1, FileTypes DEF Moved, TreeInv
<1>3. TreeInv(single, root, at) /\ single[at].type = tree[at].type /\ TreeNamed(single, at)
  <2>1. CASE tree[at].type \in Sorts /\ OneKid(at)
    <3>1. single = RemovedBelow(tree, tree[at].kids[1], Sorts)
      BY <2>1
    <3>. HIDE DEF single
    <3>2. TreeInv(single, root, at) /\ single[at].type = tree[at].type
      BY <1>1, <1>2, <2>1, <3>1, FirstKid, RemovedKeeps
    <3>3. TreeNamed(single, at)
      BY <1>1, <1>2, <2>1, <3>1, FirstKid, RemovedNamed
    <3>4. QED
      BY <3>2, <3>3
  <2>2. CASE ~(tree[at].type \in Sorts /\ OneKid(at))
    BY <1>1, <2>2
  <2>3. QED
    BY <2>1, <2>2
<1>. HIDE DEF single
<1>4. single \in Seq(TreeNode) /\ Descending(single) /\ at \in 1..Len(single)
  BY <1>1, <1>3 DEF TreeInv
<1>5. TreeInv(flat, root, at + 1) /\ flat[at].type = tree[at].type /\ TreeNamed(flat, at)
  BY <1>1, <1>3, <1>4, CollapsedKeeps, CollapsedNamed
<1>. HIDE DEF flat
<1>6. flat \in Seq(TreeNode) /\ Descending(flat) /\ at \in 1..Len(flat)
  BY <1>1, <1>5 DEF TreeInv
<1>7. TreeInv(kinded, root, at + 1) /\ TreeNamed(kinded, at + 1)
  BY <1>1, <1>2, <1>5, <1>6, KindedKeeps, KindedNamed
<1>. HIDE DEF kinded
<1>8. /\ kinded \in Seq(TreeNode) /\ Descending(kinded) /\ at \in 1..Len(kinded)
      /\ \A m \in 1..Len(kinded) : kinded[m].kind \in {"agg", "sort"} => kinded[m].type \in Moved
  BY <1>1, <1>7 DEF TreeInv
<1>9. TreeInv(t, root, at + 1) /\ TreeNamed(t, at + 1)
  BY <1>1, <1>2, <1>7, <1>8, ExchangedKeeps, ExchangedNamed
<1>. HIDE DEF t
<1>10. t \in Seq(TreeNode) /\ Descending(t) /\ at \in 1..Len(t)
  BY <1>1, <1>9 DEF TreeInv
<1>11. QED
  BY <1>1, <1>9, <1>10, StoredNamed

\* Every step preserves it; after enrichTree it says nothing.
LEMMA NamesInvStep ==
    ASSUME PruneInv, NamesInv, [Next]_vars
    PROVE  NamesInv'
<1>1. CASE PruneHash \/ PruneGather \/ PruneOther
  <2>1. TreeNamed(tree', at + 1)
    BY <1>1, HashNamed, GatherNamed, OtherNamed
  <2>2. /\ phase = "prune" /\ at' = at + 1 /\ file' = file
        /\ phase' = IF at = Len(file) THEN "enrich" ELSE "prune"
    BY <1>1 DEF PruneHash, PruneGather, PruneOther, PruneReturns
  <2>3. TreeNamed(tree, at)'
    BY <2>1, <2>2 DEF TreeNamed
  <2>4. Len(file) \in Nat /\ at \in 1..Len(file)
    BY <2>2, FileTypes DEF PruneInv
  <2>5. phase' = "enrich" => at' \in Nat /\ at' > Len(file')
    BY <2>2, <2>4
  <2>6. QED
    BY <2>3, <2>5 DEF NamesInv
<1>2. CASE Enrich \/ AbstractToIr \/ EnsureCorrectColumnSetup
  <2>1. phase' \notin {"prune", "enrich"}
    BY <1>2 DEF Enrich, AbstractToIr, EnsureCorrectColumnSetup
  <2>2. QED
    BY <2>1 DEF NamesInv
<1>3. CASE UNCHANGED vars
  BY <1>3 DEF vars, NamesInv, TreeNamed
<1>4. QED
  BY <1>1, <1>2, <1>3 DEF Next

\* It is true in the beginning.
LEMMA NamesInvInit ==
    ASSUME Init PROVE NamesInv
<1>1. PlanFile(file) /\ tree = ReadPlan(file) /\ at = 1 /\ phase = "prune"
  BY InputsAssumption DEF Init, Start
<1>2. /\ Len(file) \in Nat /\ DOMAIN file = 1..Len(file) /\ Len(tree) = Len(file)
  BY <1>1, FileTypes, ReadTree DEF TreeInv
<1>3. ASSUME NEW n \in 1..Len(file)
      PROVE  /\ tree[n].type = file[n].type /\ KidsOf(tree, n) = KidsOf(file, n)
             /\ tree[n].kind = "empty" /\ (file[n].table # "" => tree[n].table # "")
  BY <1>1, <1>2 DEF ReadPlan, KidsOf
<1>4. ASSUME NEW m \in 1..Len(tree), NEW k \in KidsOf(tree, m),
             tree[m].type \notin Bitmap \cup MakesBitmap
      PROVE  tree[k].type \notin MakesBitmap
  <2>1. m \in 1..Len(file) /\ k \in KidsOf(file, m) /\ file[m].type \notin Bitmap \cup MakesBitmap
    BY <1>2, <1>3, <1>4
  <2>2. k \in 1..(m - 1)
    BY <1>1, <1>2, <2>1 DEF PlanFile
  <2>3. k \in 1..Len(file)
    BY <1>2, <2>1, <2>2
  <2>4. file[k].type \notin MakesBitmap
    BY <1>1, <1>2, <2>1 DEF PlanFile
  <2>5. QED
    BY <1>3, <2>3, <2>4
<1>5. ASSUME NEW m \in 1..Len(tree) PROVE NodeNamed(tree[m])
  <2>1. file[m].type \in ReadsTable => file[m].table # ""
    BY <1>1, <1>2 DEF PlanFile
  <2>2. QED
    BY <1>2, <1>3, <2>1 DEF NodeNamed
<1>6. \A m \in 1..Len(tree) : ~(m < at)
  BY <1>1, <1>2
<1>7. TreeNamed(tree, at)
  BY <1>4, <1>5, <1>6 DEF TreeNamed
<1>8. QED
  BY <1>1, <1>7 DEF NamesInv

\* Once pruneTree has been at every node, the tables that are scanned below one that
\* makes no bitmap have names.
LEMMA NamesBelow ==
    ASSUME NEW t \in Seq(TreeNode), Descending(t), NEW from, TreeNamed(t, from),
           \A m \in 1..Len(t) : m < from
    PROVE  \A n \in 1..Len(t) : t[n].type \notin MakesBitmap => "" \notin UnderFcn(t)[n]
<1>. DEFINE Bad(n) == t[n].type \notin MakesBitmap /\ "" \in UnderFcn(t)[n]
            T == { n \in 1..Len(t) : Bad(n) }
<1>1. Len(t) \in Nat
  BY LenProperties
<1>2. \A n \in 1..Len(t) :
        UnderFcn(t)[n] = IF t[n].kind = "source" THEN {t[n].table}
                         ELSE UNION { UnderFcn(t)[k] : k \in KidsOf(t, n) }
  BY SeqIs, UnderSteps
<1>. HIDE DEF Bad
<1>3. T = {}
  <2>. SUFFICES ASSUME T # {} PROVE FALSE
    OBVIOUS
  <2>1. PICK n \in T : \A k \in T : n <= k
    <3>1. T \in SUBSET Nat
      BY <1>1
    <3>. HIDE DEF T
    <3>2. QED
      BY <3>1, LeastNat
  <2>2. n \in 1..Len(t) /\ Bad(n)
    OBVIOUS
  <2>3. NodeNamed(t[n]) /\ HeapDone(t[n])
    BY <2>2 DEF TreeNamed
  <2>4. CASE t[n].kind = "source"
    <3>1. t[n].type \in ReadsTable /\ t[n].table # ""
      BY <2>2, <2>3, <2>4 DEF NodeNamed, Bad
    <3>2. UnderFcn(t)[n] = {t[n].table}
      BY <1>2, <2>2, <2>4
    <3>3. QED
      BY <2>2, <3>1, <3>2 DEF Bad
  <2>5. CASE t[n].kind # "source"
    <3>1. t[n].type \notin Bitmap \cup MakesBitmap
      BY <2>2, <2>3, <2>5 DEF HeapDone, Bitmap, MakesBitmap, Bad
    <3>2. PICK k \in KidsOf(t, n) : "" \in UnderFcn(t)[k]
      <4>1. UnderFcn(t)[n] = UNION { UnderFcn(t)[k] : k \in KidsOf(t, n) }
        BY <1>2, <2>2, <2>5
      <4>2. "" \in UnderFcn(t)[n]
        BY <2>2 DEF Bad
      <4>3. QED
        BY <4>1, <4>2
    <3>3. Bad(k)
      BY <2>2, <3>1, <3>2 DEF TreeNamed, Bad
    <3>4. k \in 1..(n - 1)
      BY <2>2 DEF Descending
    <3>5. \A l \in Nat : \A i \in 1..l : \A j \in 1..(i - 1) : j \in 1..l /\ ~(i <= j)
      OBVIOUS
    <3>6. k \in T /\ ~(n <= k)
      BY <1>1, <2>2, <3>3, <3>4, <3>5
    <3>. HIDE DEF T
    <3>7. QED
      BY <2>1, <3>6
  <2>6. QED
    BY <2>4, <2>5
<1>4. QED
  BY <1>3 DEF Bad

\* The tables on the sides of the join n have names.
SidesNamed(n) == \A x \in KidsOf(tree, n) : "" \notin UnderFcn(tree)[x]

\* Every join reads tables that have names.
LEMMA JoinsNamed ==
    ASSUME PruneInv, NamesInv, phase = "enrich"
    PROVE  \A n \in 1..Len(tree) : tree[n].kind = "join" => SidesNamed(n)
<1>1. /\ tree \in Seq(TreeNode) /\ Descending(tree) /\ Len(tree) = Len(file) /\ Len(file) \in Nat
      /\ TreeNamed(tree, at) /\ at > Len(file)
  BY FileTypes DEF PruneInv, TreeInv, NamesInv
<1>2. \A n \in 1..Len(tree) : tree[n].type \notin MakesBitmap => "" \notin UnderFcn(tree)[n]
  <2>1. at \in Nat
    BY DEF NamesInv
  <2>2. \A m \in 1..Len(tree) : m < at
    BY <1>1, <2>1
  <2>3. QED
    BY <1>1, <2>2, NamesBelow
<1>3. ASSUME NEW n \in 1..Len(tree), tree[n].kind = "join", NEW x \in KidsOf(tree, n)
      PROVE  "" \notin UnderFcn(tree)[x]
  <2>1. tree[n].type \notin Bitmap \cup MakesBitmap
    BY <1>1, <1>3 DEF TreeNamed, NodeNamed
  <2>2. tree[x].type \notin MakesBitmap
    BY <1>1, <2>1 DEF TreeNamed
  <2>3. x \in 1..(n - 1)
    BY <1>1 DEF Descending
  <2>4. x \in 1..Len(tree)
    BY <1>1, <2>3
  <2>5. QED
    BY <1>2, <2>2, <2>4
<1>4. QED
  BY <1>3 DEF SidesNamed

-----------------------------------------------------------------------------
(* enrichTree.                                                             *)

\* No column belongs to the table that stands for none.
LEMMA NotDefault ==
    ASSUME NEW c, NEW side \in {1, 2}
    PROVE  ConditionTables(c)[side] # "Default"
<1>1. ASSUME NEW w PROVE GetTableFromColumn(w) # "Default"
  <2>1. w \in DOMAIN TableOf => TableOf[w] \in Tables
    BY DEF Tables
  <2>2. GetTableFromColumn(w) \in Tables \/ GetTableFromColumn(w) = ""
    BY <2>1 DEF GetTableFromColumn
  <2>3. QED
    BY <2>2, InputsAssumption
<1>. DEFINE l == GetTableFromColumn(c.left)
            r == GetTableFromColumn(c.right)
<1>2. l # "Default" /\ r # "Default"
  BY <1>1
<1>3. ConditionTables(c) = <<l, r>> \/ ConditionTables(c) = <<"", "">>
  BY DEF ConditionTables
<1>. HIDE DEF l, r
<1>4. ASSUME NEW a, NEW b, a # "Default", b # "Default"
      PROVE  <<a, b>>[side] # "Default"
  BY <1>4
<1>5. "" # "Default"
  OBVIOUS
<1>6. <<l, r>>[side] # "Default" /\ <<"", "">>[side] # "Default"
  BY <1>2, <1>4, <1>5
<1>7. QED
  BY <1>3, <1>6

\* A sequence of sequences as one.
LEMMA FlattenIs ==
    ASSUME NEW T, NEW s, IsSeq(s), \A i \in 1..Len(s) : s[i] \in Seq(T)
    PROVE  FlattenSeq(s) \in Seq(T)
<1>. DEFINE Step(f, i) == IF i = 1 THEN s[i] ELSE f[i - 1] \o s[i]
            Walk(f, n) == f = [i \in 1..n |-> Step(f, i)]
            S == { n \in Nat : \E f : Walk(f, n) }
            flat == CHOOSE f : Walk(f, Len(s))
            G == { n \in Nat : n = 0 \/ flat[n] \in Seq(T) }
<1>1. Len(s) \in Nat
  BY DEF IsSeq
<1>2. CASE Len(s) = 0
  <2>1. FlattenSeq(s) = s
    BY <1>2 DEF FlattenSeq
  <2>2. \A i \in 1..Len(s) : s[i] \in T
    BY <1>2
  <2>3. QED
    BY <2>1, <2>2, SeqOfElements
<1>3. CASE Len(s) # 0
  <2>1. 0 \in S
    <3>1. Walk([i \in 1..0 |-> <<>>], 0)
      OBVIOUS
    <3>2. QED
      BY <3>1
  <2>2. ASSUME NEW n \in 1..Len(s), n - 1 \in S PROVE n \in S
    <3>1. PICK f : Walk(f, n - 1)
      BY <2>2
    <3>. DEFINE g == [i \in 1..n |-> IF i = n THEN Step(f, n) ELSE f[i]]
    <3>2. ASSUME NEW i \in 1..n PROVE g[i] = Step(g, i)
      <4>1. i # 1 => i - 1 \in 1..n /\ i - 1 # n /\ g[i - 1] = f[i - 1]
        <5>1. i # 1 => i - 1 \in 1..n /\ i - 1 # n
          BY <1>1
        <5>2. QED
          BY <5>1
      <4>2. Step(g, i) = Step(f, i)
        <5>. HIDE DEF g
        <5>1. QED
          BY <4>1
      <4>3. g[i] = Step(f, i)
        <5>1. CASE i = n
          BY <5>1
        <5>2. CASE i # n
          <6>1. i \in 1..(n - 1)
            BY <1>1, <5>2
          <6>. HIDE DEF Step
          <6>2. f[i] = Step(f, i)
            BY <3>1, <6>1
          <6>3. QED
            BY <5>2, <6>2
        <5>3. QED
          BY <5>1, <5>2
      <4>4. QED
        BY <4>2, <4>3
    <3>. HIDE DEF Step
    <3>3. Walk(g, n)
      BY <3>2
    <3>4. n \in Nat /\ \E h : Walk(h, n)
      <4>. HIDE DEF Walk, g
      <4>1. QED
        BY <1>1, <3>3
    <3>5. QED
      BY <3>4
  <2>. HIDE DEF S
  <2>3. Len(s) \in S
    <3>1. 0..Len(s) \subseteq S
      BY <1>1, <2>1, <2>2, UpToNat
    <3>2. QED
      BY <1>1, <3>1
  <2>4. Walk(flat, Len(s))
    <3>. HIDE DEF Walk
    <3>1. QED
      BY <2>3 DEF S
  <2>5. FlattenSeq(s) = flat[Len(s)]
    BY <1>3 DEF FlattenSeq
  <2>6. \A i \in 1..Len(s) : flat[i] = IF i = 1 THEN s[i] ELSE flat[i - 1] \o s[i]
    <3>. HIDE DEF flat
    <3>1. QED
      BY <2>4
  <2>. HIDE DEF flat
  <2>7. 0 \in G
    OBVIOUS
  <2>8. ASSUME NEW n \in 1..Len(s), n - 1 \in G PROVE n \in G
    <3>1. CASE n = 1
      BY <2>6, <3>1
    <3>2. CASE n # 1
      <4>1. n - 1 # 0 /\ n \in Nat
        BY <1>1, <3>2
      <4>2. flat[n - 1] \in Seq(T) /\ s[n] \in Seq(T)
        BY <2>8, <4>1
      <4>3. flat[n - 1] \o s[n] \in Seq(T)
        BY <4>2
      <4>4. QED
        BY <2>6, <3>2, <4>1, <4>3
    <3>3. QED
      BY <3>1, <3>2
  <2>. HIDE DEF G
  <2>9. Len(s) \in G
    <3>1. 0..Len(s) \subseteq G
      BY <1>1, <2>7, <2>8, UpToNat
    <3>2. QED
      BY <1>1, <3>1
  <2>10. QED
    BY <1>3, <2>5, <2>9 DEF G
<1>4. QED
  BY <1>2, <1>3

\* The whole of a condition of the query or one of its halves.
IsPart(c) == \E i \in 1..Len(sql.where) : c \in ToSet(SplitAtAnd(sql.where[i]))

\* The conditions that the parser finds are a list of them.
LEMMA ConditionsAre ==
    ASSUME IsSeq(sql.where)
    PROVE  /\ IsSeq(Query.conditions)
           /\ \A i \in 1..Len(Query.conditions) : IsPart(Query.conditions[i])
<1>. DEFINE s == [i \in DOMAIN sql.where |-> SplitAtAnd(sql.where[i])]
            T == UNION { ToSet(SplitAtAnd(sql.where[i])) : i \in 1..Len(sql.where) }
<1>1. Len(sql.where) \in Nat /\ DOMAIN sql.where = 1..Len(sql.where)
  BY DEF IsSeq
<1>2. ASSUME NEW c PROVE IsSeq(SplitAtAnd(c))
  <2>. DEFINE a == [c EXCEPT !.op = "broken"]
              b == [c EXCEPT !.op = "broken", !.left = ""]
  <2>1. SplitAtAnd(c) = <<c>> \/ SplitAtAnd(c) = <<a, b>>
    BY DEF SplitAtAnd
  <2>. HIDE DEF a, b
  <2>2. <<c>> \in Seq({c}) /\ <<a, b>> \in Seq({a, b})
    OBVIOUS
  <2>3. QED
    BY <2>1, <2>2, SeqIs
<1>3. IsSeq(s) /\ Len(s) = Len(sql.where)
      /\ \A i \in 1..Len(sql.where) : s[i] = SplitAtAnd(sql.where[i])
  <2>1. s = [i \in 1..Len(sql.where) |-> s[i]]
        /\ \A i \in 1..Len(sql.where) : s[i] = SplitAtAnd(sql.where[i])
    BY <1>1
  <2>. HIDE DEF s
  <2>2. QED
    BY <1>1, <2>1, FcnIs
<1>. HIDE DEF s
<1>4. \A i \in 1..Len(s) : s[i] \in Seq(T)
  <2>. SUFFICES ASSUME NEW i \in 1..Len(sql.where) PROVE s[i] \in Seq(T)
    BY <1>3
  <2>1. IsSeq(s[i])
    BY <1>2, <1>3
  <2>2. DOMAIN s[i] = 1..Len(s[i])
    BY <2>1 DEF IsSeq
  <2>3. \A j \in 1..Len(s[i]) : s[i][j] \in ToSet(s[i])
    BY <2>2 DEF ToSet
  <2>4. ToSet(s[i]) \subseteq T
    BY <1>3
  <2>. HIDE DEF T
  <2>5. QED
    BY <2>1, <2>3, <2>4, SeqOfElements
<1>5. FlattenSeq(s) \in Seq(T)
  <2>. HIDE DEF T
  <2>1. QED
    BY <1>3, <1>4, FlattenIs
<1>6. Query.conditions = FlattenSeq(s)
  BY DEF Query, ParseQuery, s
<1>7. \A c \in T : IsPart(c)
  BY DEF IsPart
<1>. HIDE DEF T
<1>8. IsSeq(Query.conditions) /\ \A i \in 1..Len(Query.conditions) : Query.conditions[i] \in T
  BY <1>5, <1>6, SeqIs, ElementOfSeq
<1>9. QED
  BY <1>7, <1>8

\* The filters of a scan, from the first i conditions.
FilterFcn(table) ==
    LET of[i \in 0..Len(Query.conditions)] ==
          IF i = 0 THEN <<>>
          ELSE IF { GetTableFromColumn(w) : w \in WordsOf(Query.conditions[i]) } = {table}
               THEN Append(of[i - 1], Query.conditions[i]) ELSE of[i - 1]
    IN  of

\* Conditions of the query about one table.
AreAbout(s, table) ==
    /\ IsSeq(s)
    /\ \A i \in 1..Len(s) :
         /\ { GetTableFromColumn(w) : w \in WordsOf(s[i]) } = {table}
         /\ \E j \in 1..Len(Query.conditions) : s[i] = Query.conditions[j]

\* Whatever the conditions of the query are, a scan gets a list of those about its table.
LEMMA FiltersAre ==
    ASSUME IsSeq(Query.conditions), NEW table
    PROVE  AreAbout(FiltersOf(table), table)
<1>. DEFINE last == Len(Query.conditions)
            Mine(i) == { GetTableFromColumn(w) : w \in WordsOf(Query.conditions[i]) } = {table}
            More(s, i) == IF Mine(i) THEN Append(s, Query.conditions[i]) ELSE s
            Walk(f, n) == f = [i \in 0..n |-> IF i = 0 THEN <<>> ELSE More(f[i - 1], i)]
            S == { n \in Nat : \E f : Walk(f, n) }
            of == FilterFcn(table)
            G == { n \in 0..last : AreAbout(of[n], table) }
<1>1. last \in Nat
  BY DEF IsSeq
<1>2. ASSUME NEW s, NEW i \in 1..last, AreAbout(s, table) PROVE AreAbout(More(s, i), table)
  <2>. DEFINE c == Query.conditions[i]
  <2>1. CASE Mine(i)
    <3>1. { GetTableFromColumn(w) : w \in WordsOf(c) } = {table}
      BY <2>1
    <3>2. \E j \in 1..last : c = Query.conditions[j]
      OBVIOUS
    <3>3. More(s, i) = Append(s, c)
      BY <2>1
    <3>. HIDE DEF c, last, Mine, More
    <3>4. /\ IsSeq(Append(s, c)) /\ Len(Append(s, c)) = Len(s) + 1 /\ Append(s, c)[Len(s) + 1] = c
          /\ \A j \in 1..Len(s) : Append(s, c)[j] = s[j]
      BY <1>2, AppendIs DEF AreAbout
    <3>5. \A j \in 1..Len(Append(s, c)) : j \in 1..Len(s) \/ j = Len(s) + 1
      <4>1. Len(s) \in Nat
        BY <1>2 DEF AreAbout, IsSeq
      <4>2. QED
        BY <3>4, <4>1
    <3>6. AreAbout(Append(s, c), table)
      BY <1>2, <3>1, <3>2, <3>4, <3>5 DEF AreAbout, last
    <3>7. QED
      BY <3>3, <3>6
  <2>2. CASE ~Mine(i)
    BY <1>2, <2>2
  <2>3. QED
    BY <2>1, <2>2
<1>. HIDE DEF More
<1>3. 0 \in S
  <2>1. Walk([i \in 0..0 |-> <<>>], 0)
    OBVIOUS
  <2>2. QED
    BY <2>1
<1>4. ASSUME NEW n \in 1..last, n - 1 \in S PROVE n \in S
  <2>1. PICK f : Walk(f, n - 1)
    BY <1>4
  <2>. DEFINE g == [i \in 0..n |-> IF i = n THEN More(f[n - 1], n) ELSE f[i]]
  <2>2. ASSUME NEW i \in 0..n PROVE g[i] = IF i = 0 THEN <<>> ELSE More(g[i - 1], i)
    <3>. HIDE DEF last
    <3>1. CASE i = n
      BY <1>1, <3>1
    <3>2. CASE i # n
      <4>1. i \in 0..(n - 1) /\ (i # 0 => i - 1 \in 0..(n - 1) /\ i - 1 \in 0..n /\ i - 1 # n)
        BY <1>1, <3>2
      <4>2. f[i] = IF i = 0 THEN <<>> ELSE More(f[i - 1], i)
        BY <2>1, <4>1
      <4>3. g[i] = f[i] /\ (i # 0 => g[i - 1] = f[i - 1])
        BY <3>2, <4>1
      <4>. HIDE DEF g
      <4>4. QED
        BY <4>2, <4>3
    <3>3. QED
      BY <3>1, <3>2
  <2>3. Walk(g, n)
    BY <2>2
  <2>4. n \in Nat /\ \E h : Walk(h, n)
    <3>. HIDE DEF Walk, g, last
    <3>1. QED
      BY <1>1, <2>3
  <2>5. QED
    BY <2>4
<1>. HIDE DEF S
<1>5. last \in S
  <2>. HIDE DEF last
  <2>1. 0..last \subseteq S
    BY <1>1, <1>3, <1>4, UpToNat
  <2>2. QED
    BY <1>1, <2>1
<1>6. PICK f : Walk(f, last)
  BY <1>5 DEF S
<1>7. Walk(of, last)
  BY <1>6 DEF FilterFcn, More
<1>8. /\ of[0] = <<>>
      /\ \A i \in 1..last : of[i] = More(of[i - 1], i)
  <2>. HIDE DEF of, last
  <2>1. \A i \in 0..last : of[i] = IF i = 0 THEN <<>> ELSE More(of[i - 1], i)
    BY <1>7
  <2>2. 0 \in 0..last /\ \A i \in 1..last : i \in 0..last /\ i # 0
    BY <1>1
  <2>3. QED
    BY <2>1, <2>2
<1>9. FiltersOf(table) = of[last]
  BY DEF FiltersOf, FilterFcn
<1>. HIDE DEF of, last
<1>10. 0 \in G
  <2>1. AreAbout(<<>>, table)
    BY EmptyRow, EmptySeq DEF Forest, AreAbout
  <2>2. QED
    BY <1>1, <1>8, <2>1
<1>11. ASSUME NEW n \in 1..last, n - 1 \in G PROVE n \in G
  <2>1. AreAbout(of[n - 1], table)
    BY <1>11
  <2>2. AreAbout(of[n], table) /\ n \in 0..last
    BY <1>1, <1>2, <1>8, <2>1
  <2>3. QED
    BY <2>2
<1>. HIDE DEF G
<1>12. 0..last \subseteq G
  BY <1>1, <1>10, <1>11, UpToNat
<1>13. AreAbout(of[last], table)
  BY <1>1, <1>12 DEF G
<1>14. QED
  BY <1>9, <1>13

\* The node e is t with other conditions, and its children in either order.
EnrichedAs(e, t) ==
    /\ e.kind = t.kind /\ e.table = t.table /\ e.type = t.type
    /\ IsSeq(e.kids) /\ ToSet(e.kids) = ToSet(t.kids) /\ Len(e.conds) \in Nat

\* A join gets a condition that reads its children the way they stand then.
LEMMA JoinConnected ==
    ASSUME IsSeq(Query.conditions), NEW n, tree[n] \in TreeNode, Len(tree[n].kids) = 2,
           SidesNamed(n)
    PROVE  /\ EnrichedAs(EnrichedJoin(n), tree[n])
           /\ EnrichedJoin(n).conds # <<>> =>
                /\ Len(EnrichedJoin(n).kids) = 2
                /\ Connects(EnrichedJoin(n).conds[1], UnderFcn(tree)[EnrichedJoin(n).kids[1]],
                            UnderFcn(tree)[EnrichedJoin(n).kids[2]])
<1>. DEFINE x == tree[n].kids[1]
            y == tree[n].kids[2]
            left == TablesUnder[x]
            right == TablesUnder[y]
            fit == Fitting(left, right)
            first == Query.conditions[Min(fit)]
            kids == IF Between(first, left, right) THEN tree[n].kids ELSE Reverse(tree[n].kids)
            e == EnrichedJoin(n)
<1>1. TablesUnder = UnderFcn(tree)
  BY DEF TablesUnder, UnderFcn
<1>2. /\ tree[n].kids \in Seq(Nat) /\ IsSeq(tree[n].kids) /\ tree[n].conds = <<>>
      /\ DOMAIN tree[n].kids = 1..2
  <2>1. tree[n].kids \in Seq(Nat) /\ tree[n].conds = <<>>
    BY DEF TreeNode
  <2>2. QED
    BY <2>1, SeqIs, LenProperties
<1>3. Len(<<>>) \in Nat
  BY EmptySeq
<1>4. e = IF fit = {} THEN tree[n] ELSE [tree[n] EXCEPT !.conds = <<first>>, !.kids = kids]
  BY DEF EnrichedJoin
<1>5. CASE fit = {}
  <2>1. e = tree[n]
    BY <1>4, <1>5
  <2>. HIDE DEF e
  <2>2. QED
    BY <1>2, <1>3, <2>1 DEF EnrichedAs, e
<1>6. CASE fit # {}
  <2>1. Between(first, left, right) \/ Between(first, right, left)
    <3>1. DOMAIN Query.conditions \subseteq Nat
      BY DEF IsSeq
    <3>2. fit \in SUBSET Nat
      BY <3>1 DEF Fitting
    <3>3. PICK m \in fit : \A k \in fit : m <= k
      <4>. HIDE DEF fit
      <4>1. QED
        BY <1>6, <3>2, LeastNat
    <3>4. Min(fit) \in fit
      <4>. HIDE DEF fit
      <4>1. QED
        BY <3>3 DEF Min
    <3>5. QED
      BY <3>4 DEF Fitting
  <2>2. /\ IsSeq(kids) /\ Len(kids) = 2
        /\ kids[1] = IF Between(first, left, right) THEN x ELSE y
        /\ kids[2] = IF Between(first, left, right) THEN y ELSE x
    <3>. HIDE DEF left, right, first
    <3>1. CASE Between(first, left, right)
      BY <1>2, <3>1
    <3>2. CASE ~Between(first, left, right)
      <4>1. kids = [i \in 1..2 |-> tree[n].kids[(2 - i) + 1]]
        BY <3>2 DEF Reverse
      <4>2. kids = [i \in 1..2 |-> kids[i]] /\ kids[1] = y /\ kids[2] = x
        BY <4>1
      <4>. HIDE DEF kids
      <4>3. QED
        BY <3>2, <4>2, FcnIs
    <3>3. QED
      BY <3>1, <3>2
  <2>. HIDE DEF left, right, first, fit, kids, e
  <2>3. /\ e.kids = kids /\ e.conds = <<first>> /\ e.kind = tree[n].kind /\ e.table = tree[n].table
        /\ e.type = tree[n].type
    BY <1>4, <1>6 DEF TreeNode
  <2>4. ToSet(kids) = {x, y} /\ ToSet(tree[n].kids) = {x, y}
    <3>1. DOMAIN kids = 1..2 /\ 1..2 = {1, 2}
      BY <2>2 DEF IsSeq
    <3>. HIDE DEF x, y
    <3>2. ToSet(kids) = {x, y}
      BY <2>2, <3>1 DEF ToSet
    <3>3. ToSet(tree[n].kids) = {x, y}
      BY <1>2, <3>1 DEF ToSet, x, y
    <3>4. QED
      BY <3>2, <3>3
  <2>5. Len(<<first>>) \in Nat /\ <<first>>[1] = first
    OBVIOUS
  <2>6. EnrichedAs(e, tree[n])
    BY <2>2, <2>3, <2>4, <2>5 DEF EnrichedAs
  <2>7. Connects(first, TablesUnder[kids[1]], TablesUnder[kids[2]])
    <3>. DEFINE one == TablesUnder[kids[1]]
                two == TablesUnder[kids[2]]
    <3>1. "" \notin one /\ "" \notin two
      <4>1. kids[1] \in {x, y} /\ kids[2] \in {x, y}
        BY <2>2
      <4>2. KidsOf(tree, n) = {x, y}
        BY <2>4 DEF KidsOf
      <4>3. QED
        BY <1>1, <4>1, <4>2 DEF SidesNamed
    <3>2. ConditionTables(first)[1] \in one /\ ConditionTables(first)[2] \in two
      <4>1. CASE Between(first, left, right)
        BY <2>2, <4>1 DEF Between, left, right
      <4>2. CASE ~Between(first, left, right)
        BY <2>1, <2>2, <4>2 DEF Between, left, right
      <4>3. QED
        BY <4>1, <4>2
    <3>3. ConditionTables(first)[1] # "Default" /\ ConditionTables(first)[2] # "Default"
      BY NotDefault
    <3>. HIDE DEF one, two
    <3>4. Connects(first, one, two)
      BY <3>1, <3>2, <3>3 DEF Connects, IsTable
    <3>5. QED
      BY <3>4 DEF one, two
  <2>8. QED
    BY <1>1, <2>2, <2>3, <2>5, <2>6, <2>7 DEF e
<1>7. QED
  BY <1>5, <1>6

\* Any node of the pruned tree.
LEMMA NodeEnriched ==
    ASSUME IsSeq(Query.conditions), NEW n, tree[n] \in TreeNode,
           tree[n].kind = "join" => SidesNamed(n)
    PROVE  /\ EnrichedAs(Enriched(n), tree[n])
           /\ tree[n].kind = "join" /\ Enriched(n).conds # <<>> =>
                /\ Len(Enriched(n).kids) = 2
                /\ Connects(Enriched(n).conds[1], UnderFcn(tree)[Enriched(n).kids[1]],
                            UnderFcn(tree)[Enriched(n).kids[2]])
<1>1. IsSeq(tree[n].kids) /\ tree[n].conds = <<>> /\ Len(<<>>) \in Nat
  <2>1. tree[n].kids \in Seq(Nat) /\ tree[n].conds = <<>>
    BY DEF TreeNode
  <2>2. QED
    BY <2>1, SeqIs, EmptySeq
<1>2. CASE tree[n].kind = "source"
  <2>1. Enriched(n) = [tree[n] EXCEPT !.conds = FiltersOf(tree[n].table)]
    BY <1>2 DEF Enriched
  <2>2. Len(FiltersOf(tree[n].table)) \in Nat
    BY FiltersAre DEF AreAbout, IsSeq
  <2>3. /\ Enriched(n).kind = tree[n].kind /\ Enriched(n).table = tree[n].table
        /\ Enriched(n).type = tree[n].type
        /\ Enriched(n).kids = tree[n].kids /\ Enriched(n).conds = FiltersOf(tree[n].table)
    BY <2>1 DEF TreeNode
  <2>4. QED
    BY <1>1, <1>2, <2>2, <2>3 DEF EnrichedAs
<1>3. CASE tree[n].kind = "join" /\ Len(tree[n].kids) = 2
  <2>1. Enriched(n) = EnrichedJoin(n)
    BY <1>3 DEF Enriched
  <2>2. QED
    BY <1>3, <2>1, JoinConnected
<1>4. CASE tree[n].kind # "source" /\ ~(tree[n].kind = "join" /\ Len(tree[n].kids) = 2)
  <2>1. Enriched(n) = tree[n]
    BY <1>4 DEF Enriched
  <2>2. QED
    BY <1>1, <2>1 DEF EnrichedAs
<1>5. QED
  BY <1>2, <1>3, <1>4

\* The nodes that enrichTree reaches are enriched, the new root is the last node.
IsEnriched(u) ==
    u = Append([n \in DOMAIN tree |-> IF n \in Reachable THEN Enriched(n) ELSE tree[n]],
               [type |-> "", kids |-> <<root>>, kind |-> "result", conds |-> <<>>, table |-> ""])

\* The tree with a new root on top, its scans with the conditions on their tables.
Crowned(u) ==
    /\ Len(u) = Len(tree) + 1
    /\ \A n \in 1..Len(tree) :
         /\ KidsOf(u, n) = KidsOf(tree, n) /\ u[n].kind = tree[n].kind
         /\ u[n].table = tree[n].table /\ u[n].type = tree[n].type
         /\ UnderFcn(u)[n] = UnderFcn(tree)[n]
         /\ n \in Reachable /\ tree[n].kind = "source" => u[n].conds = FiltersOf(tree[n].table)
    /\ KidsOf(u, Len(tree) + 1) = {root} /\ u[Len(tree) + 1].kind = "result"
    /\ u[Len(tree) + 1].type = ""

\* In the tree of enrichTree the condition of every join fits its children.
LEMMA TreeEnriched ==
    ASSUME IsSeq(Query.conditions), tree \in Seq(TreeNode), Descending(tree),
           root \in 1..Len(tree),
           \A n \in 1..Len(tree) : tree[n].kind = "join" => SidesNamed(n),
           NEW u, IsEnriched(u)
    PROVE  EnrichedTree(u, Len(tree) + 1) /\ Crowned(u)
<1>. DEFINE L == Len(tree)
            New(n) == IF n \in Reachable THEN Enriched(n) ELSE tree[n]
            e == [n \in 1..L |-> New(n)]
            top == [type |-> "", kids |-> <<root>>, kind |-> "result", conds |-> <<>>, table |-> ""]
<1>1. L \in Nat /\ DOMAIN tree = 1..L /\ \A n \in 1..L : tree[n] \in TreeNode
  BY LenProperties, ElementOfSeq
<1>2. \A n \in 1..L : EnrichedAs(New(n), tree[n])
  <2>1. ASSUME NEW n \in 1..L PROVE EnrichedAs(tree[n], tree[n])
    <3>1. tree[n].kids \in Seq(Nat) /\ tree[n].conds = <<>>
      BY <1>1 DEF TreeNode
    <3>2. QED
      BY <3>1, SeqIs, EmptySeq DEF EnrichedAs
  <2>2. \A n \in 1..L : EnrichedAs(Enriched(n), tree[n])
    BY <1>1, NodeEnriched
  <2>3. QED
    BY <2>1, <2>2
<1>3. IsSeq(e) /\ Len(e) = L /\ \A n \in 1..L : e[n] = New(n)
  <2>1. e = [n \in 1..L |-> e[n]] /\ \A n \in 1..L : e[n] = New(n)
    OBVIOUS
  <2>. HIDE DEF e
  <2>2. QED
    BY <1>1, <2>1, FcnIs
<1>4. u = Append(e, top)
  BY <1>1 DEF IsEnriched
<1>. HIDE DEF e, New
<1>5. /\ IsSeq(u) /\ Len(u) = L + 1 /\ u[L + 1] = top /\ \A n \in 1..L : u[n] = New(n)
  <2>. HIDE DEF top
  <2>1. QED
    BY <1>3, <1>4, AppendIs
<1>6. /\ top.kids = <<root>> /\ top.kind = "result" /\ IsSeq(top.kids) /\ ToSet(top.kids) = {root}
      /\ Len(top.conds) \in Nat /\ top.type = ""
  <2>1. top.kids = <<root>> /\ top.kind = "result" /\ top.conds = <<>> /\ top.type = ""
    OBVIOUS
  <2>2. <<root>> \in Seq({root}) /\ DOMAIN <<root>> = {1} /\ <<root>>[1] = root
    OBVIOUS
  <2>3. ToSet(<<root>>) = {root}
    BY <2>2 DEF ToSet
  <2>4. QED
    BY <2>1, <2>2, <2>3, SeqIs, EmptySeq
<1>. HIDE DEF top
<1>7. \A n \in 1..(L + 1) : n \in 1..L \/ n = L + 1
  BY <1>1
<1>8. \A n \in 1..L : KidsOf(u, n) = KidsOf(tree, n) /\ u[n].kind = tree[n].kind
                      /\ u[n].table = tree[n].table /\ u[n].type = tree[n].type
  BY <1>2, <1>5 DEF EnrichedAs, KidsOf
<1>9. KidsOf(u, L + 1) = {root}
  BY <1>5, <1>6 DEF KidsOf
<1>10. Descending(u)
  <2>1. ASSUME NEW n \in 1..L PROVE KidsOf(u, n) \subseteq 1..(n - 1)
    BY <1>8 DEF Descending
  <2>2. KidsOf(u, L + 1) \subseteq 1..((L + 1) - 1)
    BY <1>1, <1>9
  <2>3. QED
    BY <1>5, <1>7, <2>1, <2>2 DEF Descending
<1>11. \A n \in 1..Len(u) : IsSeq(u[n].kids) /\ u[n].kind \in Kinds /\ Len(u[n].conds) \in Nat
  <2>1. ASSUME NEW n \in 1..L
        PROVE  IsSeq(u[n].kids) /\ u[n].kind \in Kinds /\ Len(u[n].conds) \in Nat
    <3>1. tree[n].kind \in Kinds
      BY <1>1 DEF TreeNode
    <3>2. QED
      BY <1>2, <1>5, <3>1 DEF EnrichedAs
  <2>2. "result" \in Kinds
    BY DEF Kinds
  <2>3. QED
    BY <1>5, <1>6, <1>7, <2>1, <2>2
<1>12. \A n \in 1..L : UnderFcn(u)[n] = UnderFcn(tree)[n]
  <2>. DEFINE v == UnderFcn(u)
              w == UnderFcn(tree)
              T == { n \in 1..L : v[n] # w[n] }
  <2>1. \A n \in 1..L : v[n] = IF u[n].kind = "source" THEN {u[n].table}
                               ELSE UNION { v[k] : k \in KidsOf(u, n) }
    <3>1. \A n \in 1..L : n \in 1..Len(u)
      BY <1>1, <1>5
    <3>2. QED
      BY <1>5, <1>10, <3>1, UnderSteps
  <2>2. \A n \in 1..L : w[n] = IF tree[n].kind = "source" THEN {tree[n].table}
                               ELSE UNION { w[k] : k \in KidsOf(tree, n) }
    BY SeqIs, UnderSteps
  <2>. HIDE DEF v, w
  <2>. SUFFICES ASSUME T # {} PROVE FALSE
    BY DEF v, w
  <2>3. PICK n \in T : \A k \in T : n <= k
    <3>1. T \in SUBSET Nat
      BY <1>1
    <3>. HIDE DEF T
    <3>2. QED
      BY <3>1, LeastNat
  <2>4. \A k \in KidsOf(tree, n) : k \in 1..L /\ k < n
    BY <1>1 DEF Descending
  <2>5. \A k \in KidsOf(tree, n) : v[k] = w[k]
    <3>1. \A k \in KidsOf(tree, n) : k \notin T
      <4>1. n \in 1..L
        OBVIOUS
      <4>. HIDE DEF T
      <4>2. QED
        BY <1>1, <2>3, <2>4, <4>1
    <3>2. QED
      BY <2>4, <3>1
  <2>6. { v[k] : k \in KidsOf(tree, n) } = { w[k] : k \in KidsOf(tree, n) }
    BY <2>5
  <2>7. v[n] = w[n]
    <3>1. n \in 1..L
      OBVIOUS
    <3>. HIDE DEF T, L
    <3>2. /\ KidsOf(u, n) = KidsOf(tree, n) /\ u[n].kind = tree[n].kind /\ u[n].table = tree[n].table
      BY <1>8, <3>1
    <3>3. v[n] = IF tree[n].kind = "source" THEN {tree[n].table}
                 ELSE UNION { v[k] : k \in KidsOf(tree, n) }
      BY <2>1, <3>1, <3>2
    <3>4. w[n] = IF tree[n].kind = "source" THEN {tree[n].table}
                 ELSE UNION { w[k] : k \in KidsOf(tree, n) }
      BY <2>2, <3>1
    <3>5. QED
      BY <2>6, <3>3, <3>4
  <2>8. QED
    BY <2>7
<1>13. Live(u, L + 1) \subseteq Reachable \cup {L + 1}
  <2>. DEFINE S == Live(tree, root) \cup {L + 1}
  <2>1. /\ root \in Live(tree, root) /\ Live(tree, root) \subseteq 1..L
        /\ \A m \in Live(tree, root) : KidsOf(tree, m) \subseteq Live(tree, root)
    <3>1. /\ root \in Live(tree, root) /\ Live(tree, root) \subseteq 1..root
          /\ \A m \in Live(tree, root) : KidsOf(tree, m) \subseteq Live(tree, root)
      BY <1>1, LiveClosed
    <3>2. 1..root \subseteq 1..L
      BY <1>1
    <3>3. QED
      BY <3>1, <3>2
  <2>2. \A m \in S : KidsOf(u, m) \subseteq S
    BY <1>8, <1>9, <2>1
  <2>3. L + 1 \in S /\ Len(u) \in Nat
    BY <1>5 DEF IsSeq
  <2>. HIDE DEF S
  <2>4. Live(u, L + 1) \subseteq S
    BY <2>2, <2>3, LiveLeast
  <2>5. QED
    BY <2>4 DEF S, Reachable
<1>14. ASSUME NEW n \in Live(u, L + 1), u[n].kind = "join", u[n].conds # <<>>
       PROVE  JoinFits(u, n)
  <2>1. n # L + 1
    BY <1>5, <1>6, <1>14
  <2>2. n \in Reachable /\ n \in 1..L
    <3>1. n \in Live(tree, root)
      BY <1>13, <2>1 DEF Reachable
    <3>2. Live(tree, root) \subseteq 1..root
      BY <1>1, LiveClosed
    <3>3. QED
      BY <1>1, <3>1, <3>2 DEF Reachable
  <2>3. u[n] = Enriched(n) /\ tree[n].kind = "join"
    BY <1>5, <1>8, <1>14, <2>2 DEF New
  <2>4. /\ Len(u[n].kids) = 2
        /\ Connects(u[n].conds[1], UnderFcn(tree)[u[n].kids[1]], UnderFcn(tree)[u[n].kids[2]])
    BY <1>1, <1>14, <2>2, <2>3, NodeEnriched
  <2>5. \A i \in 1..2 : u[n].kids[i] \in 1..L
    <3>1. IsSeq(u[n].kids) /\ n \in 1..Len(u)
      BY <1>1, <1>5, <1>11, <2>2
    <3>2. \A i \in 1..2 : u[n].kids[i] \in KidsOf(u, n)
      BY <2>4, <3>1, PointersAre
    <3>3. KidsOf(u, n) \subseteq 1..L
      BY <1>1, <1>10, <2>2, <3>1 DEF Descending
    <3>4. QED
      BY <3>2, <3>3
  <2>6. /\ UnderFcn(u)[u[n].kids[1]] = UnderFcn(tree)[u[n].kids[1]]
        /\ UnderFcn(u)[u[n].kids[2]] = UnderFcn(tree)[u[n].kids[2]]
    BY <1>12, <2>5
  <2>7. QED
    BY <2>4, <2>6 DEF JoinFits
<1>15. L + 1 \in 1..Len(u)
  BY <1>1, <1>5
<1>16. ASSUME NEW n \in 1..L, n \in Reachable, tree[n].kind = "source"
       PROVE  u[n].conds = FiltersOf(tree[n].table)
  <2>1. u[n] = Enriched(n) /\ Enriched(n) = [tree[n] EXCEPT !.conds = FiltersOf(tree[n].table)]
    BY <1>5, <1>16 DEF New, Enriched
  <2>2. QED
    BY <1>1, <2>1 DEF TreeNode
<1>17. Crowned(u)
  BY <1>5, <1>6, <1>8, <1>9, <1>12, <1>16 DEF Crowned
<1>18. QED
  BY <1>5, <1>10, <1>11, <1>14, <1>15, <1>17 DEF EnrichedTree

-----------------------------------------------------------------------------
(* ensureCorrectColumnSetup.                                               *)

\* In a good plan every join reads its sides.
LEMMA GoodJoins ==
    ASSUME GoodPlan(plan, {})
    PROVE  JoinSides
<1>1. DOMAIN plan = 1..Len(plan)
  BY DEF GoodPlan, Forest, IsSeq
<1>2. \A n \in 1..Len(plan) : plan[n].op = "join" => Sided(plan, n)
  BY DEF GoodPlan, JoinsSided
<1>3. QED
  BY <1>1, <1>2 DEF JoinSides, Sided

\* An alias never changes the table of a column that has one.
LEMMA AliasKeepsTable ==
    ASSUME NEW c, IsColumn(c), IsTable(c.table), NEW b
    PROVE  ApplyAlias(c, b).table = c.table
BY DEF ApplyAlias, IsColumn, IsTable

\* The columns are set up without moving any of them to another side.
LEMMA SetupKeeps ==
    ASSUME GoodPlan(plan, {}), EnsureCorrectColumnSetup
    PROVE  JoinSides'
<1>. DEFINE In(n) == [i \in DOMAIN plan[n].in |-> ApplyAlias(plan[n].in[i], InScope(n))]
            Out(n) == IF plan[n].op \in {"group", "sort"} THEN plan[n].out
                      ELSE [i \in DOMAIN plan[n].out |-> ApplyAlias(plan[n].out[i], InScope(n))]
<1>1. /\ IsSeq(plan) /\ Len(plan) \in Nat /\ DOMAIN plan = 1..Len(plan) /\ Descending(plan)
      /\ \A n \in 1..Len(plan) : IsNode(plan[n]) /\ IsSeq(plan[n].kids)
      /\ \A n \in 1..Len(plan) : plan[n].op = "join" => Sided(plan, n)
  BY DEF GoodPlan, Forest, IsSeq, JoinsSided
<1>2. plan' = [n \in 1..Len(plan) |-> IF ~HasColumns(n) THEN plan[n]
                                      ELSE [plan[n] EXCEPT !.in = In(n), !.out = Out(n)]]
  BY <1>1 DEF EnsureCorrectColumnSetup
<1>. HIDE DEF In, Out
<1>3. IsSeq(plan') /\ Len(plan') = Len(plan)
  <2>1. plan' = [n \in 1..Len(plan) |-> plan'[n]]
    BY <1>2
  <2>2. QED
    BY <1>1, <2>1, FcnIs
<1>4. \A n \in 1..Len(plan) :
        /\ plan'[n].op = plan[n].op /\ plan'[n].kids = plan[n].kids
        /\ plan[n].op = "table" => plan'[n].out = plan[n].out
        /\ plan[n].op = "join" => plan'[n].in = In(n)
  BY <1>1, <1>2 DEF HasColumns, IsNode
<1>5. \A n \in 1..Len(plan) : KidsOf(plan', n) = KidsOf(plan, n)
  BY <1>4 DEF KidsOf
<1>6. ASSUME NEW k \in 1..Len(plan) PROVE TablesBelow(plan, k) \subseteq TablesBelow(plan', k)
  <2>1. Live(plan, k) \subseteq Live(plan', k) /\ Live(plan, k) \subseteq 1..Len(plan)
    <3>1. Live(plan, k) \subseteq Live(plan', k)
      BY <1>1, <1>3, <1>5, SameLive
    <3>2. Live(plan, k) \subseteq 1..k /\ 1..k \subseteq 1..Len(plan)
      BY <1>1, LiveClosed
    <3>3. QED
      BY <3>1, <3>2
  <2>2. QED
    BY <1>4, <2>1 DEF TablesBelow
<1>7. ASSUME NEW n \in 1..Len(plan), plan'[n].op = "join", NEW side \in {1, 2}
      PROVE  plan'[n].in[side].table \in TablesBelow(plan', plan'[n].kids[side])
  <2>1. Sided(plan, n) /\ plan'[n].kids = plan[n].kids /\ plan'[n].in = In(n)
    BY <1>1, <1>4, <1>7
  <2>2. DOMAIN plan[n].in = 1..2 /\ side \in 1..2
    BY <2>1 DEF Sided, IsSeq
  <2>3. plan'[n].in[side] = ApplyAlias(plan[n].in[side], InScope(n))
    BY <2>1, <2>2 DEF In
  <2>4. IsColumn(plan[n].in[side]) /\ IsTable(plan[n].in[side].table)
    BY <2>1 DEF Sided
  <2>5. plan'[n].in[side].table = plan[n].in[side].table
    BY <2>3, <2>4, AliasKeepsTable
  <2>6. plan[n].kids[side] \in 1..Len(plan)
    <3>1. side \in 1..Len(plan[n].kids) /\ IsSeq(plan[n].kids)
      BY <1>1, <2>1, <2>2 DEF Sided
    <3>2. plan[n].kids[side] \in KidsOf(plan, n)
      BY <3>1, PointersAre
    <3>3. QED
      BY <1>1, <3>2 DEF Descending
  <2>7. plan[n].in[side].table \in TablesBelow(plan, plan[n].kids[side])
    BY <2>1 DEF Sided
  <2>8. QED
    BY <1>6, <2>1, <2>5, <2>6, <2>7
<1>8. DOMAIN plan' = 1..Len(plan)
  BY <1>2
<1>9. QED
  BY <1>7, <1>8 DEF JoinSides

-----------------------------------------------------------------------------
(* The joins from the file to the plan that is optimized.                  *)

\* pruneTree leaves a tree, enrichTree one with conditions that fit, abstractToIr
\* a good plan.
JoinInv ==
    /\ IsSeq(sql.where) /\ PruneInv /\ NamesInv
    /\ phase = "ir" => EnrichedTree(tree, root)
    /\ phase = "columns" => GoodPlan(plan, {})
    /\ phase = "done" => JoinSides

\* It is true in the beginning.
LEMMA JoinInvInit ==
    ASSUME Init PROVE JoinInv
<1>1. IsSeq(sql.where)
  BY InputsAssumption, SeqIs DEF Init, Start, SqlText
<1>2. phase = "prune"
  BY DEF Init
<1>3. QED
  BY <1>1, <1>2, PruneInvInit, NamesInvInit DEF JoinInv

\* enrichTree.
LEMMA EnrichKeeps ==
    ASSUME JoinInv, Enrich
    PROVE  EnrichedTree(tree', root') /\ Crowned(tree') /\ root' = Len(tree) + 1
<1>1. /\ tree \in Seq(TreeNode) /\ Len(tree) = Len(file) /\ Descending(tree)
      /\ root \in 1..Len(file)
  BY DEF JoinInv, PruneInv, TreeInv, Enrich
<1>2. IsSeq(Query.conditions)
  BY ConditionsAre DEF JoinInv
<1>3. IsEnriched(tree') /\ root' = Len(tree) + 1
  BY DEF Enrich, IsEnriched
<1>4. \A n \in 1..Len(tree) : tree[n].kind = "join" => SidesNamed(n)
  BY JoinsNamed DEF JoinInv, Enrich
<1>5. EnrichedTree(tree', Len(tree) + 1) /\ Crowned(tree')
  BY <1>1, <1>2, <1>3, <1>4, TreeEnriched
<1>6. QED
  BY <1>3, <1>5

\* abstractToIr.
LEMMA ToIrKeeps ==
    ASSUME JoinInv, AbstractToIr, phase' = "columns" PROVE GoodPlan(plan', {})
<1>1. EnrichedTree(tree, root) /\ plan' = PlanOfTree /\ \A n \in Live(tree, root) : ~Throws(n)
  BY DEF JoinInv, AbstractToIr
<1>2. GoodPlan(PlanOfTree, UnderFcn(tree)[root])
  BY <1>1, TreeGood
<1>3. QED
  BY <1>1, <1>2 DEF GoodPlan

\* Every step preserves it.
LEMMA JoinInvStep ==
    ASSUME JoinInv, [Next]_vars
    PROVE  JoinInv'
<1>1. PruneInv' /\ NamesInv'
  BY PruneInvStep, NamesInvStep DEF JoinInv
<1>2. sql' = sql
  BY DEF Next, PruneHash, PruneGather, PruneOther, PruneReturns, Enrich, AbstractToIr,
         EnsureCorrectColumnSetup, vars
<1>3. IsSeq(sql.where)'
  BY <1>2 DEF JoinInv, IsSeq
<1>4. CASE PruneHash \/ PruneGather \/ PruneOther
  <2>1. phase' \in {"prune", "enrich"}
    BY <1>4 DEF PruneHash, PruneGather, PruneOther, PruneReturns
  <2>2. QED
    BY <1>1, <1>3, <2>1 DEF JoinInv
<1>5. CASE Enrich
  <2>1. phase' \in {"ir", "crashed"}
    BY <1>5 DEF Enrich
  <2>2. EnrichedTree(tree, root)'
    BY <1>5, EnrichKeeps DEF EnrichedTree, Live, JoinFits, Descending, UnderFcn
  <2>3. QED
    BY <1>1, <1>3, <2>1, <2>2 DEF JoinInv
<1>6. CASE AbstractToIr
  <2>1. phase' \in {"columns", "threw"}
    BY <1>6 DEF AbstractToIr
  <2>2. phase' = "columns" => GoodPlan(plan', {})
    BY <1>6, ToIrKeeps
  <2>3. QED
    BY <1>1, <1>3, <2>1, <2>2 DEF JoinInv
<1>7. CASE EnsureCorrectColumnSetup
  <2>1. phase = "columns" /\ phase' = "done"
    BY <1>7 DEF EnsureCorrectColumnSetup
  <2>2. JoinSides'
    BY <1>7, <2>1, SetupKeeps DEF JoinInv
  <2>3. QED
    BY <1>1, <1>3, <2>1, <2>2 DEF JoinInv
<1>8. CASE UNCHANGED vars
  <2>1. UNCHANGED <<phase, tree, root, plan>>
    BY <1>8 DEF vars
  <2>2. JoinSides' = JoinSides
    BY <2>1 DEF JoinSides
  <2>3. QED
    BY <1>1, <1>3, <2>1, <2>2 DEF JoinInv
<1>9. QED
  BY <1>4, <1>5, <1>6, <1>7, <1>8 DEF Next

\* It says what JoinSides does, before and after the columns are set up.
LEMMA JoinInvSides ==
    ASSUME JoinInv PROVE JoinSides
<1>1. CASE phase = "columns"
  BY <1>1, GoodJoins DEF JoinInv
<1>2. CASE phase = "done"
  BY <1>2 DEF JoinInv
<1>3. CASE phase \notin {"columns", "done"}
  BY <1>3 DEF JoinSides
<1>4. QED
  BY <1>1, <1>2, <1>3

\* Every join of the plan that is optimized reads its first column from its first
\* child and the second one from its second, for every plan that PostgreSQL makes
\* and whichever way the query writes its conditions.
THEOREM JoinsReadTheirSides == Spec => []JoinSides
<1>1. Init => JoinInv
  BY JoinInvInit
<1>2. JoinInv /\ [Next]_vars => JoinInv'
  BY JoinInvStep
<1>3. JoinInv => JoinSides
  BY JoinInvSides
<1>4. QED
  BY <1>1, <1>2, <1>3, PTL DEF Spec

-----------------------------------------------------------------------------
(* The columns of plans.                                                   *)

\* What is below one of these nodes in q is below it in p.
LEMMA HoldsLive ==
    ASSUME NEW p, NEW q, NEW d, Holds(p, q, d), NEW n \in 1..Len(q)
    PROVE  \A m \in Live(q, n) : m \in 1..Len(q) /\ d + m \in Live(p, d + n)
<1>. DEFINE S == { m \in 1..Len(q) : d + m \in Live(p, d + n) }
<1>1. /\ Len(p) \in Nat /\ Len(q) \in Nat /\ d \in Nat /\ d + n \in 1..Len(p)
      /\ Descending(p) /\ Descending(q)
  BY DEF Holds, Forest, IsSeq
<1>2. /\ d + n \in Live(p, d + n)
      /\ \A m \in Live(p, d + n) : KidsOf(p, m) \subseteq Live(p, d + n)
  BY <1>1, LiveClosed
<1>3. ASSUME NEW m \in S, NEW x \in KidsOf(q, m) PROVE x \in S
  <2>1. m \in 1..Len(q) /\ d + m \in Live(p, d + n) /\ d + m \in 1..Len(p)
    BY <1>1 DEF Holds
  <2>2. IsSeq(q[m].kids) /\ IsSeq(p[d + m].kids)
    BY <2>1 DEF Holds, Forest
  <2>3. PICK i \in 1..Len(q[m].kids) : x = q[m].kids[i]
    BY <2>2, <1>3, PointersAre
  <2>4. i \in 1..Len(p[d + m].kids) /\ p[d + m].kids[i] = x + d
    BY <2>1, <2>3 DEF Holds
  <2>5. x + d \in KidsOf(p, d + m)
    BY <2>2, <2>4, PointersAre
  <2>6. x \in 1..Len(q)
    BY <1>1, <1>3, <2>1 DEF Descending
  <2>7. x + d = d + x
    BY <1>1, <2>6
  <2>8. QED
    BY <1>2, <2>1, <2>5, <2>6, <2>7
<1>4. n \in S
  BY <1>2
<1>. HIDE DEF S
<1>5. Live(q, n) \subseteq S
  BY <1>1, <1>3, <1>4, LiveLeast
<1>6. QED
  BY <1>5 DEF S

\* The operators whose columns others read.
Writes(x) == x.op \notin {"table", "group", "sort"}

\* What a plan hands up: the columns that its nodes write.
Offered(p) == UNION { ToSet(p[m].out) : m \in { k \in Live(p, Len(p)) : Writes(p[k]) } }

\* A column of one of the tables T as the catalog has it.
IsBase(col, T) ==
    /\ IsPlain(col.text) /\ col.table \in T
    /\ GetTableFromColumn(col.text.of[1]) = col.table
    /\ col.type = IF col.text.of[1] \in StringCols THEN "string" ELSE "int"

\* A column that ensureCorrectColumnSetup leaves as it is.
Stays(col) == \A b : ApplyAlias(col, b) = col

\* The node n of p names columns that exist and that keep their names.
Sound(p, n) ==
    p[n].op \notin {"table", "empty"} =>
      /\ \A i \in DOMAIN p[n].in : Stays(p[n].in[i]) /\ Resolves(p, n, p[n].in[i])
      /\ p[n].op \notin {"group", "sort"} => \A i \in DOMAIN p[n].out : Stays(p[n].out[i])

\* A good plan of sound nodes that hands up at least the columns W.
SoundPlan(p, T, W) ==
    GoodPlan(p, T) /\ (\A n \in 1..Len(p) : Sound(p, n)) /\ W \subseteq Offered(p)

\* Nothing about a sound node changes in a longer plan.
LEMMA HoldsSound ==
    ASSUME NEW p, NEW q, NEW d, Holds(p, q, d), NEW n \in 1..Len(q), Sound(q, n)
    PROVE  Sound(p, d + n)
<1>1. p[d + n].op = q[n].op /\ p[d + n].in = q[n].in /\ p[d + n].out = q[n].out
  BY DEF Holds
<1>2. Written(q, n) \subseteq Written(p, d + n)
  <2>1. ASSUME NEW c \in Written(q, n) PROVE c \in Written(p, d + n)
    <3>1. PICK m \in Live(q, n) \ {n} : q[m].op \notin {"table", "group", "sort"} /\ c \in ToSet(q[m].out)
      BY DEF Written
    <3>2. m \in 1..Len(q) /\ d + m \in Live(p, d + n)
      BY <3>1, HoldsLive
    <3>3. p[d + m].op = q[m].op /\ p[d + m].out = q[m].out
      BY <3>2 DEF Holds
    <3>4. d + m # d + n
      BY <3>1, <3>2 DEF Holds
    <3>5. QED
      BY <3>1, <3>2, <3>3, <3>4 DEF Written
  <2>2. QED
    BY <2>1
<1>3. TablesBelow(q, n) \subseteq TablesBelow(p, d + n)
  BY HoldsTables
<1>4. \A c : Resolves(q, n, c) => Resolves(p, d + n, c)
  BY <1>2, <1>3 DEF Resolves
<1>5. QED
  BY <1>1, <1>4 DEF Sound

\* What is held by what is held.
LEMMA HoldsHeld ==
    ASSUME NEW r, NEW p, Holds(r, p, 0), NEW q, NEW d, Holds(p, q, d)
    PROVE  Holds(r, q, d)
<1>1. /\ Len(r) \in Nat /\ Len(p) \in Nat /\ Len(q) \in Nat /\ d \in Nat
      /\ Forest(r) /\ Forest(p) /\ Forest(q) /\ 0 + Len(p) <= Len(r) /\ d + Len(q) <= Len(p)
  BY DEF Holds, Forest, IsSeq
<1>2. ASSUME NEW j \in 1..Len(q)
      PROVE  /\ r[d + j].op = q[j].op /\ r[d + j].in = q[j].in /\ r[d + j].out = q[j].out
             /\ Len(r[d + j].kids) = Len(q[j].kids)
             /\ \A i \in 1..Len(q[j].kids) : r[d + j].kids[i] = q[j].kids[i] + d
  <2>1. d + j \in 1..Len(p) /\ 0 + (d + j) = d + j
    BY <1>1
  <2>2. /\ p[d + j].op = q[j].op /\ p[d + j].in = q[j].in /\ p[d + j].out = q[j].out
        /\ Len(p[d + j].kids) = Len(q[j].kids)
        /\ \A i \in 1..Len(q[j].kids) : p[d + j].kids[i] = q[j].kids[i] + d
    BY DEF Holds
  <2>3. /\ r[d + j].op = p[d + j].op /\ r[d + j].in = p[d + j].in /\ r[d + j].out = p[d + j].out
        /\ Len(r[d + j].kids) = Len(p[d + j].kids)
        /\ \A i \in 1..Len(p[d + j].kids) : r[d + j].kids[i] = p[d + j].kids[i] + 0
    <3>1. \A k \in 1..Len(p) :
            /\ r[0 + k].op = p[k].op /\ r[0 + k].in = p[k].in /\ r[0 + k].out = p[k].out
            /\ Len(r[0 + k].kids) = Len(p[k].kids)
            /\ \A i \in 1..Len(p[k].kids) : r[0 + k].kids[i] = p[k].kids[i] + 0
      BY DEF Holds
    <3>2. QED
      BY <2>1, <3>1
  <2>4. ASSUME NEW i \in 1..Len(q[j].kids) PROVE (q[j].kids[i] + d) + 0 = q[j].kids[i] + d
    <3>1. IsSeq(q[j].kids)
      BY <1>1 DEF Forest
    <3>2. q[j].kids[i] \in KidsOf(q, j)
      BY <3>1, PointersAre
    <3>3. q[j].kids[i] \in 1..(j - 1)
      BY <1>1, <3>2 DEF Forest, Descending
    <3>4. QED
      BY <1>1, <3>3
  <2>5. QED
    BY <2>2, <2>3, <2>4
<1>3. d + Len(q) <= Len(r)
  BY <1>1
<1>4. QED
  BY <1>1, <1>2, <1>3 DEF Holds

\* What Above makes: the plans in a row, each of them held at d[i], and a node on
\* top that points to their roots.
Stacked(p, subs, d, op, in, out) ==
    /\ Forest(p) /\ Len(p) >= 1
    /\ p[Len(p)].op = op /\ p[Len(p)].in = in /\ p[Len(p)].out = out
    /\ \A i \in 1..Len(subs) :
         /\ Holds(p, subs[i], d[i]) /\ d[i] + Len(subs[i]) < Len(p)
         /\ d[i] + Len(subs[i]) \in KidsOf(p, Len(p))
    /\ \A n \in 1..Len(p) : n = Len(p) \/ \E i \in 1..Len(subs) : n - d[i] \in 1..Len(subs[i])

\* The first i plans in a row: each is held, and there is nothing else.
RowHolds(u, subs, i) ==
    /\ Forest(u[i])
    /\ \A j \in 1..i : /\ Holds(u[i], subs[j], Len(u[j - 1]))
                       /\ Len(u[j]) = Len(u[j - 1]) + Len(subs[j])
    /\ \A n \in 1..Len(u[i]) : \E j \in 1..i : n - Len(u[j - 1]) \in 1..Len(subs[j])

\* The rows of Above.
LEMMA RowsHold ==
    ASSUME NEW subs, IsSeq(subs), \A i \in 1..Len(subs) : Forest(subs[i])
    PROVE  \A i \in 0..Len(subs) : RowHolds(UpTo(subs), subs, i)
<1>. DEFINE u == UpTo(subs)
            S == { i \in 0..Len(subs) : RowHolds(u, subs, i) }
<1>1. Len(subs) \in Nat
  BY DEF IsSeq
<1>2. /\ u[0] = <<>>
      /\ \A i \in 1..Len(subs) : u[i] = u[i - 1] \o Shifted(subs[i], Len(u[i - 1]))
  BY <1>1, UpToSteps
<1>. HIDE DEF u
<1>3. 0 \in S
  <2>1. 1..0 = {} /\ Len(<<>>) = 0
    BY EmptySeq
  <2>2. RowHolds(u, subs, 0)
    BY <1>2, <2>1, EmptyRow DEF RowHolds
  <2>3. QED
    BY <1>1, <2>2
<1>4. ASSUME NEW i \in 1..Len(subs), i - 1 \in S PROVE i \in S
  <2>. DEFINE p == u[i - 1]
              q == subs[i]
              r == u[i]
  <2>1. /\ Forest(p) /\ Forest(q)
        /\ \A j \in 1..(i - 1) : Holds(p, subs[j], Len(u[j - 1])) /\ Len(u[j]) = Len(u[j - 1]) + Len(subs[j])
        /\ \A n \in 1..Len(p) : \E j \in 1..(i - 1) : n - Len(u[j - 1]) \in 1..Len(subs[j])
    BY <1>4 DEF RowHolds
  <2>2. r = p \o Shifted(q, Len(p))
    BY <1>2
  <2>. HIDE DEF p, q, r
  <2>3. Len(r) = Len(p) + Len(q) /\ Holds(r, p, 0) /\ Holds(r, q, Len(p))
    BY <2>1, <2>2, RowOfForests
  <2>4. Len(p) \in Nat /\ Len(q) \in Nat /\ Forest(r)
    BY <2>1, <2>3 DEF Forest, IsSeq, Holds
  <2>5. ASSUME NEW j \in 1..i
        PROVE  Holds(r, subs[j], Len(u[j - 1])) /\ Len(u[j]) = Len(u[j - 1]) + Len(subs[j])
    <3>1. CASE j = i
      BY <2>3, <3>1 DEF p, q, r
    <3>2. CASE j # i
      <4>1. j \in 1..(i - 1)
        BY <1>1, <3>2
      <4>2. Holds(p, subs[j], Len(u[j - 1])) /\ Len(u[j]) = Len(u[j - 1]) + Len(subs[j])
        BY <2>1, <4>1
      <4>3. QED
        BY <2>3, <4>2, HoldsHeld
    <3>3. QED
      BY <3>1, <3>2
  <2>6. ASSUME NEW n \in 1..Len(r)
        PROVE  \E j \in 1..i : n - Len(u[j - 1]) \in 1..Len(subs[j])
    <3>1. CASE n \in 1..Len(p)
      <4>1. PICK j \in 1..(i - 1) : n - Len(u[j - 1]) \in 1..Len(subs[j])
        BY <2>1, <3>1
      <4>2. j \in 1..i
        BY <1>1
      <4>3. QED
        BY <4>1, <4>2
    <3>2. CASE n \notin 1..Len(p)
      <4>1. n - Len(p) \in 1..Len(q) /\ i \in 1..i
        BY <1>1, <2>3, <2>4, <3>2
      <4>2. QED
        BY <4>1 DEF p, q
    <3>3. QED
      BY <3>1, <3>2
  <2>7. RowHolds(u, subs, i)
    BY <2>4, <2>5, <2>6 DEF RowHolds, r
  <2>8. QED
    BY <1>1, <2>7
<1>. HIDE DEF S
<1>5. 0..Len(subs) \subseteq S
  BY <1>1, <1>3, <1>4, UpToNat
<1>6. QED
  BY <1>5 DEF S, u

\* What Above makes is stacked.
LEMMA AboveStacked ==
    ASSUME NEW subs, IsSeq(subs), \A i \in 1..Len(subs) : Forest(subs[i]) /\ Len(subs[i]) >= 1,
           NEW op, NEW in, NEW out, NEW orders
    PROVE  \E d : Stacked(Above(subs, op, in, out, orders), subs, d, op, in, out)
<1>. DEFINE u == UpTo(subs)
            n == Len(subs)
            q == u[n]
            d == [i \in 1..n |-> Len(u[i - 1])]
            kids == [i \in DOMAIN subs |-> Len(u[i])]
            x == Node(op, in, out, kids, orders)
            p == Append(q, x)
<1>1. n \in Nat /\ DOMAIN subs = 1..n
  BY DEF IsSeq
<1>2. Above(subs, op, in, out, orders) = p
  BY DEF Above, UpTo
<1>3. RowHolds(u, subs, n)
  BY <1>1, RowsHold
<1>4. \A i \in 1..n : d[i] = Len(u[i - 1])
  OBVIOUS
<1>. HIDE DEF u, d
<1>5. /\ IsSeq(kids) /\ Len(kids) = n
      /\ \A i \in 1..n : kids[i] = Len(u[i])
  <2>1. kids = [i \in 1..n |-> kids[i]] /\ \A i \in 1..n : kids[i] = Len(u[i])
    BY <1>1
  <2>. HIDE DEF kids
  <2>2. QED
    BY <1>1, <2>1, FcnIs
<1>. HIDE DEF kids
<1>6. IsNode(x) /\ x.kids = kids /\ x.op = op /\ x.in = in /\ x.out = out
  BY NodeIs
<1>. HIDE DEF x
<1>7. /\ Forest(q) /\ Len(q) \in Nat
      /\ \A i \in 1..n : Holds(q, subs[i], d[i]) /\ kids[i] = d[i] + Len(subs[i])
      /\ \A m \in 1..Len(q) : \E i \in 1..n : m - d[i] \in 1..Len(subs[i])
  BY <1>3, <1>4, <1>5 DEF RowHolds, Forest, IsSeq
<1>8. ASSUME NEW i \in 1..n PROVE kids[i] \in 1..Len(q)
  <2>1. d[i] \in Nat /\ d[i] + Len(subs[i]) <= Len(q) /\ Len(subs[i]) >= 1 /\ Len(subs[i]) \in Nat
    BY <1>7 DEF Holds, Forest, IsSeq
  <2>2. QED
    BY <1>7, <2>1
<1>. HIDE DEF q
<1>9. Len(p) = Len(q) + 1 /\ p[Len(q) + 1] = x /\ Holds(p, q, 0)
  BY <1>5, <1>6, <1>7, <1>8, TopOfForest
<1>. HIDE DEF p
<1>10. Forest(p) /\ Len(p) \in Nat /\ Len(p) >= 1 /\ p[Len(p)] = x
  BY <1>7, <1>9 DEF Holds, Forest, IsSeq
<1>11. ASSUME NEW i \in 1..n
       PROVE  /\ Holds(p, subs[i], d[i]) /\ d[i] + Len(subs[i]) < Len(p)
              /\ d[i] + Len(subs[i]) \in KidsOf(p, Len(p))
  <2>1. Holds(p, subs[i], d[i])
    BY <1>7, <1>9, HoldsHeld
  <2>2. kids[i] < Len(p)
    BY <1>7, <1>8, <1>9
  <2>3. kids[i] \in KidsOf(p, Len(p))
    <3>1. p[Len(p)].kids = kids
      BY <1>6, <1>10
    <3>2. IsSeq(p[Len(p)].kids) /\ i \in 1..Len(p[Len(p)].kids)
      BY <1>5, <3>1
    <3>3. QED
      BY <3>1, <3>2, PointersAre
  <2>4. QED
    BY <1>7, <2>1, <2>2, <2>3
<1>12. \A m \in 1..Len(p) : m = Len(p) \/ \E i \in 1..n : m - d[i] \in 1..Len(subs[i])
  <2>1. \A m \in 1..Len(p) : m = Len(p) \/ m \in 1..Len(q)
    BY <1>7, <1>9
  <2>2. QED
    BY <1>7, <2>1
<1>13. Stacked(p, subs, d, op, in, out)
  <2>1. p[Len(p)].op = op /\ p[Len(p)].in = in /\ p[Len(p)].out = out
    BY <1>6, <1>10
  <2>2. QED
    BY <1>10, <1>11, <1>12, <2>1 DEF Stacked
<1>14. QED
  BY <1>2, <1>13 DEF p, q, x, kids, n

\* Sound plans with the tables T[i] that hand up W[i].
SoundSubs(subs, T, W) ==
    IsSeq(subs) /\ \A i \in 1..Len(subs) : SoundPlan(subs[i], T[i], W[i])

\* The columns of a node above plans with the tables T that hand up W.
SoundTop(op, in, out, T, W) ==
    op \notin {"table", "empty"} =>
      /\ \A i \in DOMAIN in : Stays(in[i]) /\ (IsBase(in[i], T) \/ in[i] \in W)
      /\ op \notin {"group", "sort"} => \A i \in DOMAIN out : Stays(out[i])

\* What the node itself hands up.
OwnColumns(op, out) == IF op \in {"table", "group", "sort"} THEN {} ELSE ToSet(out)

\* A node above sound plans makes a sound plan.
LEMMA AboveSound ==
    ASSUME NEW subs, NEW T, NEW W, SoundSubs(subs, T, W),
           NEW op, NEW in, NEW out, NEW orders,
           op = "join" => Len(subs) = 2 /\ PairOfColumns(in, T[1], T[2]),
           SoundTop(op, in, out, AllOf(subs, T), AllOf(subs, W))
    PROVE  SoundPlan(Above(subs, op, in, out, orders),
                     AllOf(subs, T), AllOf(subs, W) \cup OwnColumns(op, out))
<1>. DEFINE p == Above(subs, op, in, out, orders)
            top == Len(p)
<1>1. GoodSubs(subs, T) /\ IsSeq(subs)
  BY DEF SoundSubs, SoundPlan, GoodSubs
<1>2. GoodPlan(p, AllOf(subs, T))
  BY <1>1, AboveGood DEF AllOf
<1>3. PICK d : Stacked(p, subs, d, op, in, out)
  <2>1. \A i \in 1..Len(subs) : Forest(subs[i]) /\ Len(subs[i]) >= 1
    BY <1>1 DEF GoodSubs, GoodPlan
  <2>2. QED
    BY <1>1, <2>1, AboveStacked
<1>. HIDE DEF p
<1>4. /\ Forest(p) /\ Descending(p) /\ Len(p) \in Nat /\ top \in 1..Len(p)
      /\ p[top].op = op /\ p[top].in = in /\ p[top].out = out
  BY <1>3 DEF Stacked, Forest, IsSeq
<1>5. /\ top \in Live(p, top)
      /\ \A m \in Live(p, top) : KidsOf(p, m) \subseteq Live(p, top)
  BY <1>4, LiveClosed
<1>6. ASSUME NEW i \in 1..Len(subs), NEW m \in Live(subs[i], Len(subs[i]))
      PROVE  /\ m \in 1..Len(subs[i]) /\ d[i] + m \in Live(p, top) \ {top}
             /\ p[d[i] + m].op = subs[i][m].op /\ p[d[i] + m].out = subs[i][m].out
  <2>. DEFINE q == subs[i]
              k == d[i] + Len(q)
  <2>1. Holds(p, q, d[i]) /\ k < Len(p) /\ k \in KidsOf(p, top)
    BY <1>3 DEF Stacked
  <2>2. Len(q) \in Nat /\ Len(q) >= 1 /\ d[i] \in Nat
    BY <1>1, <2>1 DEF GoodSubs, GoodPlan, Forest, IsSeq, Holds
  <2>3. m \in 1..Len(q) /\ d[i] + m \in Live(p, k)
    BY <2>1, <2>2, HoldsLive
  <2>4. Live(p, k) \subseteq Live(p, top)
    BY <1>4, <1>5, <2>1, LiveLeast
  <2>5. d[i] + m # top
    BY <2>1, <2>2, <2>3
  <2>6. p[d[i] + m].op = q[m].op /\ p[d[i] + m].out = q[m].out
    BY <2>1, <2>3 DEF Holds
  <2>7. QED
    BY <2>3, <2>4, <2>5, <2>6
<1>7. ASSUME NEW c \in AllOf(subs, W) PROVE c \in Written(p, top)
  <2>1. PICK i \in 1..Len(subs) : c \in W[i]
    BY DEF AllOf
  <2>2. c \in Offered(subs[i])
    BY <2>1 DEF SoundSubs, SoundPlan
  <2>3. PICK m \in Live(subs[i], Len(subs[i])) : Writes(subs[i][m]) /\ c \in ToSet(subs[i][m].out)
    BY <2>2 DEF Offered
  <2>4. /\ d[i] + m \in Live(p, top) \ {top}
        /\ p[d[i] + m].op = subs[i][m].op /\ p[d[i] + m].out = subs[i][m].out
    BY <1>6, <2>3
  <2>5. QED
    BY <2>3, <2>4 DEF Written, Writes
<1>8. Sound(p, top)
  <2>1. AllOf(subs, T) \subseteq TablesBelow(p, top)
    BY <1>2 DEF GoodPlan
  <2>2. \A c : IsBase(c, AllOf(subs, T)) => Resolves(p, top, c)
    BY <2>1 DEF IsBase, Resolves
  <2>3. \A c : c \in AllOf(subs, W) => Resolves(p, top, c)
    BY <1>7 DEF Resolves
  <2>4. QED
    BY <1>4, <2>2, <2>3 DEF Sound, SoundTop
<1>9. ASSUME NEW n \in 1..Len(p) PROVE Sound(p, n)
  <2>1. CASE n = top
    BY <1>8, <2>1
  <2>2. CASE n # top
    <3>1. PICK i \in 1..Len(subs) : n - d[i] \in 1..Len(subs[i])
      BY <1>3, <2>2 DEF Stacked
    <3>2. Holds(p, subs[i], d[i]) /\ d[i] \in Nat
      BY <1>3 DEF Stacked, Holds
    <3>3. Sound(subs[i], n - d[i])
      BY <3>1 DEF SoundSubs, SoundPlan
    <3>4. Sound(p, d[i] + (n - d[i]))
      BY <3>1, <3>2, <3>3, HoldsSound
    <3>5. d[i] + (n - d[i]) = n
      BY <3>2
    <3>6. QED
      BY <3>4, <3>5
  <2>3. QED
    BY <2>1, <2>2
<1>10. AllOf(subs, W) \subseteq Offered(p)
  BY <1>7 DEF Written, Offered, Writes
<1>11. OwnColumns(op, out) \subseteq Offered(p)
  BY <1>4, <1>5 DEF OwnColumns, Offered, Writes
<1>12. SoundPlan(p, AllOf(subs, T), AllOf(subs, W) \cup OwnColumns(op, out))
  BY <1>2, <1>9, <1>10, <1>11 DEF SoundPlan
<1>13. QED
  BY <1>12 DEF p

\* One plan alone.
LEMMA OneSound ==
    ASSUME NEW p, NEW T, NEW W, SoundPlan(p, T, W),
           NEW op, op # "join", NEW in, NEW out, NEW orders, SoundTop(op, in, out, T, W)
    PROVE  SoundPlan(Above(<<p>>, op, in, out, orders), T, W \cup OwnColumns(op, out))
<1>. DEFINE subs == <<p>>
            U == [i \in {1} |-> T]
            V == [i \in {1} |-> W]
<1>1. IsSeq(subs) /\ Len(subs) = 1 /\ subs[1] = p
  <2>1. subs \in Seq({p}) /\ Len(subs) = 1 /\ subs[1] = p
    OBVIOUS
  <2>. HIDE DEF subs
  <2>2. QED
    BY <2>1, SeqIs
<1>. HIDE DEF subs
<1>2. 1..1 = {1} /\ U[1] = T /\ V[1] = W
  OBVIOUS
<1>. HIDE DEF U, V
<1>3. SoundSubs(subs, U, V)
  BY <1>1, <1>2 DEF SoundSubs
<1>4. AllOf(subs, U) = T /\ AllOf(subs, V) = W
  BY <1>1, <1>2 DEF AllOf
<1>5. SoundPlan(Above(subs, op, in, out, orders),
                AllOf(subs, U), AllOf(subs, V) \cup OwnColumns(op, out))
  BY <1>3, <1>4, AboveSound
<1>6. QED
  BY <1>4, <1>5 DEF subs

-----------------------------------------------------------------------------
(* The aggregations of a query.                                            *)

AggFcn(select) ==
    LET of[i \in 0..Len(select)] ==
          IF i = 0 THEN <<>>
          ELSE IF IsAggregation(select[i].text) THEN Append(of[i - 1], select[i]) ELSE of[i - 1]
    IN  of

\* The aggregations of the first i items.
AggsUpTo(s, select, i) ==
    /\ IsSeq(s)
    /\ \A j \in 1..Len(s) : IsAggregation(s[j].text) /\ s[j] \in ToSet(select)
    /\ \A k \in 1..i : IsAggregation(select[k].text) => \E j \in 1..Len(s) : s[j] = select[k]

\* They are the items that aggregate.
LEMMA AggregationsAre ==
    ASSUME NEW select, IsSeq(select)
    PROVE  AggsUpTo(AggregationsOf(select), select, Len(select))
<1>. DEFINE last == Len(select)
            More(s, i) == IF IsAggregation(select[i].text) THEN Append(s, select[i]) ELSE s
            Walk(f, n) == f = [i \in 0..n |-> IF i = 0 THEN <<>> ELSE More(f[i - 1], i)]
            S == { n \in Nat : \E f : Walk(f, n) }
            of == AggFcn(select)
            G == { n \in 0..last : AggsUpTo(of[n], select, n) }
<1>1. last \in Nat /\ DOMAIN select = 1..last
  BY DEF IsSeq
<1>2. ASSUME NEW s, NEW i \in 1..last, AggsUpTo(s, select, i - 1)
      PROVE  AggsUpTo(More(s, i), select, i)
  <2>. DEFINE x == select[i]
              t == Append(s, x)
  <2>1. x \in ToSet(select)
    BY <1>1 DEF ToSet
  <2>2. \A k \in 1..i : k = i \/ k \in 1..(i - 1)
    BY <1>1
  <2>3. CASE IsAggregation(x.text)
    <3>. HIDE DEF x
    <3>1. /\ IsSeq(t) /\ Len(t) = Len(s) + 1 /\ t[Len(s) + 1] = x
          /\ (\A j \in 1..Len(s) : t[j] = s[j]) /\ Len(s) \in Nat
      BY <1>2, AppendIs DEF AggsUpTo, IsSeq
    <3>. HIDE DEF t
    <3>2. \A j \in 1..Len(t) : j \in 1..Len(s) \/ j = Len(s) + 1
      BY <3>1
    <3>3. \A j \in 1..Len(s) : j \in 1..Len(t)
      BY <3>1
    <3>4. Len(s) + 1 \in 1..Len(t)
      BY <3>1
    <3>5. \A j \in 1..Len(t) : IsAggregation(t[j].text) /\ t[j] \in ToSet(select)
      BY <1>2, <2>1, <2>3, <3>1, <3>2 DEF AggsUpTo
    <3>6. ASSUME NEW k \in 1..i, IsAggregation(select[k].text)
          PROVE  \E j \in 1..Len(t) : t[j] = select[k]
      <4>1. CASE k = i
        BY <3>1, <3>4, <4>1 DEF x
      <4>2. CASE k # i
        BY <1>2, <2>2, <3>1, <3>3, <3>6, <4>2 DEF AggsUpTo
      <4>3. QED
        BY <4>1, <4>2
    <3>7. More(s, i) = t
      BY <2>3 DEF t, x
    <3>8. AggsUpTo(t, select, i)
      BY <3>1, <3>5, <3>6 DEF AggsUpTo
    <3>9. QED
      BY <3>7, <3>8
  <2>4. CASE ~IsAggregation(x.text)
    <3>1. More(s, i) = s
      BY <2>4
    <3>2. \A k \in 1..i : IsAggregation(select[k].text) => k \in 1..(i - 1)
      BY <2>2, <2>4
    <3>3. AggsUpTo(s, select, i)
      BY <1>2, <3>2 DEF AggsUpTo
    <3>4. QED
      BY <3>1, <3>3
  <2>5. QED
    BY <2>3, <2>4
<1>. HIDE DEF More
<1>3. 0 \in S
  <2>1. Walk([i \in 0..0 |-> <<>>], 0)
    OBVIOUS
  <2>2. QED
    BY <2>1
<1>4. ASSUME NEW n \in 1..last, n - 1 \in S PROVE n \in S
  <2>1. PICK f : Walk(f, n - 1)
    BY <1>4
  <2>. DEFINE g == [i \in 0..n |-> IF i = n THEN More(f[n - 1], n) ELSE f[i]]
  <2>2. ASSUME NEW i \in 0..n PROVE g[i] = IF i = 0 THEN <<>> ELSE More(g[i - 1], i)
    <3>. HIDE DEF last
    <3>1. CASE i = n
      BY <1>1, <3>1
    <3>2. CASE i # n
      <4>1. i \in 0..(n - 1) /\ (i # 0 => i - 1 \in 0..(n - 1) /\ i - 1 \in 0..n /\ i - 1 # n)
        BY <1>1, <3>2
      <4>2. f[i] = IF i = 0 THEN <<>> ELSE More(f[i - 1], i)
        BY <2>1, <4>1
      <4>3. g[i] = f[i] /\ (i # 0 => g[i - 1] = f[i - 1])
        BY <3>2, <4>1
      <4>. HIDE DEF g
      <4>4. QED
        BY <4>2, <4>3
    <3>3. QED
      BY <3>1, <3>2
  <2>3. Walk(g, n)
    BY <2>2
  <2>4. n \in Nat /\ \E h : Walk(h, n)
    <3>. HIDE DEF Walk, g, last
    <3>1. QED
      BY <1>1, <2>3
  <2>5. QED
    BY <2>4
<1>. HIDE DEF S
<1>5. last \in S
  <2>. HIDE DEF last
  <2>1. 0..last \subseteq S
    BY <1>1, <1>3, <1>4, UpToNat
  <2>2. QED
    BY <1>1, <2>1
<1>6. PICK f : Walk(f, last)
  BY <1>5 DEF S
<1>7. Walk(of, last)
  BY <1>6 DEF AggFcn, More
<1>8. /\ of[0] = <<>>
      /\ \A i \in 1..last : of[i] = More(of[i - 1], i)
  <2>. HIDE DEF of, last
  <2>1. \A i \in 0..last : of[i] = IF i = 0 THEN <<>> ELSE More(of[i - 1], i)
    BY <1>7
  <2>2. 0 \in 0..last /\ \A i \in 1..last : i \in 0..last /\ i # 0
    BY <1>1
  <2>3. QED
    BY <2>1, <2>2
<1>9. AggregationsOf(select) = of[last]
  BY DEF AggregationsOf, AggFcn
<1>. HIDE DEF of, last
<1>10. 0 \in G
  <2>1. IsSeq(<<>>) /\ Len(<<>>) = 0 /\ 1..0 = {}
    BY EmptyRow, EmptySeq DEF Forest
  <2>2. AggsUpTo(of[0], select, 0)
    BY <1>8, <2>1 DEF AggsUpTo
  <2>3. QED
    BY <1>1, <2>2
<1>11. ASSUME NEW n \in 1..last, n - 1 \in G PROVE n \in G
  <2>1. AggsUpTo(of[n - 1], select, n - 1)
    BY <1>11
  <2>2. AggsUpTo(More(of[n - 1], n), select, n) /\ n \in 0..last
    BY <1>1, <1>2, <2>1
  <2>3. QED
    BY <1>8, <2>2
<1>. HIDE DEF G
<1>12. 0..last \subseteq G
  BY <1>1, <1>10, <1>11, UpToNat
<1>13. AggsUpTo(of[last], select, last)
  BY <1>1, <1>12 DEF G
<1>14. QED
  BY <1>9, <1>13 DEF last

-----------------------------------------------------------------------------
(* Names.                                                                  *)

\* What the file and the query must have in common for the columns to resolve.
Prepared ==
    /\ sql \in SqlText /\ RegularNames /\ RegularTypes /\ AggregatesAbove /\ JoinsFirst
    /\ TablesScanned

\* The column belongs to no table, or to one with a name.
LEMMA NoDefault ==
    ASSUME NEW w PROVE GetTableFromColumn(w) # "Default"
<1>1. w \in DOMAIN TableOf => TableOf[w] \in Tables
  BY DEF Tables
<1>2. GetTableFromColumn(w) \in Tables \/ GetTableFromColumn(w) = ""
  BY <1>1 DEF GetTableFromColumn
<1>3. QED
  BY <1>2, InputsAssumption

\* A text that the catalog knows is the name of a column.
LEMMA KnownText ==
    ASSUME NEW text, GetTableName(text) # "Default"
    PROVE  /\ IsPlain(text) /\ GetTableName(text) = GetTableFromColumn(text.of[1])
           /\ IsTable(GetTableName(text))
BY NoDefault DEF GetTableName, IsTable

\* No item of the select list is called like that.
NotAlias(text) == \A s \in ToSet(Query.selections) : s.as # "" => Word(s.as) # text

\* Columns are not.
LEMMA PlainNotAlias ==
    ASSUME RegularNames, NEW text, IsPlain(text), GetTableFromColumn(text.of[1]) # ""
    PROVE  NotAlias(text)
<1>1. Query.selections = sql.select
  BY DEF Query, ParseQuery
<1>2. \A s \in ToSet(sql.select) : s.as # "" => GetTableFromColumn(s.as) = ""
  BY DEF RegularNames
<1>3. ASSUME NEW s \in ToSet(sql.select), s.as # "", Word(s.as) = text PROVE FALSE
  <2>1. Word(s.as).of[1] = s.as
    BY DEF Word
  <2>2. QED
    BY <1>2, <1>3, <2>1
<1>4. QED
  BY <1>1, <1>3 DEF NotAlias

\* Nor are expressions.
LEMMA OtherNotAlias ==
    ASSUME NEW text, text.fn # "" \/ Len(text.of) # 1
    PROVE  NotAlias(text)
<1>1. ASSUME NEW a PROVE Word(a) # text
  <2>1. Word(a).fn = "" /\ Len(Word(a).of) = 1
    BY DEF Word
  <2>2. QED
    BY <2>1
<1>2. QED
  BY <1>1 DEF NotAlias

\* A column of a table under its own name is left as it is.
LEMMA ColumnStays ==
    ASSUME NEW t, IsTable(t), NEW text, NotAlias(text), NEW type
    PROVE  Stays(Column(t, text, type))
<1>. DEFINE col == Column(t, text, type)
<1>1. col.table = t /\ col.text = text /\ col = [table |-> t, text |-> text, type |-> type]
  BY DEF Column
<1>. HIDE DEF col
<1>2. ASSUME NEW b PROVE ApplyAlias(col, b) = col
  <2>. DEFINE named == { s \in ToSet(Query.selections) : b /\ s.as # "" /\ Word(s.as) = col.text }
              new == IF named = {} THEN col.text
                     ELSE RemoveAllWhitespace((CHOOSE s \in named : TRUE).text)
              other == IF NamesAggFunc(new) THEN "AGG"
                       ELSE IF ContainsArithMapOp(new) THEN "MAP" ELSE t
  <2>1. named = {}
    BY <1>1 DEF NotAlias
  <2>2. new = text
    BY <1>1, <2>1
  <2>3. ApplyAlias(col, b) =
          [col EXCEPT !.text = new, !.table = IF t \notin {"", "Default"} THEN t ELSE other]
    BY <1>1 DEF ApplyAlias
  <2>. HIDE DEF new, other
  <2>4. ApplyAlias(col, b) = [col EXCEPT !.text = text, !.table = t]
    BY <2>2, <2>3 DEF IsTable
  <2>5. QED
    BY <1>1, <2>4
<1>3. QED
  BY <1>2 DEF Stays, col

\* A column of one of the tables T by its own name and with its type.
LEMMA BaseColumn ==
    ASSUME RegularNames, NEW T, NEW text, IsPlain(text),
           NEW t \in T, IsTable(t), GetTableFromColumn(text.of[1]) = t,
           NEW type, type = IF text.of[1] \in StringCols THEN "string" ELSE "int"
    PROVE  IsBase(Column(t, text, type), T) /\ Stays(Column(t, text, type))
<1>1. NotAlias(text)
  BY PlainNotAlias DEF IsTable
<1>2. Stays(Column(t, text, type))
  BY <1>1, ColumnStays
<1>3. IsBase(Column(t, text, type), T)
  BY DEF IsBase, Column
<1>4. QED
  BY <1>2, <1>3

\* The type that the catalog gives a column of a table.
LEMMA TypeOfPlain ==
    ASSUME NEW text, IsPlain(text), NEW t, IsTable(t)
    PROVE  GetSSBColumnType(t, text) = IF text.of[1] \in StringCols THEN "string" ELSE "int"
BY DEF GetSSBColumnType, IsTable

\* And if the table is to be found first.
LEMMA TypeOfKnown ==
    ASSUME NEW text, GetTableName(text) # "Default"
    PROVE  GetSSBColumnType("", text) = IF text.of[1] \in StringCols THEN "string" ELSE "int"
<1>1. IsPlain(text) /\ IsTable(GetTableName(text))
  BY KnownText
<1>2. QED
  BY <1>1 DEF GetSSBColumnType, IsTable

\* A word that is a column of the table t.
LEMMA WordColumn ==
    ASSUME RegularNames, NEW T, NEW t \in T, IsTable(t), NEW w, GetTableFromColumn(w) = t
    PROVE  IsBase(TypedColumn(t, w), T) /\ Stays(TypedColumn(t, w))
<1>1. Word(w).of[1] = w /\ IsPlain(Word(w))
  BY DEF Word, IsPlain
<1>2. GetSSBColumnType(t, Word(w)) = IF w \in StringCols THEN "string" ELSE "int"
  BY <1>1, TypeOfPlain
<1>3. QED
  BY <1>1, <1>2, BaseColumn DEF TypedColumn

\* A text that the catalog knows as a column, with its table and its type.
LEMMA KnownColumn ==
    ASSUME RegularNames, NEW T, NEW text, GetTableName(text) # "Default",
           GetTableFromColumn(text.of[1]) \in T \cup {""},
           NEW type, type = IF text.of[1] \in StringCols THEN "string" ELSE "int"
    PROVE  /\ IsBase(Column(GetTableName(text), text, type), T)
           /\ Stays(Column(GetTableName(text), text, type))
<1>1. /\ IsPlain(text) /\ GetTableName(text) = GetTableFromColumn(text.of[1])
      /\ IsTable(GetTableName(text))
  BY KnownText
<1>2. GetTableName(text) \in T
  BY <1>1 DEF IsTable
<1>3. QED
  BY <1>1, <1>2, BaseColumn

-----------------------------------------------------------------------------
(* The columns of scans and joins.                                         *)

\* A scan without filters.
LEMMA TableSound ==
    ASSUME NEW t
    PROVE  SoundPlan(<< Node("table", <<t>>, <<t>>, <<>>, <<>>) >>, {t}, {})
<1>. DEFINE x == Node("table", <<t>>, <<t>>, <<>>, <<>>)
            p == <<x>>
<1>1. GoodPlan(p, {t})
  BY TableGood
<1>2. x.op = "table"
  BY NodeIs
<1>. HIDE DEF x
<1>3. Len(p) = 1 /\ p[1] = x
  OBVIOUS
<1>. HIDE DEF p
<1>4. \A n \in 1..Len(p) : n = 1
  BY <1>3
<1>5. \A n \in 1..Len(p) : Sound(p, n)
  BY <1>2, <1>3, <1>4 DEF Sound
<1>6. SoundPlan(p, {t}, {})
  BY <1>1, <1>5 DEF SoundPlan
<1>7. QED
  BY <1>6 DEF p, x

\* One column as the inputs and outputs of a node.
LEMMA OneColumn ==
    ASSUME NEW op, NEW col, NEW T, NEW W, Stays(col), IsBase(col, T) \/ col \in W
    PROVE  SoundTop(op, <<col>>, <<col>>, T, W)
<1>1. DOMAIN <<col>> = {1} /\ <<col>>[1] = col
  OBVIOUS
<1>2. QED
  BY <1>1 DEF SoundTop

\* A filter whose column is one of the table.
LEMMA FilterOverSound ==
    ASSUME RegularNames, NEW p, NEW t, IsTable(t), SoundPlan(p, {t}, {}),
           NEW c, GetTableFromColumn(c.left) = t
    PROVE  SoundPlan(FilterOver(p, t, c), {t}, {})
<1>. DEFINE col == TypedColumn(t, c.left)
<1>1. IsBase(col, {t}) /\ Stays(col)
  BY WordColumn
<1>. HIDE DEF col
<1>2. SoundTop("filter", <<col>>, <<col>>, {t}, {})
  BY <1>1, OneColumn
<1>3. "filter" # "join"
  OBVIOUS
<1>4. SoundPlan(Above(<<p>>, "filter", <<col>>, <<col>>, <<>>), {t},
                {} \cup OwnColumns("filter", <<col>>))
  BY <1>2, <1>3, OneSound
<1>5. SoundPlan(Above(<<p>>, "filter", <<col>>, <<col>>, <<>>), {t}, {})
  BY <1>4 DEF SoundPlan
<1>6. QED
  BY <1>5 DEF FilterOver, col

\* A scan with its filters one by one.
LEMMA FilteredSteps ==
    ASSUME NEW node, Len(node.conds) \in Nat
    PROVE  /\ Filtered(node)[0] = << Node("table", <<node.table>>, <<node.table>>, <<>>, <<>>) >>
           /\ \A i \in 1..Len(node.conds) :
                Filtered(node)[i] = FilterOver(Filtered(node)[i - 1], node.table,
                                               node.conds[Len(node.conds) + 1 - i])
<1>. DEFINE last == Len(node.conds)
            scan == << Node("table", <<node.table>>, <<node.table>>, <<>>, <<>>) >>
            Atop(p, i) == FilterOver(p, node.table, node.conds[last + 1 - i])
            Walk(f, n) == f = [i \in 0..n |-> IF i = 0 THEN scan ELSE Atop(f[i - 1], i)]
            S == { n \in Nat : \E f : Walk(f, n) }
            over == Filtered(node)
<1>. HIDE DEF Atop, scan
<1>3. 0 \in S
  <2>1. Walk([i \in 0..0 |-> scan], 0)
    OBVIOUS
  <2>2. QED
    BY <2>1
<1>4. ASSUME NEW n \in 1..last, n - 1 \in S PROVE n \in S
  <2>1. PICK f : Walk(f, n - 1)
    BY <1>4
  <2>. DEFINE g == [i \in 0..n |-> IF i = n THEN Atop(f[n - 1], n) ELSE f[i]]
  <2>2. ASSUME NEW i \in 0..n PROVE g[i] = IF i = 0 THEN scan ELSE Atop(g[i - 1], i)
    <3>1. CASE i = n
      BY <3>1
    <3>2. CASE i # n
      <4>1. i \in 0..(n - 1) /\ (i # 0 => i - 1 \in 0..(n - 1) /\ i - 1 \in 0..n /\ i - 1 # n)
        BY <3>2
      <4>2. f[i] = IF i = 0 THEN scan ELSE Atop(f[i - 1], i)
        BY <2>1, <4>1
      <4>3. g[i] = f[i] /\ (i # 0 => g[i - 1] = f[i - 1])
        BY <3>2, <4>1
      <4>. HIDE DEF g
      <4>4. QED
        BY <4>2, <4>3
    <3>3. QED
      BY <3>1, <3>2
  <2>3. Walk(g, n)
    BY <2>2
  <2>4. n \in Nat /\ \E h : Walk(h, n)
    <3>. HIDE DEF Walk, g
    <3>1. QED
      BY <2>3
  <2>5. QED
    BY <2>4
<1>. HIDE DEF S
<1>5. last \in S
  <2>1. 0..last \subseteq S
    BY <1>3, <1>4, UpToNat
  <2>2. QED
    BY <2>1
<1>6. PICK f : Walk(f, last)
  BY <1>5 DEF S
<1>7. Walk(over, last)
  BY <1>6 DEF Filtered, Atop, scan
<1>. HIDE DEF over
<1>8. \A i \in 0..last : over[i] = IF i = 0 THEN scan ELSE Atop(over[i - 1], i)
  BY <1>7
<1>9. 0 \in 0..last /\ \A i \in 1..last : i \in 0..last /\ i # 0
  OBVIOUS
<1>10. over[0] = scan /\ \A i \in 1..last : over[i] = Atop(over[i - 1], i)
  BY <1>8, <1>9
<1>11. QED
  BY <1>10 DEF Atop, scan, over

\* A scan says of what.
HasTable(node) == node.table # ""

\* A scan with filters on columns of its table.
LEMMA SourceSound ==
    ASSUME RegularNames, NEW node, Len(node.conds) \in Nat, HasTable(node),
           \A i \in 1..Len(node.conds) : GetTableFromColumn(node.conds[i].left) = node.table
    PROVE  SoundPlan(SourcePlan(node), {node.table}, {})
<1>. DEFINE last == Len(node.conds)
            over == Filtered(node)
            t == node.table
            c(i) == node.conds[last + 1 - i]
            G == { n \in 0..last : SoundPlan(over[n], {t}, {}) }
<1>1. SoundPlan(over[0], {t}, {})
  BY FilteredSteps, TableSound
<1>2. ASSUME NEW i \in 1..last PROVE over[i] = FilterOver(over[i - 1], t, c(i))
  BY FilteredSteps
<1>3. ASSUME NEW i \in 1..last PROVE GetTableFromColumn(c(i).left) = t
  <2>1. last + 1 - i \in 1..last
    OBVIOUS
  <2>2. QED
    BY <2>1
<1>. HIDE DEF over, c
<1>4. 0 \in G
  BY <1>1
<1>5. ASSUME NEW n \in 1..last, n - 1 \in G PROVE n \in G
  <2>1. SoundPlan(over[n - 1], {t}, {})
    BY <1>5
  <2>2. SoundPlan(FilterOver(over[n - 1], t, c(n)), {t}, {})
    <3>1. GetTableFromColumn(c(n).left) = t
      BY <1>3
    <3>2. t # ""
      BY DEF HasTable
    <3>. HIDE DEF t
    <3>3. IsTable(t)
      BY <3>1, <3>2, NoDefault DEF IsTable
    <3>4. QED
      BY <2>1, <3>1, <3>3, FilterOverSound
  <2>3. n \in 0..last
    OBVIOUS
  <2>4. QED
    BY <1>2, <2>2, <2>3
<1>6. SoundPlan(over[last], {t}, {})
  <2>. HIDE DEF G, last
  <2>1. last \in Nat
    BY DEF last
  <2>2. 0..last \subseteq G
    BY <1>4, <1>5, <2>1, UpToNat
  <2>3. last \in G
    BY <2>1, <2>2
  <2>4. QED
    BY <2>3 DEF G
<1>7. QED
  BY <1>6 DEF SourcePlan, Filtered, over, last, t

\* A join whose condition fits its sides.
LEMMA JoinSound ==
    ASSUME RegularNames, NEW node, NEW subs, NEW T, NEW W, SoundSubs(subs, T, W), Len(subs) = 2,
           Connects(node.conds[1], T[1], T[2])
    PROVE  SoundPlan(JoinPlan(node, subs), AllOf(subs, T), AllOf(subs, W))
<1>. DEFINE c == node.conds[1]
            t == ConditionTables(c)
            left == TypedColumn(t[1], c.left)
            right == TypedColumn(t[2], c.right)
            cols == <<left, right>>
<1>1. \A u, text, type : IsColumn(Column(u, text, type)) /\ Column(u, text, type).table = u
  BY DEF IsColumn, Column
<1>2. \A u, w : IsColumn(TypedColumn(u, w)) /\ TypedColumn(u, w).table = u
  BY <1>1 DEF TypedColumn
<1>3. IsColumn(left) /\ left.table = t[1] /\ IsColumn(right) /\ right.table = t[2]
  BY <1>2
<1>4. /\ t[1] = GetTableFromColumn(c.left) /\ t[2] = GetTableFromColumn(c.right)
      /\ IsTable(t[1]) /\ IsTable(t[2]) /\ t[1] \in T[1] /\ t[2] \in T[2]
  <2>. HIDE DEF c
  <2>1. t[1] \in T[1] /\ IsTable(t[1]) /\ t[2] \in T[2] /\ IsTable(t[2])
    BY DEF Connects, c
  <2>. DEFINE l == GetTableFromColumn(c.left)
              r == GetTableFromColumn(c.right)
  <2>2. t = <<l, r>> \/ t = <<"", "">>
    BY DEF ConditionTables
  <2>. HIDE DEF t, l, r
  <2>3. t # <<"", "">>
    <3>1. t[1] # ""
      BY <2>1 DEF IsTable
    <3>2. <<"", "">>[1] = ""
      OBVIOUS
    <3>3. QED
      BY <3>1, <3>2
  <2>4. t = <<l, r>>
    BY <2>2, <2>3
  <2>5. t[1] = l /\ t[2] = r
    BY <2>4
  <2>6. QED
    BY <2>1, <2>5 DEF l, r
<1>5. t[1] \in AllOf(subs, T) /\ t[2] \in AllOf(subs, T)
  <2>1. 1 \in 1..Len(subs) /\ 2 \in 1..Len(subs)
    OBVIOUS
  <2>. HIDE DEF t
  <2>2. QED
    BY <1>4, <2>1 DEF AllOf
<1>6. IsBase(left, AllOf(subs, T)) /\ Stays(left) /\ IsBase(right, AllOf(subs, T)) /\ Stays(right)
  <2>. DEFINE all == AllOf(subs, T)
  <2>. HIDE DEF c, t, all
  <2>1. t[1] \in all /\ t[2] \in all
    BY <1>5 DEF all
  <2>2. IsBase(left, all) /\ Stays(left)
    BY <1>4, <2>1, WordColumn
  <2>3. IsBase(right, all) /\ Stays(right)
    BY <1>4, <2>1, WordColumn
  <2>4. QED
    BY <2>2, <2>3 DEF all
<1>. HIDE DEF t, left, right
<1>7. /\ IsSeq(cols) /\ Len(cols) = 2 /\ cols[1] = left /\ cols[2] = right
      /\ DOMAIN cols = {1, 2}
  <2>1. /\ cols \in Seq({left, right}) /\ Len(cols) = 2 /\ cols[1] = left /\ cols[2] = right
        /\ DOMAIN cols = {1, 2}
    OBVIOUS
  <2>. HIDE DEF cols
  <2>2. QED
    BY <2>1, SeqIs
<1>. HIDE DEF cols
<1>8. PairOfColumns(cols, T[1], T[2])
  BY <1>3, <1>4, <1>7 DEF PairOfColumns
<1>9. SoundTop("join", cols, cols, AllOf(subs, T), AllOf(subs, W))
  BY <1>6, <1>7 DEF SoundTop
<1>10. SoundPlan(Above(subs, "join", cols, cols, <<>>),
                 AllOf(subs, T), AllOf(subs, W) \cup OwnColumns("join", cols))
  BY <1>8, <1>9, AboveSound
<1>11. SoundPlan(Above(subs, "join", cols, cols, <<>>), AllOf(subs, T), AllOf(subs, W))
  BY <1>10 DEF SoundPlan
<1>12. QED
  BY <1>11 DEF JoinPlan, cols, left, right, t

-----------------------------------------------------------------------------
(* The columns of aggregates, sorts and the select list.                   *)

NamedTexts == SelectTexts \cup ToSet(sql.group) \cup SortTexts

\* The texts of a query are texts.
LEMMA TextsAre ==
    ASSUME sql \in SqlText
    PROVE  /\ IsSeq(sql.select) /\ \A s \in ToSet(sql.select) : s.text \in Text
           /\ NamedTexts \subseteq Text
<1>1. /\ sql.select \in Seq([text : Text, as : STRING]) /\ sql.group \in Seq(Text)
      /\ sql.order \in Seq([by : Text, dir : STRING])
  BY DEF SqlText
<1>2. \A s \in ToSet(sql.select) : s.text \in Text
  <2>1. \A i \in DOMAIN sql.select : sql.select[i] \in [text : Text, as : STRING]
    BY <1>1, LenProperties, ElementOfSeq
  <2>2. QED
    BY <2>1 DEF ToSet
<1>3. ToSet(sql.group) \subseteq Text
  BY <1>1 DEF ToSet
<1>4. Query.selections = sql.select
  BY DEF Query, ParseQuery
<1>5. ASSUME NEW f \in Text PROVE Unaliased(f) \in Text
  <2>. DEFINE N(s) == s.as # "" /\ f = Word(s.as)
  <2>1. CASE \E s \in ToSet(sql.select) : N(s)
    <3>1. (CHOOSE s \in ToSet(sql.select) : N(s)) \in ToSet(sql.select)
      <4>. HIDE DEF N
      <4>1. QED
        BY <2>1
    <3>2. Unaliased(f) = (CHOOSE s \in ToSet(sql.select) : N(s)).text
      BY <1>4, <2>1 DEF Unaliased
    <3>. HIDE DEF N
    <3>3. QED
      BY <1>2, <3>1, <3>2
  <2>2. CASE ~\E s \in ToSet(sql.select) : N(s)
    BY <1>4, <2>2 DEF Unaliased
  <2>3. QED
    BY <2>1, <2>2
<1>6. SortTexts \subseteq Text
  <2>1. /\ DOMAIN Query.sorting = DOMAIN sql.order
        /\ \A i \in DOMAIN sql.order : Query.sorting[i].field = sql.order[i].by
    BY DEF Query, ParseQuery
  <2>2. \A i \in DOMAIN sql.order : sql.order[i].by \in Text
    <3>1. \A i \in DOMAIN sql.order : sql.order[i] \in [by : Text, dir : STRING]
      BY <1>1, LenProperties, ElementOfSeq
    <3>2. QED
      BY <3>1
  <2>3. \A o \in ToSet(Query.sorting) : o.field \in Text
    BY <2>1, <2>2 DEF ToSet
  <2>4. QED
    BY <1>5, <2>3 DEF SortTexts
<1>7. SelectTexts \subseteq Text
  BY <1>2 DEF SelectTexts
<1>8. QED
  BY <1>1, <1>2, <1>3, <1>6, <1>7, SeqIs DEF NamedTexts

\* The columns of a query belong to scanned tables.
LEMMA WordsScanned ==
    ASSUME Prepared, NEW T, ScannedTables \subseteq T, NEW text \in NamedTexts
    PROVE  \A i \in DOMAIN text.of : GetTableFromColumn(text.of[i]) \in T \cup {""}
BY DEF Prepared, TablesScanned, NamedTexts, ToSet

\* The words of a text.
LEMMA WordsAre ==
    ASSUME NEW text \in Text
    PROVE  IsSeq(text.of) /\ Len(text.of) \in Nat /\ Len(text.of) >= 1 /\ DOMAIN text.of = 1..Len(text.of)
<1>1. text.of \in Seq(STRING) /\ text.of # <<>>
  BY DEF Text
<1>2. Len(text.of) \in Nat /\ Len(text.of) # 0 /\ DOMAIN text.of = 1..Len(text.of)
  BY <1>1, EmptySeq, LenProperties
<1>3. QED
  BY <1>1, <1>2, SeqIs

\* A column that the catalog knows, as a key or as an item of the select list.
LEMMA KeyColumn ==
    ASSUME Prepared, NEW T, ScannedTables \subseteq T, NEW text \in NamedTexts,
           GetTableName(text) # "Default",
           NEW type, type = IF text.of[1] \in StringCols THEN "string" ELSE "int"
    PROVE  /\ IsBase(Column(NamedIn(text), text, type), T)
           /\ Stays(Column(NamedIn(text), text, type))
<1>1. text \in Text
  BY TextsAre DEF Prepared
<1>2. 1 \in DOMAIN text.of
  BY <1>1, WordsAre
<1>3. GetTableFromColumn(text.of[1]) \in T \cup {""}
  BY <1>2, WordsScanned
<1>4. NamedIn(text) = GetTableName(text)
  BY DEF NamedIn
<1>5. RegularNames
  BY DEF Prepared
<1>6. QED
  BY <1>3, <1>4, <1>5, KnownColumn

\* The one aggregation of a query.
OneAggregation ==
    /\ TheAggregation \in ToSet(sql.select) /\ TheAggregation.text \in NamedTexts
    /\ TheAggregation.text \in Text
    /\ IsAggColumn(TheAggregation.text) /\ TheAggregation.text.fn # "AVG"
    /\ TheAggregation.text.of # <<"*">>
    /\ \A i \in DOMAIN TheAggregation.text.of :
         /\ GetTableName(Word(TheAggregation.text.of[i])) # "Default"
         /\ TheAggregation.text.of[i] \notin StringCols
    /\ \A s \in ToSet(sql.select) : IsAggregation(s.text) => s = TheAggregation

LEMMA TheAggregationIs ==
    ASSUME Prepared, Query.aggregations # <<>>
    PROVE  OneAggregation
<1>. DEFINE a == Query.aggregations
<1>1. /\ IsSeq(sql.select) /\ NamedTexts \subseteq Text
      /\ \A s \in ToSet(sql.select) : s.text \in Text
  BY TextsAre DEF Prepared
<1>2. a = AggregationsOf(sql.select) /\ Query.selections = sql.select
  BY DEF Query, ParseQuery
<1>3. AggsUpTo(a, sql.select, Len(sql.select)) /\ Len(a) <= 1
  BY <1>1, <1>2, AggregationsAre DEF Prepared, RegularNames
<1>. HIDE DEF a
<1>4. Len(a) = 1
  <2>1. IsSeq(a) /\ Len(a) \in Nat
    BY <1>3 DEF AggsUpTo, IsSeq
  <2>2. a \in Seq({a[i] : i \in 1..Len(a)})
    BY <2>1, SeqOfElements
  <2>3. Len(a) # 0
    BY <2>2, EmptySeq DEF a
  <2>4. QED
    BY <1>3, <2>1, <2>3
<1>5. \A j \in 1..Len(a) : a[j] = TheAggregation
  BY <1>4 DEF TheAggregation, a
<1>6. 1 \in 1..Len(a)
  BY <1>4
<1>7. IsAggregation(TheAggregation.text) /\ TheAggregation \in ToSet(sql.select)
  BY <1>3, <1>5, <1>6 DEF AggsUpTo
<1>8. TheAggregation.text \in NamedTexts /\ TheAggregation.text \in Text
  BY <1>1, <1>7 DEF NamedTexts, SelectTexts
<1>9. TheAggregation \in ToSet(a)
  <2>1. 1 \in DOMAIN a
    BY <1>3, <1>6 DEF AggsUpTo, IsSeq
  <2>2. a[1] = TheAggregation
    BY <1>5, <1>6
  <2>3. QED
    BY <2>1, <2>2 DEF ToSet
<1>10. /\ TheAggregation.text.of # <<"*">> /\ TheAggregation.text.fn # "AVG"
       /\ ToSet(TheAggregation.text.of) \cap StringCols = {}
  BY <1>9 DEF Prepared, RegularTypes, a
<1>11. /\ IsAggColumn(TheAggregation.text)
       /\ \A w \in ToSet(TheAggregation.text.of) : GetTableName(Word(w)) # "Default"
  BY <1>7, <1>10 DEF Prepared, RegularNames
<1>12. ASSUME NEW s \in ToSet(sql.select), IsAggregation(s.text) PROVE s = TheAggregation
  <2>1. PICK k \in 1..Len(sql.select) : s = sql.select[k]
    BY <1>1 DEF ToSet, IsSeq
  <2>2. PICK j \in 1..Len(a) : a[j] = s
    BY <1>3, <1>12, <2>1 DEF AggsUpTo
  <2>3. QED
    BY <1>5, <2>2
<1>13. QED
  BY <1>7, <1>8, <1>10, <1>11, <1>12 DEF OneAggregation, ToSet

\* Its column is one of numbers, under a name that nothing else has.
LEMMA AggColumnIs ==
    ASSUME OneAggregation
    PROVE  /\ AggColumn = Column("AGG", RemoveAllWhitespace(TheAggregation.text), "int")
           /\ Stays(AggColumn)
<1>. DEFINE text == TheAggregation.text
<1>1. text \in Text /\ text.fn # "" /\ text.fn # "AVG" /\ text.fn # "avg"
  BY DEF OneAggregation, IsAggColumn
<1>2. /\ RemoveAllWhitespace(text).fn = text.fn /\ RemoveAllWhitespace(text).of = text.of
  BY <1>1 DEF RemoveAllWhitespace, Text
<1>3. MapColumn.type = "int"
  BY DEF MapColumn, Column
<1>4. ArgumentColumn.type = "int"
  <2>. DEFINE w == text.of[1]
  <2>1. CASE ContainsArithMapOp(text)
    BY <1>3, <2>1 DEF ArgumentColumn
  <2>2. CASE ~ContainsArithMapOp(text)
    <3>1. w \notin StringCols
      <4>1. 1 \in DOMAIN text.of
        <5>1. text \in Text
          BY <1>1
        <5>. HIDE DEF text
        <5>2. DOMAIN text.of = 1..Len(text.of) /\ Len(text.of) \in Nat /\ Len(text.of) >= 1
          BY <5>1, WordsAre
        <5>3. QED
          BY <5>2
      <4>2. QED
        BY <4>1 DEF OneAggregation
    <3>2. ArgumentColumn = Column(GetTableName(Word(w)), Word(w), GetSSBColumnType("", Word(w)))
      BY <2>2 DEF ArgumentColumn
    <3>3. Word(w).of[1] = w
      BY DEF Word
    <3>. HIDE DEF w
    <3>4. GetSSBColumnType("", Word(w)) = "int"
      BY <3>1, <3>3 DEF GetSSBColumnType
    <3>5. QED
      BY <3>2, <3>4 DEF Column
  <2>3. QED
    BY <2>1, <2>2
<1>5. AggColumn = Column("AGG", RemoveAllWhitespace(text), "int")
  BY <1>1, <1>4 DEF AggColumn
<1>6. NotAlias(RemoveAllWhitespace(text))
  BY <1>1, <1>2, OtherNotAlias
<1>7. IsTable("AGG")
  BY DEF IsTable
<1>8. QED
  BY <1>5, <1>6, <1>7, ColumnStays

\* The column of its argument when that is an expression.
LEMMA MapColumnStays ==
    ASSUME OneAggregation, ContainsArithMapOp(TheAggregation.text)
    PROVE  Stays(MapColumn)
<1>. DEFINE text == [TheAggregation.text EXCEPT !.fn = "", !.blank = FALSE]
<1>1. text.of = TheAggregation.text.of
  BY DEF OneAggregation, Text
<1>. HIDE DEF text
<1>2. Len(text.of) # 1
  <2>1. Len(TheAggregation.text.of) > 1
    BY DEF OneAggregation, ContainsArithMapOp
  <2>2. Len(TheAggregation.text.of) \in Nat
    BY WordsAre DEF OneAggregation
  <2>3. Len(TheAggregation.text.of) # 1
    <3>. DEFINE n == Len(TheAggregation.text.of)
    <3>1. n > 1 /\ n \in Nat
      BY <2>1, <2>2
    <3>. HIDE DEF n
    <3>2. n # 1
      BY <3>1
    <3>3. QED
      BY <3>2 DEF n
  <2>4. QED
    BY <1>1, <2>3
<1>3. NotAlias(text)
  BY <1>2, OtherNotAlias
<1>4. IsTable("MAP")
  BY DEF IsTable
<1>5. QED
  BY <1>3, <1>4, ColumnStays DEF MapColumn, text

\* A sound plan also hands up less.
LEMMA SoundLess ==
    ASSUME NEW p, NEW T, NEW W, SoundPlan(p, T, W), NEW V, V \subseteq W
    PROVE  SoundPlan(p, T, V)
BY DEF SoundPlan

\* The arguments of the aggregation are columns of scanned tables.
LEMMA ArgumentsSound ==
    ASSUME Prepared, OneAggregation, NEW T, ScannedTables \subseteq T,
           NEW i \in DOMAIN TheAggregation.text.of
    PROVE  LET w == TheAggregation.text.of[i]
               col == TypedColumn(GetTableName(Word(w)), w)
           IN  /\ IsBase(col, T) /\ Stays(col)
               /\ col = Column(GetTableName(Word(w)), Word(w), GetSSBColumnType("", Word(w)))
<1>. DEFINE w == TheAggregation.text.of[i]
            t == GetTableName(Word(w))
            col == TypedColumn(t, w)
<1>1. t # "Default" /\ GetTableFromColumn(w) \in T \cup {""}
  <2>1. TheAggregation.text \in NamedTexts
    BY DEF OneAggregation
  <2>2. QED
    BY <2>1, WordsScanned DEF OneAggregation
<1>. HIDE DEF w
<1>2. Word(w).of[1] = w
  BY DEF Word
<1>3. IsPlain(Word(w)) /\ t = GetTableFromColumn(w) /\ IsTable(t)
  BY <1>1, <1>2, KnownText
<1>4. t \in T /\ RegularNames
  BY <1>1, <1>3 DEF IsTable, Prepared
<1>5. IsBase(col, T) /\ Stays(col)
  <2>. HIDE DEF t
  <2>1. GetTableFromColumn(w) = t
    BY <1>3
  <2>2. QED
    BY <1>3, <1>4, <2>1, WordColumn
<1>6. GetSSBColumnType(t, Word(w)) = GetSSBColumnType("", Word(w))
  <2>. DEFINE type == IF Word(w).of[1] \in StringCols THEN "string" ELSE "int"
  <2>1. GetSSBColumnType("", Word(w)) = type
    BY <1>1, TypeOfKnown
  <2>2. GetSSBColumnType(t, Word(w)) = type
    BY <1>3, TypeOfPlain
  <2>. HIDE DEF type, t
  <2>3. QED
    BY <2>1, <2>2
<1>7. QED
  BY <1>5, <1>6 DEF TypedColumn, w

\* What an aggregation reads: the argument, from the arithmetic below it if there is
\* any.
LEMMA ArgumentSound ==
    ASSUME Prepared, OneAggregation, NEW T, ScannedTables \subseteq T
    PROVE  /\ Stays(ArgumentColumn)
           /\ ContainsArithMapOp(TheAggregation.text) => ArgumentColumn = MapColumn
           /\ ~ContainsArithMapOp(TheAggregation.text) => IsBase(ArgumentColumn, T)
<1>1. CASE ContainsArithMapOp(TheAggregation.text)
  BY <1>1, MapColumnStays DEF ArgumentColumn
<1>2. CASE ~ContainsArithMapOp(TheAggregation.text)
  <2>1. 1 \in DOMAIN TheAggregation.text.of
    <3>. DEFINE n == Len(TheAggregation.text.of)
    <3>1. n \in Nat /\ n >= 1 /\ DOMAIN TheAggregation.text.of = 1..n
      BY WordsAre DEF OneAggregation
    <3>. HIDE DEF n
    <3>2. QED
      BY <3>1
  <2>. DEFINE w == TheAggregation.text.of[1]
              col == TypedColumn(GetTableName(Word(w)), w)
  <2>2. /\ IsBase(col, T) /\ Stays(col)
        /\ col = Column(GetTableName(Word(w)), Word(w), GetSSBColumnType("", Word(w)))
    BY <2>1, ArgumentsSound
  <2>3. ArgumentColumn = Column(GetTableName(Word(w)), Word(w), GetSSBColumnType("", Word(w)))
    BY <1>2 DEF ArgumentColumn
  <2>4. QED
    BY <1>2, <2>2, <2>3
<1>3. QED
  BY <1>1, <1>2

\* One output.
LEMMA OneOutput ==
    ASSUME NEW col
    PROVE  DOMAIN <<col>> = {1} /\ <<col>>[1] = col /\ ToSet(<<col>>) = {col}
<1>1. DOMAIN <<col>> = {1} /\ <<col>>[1] = col
  OBVIOUS
<1>2. QED
  BY <1>1 DEF ToSet

\* An aggregation, with the arithmetic below it and the groups above it.
LEMMA AggSound ==
    ASSUME Prepared, OneAggregation, NEW sub, NEW T, NEW W, SoundPlan(sub, T, W),
           ScannedTables \subseteq T
    PROVE  SoundPlan(AggPlan(sub), T, {AggColumn})
<1>. DEFINE text == TheAggregation.text
            operands == [i \in DOMAIN text.of |->
                           TypedColumn(GetTableName(Word(text.of[i])), text.of[i])]
            mapped == IF ContainsArithMapOp(text)
                      THEN Above(<<sub>>, "map", operands, <<MapColumn>>, <<>>) ELSE sub
            op == IF text.fn \in {"SUM", "sum"} THEN "sum" ELSE "agg"
            summed == Above(<<mapped>>, op, <<ArgumentColumn>>, <<AggColumn>>, <<>>)
            keys == [i \in DOMAIN Query.groupBys |->
                       LET k == Query.groupBys[i]
                       IN  Column(NamedIn(k), k, GetSSBColumnType(NamedIn(k), k))]
            orders == [i \in DOMAIN keys |-> TRUE]
            V == IF ContainsArithMapOp(text) THEN {MapColumn} ELSE {}
<1>1. AggPlan(sub) = IF keys = <<>> THEN summed
                     ELSE Above(<<summed>>, "group", keys, <<"idx", "srt", "clus">>, orders)
  BY DEF AggPlan
<1>2. op \in {"sum", "agg"}
  OBVIOUS
<1>3. \A i \in DOMAIN operands : IsBase(operands[i], T) /\ Stays(operands[i])
  BY ArgumentsSound
<1>4. \A i \in DOMAIN keys : IsBase(keys[i], T) /\ Stays(keys[i])
  <2>1. Query.groupBys = sql.group
    BY DEF Query, ParseQuery
  <2>2. ASSUME NEW i \in DOMAIN sql.group
        PROVE  LET k == sql.group[i]
                   col == Column(NamedIn(k), k, GetSSBColumnType(NamedIn(k), k))
               IN  IsBase(col, T) /\ Stays(col)
    <3>. DEFINE k == sql.group[i]
                type == GetSSBColumnType(NamedIn(k), k)
    <3>1. k \in ToSet(sql.group) /\ k \in NamedTexts
      BY DEF ToSet, NamedTexts
    <3>2. GetTableName(k) # "Default"
      BY <3>1 DEF Prepared, RegularNames
    <3>. HIDE DEF k
    <3>3. IsPlain(k) /\ IsTable(NamedIn(k))
      BY <3>2, KnownText DEF NamedIn
    <3>4. type = IF k.of[1] \in StringCols THEN "string" ELSE "int"
      BY <3>3, TypeOfPlain
    <3>. HIDE DEF type
    <3>5. IsBase(Column(NamedIn(k), k, type), T) /\ Stays(Column(NamedIn(k), k, type))
      BY <3>1, <3>2, <3>4, KeyColumn
    <3>6. QED
      BY <3>5 DEF k, type
  <2>3. QED
    BY <2>1, <2>2
<1>. HIDE DEF text, operands, keys, orders, op
<1>5. SoundPlan(mapped, T, V)
  <2>1. CASE ContainsArithMapOp(text)
    <3>1. "map" # "join"
      OBVIOUS
    <3>2. Stays(MapColumn)
      BY <2>1, MapColumnStays DEF text
    <3>3. SoundTop("map", operands, <<MapColumn>>, T, W)
      BY <1>3, <3>2, OneOutput DEF SoundTop
    <3>. DEFINE out == <<MapColumn>>
    <3>4. ToSet(out) = {MapColumn}
      BY OneOutput
    <3>5. OwnColumns("map", out) = ToSet(out)
      BY DEF OwnColumns
    <3>. HIDE DEF out
    <3>6. SoundPlan(Above(<<sub>>, "map", operands, out, <<>>), T, W \cup OwnColumns("map", out))
      BY <3>1, <3>3, OneSound DEF out
    <3>7. SoundPlan(Above(<<sub>>, "map", operands, out, <<>>), T, {MapColumn})
      BY <3>4, <3>5, <3>6, SoundLess
    <3>8. QED
      BY <2>1, <3>7 DEF out
  <2>2. CASE ~ContainsArithMapOp(text)
    <3>1. SoundPlan(sub, T, {})
      BY SoundLess
    <3>2. QED
      BY <2>2, <3>1
  <2>3. QED
    BY <2>1, <2>2
<1>. HIDE DEF mapped
<1>6. SoundPlan(summed, T, {AggColumn})
  <2>. DEFINE out == <<AggColumn>>
              in == <<ArgumentColumn>>
  <2>1. op # "join" /\ op \notin {"table", "empty", "group", "sort"}
    BY <1>2
  <2>2. ToSet(out) = {AggColumn} /\ \A i \in DOMAIN out : out[i] = AggColumn
    BY OneOutput
  <2>3. Stays(AggColumn)
    BY AggColumnIs
  <2>4. Stays(ArgumentColumn) /\ (IsBase(ArgumentColumn, T) \/ ArgumentColumn \in V)
    BY ArgumentSound DEF text
  <2>5. \A i \in DOMAIN in : in[i] = ArgumentColumn
    BY OneOutput
  <2>. HIDE DEF out, in, V
  <2>6. SoundTop(op, in, out, T, V)
    BY <2>2, <2>3, <2>4, <2>5 DEF SoundTop
  <2>7. OwnColumns(op, out) = ToSet(out)
    BY <2>1 DEF OwnColumns
  <2>8. SoundPlan(Above(<<mapped>>, op, in, out, <<>>), T, V \cup OwnColumns(op, out))
    BY <1>5, <2>1, <2>6, OneSound
  <2>9. SoundPlan(Above(<<mapped>>, op, in, out, <<>>), T, {AggColumn})
    BY <2>2, <2>7, <2>8, SoundLess
  <2>10. QED
    BY <2>9 DEF in, out
<1>. HIDE DEF summed, V
<1>7. SoundPlan(Above(<<summed>>, "group", keys, <<"idx", "srt", "clus">>, orders), T, {AggColumn})
  <2>1. "group" # "join"
    OBVIOUS
  <2>. DEFINE out == <<"idx", "srt", "clus">>
  <2>. HIDE DEF out
  <2>2. SoundTop("group", keys, out, T, {AggColumn})
    BY <1>4 DEF SoundTop
  <2>3. SoundPlan(Above(<<summed>>, "group", keys, out, orders), T,
                  {AggColumn} \cup OwnColumns("group", out))
    BY <1>6, <2>1, <2>2, OneSound
  <2>4. SoundPlan(Above(<<summed>>, "group", keys, out, orders), T, {AggColumn})
    BY <2>3, SoundLess
  <2>5. QED
    BY <2>4 DEF out
<1>8. QED
  BY <1>1, <1>6, <1>7

\* An aggregation that is selected is the one of the query.
LEMMA SelectedAggregate ==
    ASSUME Prepared, NEW s \in ToSet(sql.select), IsAggregation(s.text)
    PROVE  Query.aggregations # <<>> /\ OneAggregation /\ s = TheAggregation
<1>. DEFINE a == Query.aggregations
<1>1. IsSeq(sql.select)
  BY TextsAre DEF Prepared
<1>2. a = AggregationsOf(sql.select)
  BY DEF Query, ParseQuery
<1>3. AggsUpTo(a, sql.select, Len(sql.select))
  BY <1>1, <1>2, AggregationsAre
<1>. HIDE DEF a
<1>4. PICK k \in 1..Len(sql.select) : s = sql.select[k]
  BY <1>1 DEF ToSet, IsSeq
<1>5. PICK j \in 1..Len(a) : a[j] = s
  BY <1>3, <1>4 DEF AggsUpTo
<1>6. a # <<>>
  <2>1. Len(<<>>) = 0 /\ 1..0 = {}
    BY EmptySeq
  <2>2. QED
    BY <1>5, <2>1
<1>7. OneAggregation
  BY <1>6, TheAggregationIs DEF a
<1>8. QED
  BY <1>6, <1>7 DEF OneAggregation, a

\* What a node may read: the columns of the scanned tables, and what aggregates.
Served(T, W) ==
    ScannedTables \subseteq T /\ (Query.aggregations # <<>> => AggColumn \in W)

\* A key of a sort.
LEMMA SortKeySound ==
    ASSUME Prepared, NEW T, NEW W, Served(T, W), NEW k \in SortTexts
    PROVE  LET col == Column(NamedIn(k), k, GetSSBColumnType("", k))
           IN  Stays(col) /\ (IsBase(col, T) \/ col \in W)
<1>1. k \in NamedTexts /\ k \in Text
  BY TextsAre DEF Prepared, NamedTexts
<1>2. ~k.blank /\ NamedIn(k) # "Default" /\ (IsAggColumn(k) => k \in SelectTexts)
  BY DEF Prepared, RegularNames
<1>3. CASE GetTableName(k) # "Default"
  <2>. DEFINE type == GetSSBColumnType("", k)
  <2>1. type = IF k.of[1] \in StringCols THEN "string" ELSE "int"
    BY <1>3, TypeOfKnown
  <2>. HIDE DEF type
  <2>2. IsBase(Column(NamedIn(k), k, type), T) /\ Stays(Column(NamedIn(k), k, type))
    BY <1>1, <1>3, <2>1, KeyColumn DEF Served
  <2>3. QED
    BY <2>2 DEF type
<1>4. CASE GetTableName(k) = "Default"
  <2>1. IsAggColumn(k) /\ NamedIn(k) = "AGG"
    BY <1>2, <1>4 DEF NamedIn
  <2>2. PICK s \in ToSet(sql.select) : k = s.text
    BY <1>2, <2>1 DEF SelectTexts
  <2>3. IsAggregation(s.text)
    BY <2>1, <2>2 DEF IsAggColumn, IsAggregation
  <2>4. Query.aggregations # <<>> /\ OneAggregation /\ s = TheAggregation
    BY <2>3, SelectedAggregate
  <2>5. k = TheAggregation.text
    BY <2>2, <2>4
  <2>6. RemoveAllWhitespace(k) = k
    BY <1>1, <1>2 DEF RemoveAllWhitespace, Text
  <2>7. GetSSBColumnType("", k) = "int"
    BY <1>4 DEF GetSSBColumnType
  <2>8. AggColumn = Column(NamedIn(k), k, GetSSBColumnType("", k)) /\ Stays(AggColumn)
    BY <2>1, <2>4, <2>5, <2>6, <2>7, AggColumnIs
  <2>9. AggColumn \in W
    BY <2>4 DEF Served
  <2>10. QED
    BY <2>8, <2>9
<1>5. QED
  BY <1>3, <1>4

\* A sort.
LEMMA SortSound ==
    ASSUME Prepared, NEW subs, NEW T, NEW W, SoundSubs(subs, T, W),
           Served(AllOf(subs, T), AllOf(subs, W))
    PROVE  SoundPlan(SortPlan(subs), AllOf(subs, T), AllOf(subs, W))
<1>. DEFINE keys == [i \in DOMAIN Query.sorting |->
                       LET k == Unaliased(Query.sorting[i].field)
                       IN  Column(NamedIn(k), k, GetSSBColumnType("", k))]
            orders == [i \in DOMAIN keys |-> Query.sorting[i].asc]
            all == AllOf(subs, T)
            up == AllOf(subs, W)
            out == <<"sorted">>
<1>1. \A i \in DOMAIN keys : Stays(keys[i]) /\ (IsBase(keys[i], all) \/ keys[i] \in up)
  <2>1. \A i \in DOMAIN Query.sorting : Unaliased(Query.sorting[i].field) \in SortTexts
    BY DEF SortTexts, ToSet
  <2>. HIDE DEF all, up
  <2>2. Served(all, up)
    BY DEF all, up
  <2>3. QED
    BY <2>1, <2>2, SortKeySound
<1>2. SortPlan(subs) = Above(subs, "sort", keys, out, orders)
  BY DEF SortPlan
<1>. HIDE DEF keys, orders, out
<1>3. SoundTop("sort", keys, out, all, up)
  BY <1>1 DEF SoundTop
<1>4. "sort" # "join"
  OBVIOUS
<1>5. SoundPlan(Above(subs, "sort", keys, out, orders), all, up \cup OwnColumns("sort", out))
  BY <1>3, <1>4, AboveSound
<1>. HIDE DEF all, up
<1>6. SoundPlan(Above(subs, "sort", keys, out, orders), all, up)
  BY <1>5, SoundLess
<1>7. QED
  BY <1>2, <1>6 DEF all, up

\* An item of the select list.
LEMMA SelectedSound ==
    ASSUME Prepared, NEW T, NEW W, Served(T, W), NEW s \in ToSet(sql.select)
    PROVE  LET col == SelectedColumn(s)
           IN  Stays(col) /\ (IsBase(col, T) \/ col \in W)
<1>. DEFINE new == RemoveAllWhitespace(s.text)
<1>1. s.text \in Text /\ s.text \in NamedTexts
  BY TextsAre DEF Prepared, NamedTexts, SelectTexts
<1>2. new.fn = s.text.fn /\ new.of = s.text.of
  BY <1>1 DEF RemoveAllWhitespace, Text
<1>3. CASE IsAggregation(s.text)
  <2>1. Query.aggregations # <<>> /\ OneAggregation /\ s = TheAggregation
    BY <1>3, SelectedAggregate
  <2>2. IsAggColumn(s.text)
    BY <2>1 DEF OneAggregation
  <2>3. GetTableName(s.text) = "Default"
    BY <2>2 DEF GetTableName, IsPlain, IsAggColumn
  <2>4. NamedIn(s.text) = "AGG" /\ GetSSBColumnType("", s.text) = "int"
    BY <2>2, <2>3 DEF NamedIn, GetSSBColumnType
  <2>5. SelectedColumn(s) = Column("AGG", new, "int")
    BY <2>2, <2>4 DEF SelectedColumn
  <2>6. SelectedColumn(s) = AggColumn /\ Stays(AggColumn)
    BY <2>1, <2>5, AggColumnIs
  <2>7. QED
    BY <2>1, <2>6 DEF Served
<1>4. CASE ~IsAggregation(s.text)
  <2>. DEFINE type == GetSSBColumnType("", s.text)
  <2>1. s.as = "" /\ GetTableName(s.text) # "Default"
    BY <1>4 DEF Prepared, RegularNames
  <2>2. GetTableName(new) = GetTableName(s.text)
    BY <1>2 DEF GetTableName, IsPlain
  <2>3. NamedIn(s.text) = GetTableName(new)
    BY <2>1, <2>2 DEF NamedIn
  <2>4. SelectedColumn(s) = Column(GetTableName(new), new, type)
    BY <2>1, <2>3 DEF SelectedColumn
  <2>5. type = IF new.of[1] \in StringCols THEN "string" ELSE "int"
    BY <1>2, <2>1, TypeOfKnown
  <2>6. GetTableFromColumn(new.of[1]) \in T \cup {""}
    <3>1. 1 \in DOMAIN s.text.of
      BY <1>1, WordsAre
    <3>2. QED
      BY <1>1, <1>2, <3>1, WordsScanned DEF Served
  <2>. HIDE DEF type, new
  <2>7. IsBase(Column(GetTableName(new), new, type), T) /\ Stays(Column(GetTableName(new), new, type))
    <3>1. GetTableName(new) # "Default" /\ RegularNames
      BY <2>1, <2>2 DEF Prepared
    <3>2. QED
      BY <2>5, <2>6, <3>1, KnownColumn
  <2>8. QED
    BY <2>4, <2>7
<1>5. QED
  BY <1>3, <1>4

\* The select list; a limit below it has no columns.
LEMMA SelectSound ==
    ASSUME Prepared, NEW subs, NEW T, NEW W, SoundSubs(subs, T, W), NEW n,
           n = root => Served(AllOf(subs, T), AllOf(subs, W))
    PROVE  SoundPlan(SelectPlan(n, subs), AllOf(subs, T), AllOf(subs, W))
<1>. DEFINE cols == IF n # root THEN <<>>
                    ELSE [i \in DOMAIN Query.selections |-> SelectedColumn(Query.selections[i])]
            all == AllOf(subs, T)
            up == AllOf(subs, W)
<1>1. \A i \in DOMAIN cols : Stays(cols[i]) /\ (IsBase(cols[i], all) \/ cols[i] \in up)
  <2>1. CASE n # root
    <3>1. DOMAIN <<>> = {}
      OBVIOUS
    <3>2. QED
      BY <2>1, <3>1
  <2>2. CASE n = root
    <3>1. Query.selections = sql.select
      BY DEF Query, ParseQuery
    <3>2. \A i \in DOMAIN sql.select : sql.select[i] \in ToSet(sql.select)
      BY DEF ToSet
    <3>. HIDE DEF all, up
    <3>3. Served(all, up)
      BY <2>2 DEF all, up
    <3>4. QED
      BY <2>2, <3>1, <3>2, <3>3, SelectedSound
  <2>3. QED
    BY <2>1, <2>2
<1>2. SelectPlan(n, subs) = Above(subs, "select", cols, cols, <<>>)
  BY DEF SelectPlan
<1>. HIDE DEF cols
<1>3. SoundTop("select", cols, cols, all, up)
  BY <1>1 DEF SoundTop
<1>4. "select" # "join"
  OBVIOUS
<1>5. SoundPlan(Above(subs, "select", cols, cols, <<>>), all, up \cup OwnColumns("select", cols))
  BY <1>3, <1>4, AboveSound
<1>. HIDE DEF all, up
<1>6. SoundPlan(Above(subs, "select", cols, cols, <<>>), all, up)
  BY <1>5, SoundLess
<1>7. QED
  BY <1>2, <1>6 DEF all, up

-----------------------------------------------------------------------------
(* The columns of a tree.                                                  *)

\* What is below a node is below one of its children.
LEMMA LiveSplit ==
    ASSUME NEW t, NEW n, Len(t) \in Nat, n \in 1..Len(t), Descending(t)
    PROVE  Live(t, n) \subseteq {n} \cup UNION { Live(t, k) : k \in KidsOf(t, n) }
<1>. DEFINE S == {n} \cup UNION { Live(t, k) : k \in KidsOf(t, n) }
<1>1. \A k \in KidsOf(t, n) : k \in 1..Len(t)
  BY DEF Descending
<1>2. \A k \in KidsOf(t, n) :
        k \in Live(t, k) /\ \A m \in Live(t, k) : KidsOf(t, m) \subseteq Live(t, k)
  BY <1>1, LiveClosed
<1>3. ASSUME NEW m \in S PROVE KidsOf(t, m) \subseteq S
  <2>1. CASE m = n
    BY <1>2, <2>1
  <2>2. CASE m # n
    <3>1. PICK k \in KidsOf(t, n) : m \in Live(t, k)
      BY <1>3, <2>2
    <3>2. KidsOf(t, m) \subseteq Live(t, k)
      BY <1>2, <3>1
    <3>3. QED
      BY <3>2
  <2>3. QED
    BY <2>1, <2>2
<1>. HIDE DEF S
<1>4. n \in S
  BY DEF S
<1>5. Live(t, n) \subseteq S
  BY <1>3, <1>4, LiveLeast
<1>6. QED
  BY <1>5 DEF S

AggBelow(t, n) == \E a \in Live(t, n) : t[a].kind = "agg"

\* What a subtree hands up.
Hands(t, n) == IF AggBelow(t, n) THEN {AggColumn} ELSE {}

\* What its parent may read of the subtree at n.
NodeServed(t, n) ==
    /\ ScannedTables \subseteq UnderFcn(t)[n]
    /\ Query.aggregations # <<>> => AggBelow(t, n)

\* A scan that is not for a bitmap is one of a table and has filters on its columns;
\* above it, not below, there are aggregates.
ScanReady(t, n) ==
    /\ HasTable(t[n]) /\ ~AggBelow(t, n) /\ IsSeq(t[n].conds)
    /\ \A i \in 1..Len(t[n].conds) :
         t[n].conds[i].op = "broken" \/ GetTableFromColumn(t[n].conds[i].left) = t[n].table

PlainType(t, n) == t[n].type \notin MakesBitmap

\* The node n is ready to become a part of a plan.
NodeReady(t, r, n) ==
    /\ t[n].kind = "source" /\ PlainType(t, n) => ScanReady(t, n)
    /\ t[n].kind # "source" /\ PlainType(t, n) => \A k \in KidsOf(t, n) : PlainType(t, k)
    /\ t[n].kind = "agg" => ScannedTables \subseteq UnderFcn(t)[n] /\ Query.aggregations # <<>>
    /\ t[n].kind = "sort" => NodeServed(t, n)
    /\ n = r => NodeServed(t, n)

\* The tree that enrichTree leaves for a prepared query.
ReadyTree(t, r) ==
    EnrichedTree(t, r) /\ PlainType(t, r) /\ \A n \in Live(t, r) : NodeReady(t, r, n)

\* The plan of the subtree at n.
SubSound(p, n) == SoundPlan(p, UnderFcn(tree)[n], Hands(tree, n))

\* A node becomes a sound plan if its children do.
LEMMA NodeSound ==
    ASSUME Prepared, ReadyTree(tree, root), NEW n \in Live(tree, root), ~Throws(n),
           PlainType(tree, n), NEW subs, IsSeq(subs), Len(subs) = Len(tree[n].kids),
           tree[n].kind # "source" => \A i \in 1..Len(subs) : SubSound(subs[i], tree[n].kids[i])
    PROVE  SubSound(NodePlan(n, subs), n)
<1>. DEFINE under == UnderFcn(tree)
            node == tree[n]
            T == [i \in 1..Len(subs) |-> under[node.kids[i]]]
            W == [i \in 1..Len(subs) |-> Hands(tree, node.kids[i])]
            all == AllOf(subs, T)
            up == AllOf(subs, W)
<1>1. /\ Len(tree) \in Nat /\ IsSeq(tree) /\ Descending(tree)
      /\ n \in 1..Len(tree) /\ IsSeq(node.kids) /\ Len(node.kids) \in Nat /\ node.kind \in Kinds
      /\ Len(node.conds) \in Nat /\ NodeReady(tree, root, n) /\ RegularNames
  <2>1. IsSeq(tree) /\ Len(tree) \in Nat /\ Descending(tree) /\ root \in 1..Len(tree)
    BY DEF ReadyTree, EnrichedTree, IsSeq
  <2>2. n \in 1..Len(tree)
    BY <2>1, LiveClosed
  <2>3. QED
    BY <2>1, <2>2 DEF ReadyTree, EnrichedTree, IsSeq, Prepared
<1>2. under[n] = IF node.kind = "source" THEN {node.table}
                 ELSE UNION { under[k] : k \in KidsOf(tree, n) }
  BY <1>1, UnderSteps
<1>3. KidsOf(tree, n) = { node.kids[i] : i \in 1..Len(subs) }
  BY <1>1, PointersAre
<1>4. node.kind # "source" => under[n] = all
  <2>1. UNION { under[k] : k \in KidsOf(tree, n) } = all
    BY <1>3 DEF AllOf
  <2>2. QED
    BY <1>2, <2>1
<1>5. node.kind # "agg" => Hands(tree, n) \subseteq up
  <2>. SUFFICES ASSUME node.kind # "agg", AggBelow(tree, n) PROVE AggColumn \in up
    BY DEF Hands
  <2>1. PICK a \in Live(tree, n) : tree[a].kind = "agg"
    BY DEF AggBelow
  <2>2. a # n
    BY <2>1
  <2>3. PICK k \in KidsOf(tree, n) : a \in Live(tree, k)
    BY <1>1, <2>2, LiveSplit
  <2>4. Hands(tree, k) = {AggColumn}
    BY <2>1, <2>3 DEF Hands, AggBelow
  <2>5. QED
    BY <1>3, <2>3, <2>4 DEF AllOf
<1>6. node.kind # "source" => SoundSubs(subs, T, W)
  BY DEF SoundSubs, SubSound
<1>. HIDE DEF T, W
<1>7. NodeServed(tree, n) /\ node.kind # "agg" /\ node.kind # "source" => Served(all, up)
  BY <1>4, <1>5 DEF NodeServed, Served, Hands
<1>8. CASE node.kind = "source"
  <2>1. ScanReady(tree, n)
    BY <1>1, <1>8 DEF NodeReady
  <2>2. \A i \in 1..Len(node.conds) : GetTableFromColumn(node.conds[i].left) = node.table
    <3>1. \A c \in ToSet(node.conds) : c.op # "broken"
      BY <1>8 DEF Throws
    <3>2. \A i \in 1..Len(node.conds) : node.conds[i] \in ToSet(node.conds)
      BY <2>1 DEF ScanReady, IsSeq, ToSet
    <3>3. QED
      BY <2>1, <3>1, <3>2 DEF ScanReady
  <2>3. SoundPlan(SourcePlan(node), {node.table}, {})
    <3>. HIDE DEF node
    <3>1. HasTable(node)
      BY <2>1 DEF ScanReady, node
    <3>2. QED
      BY <1>1, <2>2, <3>1, SourceSound
  <2>4. Hands(tree, n) = {} /\ under[n] = {node.table}
    BY <1>2, <1>8, <2>1 DEF ScanReady, Hands
  <2>5. NodePlan(n, subs) = SourcePlan(node)
    BY <1>8 DEF NodePlan
  <2>6. QED
    BY <2>3, <2>4, <2>5 DEF SubSound
<1>9. CASE node.kind = "join"
  <2>1. node.conds # <<>>
    BY <1>9 DEF Throws
  <2>2. JoinFits(tree, n)
    BY <1>9, <2>1 DEF ReadyTree, EnrichedTree
  <2>3. Len(subs) = 2 /\ Connects(node.conds[1], T[1], T[2])
    BY <2>2 DEF JoinFits, T
  <2>4. SoundSubs(subs, T, W) /\ NodePlan(n, subs) = JoinPlan(node, subs)
        /\ under[n] = all /\ Hands(tree, n) \subseteq up
    BY <1>4, <1>5, <1>6, <1>9 DEF NodePlan
  <2>. HIDE DEF node
  <2>5. SoundPlan(JoinPlan(node, subs), all, up)
    BY <1>1, <2>3, <2>4, JoinSound
  <2>. HIDE DEF all, up
  <2>6. SoundPlan(JoinPlan(node, subs), all, Hands(tree, n))
    BY <2>4, <2>5, SoundLess
  <2>7. QED
    BY <2>4, <2>6 DEF SubSound
<1>10. CASE node.kind = "agg"
  <2>1. Len(subs) = 1
    BY <1>10 DEF Throws
  <2>2. 1..1 = {1} /\ 1 \in 1..Len(subs)
    BY <2>1
  <2>3. SoundPlan(subs[1], T[1], W[1]) /\ all = T[1] /\ under[n] = all
    BY <1>4, <1>6, <1>10, <2>1, <2>2 DEF SoundSubs, AllOf
  <2>4. ScannedTables \subseteq under[n] /\ Query.aggregations # <<>>
    BY <1>1, <1>10 DEF NodeReady
  <2>5. OneAggregation
    BY <2>4, TheAggregationIs
  <2>. HIDE DEF all, under
  <2>6. SoundPlan(AggPlan(subs[1]), T[1], {AggColumn})
    BY <2>3, <2>4, <2>5, AggSound
  <2>7. Hands(tree, n) \subseteq {AggColumn}
    BY DEF Hands
  <2>8. SoundPlan(AggPlan(subs[1]), under[n], Hands(tree, n))
    BY <2>3, <2>6, <2>7, SoundLess
  <2>9. NodePlan(n, subs) = AggPlan(subs[1])
    BY <1>10 DEF NodePlan
  <2>10. QED
    BY <2>8, <2>9 DEF SubSound, under
<1>11. CASE node.kind \in {"sort", "result", "empty"}
  <2>1. SoundSubs(subs, T, W) /\ under[n] = all /\ Hands(tree, n) \subseteq up
    BY <1>4, <1>5, <1>6, <1>11
  <2>2. CASE node.kind = "sort"
    <3>1. Served(all, up)
      BY <1>1, <1>7, <2>2 DEF NodeReady
    <3>2. SoundPlan(SortPlan(subs), all, up)
      BY <2>1, <3>1, SortSound
    <3>. HIDE DEF all, up
    <3>3. SoundPlan(SortPlan(subs), all, Hands(tree, n))
      BY <2>1, <3>2, SoundLess
    <3>4. NodePlan(n, subs) = SortPlan(subs)
      BY <2>2 DEF NodePlan
    <3>5. QED
      BY <2>1, <3>3, <3>4 DEF SubSound
  <2>3. CASE node.kind = "result"
    <3>1. n = root => Served(all, up)
      BY <1>1, <1>7, <2>3 DEF NodeReady
    <3>2. SoundPlan(SelectPlan(n, subs), all, up)
      BY <2>1, <3>1, SelectSound
    <3>. HIDE DEF all, up
    <3>3. SoundPlan(SelectPlan(n, subs), all, Hands(tree, n))
      BY <2>1, <3>2, SoundLess
    <3>4. NodePlan(n, subs) = SelectPlan(n, subs)
      BY <2>3 DEF NodePlan
    <3>5. QED
      BY <2>1, <3>3, <3>4 DEF SubSound
  <2>4. CASE node.kind = "empty"
    <3>1. "empty" # "join"
      OBVIOUS
    <3>2. SoundTop("empty", <<>>, <<>>, all, up)
      BY DEF SoundTop
    <3>3. SoundPlan(Above(subs, "empty", <<>>, <<>>, <<>>), all, up \cup OwnColumns("empty", <<>>))
      BY <2>1, <3>1, <3>2, AboveSound
    <3>. HIDE DEF all, up
    <3>4. SoundPlan(Above(subs, "empty", <<>>, <<>>, <<>>), all, Hands(tree, n))
      BY <2>1, <3>3, SoundLess
    <3>5. NodePlan(n, subs) = Above(subs, "empty", <<>>, <<>>, <<>>)
      BY <2>4 DEF NodePlan
    <3>6. QED
      BY <2>1, <3>4, <3>5 DEF SubSound
  <2>5. QED
    BY <1>11, <2>2, <2>3, <2>4
<1>12. QED
  BY <1>1, <1>8, <1>9, <1>10, <1>11 DEF Kinds

\* The plan of the whole tree.
LEMMA TreeSound ==
    ASSUME Prepared, ReadyTree(tree, root), \A n \in Live(tree, root) : ~Throws(n)
    PROVE  SoundPlan(PlanOfTree, UnderFcn(tree)[root], Hands(tree, root))
<1>. DEFINE Good(n) == SubSound(SubFcn[n], n)
            T == { n \in Live(tree, root) : PlainType(tree, n) /\ ~Good(n) }
<1>1. /\ Len(tree) \in Nat /\ IsSeq(tree) /\ Descending(tree) /\ root \in 1..Len(tree)
      /\ \A n \in 1..Len(tree) : IsSeq(tree[n].kids)
  BY DEF ReadyTree, EnrichedTree, IsSeq
<1>2. /\ root \in Live(tree, root) /\ Live(tree, root) \subseteq 1..root
      /\ \A m \in Live(tree, root) : KidsOf(tree, m) \subseteq Live(tree, root)
  BY <1>1, LiveClosed
<1>3. \A n \in 1..Len(tree) :
        SubFcn[n] = NodePlan(n, [i \in 1..Len(tree[n].kids) |-> SubFcn[tree[n].kids[i]]])
  BY <1>1, SubSteps
<1>. HIDE DEF Good
<1>4. T = {}
  <2>. SUFFICES ASSUME T # {} PROVE FALSE
    OBVIOUS
  <2>1. PICK n \in T : \A k \in T : n <= k
    <3>1. T \in SUBSET Nat
      BY <1>1, <1>2
    <3>. HIDE DEF T
    <3>2. QED
      BY <3>1, LeastNat
  <2>2. n \in Live(tree, root) /\ ~Good(n) /\ n \in 1..Len(tree) /\ PlainType(tree, n)
    BY <1>1, <1>2
  <2>. DEFINE subs == [i \in 1..Len(tree[n].kids) |-> SubFcn[tree[n].kids[i]]]
  <2>3. ASSUME NEW k \in KidsOf(tree, n), PlainType(tree, k) PROVE Good(k)
    <3>1. k \in Live(tree, root)
      BY <1>2, <2>2
    <3>2. k \in 1..(n - 1)
      BY <1>1, <2>2 DEF Descending
    <3>3. ~(n <= k)
      BY <1>1, <2>2, <3>2
    <3>4. QED
      BY <2>1, <2>3, <3>1, <3>3
  <2>4. IsSeq(subs) /\ Len(subs) = Len(tree[n].kids)
    <3>1. Len(tree[n].kids) \in Nat /\ subs = [i \in 1..Len(tree[n].kids) |-> subs[i]]
      BY <1>1, <2>2 DEF IsSeq
    <3>. HIDE DEF subs
    <3>2. QED
      BY <3>1, FcnIs
  <2>5. ASSUME tree[n].kind # "source", NEW i \in 1..Len(subs)
        PROVE  SubSound(subs[i], tree[n].kids[i])
    <3>1. i \in 1..Len(tree[n].kids)
      BY <2>4
    <3>2. tree[n].kids[i] \in KidsOf(tree, n)
      BY <1>1, <2>2, <3>1, PointersAre
    <3>3. subs[i] = SubFcn[tree[n].kids[i]]
      BY <3>1
    <3>4. PlainType(tree, tree[n].kids[i])
      BY <2>2, <2>5, <3>2 DEF ReadyTree, NodeReady
    <3>5. QED
      BY <2>3, <3>2, <3>3, <3>4 DEF Good
  <2>6. SubFcn[n] = NodePlan(n, subs)
    BY <1>3, <2>2
  <2>. HIDE DEF subs, T
  <2>7. SubSound(NodePlan(n, subs), n)
    BY <2>2, <2>4, <2>5, NodeSound
  <2>8. QED
    BY <2>2, <2>6, <2>7 DEF Good
<1>5. Good(root)
  <2>1. PlainType(tree, root)
    BY DEF ReadyTree
  <2>2. QED
    BY <1>2, <1>4, <2>1
<1>6. PlanOfTree = SubFcn[root]
  BY DEF PlanOfTree, SubFcn
<1>7. QED
  BY <1>5, <1>6 DEF Good, SubSound

-----------------------------------------------------------------------------
(* ensureCorrectColumnSetup keeps the columns.                             *)

\* ensureCorrectColumnSetup changes nothing that a sound plan says.
LEMMA SetupResolves ==
    ASSUME NEW T, NEW W, SoundPlan(plan, T, W), EnsureCorrectColumnSetup
    PROVE  ColumnsResolve'
<1>. DEFINE In(n) == [i \in DOMAIN plan[n].in |-> ApplyAlias(plan[n].in[i], InScope(n))]
            Out(n) == IF plan[n].op \in {"group", "sort"} THEN plan[n].out
                      ELSE [i \in DOMAIN plan[n].out |-> ApplyAlias(plan[n].out[i], InScope(n))]
<1>1. /\ IsSeq(plan) /\ Len(plan) \in Nat /\ DOMAIN plan = 1..Len(plan) /\ Descending(plan)
      /\ \A n \in 1..Len(plan) : IsNode(plan[n]) /\ IsSeq(plan[n].kids) /\ Sound(plan, n)
  BY DEF SoundPlan, GoodPlan, Forest, IsSeq
<1>2. plan' = [n \in 1..Len(plan) |-> IF ~HasColumns(n) THEN plan[n]
                                      ELSE [plan[n] EXCEPT !.in = In(n), !.out = Out(n)]]
  BY <1>1 DEF EnsureCorrectColumnSetup
<1>3. \A n \in 1..Len(plan) : HasColumns(n) =>
        /\ DOMAIN In(n) = DOMAIN plan[n].in
        /\ \A i \in DOMAIN plan[n].in : In(n)[i] = plan[n].in[i]
        /\ plan[n].op \notin {"group", "sort"} => ToSet(Out(n)) = ToSet(plan[n].out)
  <2>. SUFFICES ASSUME NEW n \in 1..Len(plan), HasColumns(n)
                PROVE  /\ DOMAIN In(n) = DOMAIN plan[n].in
                       /\ \A i \in DOMAIN plan[n].in : In(n)[i] = plan[n].in[i]
                       /\ plan[n].op \notin {"group", "sort"} => ToSet(Out(n)) = ToSet(plan[n].out)
    OBVIOUS
  <2>1. /\ \A i \in DOMAIN plan[n].in : Stays(plan[n].in[i])
        /\ plan[n].op \notin {"group", "sort"} => \A i \in DOMAIN plan[n].out : Stays(plan[n].out[i])
    BY <1>1 DEF Sound, HasColumns
  <2>2. \A i \in DOMAIN plan[n].in : In(n)[i] = plan[n].in[i]
    BY <2>1 DEF Stays
  <2>3. ASSUME plan[n].op \notin {"group", "sort"} PROVE ToSet(Out(n)) = ToSet(plan[n].out)
    <3>1. /\ DOMAIN Out(n) = DOMAIN plan[n].out
          /\ \A i \in DOMAIN plan[n].out : Out(n)[i] = plan[n].out[i]
      BY <2>1, <2>3 DEF Stays
    <3>. HIDE DEF Out
    <3>2. QED
      BY <3>1 DEF ToSet
  <2>4. QED
    BY <2>2, <2>3
<1>. HIDE DEF In, Out
<1>4. IsSeq(plan') /\ Len(plan') = Len(plan) /\ DOMAIN plan' = 1..Len(plan)
  <2>1. plan' = [n \in 1..Len(plan) |-> plan'[n]]
    BY <1>2
  <2>2. QED
    BY <1>1, <1>2, <2>1, FcnIs
<1>5. \A n \in 1..Len(plan) :
        /\ plan'[n].op = plan[n].op /\ plan'[n].kids = plan[n].kids
        /\ plan[n].op = "table" => plan'[n].out = plan[n].out
        /\ HasColumns(n) => plan'[n].in = In(n) /\ plan'[n].out = Out(n)
        /\ ~HasColumns(n) => plan'[n] = plan[n]
  BY <1>1, <1>2 DEF HasColumns, IsNode
<1>6. \A n \in 1..Len(plan) : KidsOf(plan', n) = KidsOf(plan, n)
  BY <1>5 DEF KidsOf
<1>7. \A n \in 1..Len(plan) : Live(plan, n) \subseteq Live(plan', n) /\ Live(plan, n) \subseteq 1..Len(plan)
  <2>. SUFFICES ASSUME NEW n \in 1..Len(plan)
                PROVE  Live(plan, n) \subseteq Live(plan', n) /\ Live(plan, n) \subseteq 1..Len(plan)
    OBVIOUS
  <2>1. Live(plan, n) \subseteq Live(plan', n)
    BY <1>1, <1>4, <1>6, SameLive
  <2>2. Live(plan, n) \subseteq 1..n /\ 1..n \subseteq 1..Len(plan)
    BY <1>1, LiveClosed
  <2>3. QED
    BY <2>1, <2>2
<1>8. ASSUME NEW n \in 1..Len(plan) PROVE TablesBelow(plan, n) \subseteq TablesBelow(plan', n)
  BY <1>5, <1>7 DEF TablesBelow
<1>9. ASSUME NEW n \in 1..Len(plan) PROVE Written(plan, n) \subseteq Written(plan', n)
  <2>. SUFFICES ASSUME NEW c \in Written(plan, n) PROVE c \in Written(plan', n)
    OBVIOUS
  <2>1. PICK m \in Live(plan, n) \ {n} : plan[m].op \notin {"table", "group", "sort"} /\ c \in ToSet(plan[m].out)
    BY DEF Written
  <2>2. m \in 1..Len(plan) /\ m \in Live(plan', n) \ {n} /\ plan'[m].op = plan[m].op
    BY <1>5, <1>7, <2>1
  <2>3. c \in ToSet(plan'[m].out)
    <3>1. CASE HasColumns(m)
      <4>1. plan'[m].out = Out(m) /\ ToSet(Out(m)) = ToSet(plan[m].out)
        BY <1>3, <1>5, <2>1, <2>2, <3>1
      <4>2. QED
        BY <2>1, <4>1
    <3>2. CASE ~HasColumns(m)
      BY <1>5, <2>1, <2>2, <3>2
    <3>3. QED
      BY <3>1, <3>2
  <2>4. QED
    BY <2>1, <2>2, <2>3 DEF Written
<1>10. ASSUME NEW n \in 1..Len(plan), HasColumns(n), NEW i \in DOMAIN plan'[n].in
       PROVE  Resolves(plan', n, plan'[n].in[i])
  <2>1. plan'[n].in = In(n)
    BY <1>5, <1>10
  <2>2. i \in DOMAIN plan[n].in /\ plan'[n].in[i] = plan[n].in[i]
    BY <1>3, <1>10, <2>1
  <2>3. Resolves(plan, n, plan[n].in[i])
    BY <1>1, <1>10, <2>2 DEF Sound, HasColumns
  <2>4. QED
    BY <1>8, <1>9, <2>2, <2>3 DEF Resolves
<1>11. \A n \in 1..Len(plan) : HasColumns(n)' <=> HasColumns(n)
  BY <1>5 DEF HasColumns
<1>12. QED
  BY <1>4, <1>10, <1>11 DEF ColumnsResolve

-----------------------------------------------------------------------------
(* What is below a node.                                                   *)

\* What is below a node below the root is below the root.
LEMMA LiveBelow ==
    ASSUME NEW p, NEW r, Len(p) \in Nat, r \in 1..Len(p), Descending(p), NEW x \in Live(p, r)
    PROVE  Live(p, x) \subseteq Live(p, r)
<1>1. \A m \in Live(p, r) : KidsOf(p, m) \subseteq Live(p, r)
  BY LiveClosed
<1>2. QED
  BY <1>1, LiveLeast

\* Only the pointers below a node matter.
LEMMA SameBelow ==
    ASSUME NEW p, NEW u, Len(p) \in Nat, Len(u) \in Nat, Len(u) >= Len(p),
           Descending(p), Descending(u),
           NEW x \in 1..Len(p), \A m \in 1..x : KidsOf(u, m) = KidsOf(p, m)
    PROVE  Live(u, x) = Live(p, x)
<1>. x \in 1..Len(u)
  OBVIOUS
<1>1. /\ x \in Live(p, x) /\ Live(p, x) \subseteq 1..x
      /\ \A m \in Live(p, x) : KidsOf(p, m) \subseteq Live(p, x)
  BY LiveClosed
<1>2. /\ x \in Live(u, x) /\ Live(u, x) \subseteq 1..x
      /\ \A m \in Live(u, x) : KidsOf(u, m) \subseteq Live(u, x)
  BY LiveClosed
<1>3. Live(u, x) \subseteq Live(p, x)
  <2>1. \A m \in Live(p, x) : KidsOf(u, m) \subseteq Live(p, x)
    BY <1>1
  <2>2. QED
    BY <1>1, <2>1, LiveLeast
<1>4. Live(p, x) \subseteq Live(u, x)
  <2>1. \A m \in Live(u, x) : KidsOf(p, m) \subseteq Live(u, x)
    BY <1>2
  <2>2. QED
    BY <1>2, <2>1, LiveLeast
<1>5. QED
  BY <1>3, <1>4

\* What FirstBelow finds is below the node, and the node itself if it fits.
LEMMA FirstIsLive ==
    ASSUME NEW t \in Seq(TreeNode), Descending(t), NEW types, NEW n \in 1..Len(t)
    PROVE  /\ FirstBelow(t, n, types) # 0 => FirstBelow(t, n, types) \in Live(t, n)
           /\ t[n].type \in types => FirstBelow(t, n, types) = n
<1>. DEFINE first == FirstFcn(t, types)
            Found(m) == first[m] # 0 => first[m] \in Live(t, m)
            T == { m \in 1..Len(t) : ~Found(m) }
<1>1. Len(t) \in Nat
  BY LenProperties
<1>2. \A m \in 1..Len(t) : t[m].kids # <<>> => t[m].kids[1] \in KidsOf(t, m) /\ t[m].kids[1] \in 1..(m - 1)
  BY KidsAre DEF Descending
<1>3. \A m \in 1..Len(t) :
        first[m] = IF m = 0 \/ t[m].type \in types THEN m
                   ELSE IF t[m].kids = <<>> THEN 0 ELSE first[t[m].kids[1]]
  BY <1>1, FirstStep
<1>4. FirstBelow(t, n, types) = first[n]
  BY DEF FirstBelow, FirstFcn
<1>. HIDE DEF first
<1>5. T = {}
  <2>. SUFFICES ASSUME T # {} PROVE FALSE
    OBVIOUS
  <2>1. PICK m \in T : \A k \in T : m <= k
    <3>1. T \in SUBSET Nat
      BY <1>1
    <3>. HIDE DEF T
    <3>2. QED
      BY <3>1, LeastNat
  <2>2. m \in 1..Len(t) /\ first[m] # 0 /\ first[m] \notin Live(t, m)
    OBVIOUS
  <2>3. m \in Live(t, m) /\ \A x \in Live(t, m) : KidsOf(t, x) \subseteq Live(t, m)
    BY <1>1, <2>2, LiveClosed
  <2>. DEFINE k == t[m].kids[1]
  <2>4. t[m].type \notin types /\ t[m].kids # <<>> /\ first[m] = first[k]
    BY <1>3, <2>2, <2>3
  <2>5. k \in KidsOf(t, m) /\ k \in 1..(m - 1)
    BY <1>2, <2>2, <2>4
  <2>. HIDE DEF k
  <2>6. Found(k)
    <3>1. k \in 1..Len(t) /\ ~(m <= k)
      BY <1>1, <2>2, <2>5
    <3>2. QED
      BY <2>1, <3>1
  <2>7. Live(t, k) \subseteq Live(t, m)
    BY <1>1, <2>2, <2>3, <2>5, LiveBelow
  <2>8. QED
    BY <2>2, <2>4, <2>6, <2>7
<1>6. Found(n)
  BY <1>5
<1>7. t[n].type \in types => first[n] = n
  BY <1>3
<1>8. QED
  BY <1>4, <1>6, <1>7

\* u is t, or t without the first node of one of the types below n.
Removal(t, n, types, u) ==
    \/ u = t /\ (t[n].type \in types => Len(t[n].kids) # 1)
    \/ \E m \in Live(t, n) :
         /\ m \in 1..n /\ t[m].type \in types /\ Len(t[m].kids) = 1
         /\ u = Rewired(t, m, t[m].kids[1])
         /\ t[n].type \in types => m = n

\* What removeDeepAggregate and removeDeepSort do.
LEMMA RemovalIs ==
    ASSUME NEW t \in Seq(TreeNode), Descending(t), NEW types, NEW n \in 1..Len(t)
    PROVE  Removal(t, n, types, RemovedBelow(t, n, types))
<1>. DEFINE m == FirstBelow(t, n, types)
<1>1. m \in 0..n /\ (m # 0 => t[m].type \in types /\ m \in Live(t, n))
      /\ (t[n].type \in types => m = n)
  BY FirstBelowFinds, FirstIsLive
<1>2. RemovedBelow(t, n, types) =
        IF m # 0 /\ Len(t[m].kids) = 1 THEN Rewired(t, m, t[m].kids[1]) ELSE t
  BY DEF RemovedBelow
<1>. HIDE DEF m
<1>3. n # 0 /\ (m # 0 => m \in 1..n)
  BY <1>1
<1>4. QED
  BY <1>1, <1>2, <1>3 DEF Removal

\* What is below the node that takes the place of x was below x.
LEMMA RewiredBelow ==
    ASSUME NEW t \in Seq(TreeNode), Descending(t), NEW x \in 1..Len(t), NEW m \in Live(t, x),
           NEW k, k \in KidsOf(t, m), NEW u, u = Rewired(t, m, k),
           NEW y, y = IF x = m THEN k ELSE x
    PROVE  Live(u, y) \subseteq Live(t, x)
<1>1. /\ Len(t) \in Nat /\ x \in Live(t, x) /\ Live(t, x) \subseteq 1..x
      /\ \A z \in Live(t, x) : KidsOf(t, z) \subseteq Live(t, x)
  BY LenProperties, LiveClosed
<1>2. m \in 1..Len(t) /\ k \in 1..(m - 1) /\ k \in 1..m
  BY <1>1 DEF Descending
<1>3. /\ Len(u) = Len(t)
      /\ \A z \in 1..Len(t) : KidsOf(u, z) = { IF w = m THEN k ELSE w : w \in KidsOf(t, z) }
  <2>1. \A j \in 1..m : u = Rewired(t, m, j) =>
          /\ Len(u) = Len(t)
          /\ \A z \in 1..Len(t) : KidsOf(u, z) = { IF w = m THEN j ELSE w : w \in KidsOf(t, z) }
    BY <1>2, RewiredTree
  <2>2. QED
    BY <1>2, <2>1
<1>4. k \in Live(t, x) /\ y \in Live(t, x)
  BY <1>1
<1>5. \A z \in Live(t, x) : z \in 1..Len(t)
  BY <1>1
<1>6. \A z \in Live(t, x) : KidsOf(u, z) \subseteq Live(t, x)
  BY <1>1, <1>3, <1>4, <1>5
<1>7. QED
  BY <1>1, <1>3, <1>4, <1>6, LiveLeast

-----------------------------------------------------------------------------
(* What pruneTree leaves of the file.                                      *)

\* Nothing gets below a node that was not there, no table changes unless the node is
\* moved about, and the nodes before n have the kind of their type.
NodeKept(t, n, m) ==
    /\ KidsOf(t, m) \subseteq Live(file, m)
    /\ t[m].type \notin Moved => t[m].table = ReadPlan(file)[m].table
    /\ m < n => t[m].kind = KindOf(t[m].type)
    /\ n <= m => t[m].kind = "empty" /\ t[m].type = file[m].type

OriginInv(t, n) == \A m \in 1..Len(file) : NodeKept(t, n, m)

\* A tree as pruneTree sees it.
IsTree(t) == t \in Seq(TreeNode) /\ Len(t) = Len(file) /\ Descending(t)

\* What is below a node of the file.
LEMMA FileBelow ==
    ASSUME PlanFile(file), NEW m \in 1..Len(file)
    PROVE  /\ m \in Live(file, m) /\ Live(file, m) \subseteq 1..m
           /\ \A x \in Live(file, m) : KidsOf(file, x) \subseteq Live(file, m)
           /\ \A x \in Live(file, m) : Live(file, x) \subseteq Live(file, m)
<1>1. Len(file) \in Nat /\ Descending(file)
  BY FileTypes DEF PlanFile, Descending
<1>2. QED
  BY <1>1, LiveClosed, LiveBelow

\* What is below a node of the tree was below it in the file.
LEMMA BelowInFile ==
    ASSUME PlanFile(file), NEW t, IsTree(t), NEW n, OriginInv(t, n), NEW m \in 1..Len(file)
    PROVE  Live(t, m) \subseteq Live(file, m)
<1>1. Len(t) \in Nat
  BY LenProperties DEF IsTree
<1>2. \A x \in Live(file, m) : KidsOf(t, x) \subseteq Live(file, m)
  <2>1. ASSUME NEW x \in Live(file, m) PROVE KidsOf(t, x) \subseteq Live(file, m)
    <3>1. x \in 1..Len(file) /\ Live(file, x) \subseteq Live(file, m)
      BY FileBelow, FileTypes
    <3>2. QED
      BY <3>1 DEF OriginInv, NodeKept
  <2>2. QED
    BY <2>1
<1>3. m \in Live(file, m)
  BY FileBelow
<1>4. QED
  BY <1>1, <1>2, <1>3, LiveLeast

\* A node is replaced by one that was below it.
LEMMA RewiredOrigin ==
    ASSUME PlanFile(file), NEW t, IsTree(t), NEW from, OriginInv(t, from),
           NEW n \in 1..Len(file), NEW k, k \in KidsOf(t, n) \cup {n}
    PROVE  IsTree(Rewired(t, n, k)) /\ OriginInv(Rewired(t, n, k), from)
<1>. DEFINE u == Rewired(t, n, k)
<1>1. t \in Seq(TreeNode) /\ Len(t) = Len(file) /\ Descending(t) /\ n \in 1..Len(t)
  BY DEF IsTree
<1>2. k \in 1..n /\ k \in Live(file, n)
  <2>1. n \in Live(file, n) /\ KidsOf(t, n) \subseteq Live(file, n) /\ Live(file, n) \subseteq 1..n
    BY FileBelow DEF OriginInv, NodeKept
  <2>2. QED
    BY <2>1
<1>3. /\ u \in Seq(TreeNode) /\ Len(u) = Len(t) /\ Descending(u)
      /\ \A m \in 1..Len(t) :
           /\ u[m].type = t[m].type /\ u[m].kind = t[m].kind /\ u[m].table = t[m].table
           /\ KidsOf(u, m) = { IF x = n THEN k ELSE x : x \in KidsOf(t, m) }
  <2>1. u = Rewired(t, n, k)
    OBVIOUS
  <2>. HIDE DEF u
  <2>2. \A j \in 1..n : u = Rewired(t, n, j) =>
          /\ u \in Seq(TreeNode) /\ Len(u) = Len(t) /\ Descending(u)
          /\ \A m \in 1..Len(t) :
               /\ u[m].type = t[m].type /\ u[m].kind = t[m].kind /\ u[m].table = t[m].table
               /\ KidsOf(u, m) = { IF x = n THEN j ELSE x : x \in KidsOf(t, m) }
    BY <1>1, RewiredTree
  <2>3. QED
    BY <1>2, <2>1, <2>2
<1>. HIDE DEF u
<1>4. ASSUME NEW m \in 1..Len(file) PROVE NodeKept(u, from, m)
  <2>1. NodeKept(t, from, m)
    BY DEF OriginInv
  <2>2. KidsOf(t, m) \subseteq Live(file, m)
    BY <2>1 DEF NodeKept
  <2>3. n \in KidsOf(t, m) => k \in Live(file, m)
    BY <1>2, <2>2, FileBelow
  <2>4. KidsOf(u, m) \subseteq Live(file, m)
    BY <1>1, <1>3, <2>2, <2>3
  <2>5. u[m].type = t[m].type /\ u[m].kind = t[m].kind /\ u[m].table = t[m].table
    BY <1>1, <1>3
  <2>6. QED
    BY <2>1, <2>4, <2>5 DEF NodeKept
<1>5. QED
  BY <1>1, <1>3, <1>4 DEF IsTree, OriginInv, u

\* removeDeepAggregate and removeDeepSort.
LEMMA RemovedOrigin ==
    ASSUME PlanFile(file), NEW t, IsTree(t), NEW from, OriginInv(t, from),
           NEW n \in 1..Len(file), NEW types, NEW u, Removal(t, n, types, u)
    PROVE  IsTree(u) /\ OriginInv(u, from)
<1>1. CASE u = t
  BY <1>1
<1>2. CASE u # t
  <2>1. PICK m \in Live(t, n) : m \in 1..n /\ Len(t[m].kids) = 1 /\ u = Rewired(t, m, t[m].kids[1])
    BY <1>2 DEF Removal
  <2>2. m \in 1..Len(file) /\ m \in 1..Len(t) /\ t \in Seq(TreeNode)
    BY <2>1, FileTypes DEF IsTree
  <2>3. t[m].kids[1] \in KidsOf(t, m)
    BY <2>1, <2>2, KidsAre
  <2>4. QED
    BY <2>1, <2>2, <2>3, RewiredOrigin
<1>3. QED
  BY <1>1, <1>2

\* A bitmap scan takes over the children of its only child.
LEMMA CollapsedOrigin ==
    ASSUME PlanFile(file), NEW t, IsTree(t), NEW from, OriginInv(t, from),
           NEW n \in 1..Len(file)
    PROVE  /\ OriginInv(Collapsed(t, n), from)
           /\ \A m \in 1..Len(file) :
                t[m].type \notin Bitmap => Collapsed(t, n)[m] = t[m]
<1>. DEFINE k == t[n].kids[1]
            u == [t EXCEPT ![n].kids = t[k].kids]
<1>1. DOMAIN t = 1..Len(file) /\ Len(t) = Len(file) /\ n \in 1..Len(t) /\ t \in Seq(TreeNode)
      /\ t[n] \in TreeNode
  BY LenProperties, ElementOfSeq DEF IsTree
<1>2. CASE t[n].type \in Bitmap /\ Len(t[n].kids) = 1 /\ t[k].type \in Bitmap
  <2>1. k \in KidsOf(t, n)
    BY <1>1, <1>2, KidsAre
  <2>2. k \in Live(file, n) /\ k \in 1..Len(file)
    <3>1. KidsOf(t, n) \subseteq Live(file, n) /\ Live(file, n) \subseteq 1..n
      BY FileBelow DEF OriginInv, NodeKept
    <3>2. QED
      BY <2>1, <3>1, FileTypes
  <2>. HIDE DEF k
  <2>3. /\ u[n].type = t[n].type /\ u[n].kind = t[n].kind /\ u[n].table = t[n].table
        /\ u[n].kids = t[k].kids
        /\ \A m \in 1..Len(file) \ {n} : u[m] = t[m]
    BY <1>1 DEF TreeNode
  <2>4. Collapsed(t, n) = u
    BY <1>2 DEF Collapsed, k
  <2>. HIDE DEF u
  <2>5. KidsOf(u, n) = KidsOf(t, k) /\ KidsOf(t, k) \subseteq Live(file, k)
        /\ Live(file, k) \subseteq Live(file, n)
    BY <2>2, <2>3, FileBelow DEF KidsOf, OriginInv, NodeKept
  <2>6. ASSUME NEW m \in 1..Len(file) PROVE NodeKept(u, from, m)
    <3>1. NodeKept(t, from, m)
      BY DEF OriginInv
    <3>2. CASE m = n
      BY <2>3, <2>5, <3>1, <3>2 DEF NodeKept
    <3>3. CASE m # n
      <4>1. u[m] = t[m] /\ KidsOf(u, m) = KidsOf(t, m)
        BY <2>3, <3>3 DEF KidsOf
      <4>2. QED
        BY <3>1, <4>1 DEF NodeKept
    <3>4. QED
      BY <3>2, <3>3
  <2>7. QED
    BY <1>2, <2>3, <2>4, <2>6 DEF OriginInv
<1>3. CASE ~(t[n].type \in Bitmap /\ Len(t[n].kids) = 1 /\ t[k].type \in Bitmap)
  <2>1. Collapsed(t, n) = t
    BY <1>3 DEF Collapsed
  <2>2. QED
    BY <2>1
<1>4. QED
  BY <1>2, <1>3

\* The node n gets the kind of its type.
LEMMA KindedOrigin ==
    ASSUME PlanFile(file), NEW t, IsTree(t), NEW n \in 1..Len(file), OriginInv(t, n),
           NEW u, u = [t EXCEPT ![n].kind = KindOf(t[n].type)]
    PROVE  /\ OriginInv(u, n + 1)
           /\ \A m \in 1..Len(file) : u[m].type = t[m].type /\ u[m].kids = t[m].kids
<1>1. DOMAIN t = 1..Len(file) /\ n \in 1..Len(t) /\ Len(file) \in Nat /\ t[n] \in TreeNode
  BY LenProperties, ElementOfSeq, FileTypes DEF IsTree
<1>2. /\ u[n].type = t[n].type /\ u[n].kind = KindOf(t[n].type) /\ u[n].table = t[n].table
      /\ u[n].kids = t[n].kids
      /\ \A m \in 1..Len(file) \ {n} : u[m] = t[m]
  BY <1>1 DEF TreeNode
<1>3. \A m \in 1..Len(file) : m # n => (m < n + 1 => m < n) /\ (n + 1 <= m => n <= m)
  BY <1>1
<1>4. ~(n + 1 <= n)
  BY <1>1
<1>5. ASSUME NEW m \in 1..Len(file) PROVE NodeKept(u, n + 1, m)
  <2>1. NodeKept(t, n, m)
    BY DEF OriginInv
  <2>2. CASE m = n
    <3>1. KidsOf(u, m) = KidsOf(t, m)
      BY <1>2, <2>2 DEF KidsOf
    <3>2. QED
      BY <1>2, <1>4, <2>1, <2>2, <3>1 DEF NodeKept
  <2>3. CASE m # n
    <3>1. u[m] = t[m] /\ KidsOf(u, m) = KidsOf(t, m)
      BY <1>2, <2>3 DEF KidsOf
    <3>2. QED
      BY <1>3, <2>1, <2>3, <3>1 DEF NodeKept
  <2>4. QED
    BY <2>2, <2>3
<1>6. QED
  BY <1>2, <1>5 DEF OriginInv

\* So it does if it is cut out.
LEMMA OriginLater ==
    ASSUME PlanFile(file), NEW t, NEW n \in 1..Len(file), OriginInv(t, n),
           t[n].type \in Gather \cup {"Hash"}
    PROVE  OriginInv(t, n + 1)
<1>1. KindOf(t[n].type) = "empty"
  BY DEF KindOf, Gather, Sorts, Bitmap
<1>2. Len(file) \in Nat
  BY FileTypes
<1>3. \A m \in 1..Len(file) : m # n => (m < n + 1 => m < n) /\ (n + 1 <= m => n <= m)
  BY <1>2
<1>4. ~(n + 1 <= n) /\ n <= n
  BY <1>2
<1>5. ASSUME NEW m \in 1..Len(file) PROVE NodeKept(t, n + 1, m)
  <2>1. NodeKept(t, n, m)
    BY DEF OriginInv
  <2>2. CASE m = n
    BY <1>1, <1>4, <2>1, <2>2 DEF NodeKept
  <2>3. CASE m # n
    BY <1>3, <2>1, <2>3 DEF NodeKept
  <2>4. QED
    BY <2>2, <2>3
<1>6. QED
  BY <1>5 DEF OriginInv

\* u is t, or t with an aggregate n and the sort below it in each other's place.
Exchange(t, n, u) ==
    LET k == t[n].kids[1]
    IN  IF t[n].kind = "agg" /\ t[n].kids # <<>> /\ t[k].kind = "sort"
        THEN /\ k \in KidsOf(t, n)
             /\ u[n].type = t[k].type /\ u[n].kind = t[k].kind
             /\ u[k].type = t[n].type /\ u[k].kind = t[n].kind
             /\ \A m \in 1..Len(file) : u[m].kids = t[m].kids
             /\ \A m \in 1..Len(file) \ {n, k} : u[m] = t[m]
        ELSE u = t

LEMMA ExchangeIs ==
    ASSUME NEW t, IsTree(t), NEW n \in 1..Len(file)
    PROVE  Exchange(t, n, Exchanged(t, n))
<1>. DEFINE k == t[n].kids[1]
            As(m, o) == [t[o] EXCEPT !.kids = t[m].kids]
            u == [t EXCEPT ![n] = As(n, k), ![k] = As(k, n)]
<1>1. DOMAIN t = 1..Len(file) /\ t \in Seq(TreeNode) /\ Len(t) = Len(file) /\ Descending(t)
      /\ n \in 1..Len(t) /\ Len(t) \in Nat
  BY LenProperties DEF IsTree
<1>2. CASE t[n].kind = "agg" /\ t[n].kids # <<>> /\ t[k].kind = "sort"
  <2>1. k \in KidsOf(t, n) /\ k \in 1..(n - 1)
    BY <1>1, <1>2, KidsAre DEF Descending
  <2>. HIDE DEF k
  <2>2. k \in 1..Len(t) /\ k # n
    BY <1>1, <2>1
  <2>3. t[n] \in TreeNode /\ t[k] \in TreeNode
    BY <1>1, <2>2, KidsAre
  <2>4. /\ As(n, k).kids = t[n].kids /\ As(n, k).type = t[k].type /\ As(n, k).kind = t[k].kind
        /\ As(k, n).kids = t[k].kids /\ As(k, n).type = t[n].type /\ As(k, n).kind = t[n].kind
    BY <2>3 DEF TreeNode
  <2>. HIDE DEF As
  <2>5. /\ u[n] = As(n, k) /\ u[k] = As(k, n)
        /\ \A m \in 1..Len(file) \ {n, k} : u[m] = t[m]
    BY <1>1, <2>2
  <2>6. Exchanged(t, n) = u
    BY <1>2 DEF Exchanged, k, As
  <2>. HIDE DEF u
  <2>7. \A m \in 1..Len(file) : u[m].kids = t[m].kids
    BY <2>4, <2>5
  <2>8. QED
    BY <1>2, <2>1, <2>4, <2>5, <2>6, <2>7 DEF Exchange, k
<1>3. CASE ~(t[n].kind = "agg" /\ t[n].kids # <<>> /\ t[k].kind = "sort")
  BY <1>3 DEF Exchanged, Exchange
<1>4. QED
  BY <1>2, <1>3

LEMMA ExchangedOrigin ==
    ASSUME PlanFile(file), NEW t, IsTree(t), NEW n \in 1..Len(file), OriginInv(t, n + 1),
           \A m \in 1..Len(file) : t[m].kind \in {"agg", "sort"} => t[m].type \in Moved,
           NEW u, Exchange(t, n, u)
    PROVE  OriginInv(u, n + 1)
<1>. DEFINE k == t[n].kids[1]
<1>1. CASE t[n].kind = "agg" /\ t[n].kids # <<>> /\ t[k].kind = "sort"
  <2>1. /\ k \in KidsOf(t, n)
        /\ u[n].type = t[k].type /\ u[n].kind = t[k].kind
        /\ u[k].type = t[n].type /\ u[k].kind = t[n].kind
        /\ \A m \in 1..Len(file) : u[m].kids = t[m].kids
        /\ \A m \in 1..Len(file) \ {n, k} : u[m] = t[m]
    BY <1>1 DEF Exchange
  <2>. HIDE DEF k
  <2>2. k \in 1..Len(file) /\ k \in 1..(n - 1) /\ Len(file) \in Nat
    BY <2>1, FileTypes DEF IsTree, Descending
  <2>3. ~(n + 1 <= n) /\ ~(n + 1 <= k) /\ n < n + 1 /\ k < n + 1
    BY <2>2
  <2>4. t[n].type \in Moved /\ t[k].type \in Moved
    BY <1>1, <2>2 DEF k
  <2>5. t[n].kind = KindOf(t[n].type) /\ t[k].kind = KindOf(t[k].type)
    BY <2>2, <2>3 DEF OriginInv, NodeKept
  <2>6. \A m \in 1..Len(file) : KidsOf(u, m) = KidsOf(t, m)
    BY <2>1 DEF KidsOf
  <2>7. ASSUME NEW m \in 1..Len(file) PROVE NodeKept(u, n + 1, m)
    <3>1. NodeKept(t, n + 1, m) /\ KidsOf(u, m) = KidsOf(t, m)
      BY <2>6 DEF OriginInv
    <3>2. CASE m \in {n, k}
      BY <2>1, <2>3, <2>4, <2>5, <3>1, <3>2 DEF NodeKept
    <3>3. CASE m \notin {n, k}
      BY <2>1, <3>1, <3>3 DEF NodeKept
    <3>4. QED
      BY <3>2, <3>3
  <2>8. QED
    BY <2>7 DEF OriginInv
<1>2. CASE ~(t[n].kind = "agg" /\ t[n].kids # <<>> /\ t[k].kind = "sort")
  <2>1. u = t
    BY <1>2 DEF Exchange
  <2>2. QED
    BY <2>1
<1>3. QED
  BY <1>1, <1>2

-----------------------------------------------------------------------------
(* The chain of aggregates and sorts above the scans.                      *)

\* Every node behind b has one child; of those that pruneTree has yet to come to, it
\* is the node before.
Row(t, b, n) ==
    \A m \in (b + 1)..Len(file) : Len(t[m].kids) = 1 /\ (n < m => t[m].kids[1] = m - 1)

\* Before the node n there is an aggregate of the file that no Gather drops.
AggDue(b, n) ==
    \E g \in (b + 1)..Len(file) :
      /\ g < n /\ file[g].type = "Aggregate"
      /\ \A h \in (g + 1)..Len(file) : file[h].type \notin Gather

\* Of the chain there are below x only aggregates, and a sort on top.
Shape(t, x, b, n) ==
    /\ \A m \in Live(t, x) : b < m => t[m].type = "Aggregate" \/ (m = x /\ t[m].type \in Sorts)
    /\ AggDue(b, n) => \E m \in Live(t, x) : t[m].type = "Aggregate"

\* What the calls before the one for n have returned.
TopOf(t, r, n) ==
    IF n <= Len(file) THEN t[n].kids[1]
    ELSE IF file[Len(file)].type = "Limit" THEN t[Len(file)].kids[1] ELSE r

ChainInv(t, r, n, b) ==
    /\ Row(t, b, n)
    /\ n <= Len(file) \/ file[Len(file)].type = "Limit" => r = Len(file)
    /\ b < n => Shape(t, TopOf(t, r, n), b, n)

\* The chain starts behind b.
Starts(b) == b \in 1..Len(file) /\ ChainFrom(b)

\* The types below it and on it.
LEMMA ChainTypes ==
    ASSUME PlanFile(file), NEW t, NEW r, NEW from, TreeInv(t, r, from), NEW b, Starts(b)
    PROVE  /\ \A m \in 1..b : file[m].type \notin Moved \cup {"Limit"} /\ t[m].type = file[m].type
           /\ \A m \in (b + 1)..Len(file) :
                /\ file[m].type \in Moved \cup Gather \cup {"Limit"}
                /\ t[m].type \in Moved \cup Gather \cup {"Limit"}
                /\ file[m].type = "Limit" => m = Len(file)
                /\ file[m].kids = <<m - 1>>
<1>1. Len(file) \in Nat /\ \A m \in 1..b : m \in 1..Len(file)
  BY FileTypes DEF Starts
<1>2. \A x : x \in Moved \cup {"Limit"} => KindOf(x) \in {"agg", "sort", "result"}
  BY DEF Moved, KindOf, Sorts, Bitmap
<1>3. \A m \in 1..Len(file) : t[m].type # file[m].type => t[m].type \in Moved /\ file[m].type \in Moved
  BY DEF TreeInv
<1>4. ASSUME NEW m \in 1..b
      PROVE  file[m].type \notin Moved \cup {"Limit"} /\ t[m].type = file[m].type
  <2>1. KindOf(file[m].type) \notin {"agg", "sort", "result"}
    BY DEF Starts, ChainFrom
  <2>2. file[m].type \notin Moved \cup {"Limit"}
    BY <1>2, <2>1
  <2>3. QED
    BY <1>1, <1>3, <2>2
<1>5. ASSUME NEW m \in (b + 1)..Len(file)
      PROVE  /\ file[m].type \in Moved \cup Gather \cup {"Limit"}
             /\ t[m].type \in Moved \cup Gather \cup {"Limit"}
             /\ file[m].type = "Limit" => m = Len(file)
             /\ file[m].kids = <<m - 1>>
  <2>1. /\ file[m].kids = <<m - 1>>
        /\ \/ file[m].type \in {"Aggregate"} \cup Sorts \cup Gather
           \/ file[m].type = "Limit" /\ m = Len(file)
    BY DEF Starts, ChainFrom
  <2>2. m \in 1..Len(file)
    BY <1>1 DEF Starts
  <2>3. file[m].type \in Moved \cup Gather \cup {"Limit"}
    BY <2>1 DEF Moved
  <2>4. file[m].type = "Limit" => m = Len(file)
    BY <2>1 DEF Sorts, Gather
  <2>5. QED
    BY <1>3, <2>1, <2>2, <2>3, <2>4
<1>6. QED
  BY <1>4, <1>5

\* A node gives way to its only child.
LEMMA CutNode ==
    ASSUME NEW t \in Seq(TreeNode), Descending(t), NEW m \in 1..Len(t), Len(t[m].kids) = 1,
           NEW u, u = Rewired(t, m, t[m].kids[1])
    PROVE  \A y \in 1..Len(t) :
             /\ u[y].type = t[y].type /\ Len(u[y].kids) = Len(t[y].kids)
             /\ \A i \in 1..Len(t[y].kids) :
                  u[y].kids[i] = IF t[y].kids[i] = m THEN t[m].kids[1] ELSE t[y].kids[i]
<1>. DEFINE k == t[m].kids[1]
<1>1. k \in 1..(m - 1)
  BY KidsAre DEF Descending
<1>. HIDE DEF k
<1>2. k \in 1..m /\ u = Rewired(t, m, k)
  BY <1>1 DEF k
<1>3. \A y \in 1..Len(t) :
        /\ u[y].type = t[y].type /\ Len(u[y].kids) = Len(t[y].kids)
        /\ \A i \in 1..Len(t[y].kids) : u[y].kids[i] = IF t[y].kids[i] = m THEN k ELSE t[y].kids[i]
  BY <1>2, RewiredTree
<1>4. QED
  BY <1>3 DEF k

\* The pointers of the chain do not lead to what is removed.
LEMMA RemovedRow ==
    ASSUME PlanFile(file), NEW t, IsTree(t), NEW b \in 1..Len(file), NEW n \in 1..Len(file),
           Row(t, b, n), NEW x \in 1..Len(file), x < n, NEW types, NEW u, Removal(t, x, types, u)
    PROVE  Row(u, b, n) /\ \A m \in 1..Len(file) : u[m].type = t[m].type
<1>1. CASE u = t
  BY <1>1
<1>2. CASE u # t
  <2>1. PICK m \in Live(t, x) :
          m \in 1..x /\ t[m].type \in types /\ Len(t[m].kids) = 1 /\ u = Rewired(t, m, t[m].kids[1])
    BY <1>2 DEF Removal
  <2>2. /\ m \in 1..Len(t) /\ t \in Seq(TreeNode) /\ Len(t) = Len(file) /\ Descending(t)
        /\ Len(file) \in Nat /\ m < n
    BY <2>1, FileTypes DEF IsTree
  <2>3. \A y \in 1..Len(t) :
          /\ u[y].type = t[y].type /\ Len(u[y].kids) = Len(t[y].kids)
          /\ \A i \in 1..Len(t[y].kids) :
               u[y].kids[i] = IF t[y].kids[i] = m THEN t[m].kids[1] ELSE t[y].kids[i]
    BY <2>1, <2>2, CutNode
  <2>4. ASSUME NEW y \in (b + 1)..Len(file)
        PROVE  Len(u[y].kids) = 1 /\ (n < y => u[y].kids[1] = y - 1)
    <3>1. y \in 1..Len(t) /\ Len(t[y].kids) = 1 /\ (n < y => t[y].kids[1] = y - 1)
      BY <2>2 DEF Row
    <3>2. 1 \in 1..Len(t[y].kids) /\ (n < y => y - 1 # m)
      BY <2>2, <3>1
    <3>3. QED
      BY <2>3, <3>1, <3>2
  <2>5. QED
    BY <2>2, <2>3, <2>4 DEF Row
<1>3. QED
  BY <1>1, <1>2

\* A shape depends on nothing but pointers and types.
LEMMA SameShape ==
    ASSUME PlanFile(file), NEW t, IsTree(t), NEW u, Len(u) = Len(t), Descending(u),
           NEW x \in 1..Len(file), NEW b, NEW n, Shape(t, x, b, n),
           \A m \in 1..x : u[m].type = t[m].type /\ KidsOf(u, m) = KidsOf(t, m)
    PROVE  Shape(u, x, b, n)
<1>1. Len(t) \in Nat /\ x \in 1..Len(t) /\ Descending(t)
  BY FileTypes DEF IsTree
<1>2. Live(u, x) = Live(t, x) /\ Live(t, x) \subseteq 1..x
  BY <1>1, SameBelow, LiveClosed
<1>3. QED
  BY <1>2 DEF Shape

\* What is left of a step once the call for the node `at` has its result.
LEMMA ReturnChain ==
    ASSUME PlanFile(file), at \in 1..Len(file), root = Len(file), NEW t, IsTree(t),
           NEW r \in 1..at, NEW b, Starts(b), TreeInv(tree, root, at), Row(t, b, at),
           at = Len(file) /\ file[at].type = "Limit" => r = at,
           b < at => Shape(t, IF file[at].type = "Limit" THEN t[at].kids[1] ELSE r, b, at + 1)
    PROVE  ChainInv(Rewired(t, at, r), IF root = at THEN r ELSE root, at + 1, b)
<1>. DEFINE u == Rewired(t, at, r)
            q == IF root = at THEN r ELSE root
            last == Len(file)
<1>1. /\ last \in Nat /\ t \in Seq(TreeNode) /\ Len(t) = last /\ Descending(t) /\ b \in 1..last
  BY FileTypes DEF IsTree, Starts
<1>2. /\ u \in Seq(TreeNode) /\ Len(u) = Len(t) /\ Descending(u)
      /\ \A m \in 1..last :
           /\ u[m].type = t[m].type /\ Len(u[m].kids) = Len(t[m].kids)
           /\ \A i \in 1..Len(t[m].kids) : u[m].kids[i] = IF t[m].kids[i] = at THEN r ELSE t[m].kids[i]
           /\ KidsOf(u, m) = { IF x = at THEN r ELSE x : x \in KidsOf(t, m) }
  <2>1. u = Rewired(t, at, r)
    OBVIOUS
  <2>. HIDE DEF u
  <2>2. QED
    BY <1>1, <2>1, RewiredTree
<1>. HIDE DEF u
<1>3. \A m \in 1..at : KidsOf(u, m) = KidsOf(t, m)
  <2>1. ASSUME NEW m \in 1..at PROVE KidsOf(u, m) = KidsOf(t, m)
    <3>1. m \in 1..last /\ KidsOf(t, m) \subseteq 1..(m - 1)
      BY <1>1 DEF Descending
    <3>2. at \notin KidsOf(t, m)
      BY <1>1, <3>1
    <3>3. KidsOf(u, m) = { IF x = at THEN r ELSE x : x \in KidsOf(t, m) }
      BY <1>2, <3>1
    <3>4. QED
      BY <3>2, <3>3
  <2>2. QED
    BY <2>1
<1>4. \A m \in (b + 1)..last :
        Len(u[m].kids) = 1 /\ u[m].kids[1] = IF t[m].kids[1] = at THEN r ELSE t[m].kids[1]
  <2>1. \A m \in (b + 1)..last : m \in 1..last /\ Len(t[m].kids) = 1
    BY <1>1 DEF Row
  <2>2. 1 \in 1..1
    OBVIOUS
  <2>3. QED
    BY <1>2, <2>1, <2>2
<1>5. Row(u, b, at + 1)
  <2>1. ASSUME NEW m \in (b + 1)..last, at + 1 < m PROVE u[m].kids[1] = m - 1
    <3>1. at < m /\ m - 1 # at
      BY <1>1, <2>1
    <3>2. t[m].kids[1] = m - 1
      BY <3>1 DEF Row
    <3>3. QED
      BY <1>4, <3>1, <3>2
  <2>2. QED
    BY <1>4, <2>1 DEF Row
<1>6. at + 1 <= last \/ file[last].type = "Limit" => q = last
  BY <1>1
<1>7. ASSUME b < at + 1 PROVE Shape(u, TopOf(u, q, at + 1), b, at + 1)
  <2>. DEFINE x == IF file[at].type = "Limit" THEN t[at].kids[1] ELSE r
  <2>1. at \in Nat /\ b \in Nat /\ (b = at \/ at \in (b + 1)..last)
    BY <1>1, <1>7
  <2>2. file[at].type = "Limit" => at = last /\ at \in (b + 1)..last
    <3>1. at \in 1..b => file[at].type # "Limit"
      BY ChainTypes
    <3>2. at \in (b + 1)..last => (file[at].type = "Limit" => at = last)
      BY ChainTypes
    <3>3. b = at => at \in 1..b
      BY <2>1
    <3>4. QED
      BY <2>1, <3>1, <3>2, <3>3
  <2>3. t[at].kids[1] \in 1..(at - 1) \/ at \notin (b + 1)..last
    <3>1. ASSUME at \in (b + 1)..last PROVE t[at].kids[1] \in 1..(at - 1)
      <4>1. Len(t[at].kids) = 1 /\ at \in 1..Len(t)
        BY <1>1, <3>1 DEF Row
      <4>2. QED
        BY <1>1, <4>1, KidsAre DEF Descending
    <3>2. QED
      BY <3>1
  <2>4. TopOf(u, q, at + 1) = x
    <3>1. CASE at + 1 <= last
      <4>1. at + 1 \in (b + 1)..last /\ at < at + 1 /\ (at + 1) - 1 = at
        BY <1>1, <2>1, <3>1
      <4>2. t[at + 1].kids[1] = at
        BY <4>1 DEF Row
      <4>3. u[at + 1].kids[1] = r
        BY <1>4, <4>1, <4>2
      <4>4. file[at].type # "Limit"
        BY <1>1, <2>1, <2>2, <3>1
      <4>5. QED
        BY <3>1, <4>3, <4>4 DEF TopOf
    <3>2. CASE ~(at + 1 <= last)
      <4>1. at = last
        BY <1>1, <3>2
      <4>2. CASE file[at].type = "Limit"
        <5>1. u[at].kids[1] = t[at].kids[1]
          BY <1>4, <2>1, <2>2, <2>3, <4>2
        <5>2. QED
          BY <3>2, <4>1, <4>2, <5>1 DEF TopOf
      <4>3. CASE file[at].type # "Limit"
        BY <3>2, <4>1, <4>3 DEF TopOf
      <4>4. QED
        BY <4>2, <4>3
    <3>3. QED
      BY <3>1, <3>2
  <2>5. x \in 1..at
    BY <2>1, <2>2, <2>3
  <2>6. CASE b < at
    <3>1. Shape(t, x, b, at + 1)
      BY <2>6
    <3>2. x \in 1..last /\ \A m \in 1..x : m \in 1..at /\ m \in 1..last
      BY <1>1, <2>5
    <3>. HIDE DEF x
    <3>3. \A m \in 1..x : u[m].type = t[m].type /\ KidsOf(u, m) = KidsOf(t, m)
      BY <1>2, <1>3, <3>2
    <3>4. Shape(u, x, b, at + 1)
      BY <1>2, <3>1, <3>2, <3>3, SameShape
    <3>5. QED
      BY <2>4, <3>4
  <2>7. CASE ~(b < at)
    <3>1. b = at
      BY <2>1, <2>7
    <3>. HIDE DEF x
    <3>2. Live(u, x) \subseteq 1..x
      <4>1. x \in 1..Len(u) /\ Len(u) \in Nat
        BY <1>1, <1>2, <2>5
      <4>2. QED
        BY <1>2, <4>1, LiveClosed
    <3>3. \A m \in Live(u, x) : ~(b < m)
      BY <2>1, <2>5, <3>1, <3>2
    <3>4. ~AggDue(b, at + 1)
      BY <1>1, <3>1 DEF AggDue
    <3>5. QED
      BY <2>4, <3>3, <3>4 DEF Shape
  <2>8. QED
    BY <2>6, <2>7
<1>8. QED
  BY <1>5, <1>6, <1>7 DEF ChainInv, u

-----------------------------------------------------------------------------
(* pruneTree keeps the chain.                                              *)

\* The bitmaps are below the root, and the chain, wherever it starts, is in order.
ChainsInv ==
    phase \in {"prune", "enrich"} =>
      /\ OriginInv(tree, at) /\ PlainType(tree, root)
      /\ \A b : Starts(b) => ChainInv(tree, root, at, b)

\* What the steps of pruneTree start from.
Pruning ==
    /\ phase = "prune" /\ PlanFile(file) /\ at \in 1..Len(file) /\ root = Len(file)
    /\ TreeInv(tree, root, at) /\ TreeNamed(tree, at) /\ IsTree(tree) /\ OriginInv(tree, at)
    /\ \A b : Starts(b) => ChainInv(tree, root, at, b)

LEMMA WhilePruning ==
    ASSUME PruneInv, NamesInv, ChainsInv, phase = "prune"
    PROVE  Pruning
BY DEF PruneInv, NamesInv, ChainsInv, Pruning, TreeInv, IsTree

\* The child of the node `at`, if it has only one.
LEMMA OnlyKid ==
    ASSUME Pruning, OneKid(at)
    PROVE  /\ tree[at].kids[1] \in 1..(at - 1) /\ tree[at].kids[1] \in 1..Len(file)
           /\ KidsOf(tree, at) = {tree[at].kids[1]} /\ tree[at].kids[1] < at
<1>1. at \in 1..Len(tree) /\ tree \in Seq(TreeNode) /\ Descending(tree) /\ Len(file) \in Nat
      /\ Len(tree) = Len(file)
  BY FileTypes DEF Pruning, IsTree
<1>2. KidsOf(tree, at) = {tree[at].kids[1]}
  BY <1>1, KidsAre DEF OneKid
<1>3. tree[at].kids[1] \in 1..(at - 1)
  BY <1>1, <1>2 DEF Descending
<1>4. QED
  BY <1>1, <1>2, <1>3

\* A removal leaves the number of children of every node.
LEMMA RemovedLengths ==
    ASSUME PlanFile(file), NEW t, IsTree(t), NEW x \in 1..Len(file), NEW types,
           NEW u, Removal(t, x, types, u)
    PROVE  \A m \in 1..Len(file) : Len(u[m].kids) = Len(t[m].kids)
<1>1. CASE u = t
  BY <1>1
<1>2. CASE u # t
  <2>1. PICK m \in Live(t, x) : m \in 1..x /\ Len(t[m].kids) = 1 /\ u = Rewired(t, m, t[m].kids[1])
    BY <1>2 DEF Removal
  <2>2. m \in 1..Len(t) /\ t \in Seq(TreeNode) /\ Len(t) = Len(file) /\ Descending(t)
    BY <2>1, FileTypes DEF IsTree
  <2>3. QED
    BY <2>1, <2>2, CutNode
<1>3. QED
  BY <1>1, <1>2

\* A Hash is replaced by its child; it is not on the chain.
LEMMA HashChain ==
    ASSUME Pruning, PruneHash, NEW b, Starts(b)
    PROVE  ChainInv(tree', root', at + 1, b)
<1>. DEFINE r == tree[at].kids[1]
<1>1. /\ tree[at].type = "Hash" /\ OneKid(at)
      /\ tree' = Rewired(tree, at, r) /\ root' = IF root = at THEN r ELSE root
  BY DEF PruneHash, PruneReturns
<1>2. r \in 1..at /\ Row(tree, b, at) /\ b \in 1..Len(file) /\ Len(file) \in Nat
  BY <1>1, OnlyKid, FileTypes DEF Pruning, ChainInv, Starts
<1>3. \A x \in Moved \cup Gather \cup {"Limit"} : x # "Hash"
  BY DEF Moved, Sorts, Gather
<1>4. ~(b < at) /\ file[at].type # "Limit"
  <2>1. ~(at \in (b + 1)..Len(file))
    BY <1>1, <1>3, ChainTypes DEF Pruning
  <2>2. at \in 1..b
    BY <1>2, <2>1 DEF Pruning
  <2>3. QED
    BY <1>2, <2>2, ChainTypes DEF Pruning
<1>5. ChainInv(Rewired(tree, at, r), IF root = at THEN r ELSE root, at + 1, b)
  <2>. HIDE DEF r
  <2>1. QED
    BY <1>2, <1>4, ReturnChain DEF Pruning
<1>6. QED
  BY <1>1, <1>5

\* A Gather goes, and of the chain below it the first aggregate.
LEMMA GatherChain ==
    ASSUME Pruning, PruneGather, NEW b, Starts(b)
    PROVE  ChainInv(tree', root', at + 1, b)
<1>. DEFINE x == tree[at].kids[1]
            t == RemovedBelow(tree, x, {"Aggregate"})
            r == t[at].kids[1]
<1>1. /\ tree[at].type \in Gather /\ OneKid(at)
      /\ tree' = Rewired(t, at, r) /\ root' = IF root = at THEN r ELSE root
  BY DEF PruneGather, PruneReturns
<1>2. /\ Row(tree, b, at) /\ b \in 1..Len(file) /\ Len(file) \in Nat
      /\ PlanFile(file) /\ at \in 1..Len(file) /\ IsTree(tree) /\ OriginInv(tree, at)
      /\ tree \in Seq(TreeNode) /\ Descending(tree) /\ Len(tree) = Len(file)
      /\ root = Len(file) /\ TreeInv(tree, root, at)
  BY FileTypes DEF Pruning, ChainInv, Starts, IsTree
<1>3. x \in 1..(at - 1) /\ x \in 1..Len(file) /\ x < at /\ KidsOf(tree, at) = {x}
  BY <1>1, OnlyKid
<1>. HIDE DEF x
<1>4. Removal(tree, x, {"Aggregate"}, t)
  BY <1>2, <1>3, RemovalIs
<1>. HIDE DEF t
<1>5. IsTree(t) /\ Row(t, b, at) /\ \A m \in 1..Len(file) : t[m].type = tree[m].type
  BY <1>2, <1>3, <1>4, RemovedOrigin, RemovedRow
<1>6. Len(t[at].kids) = Len(tree[at].kids)
  BY <1>2, <1>3, <1>4, RemovedLengths
<1>7. r \in 1..(at - 1) /\ r \in 1..at
  <2>1. at \in 1..Len(t) /\ t \in Seq(TreeNode) /\ Descending(t) /\ Len(t[at].kids) = 1
    BY <1>1, <1>2, <1>5, <1>6 DEF IsTree, OneKid
  <2>2. r \in KidsOf(t, at)
    BY <2>1, KidsAre
  <2>3. r \in 1..(at - 1)
    BY <2>1, <2>2 DEF Descending
  <2>4. QED
    BY <1>2, <2>3
<1>8. file[at].type \in Gather /\ file[at].type # "Limit"
  <2>1. at <= at
    BY <1>2
  <2>2. file[at].type = tree[at].type
    BY <1>2, <2>1 DEF OriginInv, NodeKept
  <2>3. QED
    BY <1>1, <2>2 DEF Gather
<1>9. ASSUME b < at PROVE Shape(t, r, b, at + 1)
  <2>1. at <= Len(file) /\ Shape(tree, x, b, at)
    <3>1. ChainInv(tree, root, at, b) /\ at <= Len(file)
      BY <1>2 DEF Pruning
    <3>2. QED
      BY <1>9, <3>1 DEF ChainInv, TopOf, x
  <2>2. ~AggDue(b, at + 1)
    <3>. SUFFICES ASSUME NEW g \in (b + 1)..Len(file), g < at + 1, file[g].type = "Aggregate",
                         \A h \in (g + 1)..Len(file) : file[h].type \notin Gather
                  PROVE  FALSE
      BY DEF AggDue
    <3>1. g = at \/ at \in (g + 1)..Len(file)
      BY <1>2
    <3>2. QED
      BY <1>8, <3>1 DEF Gather
  <2>3. Live(t, r) \subseteq Live(tree, x) /\ (r = x \/ tree[x].type = "Aggregate")
    <3>1. CASE t = tree
      <4>1. r = x
        BY <3>1 DEF x
      <4>2. QED
        BY <3>1, <4>1
    <3>2. CASE t # tree
      <4>1. PICK m \in Live(tree, x) :
              /\ m \in 1..x /\ tree[m].type \in {"Aggregate"} /\ Len(tree[m].kids) = 1
              /\ t = Rewired(tree, m, tree[m].kids[1])
        BY <1>4, <3>2 DEF Removal
      <4>2. m \in 1..Len(tree) /\ x \in 1..Len(tree)
        BY <1>2, <1>3, <4>1
      <4>. DEFINE k == tree[m].kids[1]
      <4>3. k \in KidsOf(tree, m) /\ k \in 1..m
        <5>1. k \in KidsOf(tree, m)
          BY <1>2, <4>1, <4>2, KidsAre
        <5>2. k \in 1..(m - 1)
          BY <1>2, <4>2, <5>1 DEF Descending
        <5>3. QED
          BY <4>2, <5>1, <5>2
      <4>. HIDE DEF k
      <4>4. t = Rewired(tree, m, k)
        BY <4>1 DEF k
      <4>5. r = IF x = m THEN k ELSE x
        <5>1. t[at].kids[1] = IF tree[at].kids[1] = m THEN k ELSE tree[at].kids[1]
          <6>1. at \in 1..Len(tree) /\ 1 \in 1..Len(tree[at].kids)
            BY <1>1, <1>2 DEF OneKid
          <6>2. QED
            BY <1>2, <4>2, <4>3, <4>4, <6>1, RewiredTree
        <5>2. QED
          BY <5>1 DEF x
      <4>. HIDE DEF r
      <4>6. Live(t, r) \subseteq Live(tree, x)
        BY <1>2, <4>1, <4>2, <4>3, <4>4, <4>5, RewiredBelow
      <4>7. QED
        BY <4>1, <4>5, <4>6
    <3>3. QED
      BY <3>1, <3>2
  <2>4. Live(tree, x) \subseteq 1..Len(file)
    <3>1. x \in 1..Len(tree) /\ Len(tree) \in Nat
      BY <1>2, <1>3
    <3>2. Live(tree, x) \subseteq 1..x
      BY <1>2, <3>1, LiveClosed
    <3>3. QED
      BY <1>2, <1>3, <3>2
  <2>5. "Aggregate" \notin Sorts
    BY DEF Sorts
  <2>6. ASSUME NEW m \in Live(t, r), b < m
        PROVE  t[m].type = "Aggregate" \/ (m = r /\ t[m].type \in Sorts)
    <3>1. m \in Live(tree, x) /\ t[m].type = tree[m].type
      BY <1>5, <2>3, <2>4
    <3>2. tree[m].type = "Aggregate" \/ (m = x /\ tree[m].type \in Sorts)
      BY <2>1, <2>6, <3>1 DEF Shape
    <3>3. QED
      BY <2>3, <2>5, <3>1, <3>2
  <2>7. QED
    BY <2>2, <2>6 DEF Shape
<1>10. ChainInv(Rewired(t, at, r), IF root = at THEN r ELSE root, at + 1, b)
  <2>. HIDE DEF r
  <2>1. QED
    BY <1>2, <1>5, <1>7, <1>8, <1>9, ReturnChain
<1>11. QED
  BY <1>1, <1>10

\* The stages of a call that keeps its node: a deep sort goes, a pair of bitmap scans
\* becomes one, the node gets its kind, an aggregate and a sort change places.
Stages(single, flat, kinded, t) ==
    /\ IF tree[at].type \in Sorts /\ OneKid(at)
       THEN Removal(tree, tree[at].kids[1], Sorts, single) ELSE single = tree
    /\ flat = Collapsed(single, at)
    /\ IsTree(single) /\ IsTree(flat) /\ IsTree(kinded)
    /\ \A m \in 1..Len(file) : single[m].type = tree[m].type
    /\ \A m \in 1..Len(file) : single[m].type \notin Bitmap => flat[m] = single[m]
    /\ \A m \in 1..Len(file) : kinded[m].type = flat[m].type /\ kinded[m].kids = flat[m].kids
    /\ OriginInv(kinded, at + 1)
    /\ \A m \in 1..Len(file) : kinded[m].kind \in {"agg", "sort"} => kinded[m].type \in Moved
    /\ Exchange(kinded, at, t) /\ IsTree(t) /\ OriginInv(t, at + 1)
    /\ tree' = Rewired(t, at, at) /\ root' = root

LEMMA StagesAre ==
    ASSUME Pruning, PruneOther
    PROVE  \E single, flat, kinded, t : Stages(single, flat, kinded, t)
<1>. DEFINE single == IF tree[at].type \in Sorts /\ OneKid(at)
                      THEN RemovedBelow(tree, tree[at].kids[1], Sorts) ELSE tree
            flat == Collapsed(single, at)
            kinded == [flat EXCEPT ![at].kind = KindOf(tree[at].type)]
            t == Exchanged(kinded, at)
<1>1. /\ PlanFile(file) /\ at \in 1..Len(file) /\ root = Len(file) /\ Len(file) \in Nat
      /\ TreeInv(tree, root, at) /\ IsTree(tree) /\ OriginInv(tree, at)
      /\ tree' = Rewired(t, at, at) /\ root' = root
  BY FileTypes DEF Pruning, PruneOther, PruneReturns
<1>2. at \in Nat /\ at + 1 \in Nat /\ Sorts \in SUBSET Moved
  BY <1>1 DEF Moved
<1>3. /\ IF tree[at].type \in Sorts /\ OneKid(at)
         THEN Removal(tree, tree[at].kids[1], Sorts, single) ELSE single = tree
      /\ TreeInv(single, root, at) /\ OriginInv(single, at)
      /\ \A m \in 1..Len(file) : single[m].type = tree[m].type
  <2>1. CASE tree[at].type \in Sorts /\ OneKid(at)
    <3>. DEFINE x == tree[at].kids[1]
    <3>1. x \in 1..Len(file) /\ x < root
      BY <1>1, <2>1, OnlyKid
    <3>2. single = RemovedBelow(tree, x, Sorts)
      BY <2>1
    <3>. HIDE DEF single, x
    <3>3. /\ TreeInv(single, root, at)
          /\ \A m \in 1..Len(file) : single[m].type = tree[m].type
      BY <1>1, <1>2, <3>1, <3>2, RemovedKeeps
    <3>4. Removal(tree, x, Sorts, single)
      BY <1>1, <3>1, <3>2, RemovalIs DEF IsTree
    <3>5. OriginInv(single, at)
      BY <1>1, <3>1, <3>4, RemovedOrigin
    <3>6. QED
      BY <2>1, <3>3, <3>4, <3>5 DEF x
  <2>2. CASE ~(tree[at].type \in Sorts /\ OneKid(at))
    BY <1>1, <2>2
  <2>3. QED
    BY <2>1, <2>2
<1>. HIDE DEF single
<1>4. IsTree(single)
  BY <1>3 DEF TreeInv, IsTree
<1>5. /\ TreeInv(flat, root, at + 1) /\ flat[at].type = tree[at].type /\ OriginInv(flat, at)
      /\ \A m \in 1..Len(file) : single[m].type \notin Bitmap => flat[m] = single[m]
  BY <1>1, <1>3, <1>4, CollapsedKeeps, CollapsedOrigin
<1>6. flat = Collapsed(single, at)
  OBVIOUS
<1>. HIDE DEF flat
<1>7. IsTree(flat)
  BY <1>5 DEF TreeInv, IsTree
<1>8. /\ TreeInv(kinded, root, at + 1) /\ OriginInv(kinded, at + 1)
      /\ \A m \in 1..Len(file) : kinded[m].type = flat[m].type /\ kinded[m].kids = flat[m].kids
  <2>1. kinded = [flat EXCEPT ![at].kind = KindOf(flat[at].type)]
    BY <1>5
  <2>2. TreeInv([flat EXCEPT ![at].kind = KindOf(flat[at].type)], root, at + 1)
    BY <1>1, <1>2, <1>5, KindedKeeps
  <2>. HIDE DEF kinded
  <2>3. TreeInv(kinded, root, at + 1)
    BY <2>1, <2>2
  <2>4. /\ OriginInv(kinded, at + 1)
        /\ \A m \in 1..Len(file) : kinded[m].type = flat[m].type /\ kinded[m].kids = flat[m].kids
    <3>1. \A w : w = [flat EXCEPT ![at].kind = KindOf(flat[at].type)] =>
                   /\ OriginInv(w, at + 1)
                   /\ \A m \in 1..Len(file) : w[m].type = flat[m].type /\ w[m].kids = flat[m].kids
      BY <1>1, <1>5, <1>7, KindedOrigin
    <3>2. QED
      BY <2>1, <3>1
  <2>5. QED
    BY <2>3, <2>4
<1>. HIDE DEF kinded
<1>9. /\ IsTree(kinded)
      /\ \A m \in 1..Len(file) : kinded[m].kind \in {"agg", "sort"} => kinded[m].type \in Moved
  BY <1>8 DEF TreeInv, IsTree
<1>10. Exchange(kinded, at, t) /\ TreeInv(t, root, at + 1)
  BY <1>1, <1>2, <1>8, <1>9, ExchangeIs, ExchangedKeeps
<1>. HIDE DEF t
<1>11. IsTree(t) /\ OriginInv(t, at + 1)
  <2>1. IsTree(t)
    BY <1>10 DEF TreeInv, IsTree
  <2>2. QED
    BY <1>1, <1>8, <1>9, <1>10, <2>1, ExchangedOrigin
<1>12. Stages(single, flat, kinded, t)
  BY <1>1, <1>3, <1>4, <1>5, <1>6, <1>7, <1>8, <1>9, <1>10, <1>11 DEF Stages
<1>13. QED
  BY <1>12

\* None of them leads the chain elsewhere.
LEMMA StagesRow ==
    ASSUME Pruning, NEW single, NEW flat, NEW kinded, NEW t, Stages(single, flat, kinded, t),
           NEW b, Starts(b)
    PROVE  Row(single, b, at) /\ Row(t, b, at)
<1>1. /\ PlanFile(file) /\ at \in 1..Len(file) /\ IsTree(tree) /\ Row(tree, b, at)
      /\ b \in 1..Len(file) /\ Len(file) \in Nat
  BY FileTypes DEF Pruning, ChainInv, Starts
<1>2. Row(single, b, at)
  <2>1. CASE tree[at].type \in Sorts /\ OneKid(at)
    <3>1. Removal(tree, tree[at].kids[1], Sorts, single)
      BY <2>1 DEF Stages
    <3>2. tree[at].kids[1] \in 1..Len(file) /\ tree[at].kids[1] < at
      BY <2>1, OnlyKid
    <3>3. QED
      BY <1>1, <3>1, <3>2, RemovedRow
  <2>2. CASE ~(tree[at].type \in Sorts /\ OneKid(at))
    BY <1>1, <2>2 DEF Stages
  <2>3. QED
    BY <2>1, <2>2
<1>3. \A m \in (b + 1)..Len(file) : m \in 1..Len(file) /\ t[m].kids = single[m].kids
  <2>. SUFFICES ASSUME NEW m \in (b + 1)..Len(file)
                PROVE  m \in 1..Len(file) /\ t[m].kids = single[m].kids
    OBVIOUS
  <2>1. m \in 1..Len(file)
    BY <1>1
  <2>2. \A x \in Moved \cup Gather \cup {"Limit"} : x \notin Bitmap
    BY DEF Moved, Sorts, Gather, Bitmap
  <2>3. single[m].type \notin Bitmap
    BY <2>1, <2>2, ChainTypes DEF Pruning, Stages
  <2>4. kinded[m].kids = single[m].kids
    BY <2>1, <2>3 DEF Stages
  <2>5. t[m].kids = kinded[m].kids
    BY <2>1 DEF Stages, Exchange
  <2>6. QED
    BY <2>1, <2>4, <2>5
<1>4. QED
  BY <1>2, <1>3 DEF Row

\* A node of the chain has one child, and its call changes no other pointers.
OnChain(single, kinded, b) ==
    /\ OneKid(at) /\ tree[at].type = file[at].type
    /\ tree[at].type \in Moved \cup {"Limit"}
    /\ \A m \in 1..Len(file) : kinded[m].type = tree[m].type /\ kinded[m].kids = single[m].kids
    /\ kinded[at].kind = KindOf(tree[at].type)
    /\ Shape(tree, tree[at].kids[1], b, at)

LEMMA OnChainIs ==
    ASSUME Pruning, PruneOther, NEW single, NEW flat, NEW kinded, NEW t,
           Stages(single, flat, kinded, t), NEW b, Starts(b), b < at
    PROVE  OnChain(single, kinded, b)
<1>1. /\ PlanFile(file) /\ at \in 1..Len(file) /\ IsTree(tree) /\ OriginInv(tree, at)
      /\ b \in 1..Len(file) /\ Len(file) \in Nat /\ at \in (b + 1)..Len(file)
      /\ ChainInv(tree, root, at, b)
  BY FileTypes DEF Pruning, Starts
<1>2. OneKid(at) /\ Shape(tree, tree[at].kids[1], b, at)
  BY <1>1 DEF ChainInv, Row, TopOf, OneKid
<1>3. tree[at].type = file[at].type
  BY <1>1 DEF OriginInv, NodeKept
<1>4. tree[at].type \in Moved \cup {"Limit"}
  <2>1. tree[at].type \in Moved \cup Gather \cup {"Limit"}
    BY <1>1, ChainTypes DEF Pruning
  <2>2. tree[at].type \notin Gather
    BY <1>2 DEF PruneOther
  <2>3. QED
    BY <2>1, <2>2
<1>5. flat = single
  <2>1. \A x \in Moved \cup {"Limit"} : x \notin Bitmap
    BY DEF Moved, Sorts, Bitmap
  <2>2. single[at].type \notin Bitmap
    BY <1>1, <1>4, <2>1 DEF Stages
  <2>3. QED
    BY <2>2 DEF Stages, Collapsed
<1>6. \A m \in 1..Len(file) : kinded[m].type = tree[m].type /\ kinded[m].kids = single[m].kids
  BY <1>5 DEF Stages
<1>7. kinded[at].kind = KindOf(tree[at].type)
  <2>1. at < at + 1
    BY <1>1
  <2>2. kinded[at].kind = KindOf(kinded[at].type)
    BY <1>1, <2>1 DEF Stages, OriginInv, NodeKept
  <2>3. QED
    BY <1>1, <1>6, <2>2
<1>8. QED
  BY <1>2, <1>3, <1>4, <1>6, <1>7 DEF OnChain

\* A limit on top leaves the chain as it is.
LEMMA LimitShape ==
    ASSUME Pruning, NEW single, NEW flat, NEW kinded, NEW t, Stages(single, flat, kinded, t),
           NEW b, Starts(b), OnChain(single, kinded, b), file[at].type = "Limit"
    PROVE  Shape(t, t[at].kids[1], b, at + 1)
<1>1. /\ PlanFile(file) /\ at \in 1..Len(file) /\ IsTree(tree) /\ IsTree(t) /\ Len(file) \in Nat
      /\ Len(t) = Len(tree)
  BY FileTypes DEF Pruning, Stages, IsTree
<1>2. tree[at].type = "Limit" /\ "Limit" \notin Sorts /\ "Limit" # "Aggregate"
  BY DEF OnChain, Sorts
<1>3. single = tree
  BY <1>2 DEF Stages
<1>4. t = kinded
  <2>1. KindOf("Limit") # "agg"
    BY DEF KindOf, Sorts, Bitmap
  <2>2. kinded[at].kind # "agg"
    BY <1>2, <2>1 DEF OnChain
  <2>3. QED
    BY <2>2 DEF Stages, Exchange
<1>5. \A m \in 1..Len(file) : t[m].type = tree[m].type /\ KidsOf(t, m) = KidsOf(tree, m)
  BY <1>3, <1>4 DEF OnChain, KidsOf
<1>6. t[at].kids[1] = tree[at].kids[1] /\ tree[at].kids[1] \in 1..Len(file)
  BY <1>1, <1>3, <1>4, OnlyKid DEF OnChain
<1>7. Shape(t, t[at].kids[1], b, at)
  <2>1. \A x \in 1..Len(file) : \A m \in 1..x : m \in 1..Len(file)
    BY <1>1
  <2>2. ASSUME NEW x \in 1..Len(file), Shape(tree, x, b, at) PROVE Shape(t, x, b, at)
    <3>1. \A m \in 1..x : t[m].type = tree[m].type /\ KidsOf(t, m) = KidsOf(tree, m)
      BY <1>5, <2>1
    <3>2. Descending(t)
      BY <1>1 DEF IsTree
    <3>3. QED
      BY <1>1, <2>2, <3>1, <3>2, SameShape
  <2>3. QED
    BY <1>6, <2>2 DEF OnChain
<1>8. AggDue(b, at + 1) => AggDue(b, at)
  <2>. SUFFICES ASSUME NEW g \in (b + 1)..Len(file), g < at + 1, file[g].type = "Aggregate",
                       \A h \in (g + 1)..Len(file) : file[h].type \notin Gather
                PROVE  AggDue(b, at)
    BY DEF AggDue
  <2>1. g # at
    BY <1>2
  <2>2. g < at
    BY <1>1, <2>1 DEF Starts
  <2>3. QED
    BY <2>2 DEF AggDue
<1>9. QED
  BY <1>7, <1>8 DEF Shape

\* A sort is the only one.
LEMMA SortShape ==
    ASSUME Pruning, NEW single, NEW flat, NEW kinded, NEW t, Stages(single, flat, kinded, t),
           NEW b, Starts(b), b < at, OnChain(single, kinded, b), tree[at].type \in Sorts
    PROVE  Shape(t, at, b, at + 1)
<1>. DEFINE x == tree[at].kids[1]
            y == single[at].kids[1]
<1>1. /\ PlanFile(file) /\ at \in 1..Len(file) /\ IsTree(tree) /\ Len(file) \in Nat
      /\ IsTree(single) /\ IsTree(t) /\ b \in 1..Len(file) /\ OneKid(at)
      /\ tree \in Seq(TreeNode) /\ single \in Seq(TreeNode) /\ Descending(tree) /\ Descending(single)
      /\ Len(tree) = Len(file) /\ Len(single) = Len(file) /\ Len(t) = Len(file) /\ Descending(t)
      /\ t \in Seq(TreeNode)
  BY FileTypes DEF Pruning, Stages, Starts, OnChain, IsTree
<1>2. /\ x \in 1..(at - 1) /\ x \in 1..Len(file) /\ x < at /\ KidsOf(tree, at) = {x}
      /\ Shape(tree, x, b, at)
  BY <1>1, OnlyKid DEF OnChain
<1>3. Removal(tree, x, Sorts, single)
  BY <1>1 DEF Stages
<1>4. "Aggregate" \notin Sorts
  BY DEF Sorts
<1>5. t = kinded
  <2>1. \A s \in Sorts : KindOf(s) # "agg"
    BY DEF KindOf, Sorts, Bitmap
  <2>2. kinded[at].kind # "agg"
    BY <2>1 DEF OnChain
  <2>3. QED
    BY <2>2 DEF Stages, Exchange
<1>6. \A m \in 1..Len(file) : t[m].type = tree[m].type /\ t[m].kids = single[m].kids
  BY <1>5 DEF OnChain
<1>7. \A m \in 1..Len(file) : KidsOf(t, m) = KidsOf(single, m)
  BY <1>6 DEF KidsOf
<1>. HIDE DEF x
<1>8. /\ Live(single, y) \subseteq Live(tree, x) /\ y \in 1..(at - 1) /\ KidsOf(single, at) = {y}
      /\ \A m \in Live(single, y) : b < m => tree[m].type \notin Sorts
      /\ \A m \in Live(tree, x) : tree[m].type \notin Sorts => m \in Live(single, at)
  <2>1. /\ x \in Live(tree, x) /\ Live(tree, x) \subseteq 1..x
        /\ \A m \in Live(tree, x) : b < m => tree[m].type = "Aggregate" \/ (m = x /\ tree[m].type \in Sorts)
    BY <1>1, <1>2, LiveClosed DEF Shape
  <2>2. /\ at \in Live(tree, at) /\ Live(tree, x) \subseteq Live(tree, at)
    <3>1. at \in Live(tree, at) /\ x \in Live(tree, at)
      BY <1>1, <1>2, LiveClosed
    <3>2. QED
      BY <1>1, <3>1, LiveBelow
  <2>3. y \in 1..(at - 1) /\ KidsOf(single, at) = {y}
    <3>1. Len(single[at].kids) = 1 /\ at \in 1..Len(single)
      <4>1. at \in (b + 1)..Len(file)
        BY <1>1
      <4>2. Row(single, b, at)
        BY StagesRow
      <4>3. QED
        BY <1>1, <4>1, <4>2 DEF Row
    <3>2. QED
      BY <1>1, <3>1, KidsAre DEF Descending
  <2>4. CASE single = tree /\ (tree[x].type \in Sorts => Len(tree[x].kids) # 1)
    <3>1. y = x
      BY <2>4 DEF x
    <3>2. ~(tree[x].type \in Sorts /\ b < x)
      <4>. SUFFICES ASSUME tree[x].type \in Sorts, b < x PROVE FALSE
        OBVIOUS
      <4>1. x \in (b + 1)..Len(file)
        BY <1>1, <1>2
      <4>2. Row(tree, b, at)
        BY DEF Pruning, ChainInv
      <4>3. Len(tree[x].kids) = 1
        BY <4>1, <4>2 DEF Row
      <4>4. QED
        BY <2>4, <4>3
    <3>3. QED
      BY <1>4, <2>1, <2>2, <2>3, <2>4, <3>1, <3>2
  <2>5. CASE \E m \in Live(tree, x) :
               /\ m \in 1..x /\ tree[m].type \in Sorts /\ Len(tree[m].kids) = 1
               /\ single = Rewired(tree, m, tree[m].kids[1])
               /\ tree[x].type \in Sorts => m = x
    <3>1. PICK m \in Live(tree, x) :
            /\ m \in 1..x /\ tree[m].type \in Sorts /\ Len(tree[m].kids) = 1
            /\ single = Rewired(tree, m, tree[m].kids[1])
            /\ tree[x].type \in Sorts => m = x
      BY <2>5
    <3>. DEFINE k == tree[m].kids[1]
    <3>2. m \in 1..Len(tree) /\ x \in 1..Len(tree) /\ m < at
      BY <1>1, <1>2, <3>1
    <3>3. KidsOf(tree, m) = {k} /\ k \in 1..(m - 1) /\ k \in 1..m
      <4>1. KidsOf(tree, m) = {k}
        BY <1>1, <3>1, <3>2, KidsAre
      <4>2. k \in 1..(m - 1)
        BY <1>1, <3>2, <4>1 DEF Descending
      <4>3. QED
        BY <3>2, <4>1, <4>2
    <3>. HIDE DEF k
    <3>4. single = Rewired(tree, m, k)
      BY <3>1 DEF k
    <3>5. /\ \A z \in 1..Len(tree) :
               /\ \A i \in 1..Len(tree[z].kids) :
                    single[z].kids[i] = IF tree[z].kids[i] = m THEN k ELSE tree[z].kids[i]
               /\ KidsOf(single, z) = { IF w = m THEN k ELSE w : w \in KidsOf(tree, z) }
      BY <1>1, <3>2, <3>3, <3>4, RewiredTree
    <3>6. y = IF x = m THEN k ELSE x
      <4>1. at \in 1..Len(tree) /\ 1 \in 1..Len(tree[at].kids)
        BY <1>1 DEF OneKid
      <4>2. QED
        BY <3>5, <4>1 DEF x
    <3>. HIDE DEF y
    <3>7. Live(single, y) \subseteq Live(tree, x)
      BY <1>1, <3>1, <3>2, <3>3, <3>4, <3>6, RewiredBelow
    <3>8. ASSUME NEW z \in Live(single, y), b < z, tree[z].type \in Sorts PROVE FALSE
      <4>1. z = x
        BY <1>4, <2>1, <3>7, <3>8
      <4>2. y = k /\ k < x
        BY <3>1, <3>2, <3>3, <3>6, <3>8, <4>1
      <4>3. Live(single, y) \subseteq 1..y
        <5>1. y \in 1..Len(single)
          BY <1>1, <3>2, <3>3, <4>2
        <5>2. QED
          BY <1>1, <5>1, LiveClosed
      <4>4. z <= k
        BY <3>3, <4>2, <4>3
      <4>5. QED
        BY <3>2, <3>3, <4>1, <4>2, <4>4
    <3>9. Live(tree, at) \ {m} \subseteq Live(single, at)
      <4>1. \A z \in 1..Len(tree) : \A w \in KidsOf(tree, z) :
              /\ w # m => w \in KidsOf(single, z)
              /\ w = m => k \in KidsOf(single, z)
        BY <3>5
      <4>2. at # m /\ at \in 1..Len(tree)
        BY <1>1, <3>2
      <4>3. WithoutNode(tree, at, m, k, single, at)
        BY <1>1, <3>2, <3>3, <4>1, <4>2 DEF WithoutNode
      <4>4. QED
        BY <4>3, CutOut
    <3>10. \A z \in Live(tree, x) : tree[z].type \notin Sorts => z \in Live(single, at)
      BY <2>2, <3>1, <3>9
    <3>11. QED
      BY <2>3, <3>7, <3>8, <3>10
  <2>6. QED
    BY <1>3, <2>4, <2>5 DEF Removal
<1>. HIDE DEF y
<1>9. Live(t, y) = Live(single, y) /\ Live(t, at) = Live(single, at)
  <2>1. y \in 1..Len(single) /\ at \in 1..Len(single)
    BY <1>1, <1>8
  <2>2. \A m \in 1..Len(single) : \A z \in 1..m : z \in 1..Len(file)
    BY <1>1
  <2>3. QED
    BY <1>1, <1>7, <2>1, <2>2, SameBelow
<1>10. ASSUME NEW m \in Live(t, at), b < m
       PROVE  t[m].type = "Aggregate" \/ (m = at /\ t[m].type \in Sorts)
  <2>1. KidsOf(t, at) = {y}
    BY <1>1, <1>7, <1>8
  <2>2. m = at \/ m \in Live(t, y)
    <3>1. Len(t) \in Nat /\ at \in 1..Len(t)
      BY <1>1
    <3>2. Live(t, at) \subseteq {at} \cup UNION { Live(t, z) : z \in KidsOf(t, at) }
      BY <1>1, <3>1, LiveSplit
    <3>3. QED
      BY <2>1, <3>2
  <2>3. CASE m = at
    BY <1>1, <1>6, <2>3
  <2>4. CASE m \in Live(t, y)
    <3>1. m \in Live(tree, x) /\ tree[m].type \notin Sorts
      BY <1>8, <1>9, <1>10, <2>4
    <3>2. tree[m].type = "Aggregate"
      BY <1>2, <1>10, <3>1 DEF Shape
    <3>3. m \in 1..Len(file)
      <4>1. x \in 1..Len(tree) /\ Len(tree) \in Nat
        BY <1>1, <1>2
      <4>2. Live(tree, x) \subseteq 1..x
        BY <1>1, <4>1, LiveClosed
      <4>3. QED
        BY <1>1, <1>2, <3>1, <4>2
    <3>4. QED
      BY <1>6, <3>2, <3>3
  <2>5. QED
    BY <2>2, <2>3, <2>4
<1>11. ASSUME AggDue(b, at + 1) PROVE \E m \in Live(t, at) : t[m].type = "Aggregate"
  <2>1. AggDue(b, at)
    <3>1. PICK g \in (b + 1)..Len(file) :
            /\ g < at + 1 /\ file[g].type = "Aggregate"
            /\ \A h \in (g + 1)..Len(file) : file[h].type \notin Gather
      BY <1>11 DEF AggDue
    <3>2. g # at
      BY <1>4, <3>1 DEF OnChain
    <3>3. g < at
      BY <1>1, <3>1, <3>2
    <3>4. QED
      BY <3>1, <3>3 DEF AggDue
  <2>2. PICK m \in Live(tree, x) : tree[m].type = "Aggregate"
    BY <1>2, <2>1 DEF Shape
  <2>3. m \in Live(t, at)
    BY <1>4, <1>8, <1>9, <2>2
  <2>4. m \in 1..Len(file)
    <3>1. x \in 1..Len(tree) /\ Len(tree) \in Nat
      BY <1>1, <1>2
    <3>2. Live(tree, x) \subseteq 1..x
      BY <1>1, <3>1, LiveClosed
    <3>3. QED
      BY <1>1, <1>2, <3>2
  <2>5. QED
    BY <1>6, <2>2, <2>3, <2>4
<1>12. QED
  BY <1>10, <1>11 DEF Shape

\* An aggregate gets below a sort.
LEMMA AggShape ==
    ASSUME Pruning, NEW single, NEW flat, NEW kinded, NEW t, Stages(single, flat, kinded, t),
           NEW b, Starts(b), OnChain(single, kinded, b), tree[at].type = "Aggregate"
    PROVE  Shape(t, at, b, at + 1)
<1>. DEFINE x == tree[at].kids[1]
<1>1. /\ PlanFile(file) /\ at \in 1..Len(file) /\ IsTree(tree) /\ Len(file) \in Nat
      /\ IsTree(t) /\ IsTree(kinded) /\ OneKid(at)
      /\ tree \in Seq(TreeNode) /\ Descending(tree) /\ Len(tree) = Len(file)
      /\ Len(t) = Len(file) /\ Descending(t)
  BY FileTypes DEF Pruning, Stages, OnChain, IsTree
<1>2. /\ x \in 1..(at - 1) /\ x \in 1..Len(file) /\ x < at /\ KidsOf(tree, at) = {x}
      /\ Shape(tree, x, b, at)
  BY <1>1, OnlyKid DEF OnChain
<1>3. single = tree
  <2>1. "Aggregate" \notin Sorts
    BY DEF Sorts
  <2>2. QED
    BY <2>1 DEF Stages
<1>4. kinded[at].kind = "agg" /\ kinded[at].type = "Aggregate" /\ kinded[at].kids = tree[at].kids
  <2>1. \A s : s = "Aggregate" => KindOf(s) = "agg"
    BY DEF KindOf, Sorts, Bitmap
  <2>2. QED
    BY <1>1, <1>3, <2>1 DEF OnChain
<1>5. kinded[at].kids # <<>>
  <2>1. Len(tree[at].kids) = 1
    BY <1>1 DEF OneKid
  <2>2. tree[at].kids # <<>>
    BY <2>1, EmptySeq
  <2>3. QED
    BY <1>4, <2>2
<1>6. kinded[x].kind = KindOf(tree[x].type) /\ kinded[x].type = tree[x].type
  <2>1. x < at + 1
    BY <1>1, <1>2
  <2>2. kinded[x].kind = KindOf(kinded[x].type)
    BY <1>2, <2>1 DEF Stages, OriginInv, NodeKept
  <2>3. QED
    BY <1>2, <2>2 DEF OnChain
<1>7. \A m \in 1..Len(file) : t[m].kids = tree[m].kids
  BY <1>3 DEF Stages, Exchange, OnChain
<1>8. \A m \in 1..Len(file) : KidsOf(t, m) = KidsOf(tree, m)
  BY <1>7 DEF KidsOf
<1>9. kinded[at].kids[1] = x
  BY <1>4
<1>. HIDE DEF x
<1>10. /\ \A m \in 1..Len(file) : m \notin {at, x} => t[m].type = tree[m].type
       /\ \/ t[at].type \in Sorts /\ t[x].type = "Aggregate"
          \/ t[at].type = "Aggregate" /\ t[x].type = tree[x].type /\ tree[x].type \notin Sorts
  <2>1. CASE kinded[x].kind = "sort"
    <3>1. /\ t[at].type = kinded[x].type /\ t[x].type = kinded[at].type
          /\ \A m \in 1..Len(file) \ {at, x} : t[m] = kinded[m]
      BY <1>4, <1>5, <1>9, <2>1 DEF Stages, Exchange
    <3>2. \A s : KindOf(s) = "sort" => s \in Sorts
      BY DEF KindOf, Sorts, Bitmap
    <3>3. QED
      BY <1>4, <1>6, <2>1, <3>1, <3>2 DEF OnChain
  <2>2. CASE kinded[x].kind # "sort"
    <3>1. t = kinded
      BY <1>9, <2>2 DEF Stages, Exchange
    <3>2. \A s \in Sorts : KindOf(s) = "sort"
      BY DEF KindOf, Sorts, Bitmap
    <3>3. tree[x].type \notin Sorts
      BY <1>6, <2>2, <3>2
    <3>4. QED
      BY <1>1, <1>2, <1>4, <1>6, <3>1, <3>3 DEF OnChain
  <2>3. QED
    BY <2>1, <2>2
<1>11. /\ Live(t, x) = Live(tree, x) /\ at \in Live(t, at) /\ x \in Live(t, at)
       /\ Live(t, at) \subseteq {at} \cup Live(tree, x) /\ Live(tree, x) \subseteq 1..x
  <2>1. x \in 1..Len(tree) /\ at \in 1..Len(t) /\ Len(tree) \in Nat /\ Len(t) = Len(tree)
    BY <1>1, <1>2
  <2>2. \A m \in 1..x : m \in 1..Len(file)
    BY <1>1, <1>2
  <2>3. Live(t, x) = Live(tree, x) /\ Live(tree, x) \subseteq 1..x
    BY <1>1, <1>8, <2>1, <2>2, SameBelow, LiveClosed
  <2>4. KidsOf(t, at) = {x}
    BY <1>1, <1>2, <1>8
  <2>5. at \in Live(t, at) /\ KidsOf(t, at) \subseteq Live(t, at)
    BY <1>1, <2>1, LiveClosed
  <2>6. Live(t, at) \subseteq {at} \cup UNION { Live(t, z) : z \in KidsOf(t, at) }
    BY <1>1, <2>1, LiveSplit
  <2>7. QED
    BY <2>3, <2>4, <2>5, <2>6
<1>12. ASSUME NEW m \in Live(t, at), b < m
       PROVE  t[m].type = "Aggregate" \/ (m = at /\ t[m].type \in Sorts)
  <2>1. CASE m = at
    BY <1>10, <2>1
  <2>2. CASE m # at
    <3>1. m \in Live(tree, x) /\ m \in 1..Len(file)
      BY <1>1, <1>2, <1>11, <2>2
    <3>2. tree[m].type = "Aggregate" \/ (m = x /\ tree[m].type \in Sorts)
      BY <1>2, <1>12, <3>1 DEF Shape
    <3>3. CASE m = x
      BY <1>10, <3>2, <3>3
    <3>4. CASE m # x
      BY <1>10, <2>2, <3>1, <3>2, <3>4
    <3>5. QED
      BY <3>3, <3>4
  <2>3. QED
    BY <2>1, <2>2
<1>13. \E m \in Live(t, at) : t[m].type = "Aggregate"
  BY <1>10, <1>11
<1>14. QED
  BY <1>12, <1>13 DEF Shape

\* Every call that keeps its node.
LEMMA OtherChain ==
    ASSUME Pruning, PruneOther, NEW b, Starts(b)
    PROVE  ChainInv(tree', root', at + 1, b)
<1>1. PICK single, flat, kinded, t : Stages(single, flat, kinded, t)
  BY StagesAre
<1>2. /\ PlanFile(file) /\ at \in 1..Len(file) /\ root = Len(file) /\ Len(file) \in Nat
      /\ IsTree(t) /\ at \in 1..at /\ TreeInv(tree, root, at) /\ Row(t, b, at)
      /\ tree' = Rewired(t, at, at) /\ root' = IF root = at THEN at ELSE root
  BY <1>1, FileTypes, StagesRow DEF Pruning, Stages
<1>3. ASSUME b < at
      PROVE  Shape(t, IF file[at].type = "Limit" THEN t[at].kids[1] ELSE at, b, at + 1)
  <2>1. OnChain(single, kinded, b)
    BY <1>1, <1>3, OnChainIs
  <2>2. file[at].type = tree[at].type /\ tree[at].type \in {"Aggregate", "Limit"} \cup Sorts
    BY <2>1 DEF OnChain, Moved
  <2>3. \A s \in Sorts \cup {"Aggregate"} : s # "Limit"
    BY DEF Sorts
  <2>4. CASE file[at].type = "Limit"
    BY <1>1, <2>1, <2>4, LimitShape
  <2>5. CASE tree[at].type \in Sorts
    BY <1>1, <1>3, <2>1, <2>2, <2>3, <2>5, SortShape
  <2>6. CASE tree[at].type = "Aggregate"
    BY <1>1, <2>1, <2>2, <2>3, <2>6, AggShape
  <2>7. QED
    BY <2>2, <2>4, <2>5, <2>6
<1>4. QED
  BY <1>2, <1>3, ReturnChain

-----------------------------------------------------------------------------
(* pruneTree as a whole.                                                   *)

\* No bitmap is at the top of the whole file, nor where its top has been moved to.
LEMMA TopPlain ==
    ASSUME PlanFile(file), NEW t, NEW n, TreeInv(t, Len(file), n)
    PROVE  PlainType(t, Len(file))
<1>1. Len(file) \in 1..Len(file) /\ file[Len(file)].type \notin MakesBitmap
  <2>1. Len(file) \in Nat \ {0}
    BY FileTypes
  <2>2. file[Len(file)].type \notin MakesBitmap
    BY DEF PlanFile
  <2>3. QED
    BY <2>1, <2>2
<1>2. CASE t[Len(file)].type = file[Len(file)].type
  BY <1>1, <1>2 DEF PlainType
<1>3. CASE t[Len(file)].type # file[Len(file)].type
  <2>1. t[Len(file)].type \in Dropped
    BY <1>1, <1>3 DEF TreeInv, Dropped
  <2>2. QED
    BY <2>1, NoBitmaps DEF PlainType
<1>4. QED
  BY <1>2, <1>3

\* Below a node that is replaced by its only child there are no bitmaps.
LEMMA ChildPlain ==
    ASSUME PlanFile(file), NEW t, IsTree(t), NEW n \in 1..Len(file), t[n].type \in Dropped,
           Len(t[n].kids) = 1, NEW from, TreeNamed(t, from)
    PROVE  PlainType(Rewired(t, n, t[n].kids[1]), t[n].kids[1])
<1>. DEFINE k == t[n].kids[1]
<1>1. /\ t \in Seq(TreeNode) /\ Descending(t) /\ n \in 1..Len(t) /\ Len(t) = Len(file)
      /\ Len(file) \in Nat
  BY FileTypes DEF IsTree
<1>2. k \in KidsOf(t, n)
  BY <1>1, KidsAre
<1>3. k \in 1..(n - 1)
  BY <1>1, <1>2 DEF Descending
<1>4. t[k].type \notin MakesBitmap
  BY <1>1, <1>2, NoBitmaps DEF TreeNamed
<1>. HIDE DEF k
<1>5. k \in 1..n /\ k \in 1..Len(t)
  BY <1>1, <1>3
<1>6. \A j \in 1..n : \A u : u = Rewired(t, n, j) => \A m \in 1..Len(t) : u[m].type = t[m].type
  BY <1>1, RewiredTree
<1>7. Rewired(t, n, k)[k].type = t[k].type
  BY <1>5, <1>6
<1>8. PlainType(Rewired(t, n, k), k)
  BY <1>4, <1>7 DEF PlainType
<1>9. QED
  BY <1>8 DEF k

\* What a call leaves that gives way to the child.
LEMMA ChildReturns ==
    ASSUME Pruning, NEW t, IsTree(t), OriginInv(t, at), TreeNamed(t, at),
           t[at].type \in Gather \cup {"Hash"}, Len(t[at].kids) = 1,
           tree' = Rewired(t, at, t[at].kids[1]),
           root' = IF root = at THEN t[at].kids[1] ELSE root,
           TreeInv(tree', root', at + 1)
    PROVE  OriginInv(tree', at + 1) /\ PlainType(tree', root')
<1>1. PlanFile(file) /\ at \in 1..Len(file) /\ root = Len(file) /\ at \in 1..Len(t)
  BY DEF Pruning, IsTree
<1>2. OriginInv(t, at + 1)
  BY <1>1, OriginLater
<1>3. t[at].kids[1] \in KidsOf(t, at) \cup {at}
  BY <1>1, KidsAre DEF IsTree
<1>4. OriginInv(tree', at + 1)
  <2>1. \A k \in KidsOf(t, at) \cup {at} : OriginInv(Rewired(t, at, k), at + 1)
    BY <1>1, <1>2, RewiredOrigin
  <2>2. QED
    BY <1>3, <2>1
<1>5. CASE root = at
  <2>1. root' = t[at].kids[1] /\ t[at].type \in Dropped
    BY <1>5 DEF Dropped
  <2>2. PlainType(Rewired(t, at, t[at].kids[1]), t[at].kids[1])
    BY <1>1, <2>1, ChildPlain
  <2>3. QED
    BY <1>4, <2>1, <2>2
<1>6. CASE root # at
  <2>1. root' = Len(file)
    BY <1>1, <1>6
  <2>2. TreeInv(tree', Len(file), at + 1)
    BY <2>1
  <2>3. PlainType(tree', Len(file))
    BY <1>1, <2>2, TopPlain
  <2>4. QED
    BY <1>4, <2>1, <2>3
<1>7. QED
  BY <1>4, <1>5, <1>6

LEMMA HashOrigin ==
    ASSUME Pruning, PruneHash, TreeInv(tree', root', at + 1)
    PROVE  OriginInv(tree', at + 1) /\ PlainType(tree', root')
BY ChildReturns DEF Pruning, PruneHash, PruneReturns, OneKid

LEMMA GatherOrigin ==
    ASSUME Pruning, PruneGather, TreeInv(tree', root', at + 1)
    PROVE  OriginInv(tree', at + 1) /\ PlainType(tree', root')
<1>. DEFINE x == tree[at].kids[1]
            t == RemovedBelow(tree, x, {"Aggregate"})
<1>1. /\ PlanFile(file) /\ at \in 1..Len(file) /\ IsTree(tree) /\ OriginInv(tree, at)
      /\ tree \in Seq(TreeNode) /\ Descending(tree) /\ Len(tree) = Len(file) /\ at \in Nat
      /\ TreeInv(tree, root, at) /\ TreeNamed(tree, at) /\ root = Len(file)
      /\ tree[at].type \in Gather /\ OneKid(at)
      /\ tree' = Rewired(t, at, t[at].kids[1]) /\ root' = IF root = at THEN t[at].kids[1] ELSE root
  <2>1. /\ PlanFile(file) /\ at \in 1..Len(file) /\ IsTree(tree) /\ OriginInv(tree, at)
        /\ TreeInv(tree, root, at) /\ TreeNamed(tree, at) /\ root = Len(file)
    BY DEF Pruning
  <2>2. /\ tree[at].type \in Gather /\ OneKid(at) /\ tree' = Rewired(t, at, t[at].kids[1])
        /\ root' = IF root = at THEN t[at].kids[1] ELSE root
    BY DEF PruneGather, PruneReturns
  <2>3. /\ tree \in Seq(TreeNode) /\ Descending(tree) /\ Len(tree) = Len(file)
        /\ at \in Nat
    BY <2>1 DEF IsTree
  <2>4. QED
    BY <2>1, <2>2, <2>3
<1>2. x \in 1..Len(file) /\ x < root /\ x \in 1..Len(tree) /\ {"Aggregate"} \in SUBSET Moved
  <2>1. x \in 1..(at - 1) /\ x \in 1..Len(file) /\ x < at
    BY <1>1, OnlyKid
  <2>. HIDE DEF x
  <2>2. x < root /\ x \in 1..Len(tree)
    BY <1>1, <2>1
  <2>3. {"Aggregate"} \in SUBSET Moved
    BY DEF Moved
  <2>4. QED
    BY <2>1, <2>2, <2>3
<1>. HIDE DEF x
<1>3. /\ TreeInv(t, root, at) /\ t[at].type = tree[at].type
      /\ Len(t[at].kids) = Len(tree[at].kids)
  BY <1>1, <1>2, RemovedKeeps
<1>4. TreeNamed(t, at)
  BY <1>1, <1>2, RemovedNamed
<1>5. Removal(tree, x, {"Aggregate"}, t)
  BY <1>1, <1>2, RemovalIs
<1>. HIDE DEF t
<1>6. IsTree(t) /\ OriginInv(t, at)
  BY <1>1, <1>2, <1>5, RemovedOrigin
<1>7. QED
  BY <1>1, <1>3, <1>4, <1>6, ChildReturns DEF OneKid

LEMMA OtherOrigin ==
    ASSUME Pruning, PruneOther, TreeInv(tree', root', at + 1)
    PROVE  OriginInv(tree', at + 1) /\ PlainType(tree', root')
<1>1. PICK single, flat, kinded, t : Stages(single, flat, kinded, t)
  BY StagesAre
<1>2. /\ PlanFile(file) /\ at \in 1..Len(file) /\ root = Len(file)
      /\ IsTree(t) /\ OriginInv(t, at + 1) /\ tree' = Rewired(t, at, at) /\ root' = root
  BY <1>1 DEF Pruning, Stages
<1>3. \A k \in KidsOf(t, at) \cup {at} : OriginInv(Rewired(t, at, k), at + 1)
  BY <1>2, RewiredOrigin
<1>4. QED
  BY <1>2, <1>3, TopPlain

LEMMA ChainsInvStep ==
    ASSUME PruneInv, NamesInv, ChainsInv, [Next]_vars
    PROVE  ChainsInv'
<1>1. CASE PruneHash \/ PruneGather \/ PruneOther
  <2>1. Pruning
    BY <1>1, WhilePruning DEF PruneHash, PruneGather, PruneOther
  <2>2. at' = at + 1 /\ file' = file /\ phase' \in {"prune", "enrich"}
    BY <1>1 DEF PruneHash, PruneGather, PruneOther, PruneReturns
  <2>3. TreeInv(tree', root', at + 1)
    <3>1. PruneInv'
      BY <1>1, PruneHashKeeps, PruneGatherKeeps, PruneOtherKeeps
    <3>2. TreeInv(tree, root, at)'
      BY <2>2, <3>1 DEF PruneInv
    <3>3. QED
      BY <2>2, <3>2 DEF TreeInv, Kept, FileScans, FileKinds
  <2>4. OriginInv(tree', at + 1) /\ PlainType(tree', root')
    BY <1>1, <2>1, <2>3, HashOrigin, GatherOrigin, OtherOrigin
  <2>5. \A b : Starts(b) => ChainInv(tree', root', at + 1, b)
    BY <1>1, <2>1, HashChain, GatherChain, OtherChain
  <2>6. OriginInv(tree, at)' /\ PlainType(tree, root)'
    BY <2>2, <2>4 DEF OriginInv, NodeKept, PlainType
  <2>7. \A b : Starts(b)' => ChainInv(tree, root, at, b)'
    <3>1. \A b : Starts(b)' <=> Starts(b)
      BY <2>2 DEF Starts, ChainFrom
    <3>2. \A b : ChainInv(tree, root, at, b)' <=> ChainInv(tree', root', at + 1, b)
      BY <2>2 DEF ChainInv, Row, Shape, TopOf, AggDue
    <3>3. QED
      BY <2>5, <3>1, <3>2
  <2>8. QED
    BY <2>6, <2>7 DEF ChainsInv
<1>2. CASE Enrich \/ AbstractToIr \/ EnsureCorrectColumnSetup
  <2>1. phase' \notin {"prune", "enrich"}
    BY <1>2 DEF Enrich, AbstractToIr, EnsureCorrectColumnSetup
  <2>2. QED
    BY <2>1 DEF ChainsInv
<1>3. CASE UNCHANGED vars
  <2>1. UNCHANGED <<file, phase, at, tree, root>>
    BY <1>3 DEF vars
  <2>2. (OriginInv(tree, at)' <=> OriginInv(tree, at)) /\ (PlainType(tree, root)' <=> PlainType(tree, root))
    BY <2>1 DEF OriginInv, NodeKept, PlainType
  <2>3. \A b : Starts(b)' <=> Starts(b)
    BY <2>1 DEF Starts, ChainFrom
  <2>4. \A b : ChainInv(tree, root, at, b)' <=> ChainInv(tree, root, at, b)
    BY <2>1 DEF ChainInv, Row, Shape, TopOf, AggDue
  <2>5. QED
    BY <2>1, <2>2, <2>3, <2>4 DEF ChainsInv
<1>4. QED
  BY <1>1, <1>2, <1>3 DEF Next

LEMMA ChainsInvInit ==
    ASSUME Init PROVE ChainsInv
<1>1. PlanFile(file) /\ tree = ReadPlan(file) /\ root = Len(file) /\ at = 1
  BY InputsAssumption DEF Init, Start
<1>2. /\ TreeInv(tree, Len(file), 1) /\ Len(file) \in Nat /\ DOMAIN file = 1..Len(file)
      /\ Len(tree) = Len(file)
  BY <1>1, FileTypes, ReadTree DEF TreeInv
<1>3. ASSUME NEW m \in 1..Len(file)
      PROVE  /\ tree[m].type = file[m].type /\ tree[m].kids = file[m].kids
             /\ KidsOf(tree, m) = KidsOf(file, m) /\ tree[m].kind = "empty"
  BY <1>1, <1>2 DEF ReadPlan, KidsOf
<1>4. OriginInv(tree, 1)
  <2>. SUFFICES ASSUME NEW m \in 1..Len(file) PROVE NodeKept(tree, 1, m)
    BY DEF OriginInv
  <2>1. KidsOf(file, m) \subseteq Live(file, m)
    BY <1>1, FileBelow
  <2>2. 1 <= m /\ ~(m < 1)
    BY <1>2
  <2>3. QED
    BY <1>1, <1>3, <2>1, <2>2 DEF NodeKept
<1>5. PlainType(tree, root)
  BY <1>1, <1>2, TopPlain
<1>6. ASSUME NEW b, Starts(b) PROVE ChainInv(tree, root, 1, b)
  <2>1. /\ b \in 1..Len(file) /\ ~(b < 1)
        /\ \A m \in (b + 1)..Len(file) : file[m].kids = <<m - 1>>
    <3>1. b \in 1..Len(file)
      BY <1>6 DEF Starts
    <3>2. \A m \in (b + 1)..Len(file) : file[m].kids = <<m - 1>>
      BY <1>6 DEF Starts, ChainFrom
    <3>3. QED
      BY <1>2, <3>1, <3>2
  <2>2. ASSUME NEW m \in (b + 1)..Len(file)
        PROVE  Len(tree[m].kids) = 1 /\ tree[m].kids[1] = m - 1
    <3>1. m \in 1..Len(file)
      BY <1>2, <2>1
    <3>2. tree[m].kids = <<m - 1>>
      BY <1>3, <2>1, <3>1
    <3>3. QED
      BY <3>2
  <2>3. Row(tree, b, 1)
    BY <2>2 DEF Row
  <2>4. QED
    BY <1>1, <2>1, <2>3 DEF ChainInv
<1>7. QED
  BY <1>1, <1>4, <1>5, <1>6 DEF ChainsInv

-----------------------------------------------------------------------------
(* enrichTree: what hangs on what.                                         *)

\* What enrichTree starts from.
Pruned ==
    /\ PlanFile(file) /\ at \in Nat /\ Len(file) < at /\ root \in 1..Len(file)
    /\ TreeInv(tree, root, at) /\ TreeNamed(tree, at) /\ IsTree(tree) /\ OriginInv(tree, at)
    /\ PlainType(tree, root) /\ \A b : Starts(b) => ChainInv(tree, root, at, b)

LEMMA AfterPruning ==
    ASSUME PruneInv, NamesInv, ChainsInv, phase = "enrich"
    PROVE  Pruned
BY DEF PruneInv, NamesInv, ChainsInv, Pruned, TreeInv, IsTree

\* Every node has the kind of its type, and a scan that of the file.
LEMMA KindsOfTypes ==
    ASSUME Pruned, NEW m \in 1..Len(file)
    PROVE  /\ tree[m].kind = KindOf(tree[m].type)
           /\ tree[m].kind = "agg" <=> tree[m].type = "Aggregate"
           /\ tree[m].kind = "sort" <=> tree[m].type \in Sorts
           /\ tree[m].kind = "source" =>
                /\ tree[m].type \in ReadsTable \cup MakesBitmap
                /\ m \in FileKinds("source") /\ tree[m].table = ReadPlan(file)[m].table
           /\ file[m].type \notin Moved => tree[m].type = file[m].type
<1>1. m < at /\ NodeKept(tree, at, m) /\ DOMAIN file = 1..Len(file)
  BY FileTypes DEF Pruned, OriginInv
<1>2. tree[m].kind = KindOf(tree[m].type)
  BY <1>1 DEF NodeKept
<1>3. file[m].type \notin Moved \/ tree[m].type \notin Moved => tree[m].type = file[m].type
  BY DEF Pruned, TreeInv
<1>4. /\ tree[m].kind = "agg" <=> tree[m].type = "Aggregate"
      /\ tree[m].kind = "sort" <=> tree[m].type \in Sorts
      /\ tree[m].kind = "source" => tree[m].type \notin Moved
  BY <1>2 DEF KindOf, Sorts, Bitmap, Moved
<1>5. tree[m].kind = "source" => tree[m].type \in ReadsTable \cup MakesBitmap
  BY <1>2 DEF KindOf, Sorts, Bitmap, ReadsTable, MakesBitmap
<1>6. tree[m].kind = "source" =>
        m \in FileKinds("source") /\ tree[m].table = ReadPlan(file)[m].table
  BY <1>1, <1>2, <1>3, <1>4 DEF FileKinds, NodeKept
<1>7. QED
  BY <1>2, <1>3, <1>4, <1>5, <1>6

\* A scan is what the file says it is.
LEMMA ScansAre ==
    ASSUME Pruned, NEW x \in FileScans
    PROVE  /\ x \in 1..Len(file) /\ KindOf(file[x].type) = "source" /\ file[x].type \notin Dropped
           /\ tree[x].kind = "source" /\ tree[x].table = ReadPlan(file)[x].table
<1>1. x \in 1..Len(file) /\ x \in Kept /\ KindOf(file[x].type) = "source"
  BY FileTypes DEF Pruned, FileScans, FileKinds, Kept
<1>2. file[x].type \notin Dropped
  BY <1>1, FileTypes DEF Pruned
<1>3. tree[x].type = file[x].type /\ tree[x].kind = "source"
  BY <1>1, <1>2, KindsOfTypes DEF Dropped
<1>4. QED
  BY <1>1, <1>2, <1>3, KindsOfTypes

\* A scan below a node is among the tables under it.
LEMMA ScansUnder ==
    ASSUME Pruned, NEW x \in FileScans
    PROVE  \A n \in 1..Len(file) :
             x \in Live(tree, n) => ReadPlan(file)[x].table \in UnderFcn(tree)[n]
<1>. DEFINE Wrong == { n \in 1..Len(file) :
                         x \in Live(tree, n) /\ ReadPlan(file)[x].table \notin UnderFcn(tree)[n] }
<1>1. /\ PlanFile(file) /\ Len(file) \in Nat /\ IsTree(tree) /\ OriginInv(tree, at)
      /\ tree \in Seq(TreeNode) /\ Len(tree) = Len(file) /\ Descending(tree)
  BY FileTypes DEF Pruned, IsTree
<1>2. SUFFICES ASSUME Wrong # {} PROVE FALSE
  OBVIOUS
<1>3. PICK n \in Wrong : \A k \in Wrong : n <= k
  <2>1. Wrong \in SUBSET Nat
    BY <1>1
  <2>. HIDE DEF Wrong
  <2>2. QED
    BY <1>2, <2>1, LeastNat
<1>4. /\ n \in 1..Len(file) /\ x \in Live(tree, n) /\ ReadPlan(file)[x].table \notin UnderFcn(tree)[n]
      /\ n \in 1..Len(tree)
  BY <1>1, <1>3
<1>5. UnderFcn(tree)[n] = IF tree[n].kind = "source" THEN {tree[n].table}
                          ELSE UNION { UnderFcn(tree)[k] : k \in KidsOf(tree, n) }
  <2>1. IsSeq(tree)
    BY <1>1, LenProperties, SeqIs
  <2>2. QED
    BY <1>1, <1>4, <2>1, UnderSteps
<1>6. CASE tree[n].kind = "source"
  <2>1. n \in FileKinds("source")
    BY <1>4, <1>6, KindsOfTypes
  <2>2. x \in Live(file, n)
    BY <1>1, <1>4, BelowInFile
  <2>3. n = x
    BY <2>1, <2>2 DEF FileScans
  <2>4. QED
    BY <1>4, <1>5, <1>6, <2>3, ScansAre
<1>7. CASE tree[n].kind # "source"
  <2>1. x # n
    BY <1>7, ScansAre
  <2>2. PICK k \in KidsOf(tree, n) : x \in Live(tree, k)
    <3>1. Live(tree, n) \subseteq {n} \cup UNION { Live(tree, k) : k \in KidsOf(tree, n) }
      BY <1>1, <1>4, LiveSplit
    <3>2. QED
      BY <1>4, <2>1, <3>1
  <2>3. k \in 1..(n - 1)
    BY <1>4, <2>2, <1>1 DEF Descending
  <2>4. k \in 1..Len(file) /\ ~(n <= k)
    BY <1>1, <1>4, <2>3
  <2>5. ReadPlan(file)[x].table \in UnderFcn(tree)[k]
    BY <1>3, <2>2, <2>4
  <2>6. QED
    BY <1>4, <1>5, <1>7, <2>2, <2>5
<1>8. QED
  BY <1>6, <1>7

\* All of them are below every node of the chain that is still there.
LEMMA ScansBelowChain ==
    ASSUME Pruned, NEW b, Starts(b), NEW n \in Live(tree, root), b < n
    PROVE  FileScans \subseteq Live(tree, n)
<1>. DEFINE S == { m \in Live(tree, root) : m <= b \/ FileScans \subseteq Live(tree, m) }
<1>1. /\ PlanFile(file) /\ Len(file) \in Nat /\ tree \in Seq(TreeNode) /\ Len(tree) = Len(file)
      /\ Descending(tree) /\ root \in 1..Len(tree) /\ b \in 1..Len(file)
      /\ TreeInv(tree, root, at) /\ Row(tree, b, at) /\ FileScans \subseteq Live(tree, root)
  BY FileTypes DEF Pruned, IsTree, Starts, ChainInv, TreeInv, Kept
<1>2. /\ root \in Live(tree, root) /\ Live(tree, root) \subseteq 1..root
      /\ \A m \in Live(tree, root) : KidsOf(tree, m) \subseteq Live(tree, root)
  BY <1>1, LiveClosed
<1>3. root \in S
  BY <1>1, <1>2
<1>4. ASSUME NEW m \in S, NEW k \in KidsOf(tree, m) PROVE k \in S
  <2>1. m \in 1..Len(tree) /\ k \in Live(tree, root) /\ m \in 1..Len(file)
    BY <1>1, <1>2
  <2>2. k \in 1..(m - 1)
    BY <1>1, <1>4, <2>1 DEF Descending
  <2>3. CASE m <= b
    BY <1>1, <2>1, <2>2, <2>3
  <2>4. CASE ~(m <= b)
    <3>1. m \in (b + 1)..Len(file) /\ FileScans \subseteq Live(tree, m)
      BY <1>1, <2>1, <2>4
    <3>2. KidsOf(tree, m) = {k}
      <4>1. Len(tree[m].kids) = 1
        BY <1>1, <3>1 DEF Row
      <4>2. QED
        BY <1>1, <1>4, <2>1, <4>1, KidsAre
    <3>3. Live(tree, m) \subseteq {m} \cup Live(tree, k)
      BY <1>1, <2>1, <3>2, LiveSplit
    <3>4. m \notin FileScans
      <4>1. file[m].type \in Moved \cup Gather \cup {"Limit"}
        BY <1>1, <3>1, ChainTypes
      <4>2. KindOf(file[m].type) # "source"
        BY <4>1 DEF KindOf, Moved, Sorts, Gather, Bitmap
      <4>3. QED
        BY <4>2, ScansAre
    <3>5. QED
      BY <2>1, <3>1, <3>3, <3>4
  <2>5. QED
    BY <2>3, <2>4
<1>5. Live(tree, root) \subseteq S
  <2>1. \A m \in S : KidsOf(tree, m) \subseteq S
    BY <1>4
  <2>. HIDE DEF S
  <2>2. QED
    BY <1>1, <1>3, <2>1, LiveLeast
<1>6. n \in 1..Len(file)
  BY <1>1, <1>2
<1>7. QED
  BY <1>1, <1>5, <1>6

\* So are their tables.
LEMMA TablesUnderChain ==
    ASSUME Pruned, NEW n \in 1..Len(file), FileScans \subseteq Live(tree, n)
    PROVE  ScannedTables \subseteq UnderFcn(tree)[n]
BY ScansUnder DEF ScannedTables

\* An aggregate that is nowhere below a Gather is one that the chain must have.
LEMMA AggIsDue ==
    ASSUME Pruned, NEW b, Starts(b), AggregatesAbove, Query.aggregations # <<>>
    PROVE  AggDue(b, at)
<1>1. /\ PlanFile(file) /\ Len(file) \in Nat /\ DOMAIN file = 1..Len(file) /\ b \in 1..Len(file)
      /\ Len(file) < at /\ at \in Nat
  BY FileTypes DEF Pruned, Starts
<1>2. PICK g \in FileKinds("agg") : ~UnderGather(g)
  BY DEF AggregatesAbove
<1>3. g \in 1..Len(file) /\ KindOf(file[g].type) = "agg"
  BY <1>1, <1>2 DEF FileKinds
<1>4. file[g].type = "Aggregate"
  BY <1>3 DEF KindOf, Sorts, Bitmap
<1>5. g \in (b + 1)..Len(file) /\ g < at
  <2>1. g \notin 1..b
    BY <1>3 DEF Starts, ChainFrom
  <2>2. QED
    BY <1>1, <1>3, <2>1
<1>6. \A h \in g..Len(file) : g \in Live(file, h)
  <2>. DEFINE Wrong == { h \in g..Len(file) : g \notin Live(file, h) }
  <2>1. SUFFICES ASSUME Wrong # {} PROVE FALSE
    OBVIOUS
  <2>2. PICK h \in Wrong : \A k \in Wrong : h <= k
    <3>1. Wrong \in SUBSET Nat
      BY <1>3
    <3>. HIDE DEF Wrong
    <3>2. QED
      BY <2>1, <3>1, LeastNat
  <2>3. h \in g..Len(file) /\ g \notin Live(file, h) /\ h \in 1..Len(file)
    BY <1>3, <2>2
  <2>4. h # g
    BY <1>1, <2>3, FileBelow
  <2>5. h \in (b + 1)..Len(file) /\ h - 1 \in g..Len(file) /\ ~(h <= h - 1)
    BY <1>1, <1>5, <2>3, <2>4
  <2>6. g \in Live(file, h - 1)
    BY <2>2, <2>5
  <2>7. KidsOf(file, h) = {h - 1}
    <3>1. file[h].kids = <<h - 1>>
      BY <2>5 DEF Starts, ChainFrom
    <3>2. QED
      BY <3>1 DEF KidsOf, ToSet
  <2>8. h - 1 \in Live(file, h)
    BY <1>1, <2>3, <2>7, FileBelow
  <2>9. Live(file, h - 1) \subseteq Live(file, h)
    BY <1>1, <2>3, <2>8, FileBelow
  <2>10. QED
    BY <2>3, <2>6, <2>9
<1>7. ASSUME NEW h \in (g + 1)..Len(file) PROVE file[h].type \notin Gather
  <2>1. h \in g..Len(file) /\ h \in DOMAIN file
    BY <1>1, <1>3
  <2>2. g \in Live(file, h)
    BY <1>6, <2>1
  <2>3. QED
    BY <1>2, <2>1, <2>2 DEF UnderGather
<1>8. QED
  BY <1>4, <1>5, <1>7 DEF AggDue

\* The top of the chain is below the root; a node of the chain that sorts is the top,
\* and where the query aggregates there is an aggregate below it.
LEMMA TopOfChain ==
    ASSUME Pruned, NEW b, Starts(b), AggregatesAbove
    PROVE  \E x \in Live(tree, root) :
             /\ \A m \in Live(tree, root) : tree[m].kind = "sort" => m = x
             /\ Query.aggregations # <<>> => AggBelow(tree, x)
<1>. DEFINE L == Len(file)
            x == TopOf(tree, root, at)
<1>1. /\ PlanFile(file) /\ L \in Nat /\ tree \in Seq(TreeNode) /\ Len(tree) = L
      /\ Descending(tree) /\ root \in 1..L /\ root \in 1..Len(tree) /\ Len(tree) \in Nat
      /\ b \in 1..L /\ b < at /\ ~(at <= L) /\ TreeInv(tree, root, at)
      /\ Row(tree, b, at) /\ Shape(tree, x, b, at) /\ L \in 1..L
      /\ file[L].type = "Limit" => root = L
  <2>1. /\ PlanFile(file) /\ L \in Nat /\ tree \in Seq(TreeNode) /\ Len(tree) = L
        /\ Descending(tree) /\ root \in 1..L /\ TreeInv(tree, root, at)
        /\ L < at /\ at \in Nat /\ b \in 1..L
    BY FileTypes DEF Pruned, IsTree, Starts
  <2>2. ChainInv(tree, root, at, b)
    BY DEF Pruned
  <2>3. b < at /\ ~(at <= L) /\ L \in 1..L
    BY <2>1
  <2>4. QED
    BY <2>1, <2>2, <2>3 DEF ChainInv
<1>2. /\ root \in Live(tree, root) /\ Live(tree, root) \subseteq 1..root
      /\ \A m \in Live(tree, root) : KidsOf(tree, m) \subseteq Live(tree, root)
  BY <1>1, LiveClosed
<1>3. /\ x \in Live(tree, root)
      /\ \A m \in Live(tree, root) : tree[m].kind = "sort" => m \in Live(tree, x)
  <2>1. CASE file[L].type # "Limit"
    <3>1. x = root
      BY <1>1, <2>1 DEF TopOf
    <3>2. QED
      BY <1>2, <3>1
  <2>2. CASE file[L].type = "Limit"
    <3>1. x = tree[L].kids[1] /\ root = L
      BY <1>1, <2>2 DEF TopOf
    <3>2. ~(L \in 1..b)
      BY <1>1, <2>2, ChainTypes
    <3>3. L \in (b + 1)..L
      BY <1>1, <3>2
    <3>4. KidsOf(tree, L) = {x}
      <4>1. Len(tree[L].kids) = 1
        BY <1>1, <3>3 DEF Row
      <4>2. QED
        BY <1>1, <3>1, <4>1, KidsAre
    <3>5. Live(tree, L) \subseteq {L} \cup Live(tree, x)
      BY <1>1, <3>4, LiveSplit
    <3>6. tree[L].kind # "sort"
      <4>1. file[L].type \notin Moved
        BY <2>2 DEF Moved, Sorts
      <4>2. tree[L].type = file[L].type /\ tree[L].kind = KindOf(tree[L].type)
        BY <1>1, <4>1, KindsOfTypes
      <4>3. QED
        BY <2>2, <4>2 DEF KindOf, Sorts, Bitmap
    <3>7. QED
      BY <1>2, <3>1, <3>4, <3>5, <3>6
  <2>3. QED
    BY <2>1, <2>2
<1>. HIDE DEF x
<1>4. \A m \in Live(tree, root) : m \in 1..L
  BY <1>1, <1>2
<1>5. ASSUME NEW m \in Live(tree, root), tree[m].kind = "sort" PROVE m = x
  <2>1. m \in 1..L /\ tree[m].type \in Sorts /\ m \in Live(tree, x)
    BY <1>3, <1>4, <1>5, KindsOfTypes
  <2>2. b < m
    <3>1. tree[m].type \in Moved
      BY <2>1 DEF Moved
    <3>2. m \notin 1..b
      BY <1>1, <3>1, ChainTypes
    <3>3. QED
      BY <1>1, <2>1, <3>2
  <2>3. tree[m].type # "Aggregate"
    BY <2>1 DEF Sorts
  <2>4. QED
    BY <1>1, <2>1, <2>2, <2>3 DEF Shape
<1>6. ASSUME Query.aggregations # <<>> PROVE AggBelow(tree, x)
  <2>1. PICK a \in Live(tree, x) : tree[a].type = "Aggregate"
    BY <1>1, <1>6, AggIsDue DEF Shape
  <2>2. x \in 1..Len(tree)
    BY <1>1, <1>3, <1>4
  <2>3. a \in 1..L
    <3>1. Live(tree, x) \subseteq 1..x
      BY <1>1, <2>2, LiveClosed
    <3>2. QED
      BY <1>1, <2>1, <2>2, <3>1
  <2>4. tree[a].kind = "agg"
    BY <2>1, <2>3, KindsOfTypes
  <2>5. QED
    BY <2>1, <2>4 DEF AggBelow
<1>7. QED
  BY <1>3, <1>5, <1>6

\* A filter is about its table, unless it is the half of a condition.
LEMMA FilterReads ==
    ASSUME sql \in SqlText, NEW table
    PROVE  /\ IsSeq(FiltersOf(table))
           /\ \A i \in 1..Len(FiltersOf(table)) :
                \/ FiltersOf(table)[i].op = "broken"
                \/ GetTableFromColumn(FiltersOf(table)[i].left) = table
<1>. DEFINE s == FiltersOf(table)
<1>1. IsSeq(sql.where) /\ \A i \in 1..Len(sql.where) : sql.where[i] \in Condition
  <2>1. sql.where \in Seq(Condition)
    BY DEF SqlText
  <2>2. QED
    BY <2>1, SeqIs, ElementOfSeq
<1>2. AreAbout(s, table)
  BY <1>1, ConditionsAre, FiltersAre
<1>. HIDE DEF s
<1>3. ASSUME NEW i \in 1..Len(s)
      PROVE  s[i].op = "broken" \/ GetTableFromColumn(s[i].left) = table
  <2>1. /\ { GetTableFromColumn(w) : w \in WordsOf(s[i]) } = {table}
        /\ IsPart(s[i])
    BY <1>1, <1>2, ConditionsAre DEF AreAbout
  <2>2. PICK j \in 1..Len(sql.where) : s[i] \in ToSet(SplitAtAnd(sql.where[j]))
    BY <2>1 DEF IsPart
  <2>. DEFINE c == sql.where[j]
              a == [c EXCEPT !.op = "broken"]
              z == [c EXCEPT !.op = "broken", !.left = ""]
  <2>3. c \in Condition
    BY <1>1
  <2>4. a.op = "broken" /\ z.op = "broken" /\ c.left # ""
    BY <2>3 DEF Condition
  <2>5. SplitAtAnd(c) = <<c>> \/ SplitAtAnd(c) = <<a, z>>
    BY DEF SplitAtAnd
  <2>. HIDE DEF c, a, z
  <2>6. s[i] \in {c, a, z}
    <3>1. ToSet(<<c>>) \subseteq {c} /\ ToSet(<<a, z>>) \subseteq {a, z}
      BY DEF ToSet
    <3>2. s[i] \in ToSet(SplitAtAnd(c))
      BY <2>2 DEF c
    <3>3. QED
      BY <2>5, <3>1, <3>2
  <2>7. CASE s[i] = c
    <3>1. s[i].left \in WordsOf(s[i])
      BY <2>4, <2>7 DEF WordsOf
    <3>2. QED
      BY <2>1, <3>1
  <2>8. QED
    BY <2>4, <2>6, <2>7
<1>4. QED
  BY <1>2, <1>3 DEF AreAbout, s

\* The tree with its new root: what is below the old one is as it was.
LEMMA CrownedLive ==
    ASSUME Pruned, NEW u, Crowned(u), Descending(u)
    PROVE  /\ \A k \in 1..Len(file) : Live(u, k) = Live(tree, k)
           /\ Live(u, Len(file) + 1) \subseteq {Len(file) + 1} \cup Live(tree, root)
           /\ Live(tree, root) \subseteq Live(u, Len(file) + 1)
           /\ Live(tree, root) \subseteq 1..Len(file)
<1>. DEFINE L == Len(file)
<1>1. /\ L \in Nat /\ Len(tree) = L /\ Len(u) = L + 1 /\ Len(u) \in Nat /\ Len(u) >= Len(tree)
      /\ Descending(tree) /\ root \in 1..L /\ KidsOf(u, L + 1) = {root} /\ L + 1 \in 1..Len(u)
      /\ root \in 1..Len(u)
  <2>1. /\ L \in Nat /\ Len(tree) = L /\ Descending(tree) /\ root \in 1..L
    BY FileTypes DEF Pruned, IsTree
  <2>2. Len(u) = L + 1 /\ KidsOf(u, L + 1) = {root}
    BY <2>1 DEF Crowned
  <2>. HIDE DEF L
  <2>3. QED
    BY <2>1, <2>2
<1>2. \A n \in 1..L : KidsOf(u, n) = KidsOf(tree, n)
  BY <1>1 DEF Crowned
<1>3. ASSUME NEW k \in 1..L PROVE Live(u, k) = Live(tree, k)
  <2>1. \A m \in 1..k : KidsOf(u, m) = KidsOf(tree, m)
    BY <1>1, <1>2
  <2>2. k \in 1..Len(tree)
    BY <1>1
  <2>3. QED
    BY <1>1, <2>1, <2>2, SameBelow
<1>4. Live(u, L + 1) \subseteq {L + 1} \cup Live(tree, root)
  <2>1. Live(u, L + 1) \subseteq {L + 1} \cup UNION { Live(u, k) : k \in KidsOf(u, L + 1) }
    BY <1>1, LiveSplit
  <2>2. QED
    BY <1>1, <1>3, <2>1
<1>5. Live(tree, root) \subseteq Live(u, L + 1)
  <2>1. root \in Live(u, L + 1)
    BY <1>1, LiveClosed
  <2>2. Live(u, root) \subseteq Live(u, L + 1)
    BY <1>1, <2>1, LiveBelow
  <2>3. QED
    BY <1>1, <1>3, <2>2
<1>6. Live(tree, root) \subseteq 1..L
  <2>1. root \in 1..Len(tree) /\ Len(tree) \in Nat
    BY <1>1
  <2>2. Live(tree, root) \subseteq 1..root
    BY <1>1, <2>1, LiveClosed
  <2>3. QED
    BY <1>1, <2>2
<1>7. QED
  BY <1>3, <1>4, <1>5, <1>6

\* A scan is ready to be turned into a plan.
LEMMA ScanIsReady ==
    ASSUME Pruned, sql \in SqlText, JoinsFirst, NEW u, Crowned(u), Descending(u),
           NEW n \in Live(tree, root), tree[n].kind = "source", PlainType(tree, n)
    PROVE  ScanReady(u, n)
<1>1. PICK b : Starts(b)
  BY FileTypes DEF Pruned, JoinsFirst, Starts
<1>2. /\ n \in 1..Len(file) /\ Live(u, n) = Live(tree, n)
      /\ Live(tree, root) \subseteq 1..Len(file)
  BY CrownedLive
<1>3. /\ PlanFile(file) /\ Len(file) \in Nat /\ Len(tree) = Len(file) /\ Descending(tree)
      /\ TreeInv(tree, root, at) /\ n \in 1..Len(tree) /\ b \in 1..Len(file)
  BY <1>1, <1>2, FileTypes DEF Pruned, IsTree, Starts
<1>4. /\ u[n].table = tree[n].table /\ u[n].conds = FiltersOf(tree[n].table)
      /\ \A a \in 1..Len(file) : u[a].kind = tree[a].kind
  BY <1>2, <1>3 DEF Crowned, Reachable
<1>5. tree[n].type \in ReadsTable
  BY <1>2, KindsOfTypes DEF PlainType
<1>6. HasTable(u[n])
  <2>1. NodeNamed(tree[n])
    BY <1>3 DEF Pruned, TreeNamed
  <2>2. QED
    BY <1>4, <1>5, <2>1 DEF NodeNamed, HasTable
<1>7. n <= b
  <2>1. ~(n \in (b + 1)..Len(file))
    <3>1. \A x \in Moved \cup Gather \cup {"Limit"} : x \notin ReadsTable
      BY DEF Moved, Sorts, Gather, ReadsTable
    <3>2. QED
      BY <1>1, <1>3, <1>5, <3>1, ChainTypes
  <2>2. QED
    BY <1>2, <1>3, <2>1
<1>8. ~AggBelow(u, n)
  <2>. SUFFICES ASSUME NEW a \in Live(u, n), u[a].kind = "agg" PROVE FALSE
    BY DEF AggBelow
  <2>1. a \in 1..n
    BY <1>2, <1>3, LiveClosed
  <2>2. a \in 1..Len(file) /\ a \in 1..b
    BY <1>2, <1>3, <1>7, <2>1
  <2>3. tree[a].type \in Moved
    BY <1>3, <1>4, <2>2 DEF TreeInv
  <2>4. QED
    BY <1>1, <1>3, <2>2, <2>3, ChainTypes
<1>9. QED
  BY <1>4, <1>6, <1>8, FilterReads DEF ScanReady

\* Below a node that is no scan and makes no bitmap there is none that does.
LEMMA KidsArePlain ==
    ASSUME Pruned, NEW n \in 1..Len(file), tree[n].kind # "source", PlainType(tree, n),
           NEW k \in KidsOf(tree, n)
    PROVE  k \in 1..Len(file) /\ PlainType(tree, k)
<1>1. /\ Len(tree) = Len(file) /\ Descending(tree) /\ TreeNamed(tree, at) /\ n < at
      /\ Len(file) \in Nat
  BY FileTypes DEF Pruned, IsTree
<1>2. tree[n].type # "Bitmap Heap Scan"
  BY <1>1 DEF TreeNamed, HeapDone
<1>3. tree[n].type \notin Bitmap \cup MakesBitmap
  BY <1>2 DEF Bitmap, MakesBitmap, PlainType
<1>4. k \in 1..(n - 1)
  BY <1>1 DEF Descending
<1>5. k \in 1..Len(file)
  BY <1>1, <1>4
<1>6. tree[k].type \notin MakesBitmap
  BY <1>1, <1>3 DEF TreeNamed
<1>7. QED
  BY <1>5, <1>6 DEF PlainType

\* Every node of the tree that enrichTree makes is.
LEMMA TreeIsReady ==
    ASSUME Pruned, Prepared, ~NoAggregation, NEW u, EnrichedTree(u, Len(tree) + 1), Crowned(u)
    PROVE  ReadyTree(u, Len(tree) + 1)
<1>. DEFINE L == Len(file)
<1>1. /\ L \in Nat /\ DOMAIN file = 1..L /\ Len(tree) = L /\ Descending(u) /\ Descending(tree)
      /\ root \in 1..L /\ root \in 1..Len(tree)
      /\ FileScans \subseteq Live(tree, root) /\ root \in Live(tree, root) /\ IsSeq(u)
      /\ Len(u) = L + 1 /\ L + 1 \in 1..Len(u) /\ L + 1 \notin 1..L
  <2>1. /\ L \in Nat /\ DOMAIN file = 1..L /\ Len(tree) = L /\ Descending(u) /\ Descending(tree)
        /\ root \in 1..L /\ FileScans \subseteq Live(tree, root) /\ IsSeq(u) /\ Len(u) = L + 1
    BY FileTypes DEF Pruned, IsTree, EnrichedTree, Crowned, TreeInv, Kept
  <2>2. root \in 1..Len(tree) /\ L + 1 \in 1..Len(u) /\ L + 1 \notin 1..L
    BY <2>1
  <2>3. root \in Live(tree, root)
    BY <2>1, <2>2, LiveClosed
  <2>4. QED
    BY <2>1, <2>2, <2>3
<1>2. PICK b : Starts(b)
  BY <1>1 DEF Prepared, JoinsFirst, Starts
<1>3. /\ \A n \in 1..L :
           /\ KidsOf(u, n) = KidsOf(tree, n) /\ u[n].kind = tree[n].kind
           /\ u[n].type = tree[n].type /\ UnderFcn(u)[n] = UnderFcn(tree)[n]
      /\ KidsOf(u, L + 1) = {root} /\ u[L + 1].kind = "result" /\ u[L + 1].type = ""
  BY <1>1 DEF Crowned
<1>4. /\ \A k \in 1..L : Live(u, k) = Live(tree, k)
      /\ Live(u, L + 1) \subseteq {L + 1} \cup Live(tree, root)
      /\ Live(tree, root) \subseteq Live(u, L + 1) /\ Live(tree, root) \subseteq 1..L
  BY <1>1, CrownedLive
<1>5. UnderFcn(u)[L + 1] = UnderFcn(tree)[root]
  <2>1. u[L + 1].kind # "source"
    BY <1>3
  <2>2. UnderFcn(u)[L + 1] = IF u[L + 1].kind = "source" THEN {u[L + 1].table}
                             ELSE UNION { UnderFcn(u)[k] : k \in KidsOf(u, L + 1) }
    BY <1>1, UnderSteps
  <2>3. UnderFcn(u)[L + 1] = UNION { UnderFcn(u)[k] : k \in {root} }
    BY <1>3, <2>1, <2>2
  <2>4. UNION { UnderFcn(u)[k] : k \in {root} } = UnderFcn(u)[root]
    OBVIOUS
  <2>5. QED
    BY <1>1, <1>3, <2>3, <2>4
<1>6. \A n \in 1..L : AggBelow(tree, n) => AggBelow(u, n)
  <2>. TAKE n \in 1..L
  <2>1. Live(tree, n) \subseteq 1..L
    <3>1. n \in 1..Len(tree) /\ Len(tree) \in Nat
      BY <1>1
    <3>2. Live(tree, n) \subseteq 1..n
      BY <1>1, <3>1, LiveClosed
    <3>3. QED
      BY <1>1, <3>2
  <2>2. QED
    BY <1>3, <1>4, <2>1 DEF AggBelow
<1>7. PICK x \in Live(tree, root) :
        /\ \A m \in Live(tree, root) : tree[m].kind = "sort" => m = x
        /\ Query.aggregations # <<>> => AggBelow(tree, x)
  BY <1>2, TopOfChain DEF Prepared
<1>8. PlainType(u, L + 1) /\ \A n \in 1..L : PlainType(u, n) <=> PlainType(tree, n)
  BY <1>3 DEF PlainType, MakesBitmap
<1>9. ASSUME NEW n \in Live(tree, root), tree[n].kind \in {"agg", "sort"}
      PROVE  ScannedTables \subseteq UnderFcn(u)[n]
  <2>1. n \in 1..L /\ tree[n].type \in Moved
    BY <1>4, <1>9 DEF Pruned, TreeInv
  <2>2. b < n
    <3>1. n \notin 1..b
      BY <1>2, <2>1, ChainTypes DEF Pruned
    <3>2. QED
      BY <1>1, <1>2, <2>1, <3>1 DEF Starts
  <2>3. FileScans \subseteq Live(tree, n)
    BY <1>2, <2>2, ScansBelowChain
  <2>4. QED
    BY <1>3, <2>1, <2>3, TablesUnderChain
<1>10. ASSUME NEW n \in Live(tree, root) PROVE NodeReady(u, L + 1, n)
  <2>1. n \in 1..L /\ n # L + 1
    BY <1>1, <1>4
  <2>2. u[n].kind = "source" /\ PlainType(u, n) => ScanReady(u, n)
    BY <1>1, <1>3, <1>8, <2>1, ScanIsReady DEF Prepared
  <2>3. u[n].kind # "source" /\ PlainType(u, n) => \A k \in KidsOf(u, n) : PlainType(u, k)
    BY <1>3, <1>8, <2>1, KidsArePlain
  <2>4. u[n].kind = "agg" => ScannedTables \subseteq UnderFcn(u)[n] /\ Query.aggregations # <<>>
    BY <1>3, <1>9, <2>1 DEF NoAggregation, Reachable
  <2>5. u[n].kind = "sort" => NodeServed(u, n)
    BY <1>3, <1>6, <1>7, <1>9, <2>1 DEF NodeServed
  <2>6. QED
    BY <2>1, <2>2, <2>3, <2>4, <2>5 DEF NodeReady
<1>11. NodeReady(u, L + 1, L + 1)
  <2>1. PlainType(u, root)
    BY <1>1, <1>8 DEF Pruned
  <2>2. ScannedTables \subseteq UnderFcn(u)[L + 1]
    BY <1>1, <1>5, TablesUnderChain
  <2>3. Query.aggregations # <<>> => AggBelow(u, L + 1)
    <3>1. AggBelow(u, x) => AggBelow(u, L + 1)
      <4>1. x \in Live(u, L + 1) /\ Len(u) \in Nat
        BY <1>1, <1>4
      <4>2. Live(u, x) \subseteq Live(u, L + 1)
        BY <1>1, <4>1, LiveBelow
      <4>3. QED
        BY <4>2 DEF AggBelow
    <3>2. QED
      BY <1>4, <1>6, <1>7, <3>1
  <2>4. QED
    BY <1>3, <2>1, <2>2, <2>3 DEF NodeReady, NodeServed
<1>12. \A n \in Live(u, L + 1) : NodeReady(u, L + 1, n)
  BY <1>4, <1>10, <1>11
<1>13. QED
  BY <1>1, <1>8, <1>12 DEF ReadyTree

-----------------------------------------------------------------------------
(* Every column exists.                                                    *)

\* What holds of the plan between abstractToIr and ensureCorrectColumnSetup.
PlanIsSound == \E T, W : SoundPlan(plan, T, W)

\* The inductive invariant: each phase of a query with regular names hands the next
\* one what it needs.
ResolveInv ==
    /\ sql \in SqlText /\ JoinInv /\ ChainsInv
    /\ Prepared /\ phase = "ir" => ReadyTree(tree, root)
    /\ Prepared /\ phase = "columns" => PlanIsSound
    /\ phase = "done" => ColumnsResolve

\* The file and the query, and with them all that is asked of them, stay.
LEMMA InputsStay ==
    ASSUME [Next]_vars
    PROVE  sql' = sql /\ file' = file
BY DEF Next, PruneHash, PruneGather, PruneOther, PruneReturns, Enrich, AbstractToIr,
       EnsureCorrectColumnSetup, vars

LEMMA PreparedStays ==
    ASSUME [Next]_vars
    PROVE  /\ Prepared' <=> Prepared
           /\ (RegularNames' <=> RegularNames) /\ (RegularTypes' <=> RegularTypes)
           /\ (AggregatesAbove' <=> AggregatesAbove) /\ (JoinsFirst' <=> JoinsFirst)
           /\ (TablesScanned' <=> TablesScanned)
<1>1. sql' = sql /\ file' = file
  BY InputsStay
<1>2. Query' = Query
  BY <1>1 DEF Query
<1>3. RegularNames' <=> RegularNames
  <2>1. SelectTexts' = SelectTexts /\ SortTexts' = SortTexts
    BY <1>1, <1>2 DEF SelectTexts, SortTexts, Unaliased
  <2>2. QED
    BY <1>1, <1>2, <2>1 DEF RegularNames
<1>4. RegularTypes' <=> RegularTypes
  BY <1>2 DEF RegularTypes
<1>5. AggregatesAbove' <=> AggregatesAbove
  BY <1>1, <1>2 DEF AggregatesAbove, FileKinds, UnderGather
<1>6. JoinsFirst' <=> JoinsFirst
  BY <1>1 DEF JoinsFirst, ChainFrom
<1>7. TablesScanned' <=> TablesScanned
  <2>1. SelectTexts' = SelectTexts /\ SortTexts' = SortTexts
    BY <1>1, <1>2 DEF SelectTexts, SortTexts, Unaliased
  <2>2. ScannedTables' = ScannedTables
    BY <1>1 DEF ScannedTables, FileScans, FileKinds
  <2>3. QED
    BY <1>1, <2>1, <2>2 DEF TablesScanned
<1>8. QED
  BY <1>1, <1>3, <1>4, <1>5, <1>6, <1>7 DEF Prepared

LEMMA ResolveInvInit ==
    ASSUME Init PROVE ResolveInv
<1>1. sql \in SqlText /\ phase = "prune"
  BY InputsAssumption DEF Init, Start
<1>2. QED
  BY <1>1, JoinInvInit, ChainsInvInit DEF ResolveInv

\* enrichTree makes a tree that is ready.
LEMMA EnrichReadies ==
    ASSUME ResolveInv, Prepared, Enrich, phase' = "ir"
    PROVE  ReadyTree(tree', root')
<1>1. Pruned /\ ~NoAggregation
  BY AfterPruning DEF ResolveInv, JoinInv, Enrich
<1>2. EnrichedTree(tree', Len(tree) + 1) /\ Crowned(tree') /\ root' = Len(tree) + 1
  BY EnrichKeeps DEF ResolveInv
<1>3. QED
  BY <1>1, <1>2, TreeIsReady

\* abstractToIr makes a plan that is sound.
LEMMA ToIrSound ==
    ASSUME ResolveInv, Prepared, AbstractToIr, phase' = "columns"
    PROVE  \E T, W : SoundPlan(plan', T, W)
<1>1. ReadyTree(tree, root) /\ plan' = PlanOfTree /\ \A n \in Live(tree, root) : ~Throws(n)
  BY DEF ResolveInv, AbstractToIr
<1>2. SoundPlan(PlanOfTree, UnderFcn(tree)[root], Hands(tree, root))
  BY <1>1, TreeSound
<1>3. QED
  BY <1>1, <1>2

LEMMA ResolveInvStep ==
    ASSUME ResolveInv, [Next]_vars
    PROVE  ResolveInv'
<1>1. /\ (sql \in SqlText)' /\ JoinInv' /\ ChainsInv' /\ (Prepared' <=> Prepared)
      /\ sql' = sql /\ file' = file
  BY InputsStay, PreparedStays, JoinInvStep, ChainsInvStep DEF ResolveInv, JoinInv
<1>2. CASE PruneHash \/ PruneGather \/ PruneOther
  <2>1. phase' \in {"prune", "enrich"}
    BY <1>2 DEF PruneHash, PruneGather, PruneOther, PruneReturns
  <2>2. QED
    BY <1>1, <2>1 DEF ResolveInv
<1>3. CASE Enrich
  <2>1. phase' \in {"ir", "crashed"}
    BY <1>3 DEF Enrich
  <2>2. ASSUME Prepared, phase' = "ir" PROVE ReadyTree(tree, root)'
    <3>1. ReadyTree(tree', root')
      BY <1>3, <2>2, EnrichReadies
    <3>2. Query' = Query /\ ScannedTables' = ScannedTables
      BY <1>1 DEF Query, ScannedTables, FileScans, FileKinds
    <3>3. QED
      BY <3>1, <3>2 DEF ReadyTree, EnrichedTree, JoinFits, PlainType, NodeReady, ScanReady,
                        NodeServed, AggBelow
  <2>3. QED
    BY <1>1, <2>1, <2>2 DEF ResolveInv
<1>4. CASE AbstractToIr
  <2>1. phase' \in {"columns", "threw"}
    BY <1>4 DEF AbstractToIr
  <2>2. ASSUME Prepared, phase' = "columns" PROVE PlanIsSound'
    <3>1. \E T, W : SoundPlan(plan', T, W)
      BY <1>4, <2>2, ToIrSound
    <3>2. Query' = Query
      BY <1>1 DEF Query
    <3>3. \A c : Stays(c)' <=> Stays(c)
      BY <3>2 DEF Stays, ApplyAlias
    <3>4. \A T, W : SoundPlan(plan, T, W)' <=> SoundPlan(plan', T, W)
      BY <3>3 DEF SoundPlan, Sound
    <3>5. QED
      BY <3>1, <3>4 DEF PlanIsSound
  <2>3. QED
    BY <1>1, <2>1, <2>2 DEF ResolveInv
<1>5. CASE EnsureCorrectColumnSetup
  <2>1. phase = "columns" /\ phase' = "done"
    BY <1>5 DEF EnsureCorrectColumnSetup
  <2>2. ColumnsResolve'
    <3>1. CASE Prepared
      <4>1. PICK T, W : SoundPlan(plan, T, W)
        BY <2>1, <3>1 DEF ResolveInv, PlanIsSound
      <4>2. QED
        BY <1>5, <4>1, SetupResolves
    <3>2. CASE ~Prepared
      <4>1. ~Prepared' /\ (sql \in SqlText)'
        BY <1>1, <3>2
      <4>2. QED
        BY <4>1 DEF Prepared, ColumnsResolve
    <3>3. QED
      BY <3>1, <3>2
  <2>3. QED
    BY <1>1, <2>1, <2>2 DEF ResolveInv
<1>6. CASE UNCHANGED vars
  <2>1. UNCHANGED <<file, sql, phase, at, tree, root, plan>>
    BY <1>6 DEF vars
  <2>2. /\ ReadyTree(tree, root)' <=> ReadyTree(tree, root)
        /\ PlanIsSound' <=> PlanIsSound
        /\ ColumnsResolve' <=> ColumnsResolve
    <3>1. Query' = Query /\ ScannedTables' = ScannedTables
      BY <1>1 DEF Query, ScannedTables, FileScans, FileKinds
    <3>2. ReadyTree(tree, root)' <=> ReadyTree(tree, root)
      BY <2>1, <3>1 DEF ReadyTree, EnrichedTree, JoinFits, PlainType, NodeReady, ScanReady,
                        NodeServed, AggBelow
    <3>3. \A c : Stays(c)' <=> Stays(c)
      BY <3>1 DEF Stays, ApplyAlias
    <3>4. PlanIsSound' <=> PlanIsSound
      BY <2>1, <3>3 DEF PlanIsSound, SoundPlan, Sound
    <3>5. ColumnsResolve' <=> ColumnsResolve
      BY <2>1, PreparedStays DEF ColumnsResolve, HasColumns
    <3>6. QED
      BY <3>2, <3>4, <3>5
  <2>3. QED
    BY <1>1, <2>1, <2>2 DEF ResolveInv
<1>7. QED
  BY <1>2, <1>3, <1>4, <1>5, <1>6 DEF Next

\* For every plan that PostgreSQL makes of a query and every query with regular names:
\* all columns that the plan for the optimizer names exist, as a column of a table
\* scanned below or as one that an operator below writes.
THEOREM ColumnsAreThere == Spec => []ColumnsResolve
<1>1. Init => ResolveInv
  BY ResolveInvInit
<1>2. ResolveInv /\ [Next]_vars => ResolveInv'
  BY ResolveInvStep
<1>3. ResolveInv => ColumnsResolve
  BY DEF ResolveInv, ColumnsResolve
<1>4. QED
  BY <1>1, <1>2, <1>3, PTL DEF Spec

=============================================================================
