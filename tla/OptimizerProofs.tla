-------------------------- MODULE OptimizerProofs --------------------------
(***************************************************************************)
(* Proofs about the two walks over an optimizer's plan: the rewritings of  *)
(* Optimizer, for any queries and options, and Sequentializer, for every   *)
(* set of nodes and every acyclic plan over them, shared nodes and null    *)
(* children included.                                                      *)
(***************************************************************************)
EXTENDS Sequentializer, Rewritings, SequenceTheorems,
        FiniteSetTheorems, WellFoundedInduction, TLAPS

-----------------------------------------------------------------------------
(* The walk of Sequentializer: its invariant.                             *)

\* The frames on the call stack belong to ever lower nodes.
StackDescends ==
    \A i, j \in 1..Len(stack) : i < j => Rank[stack[j]] < Rank[stack[i]]

\* A visited node is listed or still on the call stack, never both.
VisitedSplit ==
    /\ visited = Elements(post_order_list) \cup Elements(stack)
    /\ Elements(post_order_list) \cap Elements(stack) = {}

\* The children a frame's loop has passed have been visited.
PassedVisited ==
    \A n \in visited : \A k \in 1..Len(children[n]) :
        k < next[n] /\ children[n][k] # Null => children[n][k] \in visited

\* The loop of a node that was never entered has not begun.
UnvisitedFresh == \A n \in Nodes \ visited : next[n] = 1

\* The outermost frame is the root's; the root is listed last.
RootOutermost ==
    /\ root = Null => visited = {}
    /\ root # Null => root \in visited
    /\ stack # <<>> => stack[1] = root
    /\ stack = <<>> /\ root # Null => post_order_list[Len(post_order_list)] = root

OnlyReachable == root # Null => visited \subseteq Reachable

WalkInv ==
    /\ TypeOK
    /\ StackDescends
    /\ VisitedSplit
    /\ PassedVisited
    /\ UnvisitedFresh
    /\ RootOutermost
    /\ OnlyReachable
    /\ ListedOnce
    /\ ChildrenFirst

-----------------------------------------------------------------------------
(* Lemmas.                                                                 *)

\* Elements of a sequence after an append.
LEMMA ElementsAppend ==
    ASSUME NEW S, NEW s \in Seq(S), NEW e \in S
    PROVE  Elements(Append(s, e)) = Elements(s) \cup {e}
<1>1. /\ Len(Append(s, e)) = Len(s) + 1
      /\ \A i \in 1..Len(s) : Append(s, e)[i] = s[i]
      /\ Append(s, e)[Len(s) + 1] = e
  BY AppendProperties
<1>2. Len(s) \in Nat
  BY LenProperties
<1>3. 1..(Len(s) + 1) = 1..Len(s) \cup {Len(s) + 1}
  BY <1>2
<1>4. QED
  BY <1>1, <1>2, <1>3 DEF Elements

\* The arithmetic of dropping the last of k elements.
LEMMA DropLastArithmetic ==
    ASSUME NEW k \in Nat, k >= 1
    PROVE  /\ k - 1 - 1 + 1 = k - 1
           /\ \A i \in 1..(k - 1) : 1 + i - 1 = i
           /\ k - 1 = IF 1 <= k - 1 THEN k - 1 - 1 + 1 ELSE 0
           /\ k = 1 \/ k > 1
OBVIOUS

\* What a plan's child lists look like.
LEMMA PlanFacts ==
    ASSUME TypeOK, NEW n \in Nodes
    PROVE  /\ children[n] \in Seq(Nodes \cup {Null})
           /\ Len(children[n]) \in Nat
           /\ \A k \in 1..Len(children[n]) :
                /\ children[n][k] \in Nodes \cup {Null}
                /\ children[n][k] # Null => Rank[children[n][k]] < Rank[n]
<1>1. children \in [Nodes -> Seq(Nodes \cup {Null})]
  BY PlansType DEF TypeOK
<1>2. children[n] \in Seq(Nodes \cup {Null})
  BY <1>1
<1>3. Len(children[n]) \in Nat
  BY <1>2, LenProperties
<1>4. \A k \in 1..Len(children[n]) : children[n][k] \in Nodes \cup {Null}
  BY <1>2, ElementOfSeq
<1>5. QED
  BY <1>2, <1>3, <1>4, PlansAcyclic DEF TypeOK

\* The innermost frame is a visited, unlisted node.
LEMMA InnermostFacts ==
    ASSUME WalkInv, stack # <<>>
    PROVE  /\ Len(stack) \in Nat /\ Len(stack) >= 1
           /\ Len(stack) \in 1..Len(stack)
           /\ Innermost \in Nodes
           /\ Innermost \in visited
           /\ Innermost \in Elements(stack)
           /\ Innermost \notin Elements(post_order_list)
<1>. USE DEF WalkInv
<1>1. Len(stack) \in Nat /\ Len(stack) >= 1
  BY EmptySeq, LenProperties DEF TypeOK
<1>2. Innermost \in Nodes
  BY <1>1, ElementOfSeq DEF TypeOK, Innermost
<1>3. Innermost \in Elements(stack)
  BY <1>1 DEF Elements, Innermost
<1>4. QED
  BY <1>1, <1>2, <1>3 DEF VisitedSplit

\* No other frame is as low as the innermost one.
LEMMA InnermostLowest ==
    ASSUME WalkInv, stack # <<>>, NEW m \in Elements(stack), m # Innermost
    PROVE  Rank[Innermost] < Rank[m]
<1>1. PICK i \in 1..Len(stack) : m = stack[i]
  BY DEF Elements
<1>2. Len(stack) \in Nat /\ Len(stack) \in 1..Len(stack)
  BY InnermostFacts
<1>3. i < Len(stack)
  BY <1>1, <1>2 DEF Innermost
<1>4. QED
  BY <1>1, <1>2, <1>3 DEF WalkInv, StackDescends, Innermost

\* A visited child of the innermost frame has been listed: were it still on
\* the stack it would be higher than its parent.
LEMMA VisitedChildListed ==
    ASSUME WalkInv, stack # <<>>,
           NEW k \in 1..Len(children[Innermost]),
           children[Innermost][k] \in visited
    PROVE  children[Innermost][k] \in Elements(post_order_list)
<1>. DEFINE c == children[Innermost][k]
<1>1. Innermost \in Nodes /\ TypeOK
  BY InnermostFacts DEF WalkInv
<1>2. c # Null /\ c \in Nodes
  BY NullIsNoNode DEF WalkInv, TypeOK
<1>3. Rank[c] < Rank[Innermost]
  BY <1>1, <1>2, PlanFacts
<1>4. Rank[c] \in Nat /\ Rank[Innermost] \in Nat
  BY <1>1, <1>2, RankType
<1>5. c \notin Elements(stack)
  BY <1>3, <1>4, InnermostLowest
<1>6. QED
  BY <1>5 DEF WalkInv, VisitedSplit

\* Steps inside a frame's loop leave what is said of the list alone.
LEMMA ListUntouched ==
    ASSUME UNCHANGED <<children, root, stack, visited, post_order_list>>
    PROVE  /\ ListedOnce => ListedOnce'
           /\ ChildrenFirst => ChildrenFirst'
           /\ StackDescends => StackDescends'
           /\ VisitedSplit => VisitedSplit'
           /\ RootOutermost => RootOutermost'
           /\ OnlyReachable => OnlyReachable'
BY DEF ListedOnce, ChildrenFirst, StackDescends, VisitedSplit, RootOutermost,
       OnlyReachable, Reachable, ChildrenOf, Elements

\* Only a return changes what is said of the list's order.
LEMMA OrderUntouched ==
    ASSUME UNCHANGED <<children, post_order_list>>
    PROVE  /\ ListedOnce => ListedOnce'
           /\ ChildrenFirst => ChildrenFirst'
<1>1. ListedOnce => ListedOnce'
  BY DEF ListedOnce
<1>2. \A n : ChildrenOf(n)' = ChildrenOf(n)
  BY DEF ChildrenOf, Elements
<1>3. QED
  BY <1>1, <1>2 DEF ChildrenFirst

\* The plan, hence what is reachable in it, never changes.
LEMMA ReachableUntouched ==
    ASSUME UNCHANGED <<children, root>>
    PROVE  Reachable' = Reachable
BY DEF Reachable, ChildrenOf, Elements

-----------------------------------------------------------------------------
(* The invariant is inductive.                                             *)

\* The call on the root establishes the invariant.
LEMMA InitInv == Init => WalkInv
<1>. SUFFICES ASSUME Init PROVE WalkInv
  OBVIOUS
<1>. USE NullIsNoNode DEF Init
<1>1. /\ stack \in Seq(Nodes)
      /\ Len(stack) = IF root = Null THEN 0 ELSE 1
      /\ root # Null => root \in Nodes /\ stack[1] = root
  BY EmptySeq
<1>2. TypeOK
  BY <1>1, EmptySeq DEF TypeOK
<1>3. StackDescends /\ ListedOnce /\ ChildrenFirst
  BY <1>1 DEF StackDescends, ListedOnce, ChildrenFirst
<1>4. VisitedSplit
  BY <1>1 DEF VisitedSplit, Elements
<1>5. PassedVisited /\ UnvisitedFresh
  BY DEF PassedVisited, UnvisitedFresh
<1>6. RootOutermost
  BY <1>1 DEF RootOutermost
<1>7. OnlyReachable
  BY <1>1 DEF OnlyReachable, Reachable
<1>8. QED
  BY <1>2, <1>3, <1>4, <1>5, <1>6, <1>7 DEF WalkInv

\* Passing over a null or visited child preserves the invariant.
LEMMA SkipInv == ASSUME WalkInv, Skip PROVE WalkInv'
<1>. DEFINE n == Innermost
            k == next[n]
<1>1. PICK c \in visited \cup {Null} : AtChild(c)
  BY DEF Skip
<1>2. /\ stack # <<>>
      /\ k <= Len(children[n])
      /\ c = children[n][k]
  BY <1>1 DEF AtChild
<1>3. /\ n \in Nodes /\ n \in visited
      /\ next \in [Nodes -> Nat \ {0}]
      /\ next' = [next EXCEPT ![n] = k + 1]
  BY <1>2, InnermostFacts DEF WalkInv, TypeOK, Skip, Advance
<1>. USE DEF WalkInv, Skip, input
<1>4. TypeOK'
  BY <1>3 DEF TypeOK
<1>5. StackDescends' /\ VisitedSplit' /\ ListedOnce'
  BY ListUntouched
<1>6. ChildrenFirst' /\ RootOutermost' /\ OnlyReachable'
  BY ListUntouched
<1>7. PassedVisited'
  <2>1. SUFFICES ASSUME NEW m \in visited,
                        NEW i \in 1..Len(children[m]),
                        i < next'[m], children[m][i] # Null
                 PROVE  children[m][i] \in visited
    BY DEF PassedVisited
  <2>2. CASE m = n
    <3>1. Len(children[m]) \in Nat /\ k \in Nat /\ next'[m] = k + 1
      BY <1>3, <2>2, PlanFacts
    <3>2. i < k \/ i = k
      BY <2>1, <3>1
    <3>3. QED
      BY <1>1, <1>2, <2>1, <2>2, <3>2 DEF PassedVisited
  <2>3. CASE m # n
    <3>1. m \in Nodes /\ next'[m] = next[m]
      BY <1>3, <2>1, <2>3 DEF TypeOK
    <3>2. QED
      BY <2>1, <3>1 DEF PassedVisited
  <2>4. QED
    BY <2>2, <2>3
<1>8. UnvisitedFresh'
  <2>1. \A m \in Nodes \ visited : next'[m] = next[m]
    BY <1>3
  <2>2. QED
    BY <2>1 DEF UnvisitedFresh
<1>9. QED
  BY <1>4, <1>5, <1>6, <1>7, <1>8

\* A null pointer that is followed leaves the list as it is.
LEMMA FollowNullInv == ASSUME WalkInv, FollowNull PROVE WalkInv'
<1>1. UNCHANGED <<children, root, stack, visited, next, post_order_list>>
  BY DEF FollowNull, input
<1>2. TypeOK' /\ PassedVisited' /\ UnvisitedFresh'
  BY <1>1 DEF FollowNull, input, WalkInv, TypeOK, PassedVisited, UnvisitedFresh
<1>3. QED
  BY <1>1, <1>2, ListUntouched DEF WalkInv

\* The recursive call preserves the invariant: the child is below every frame.
LEMMA DescendInv == ASSUME WalkInv, NEW c \in Nodes, Descend(c) PROVE WalkInv'
<1>. DEFINE n == Innermost
            k == next[n]
<1>1. /\ stack # <<>>
      /\ k <= Len(children[n])
      /\ c = children[n][k]
      /\ c \notin visited
  BY DEF Descend, AtChild
<1>2. /\ n \in Nodes /\ n \in visited
      /\ next \in [Nodes -> Nat \ {0}]
      /\ next' = [next EXCEPT ![n] = k + 1]
      /\ k \in 1..Len(children[n])
  <2>1. n \in Nodes /\ n \in visited
    BY <1>1, InnermostFacts
  <2>2. next \in [Nodes -> Nat \ {0}]
    BY DEF WalkInv, TypeOK
  <2>3. Len(children[n]) \in Nat
    BY <2>1, PlanFacts DEF WalkInv
  <2>4. QED
    BY <1>1, <2>1, <2>2, <2>3 DEF Descend, Advance
<1>3. Rank[c] < Rank[n] /\ Rank[c] \in Nat /\ Rank[n] \in Nat
  BY <1>1, <1>2, PlanFacts, NullIsNoNode, RankType DEF WalkInv
<1>4. c # n
  BY <1>3
<1>5. /\ stack' \in Seq(Nodes)
      /\ Len(stack') = Len(stack) + 1
      /\ Len(stack) \in Nat /\ Len(stack) >= 1
      /\ \A i \in 1..Len(stack) : stack'[i] = stack[i]
      /\ stack'[Len(stack) + 1] = c
  BY <1>1, AppendProperties, InnermostFacts DEF WalkInv, TypeOK, Descend
<1>6. Elements(stack') = Elements(stack) \cup {c}
  BY ElementsAppend DEF WalkInv, TypeOK, Descend
<1>. USE DEF WalkInv, Descend, input
<1>7. TypeOK'
  BY <1>2, <1>5 DEF TypeOK
<1>8. StackDescends'
  <2>1. \A m \in Elements(stack) : Rank[c] < Rank[m]
    <3>1. SUFFICES ASSUME NEW m \in Elements(stack), m # n
                   PROVE  Rank[c] < Rank[m]
      BY <1>3
    <3>2. m \in Nodes
      BY DEF VisitedSplit, TypeOK
    <3>3. Rank[n] < Rank[m] /\ Rank[m] \in Nat
      BY <1>1, <3>1, <3>2, InnermostLowest, RankType
    <3>4. QED
      BY <1>3, <3>3
  <2>2. \A i \in 1..Len(stack) : Rank[c] < Rank[stack[i]]
    BY <2>1 DEF Elements
  <2>3. QED
    BY <1>5, <2>2 DEF StackDescends
<1>9. VisitedSplit'
  <2>1. c \notin Elements(post_order_list)
    BY <1>1 DEF VisitedSplit
  <2>2. visited' = visited \cup {c} /\ post_order_list' = post_order_list
    OBVIOUS
  <2>3. QED
    BY <1>6, <2>1, <2>2 DEF VisitedSplit
<1>10. ListedOnce'
  BY OrderUntouched
<1>11. ChildrenFirst'
  BY OrderUntouched
<1>12. PassedVisited'
  <2>1. SUFFICES ASSUME NEW m \in visited \cup {c},
                        NEW i \in 1..Len(children[m]),
                        i < next'[m], children[m][i] # Null
                 PROVE  children[m][i] \in visited \cup {c}
    BY DEF PassedVisited
  <2>2. CASE m = c
    <3>1. next'[m] = 1
      BY <1>1, <1>2, <1>4, <2>2 DEF UnvisitedFresh
    <3>2. Len(children[m]) \in Nat
      BY <2>2, PlanFacts
    <3>3. QED
      BY <2>1, <3>1, <3>2
  <2>3. CASE m = n
    <3>1. Len(children[m]) \in Nat /\ k \in Nat /\ next'[m] = k + 1
      BY <1>2, <2>3, PlanFacts
    <3>2. i < k \/ i = k
      BY <2>1, <3>1
    <3>3. QED
      BY <1>1, <1>2, <2>1, <2>3, <3>2 DEF PassedVisited
  <2>4. CASE m # c /\ m # n
    <3>1. m \in visited /\ m \in Nodes /\ next'[m] = next[m]
      BY <1>2, <2>1, <2>4 DEF TypeOK
    <3>2. QED
      BY <2>1, <3>1 DEF PassedVisited
  <2>5. QED
    BY <2>2, <2>3, <2>4
<1>13. UnvisitedFresh'
  <2>1. \A m \in Nodes \ visited' : m \notin visited /\ next'[m] = next[m]
    BY <1>2
  <2>2. QED
    BY <2>1 DEF UnvisitedFresh
<1>14. RootOutermost'
  <2>1. stack' # <<>> /\ stack'[1] = stack[1]
    BY <1>5, EmptySeq
  <2>2. root # Null
    BY <1>2 DEF RootOutermost
  <2>3. root' = root /\ visited \subseteq visited'
    OBVIOUS
  <2>4. stack[1] = root
    BY <1>1 DEF RootOutermost
  <2>5. QED
    BY <2>1, <2>2, <2>3, <2>4 DEF RootOutermost
<1>15. OnlyReachable'
  <2>1. SUFFICES ASSUME root # Null
                 PROVE  c \in Reachable
    BY ReachableUntouched DEF OnlyReachable
  <2>2. n \in Reachable
    BY <1>2, <2>1 DEF OnlyReachable
  <2>3. c \in ChildrenOf(n)
    BY <1>1, <1>2, NullIsNoNode DEF ChildrenOf, Elements
  <2>4. QED
    BY <2>2, <2>3 DEF Reachable
<1>16. QED
  BY <1>7, <1>8, <1>9, <1>10, <1>11, <1>12, <1>13, <1>14, <1>15

\* A return preserves the invariant: all children of the node are listed, and
\* the frames below it remain.
LEMMA ReturnInv == ASSUME WalkInv, Return PROVE WalkInv'
<1>. DEFINE n == Innermost
            d == Len(stack)
<1>1. /\ stack # <<>>
      /\ next[n] > Len(children[n])
      /\ post_order_list' = Append(post_order_list, n)
      /\ stack' = SubSeq(stack, 1, d - 1)
      /\ UNCHANGED <<input, children, root, visited, next, crashed>>
  BY DEF Return, input
<1>2. /\ d \in Nat /\ d >= 1
      /\ n \in Nodes /\ n \in visited
      /\ n \in Elements(stack)
      /\ n \notin Elements(post_order_list)
      /\ n = stack[d]
  BY <1>1, InnermostFacts DEF Innermost
<1>3. /\ stack' \in Seq(Nodes)
      /\ Len(stack') = d - 1
      /\ \A i \in 1..(d - 1) : stack'[i] = stack[i]
  <2>1. \A i \in 1..(d - 1) : stack[i] \in Nodes
    BY <1>2, ElementOfSeq DEF WalkInv, TypeOK
  <2>2. /\ SubSeq(stack, 1, d - 1) \in Seq(Nodes)
        /\ Len(SubSeq(stack, 1, d - 1)) = IF 1 <= d - 1 THEN d - 1 - 1 + 1 ELSE 0
        /\ \A i \in 1..(d - 1 - 1 + 1) : SubSeq(stack, 1, d - 1)[i] = stack[1 + i - 1]
    BY <1>2, <2>1, SubSeqProperties
  <2>3. /\ d - 1 - 1 + 1 = d - 1
        /\ \A i \in 1..(d - 1) : 1 + i - 1 = i
        /\ d - 1 = IF 1 <= d - 1 THEN d - 1 - 1 + 1 ELSE 0
    BY <1>2, DropLastArithmetic
  <2>4. QED
    BY <1>1, <2>2, <2>3
<1>4. \A i, j \in 1..d : stack[i] = stack[j] => i = j
  <2>1. SUFFICES ASSUME NEW i \in 1..d, NEW j \in 1..d, i < j, stack[i] = stack[j]
                 PROVE  FALSE
    BY <1>2
  <2>2. Rank[stack[j]] < Rank[stack[i]]
    BY <2>1 DEF WalkInv, StackDescends
  <2>3. Rank[stack[i]] \in Nat
    BY <2>1, ElementOfSeq, RankType DEF WalkInv, TypeOK
  <2>4. QED
    BY <2>1, <2>2, <2>3
<1>5. Elements(stack') = Elements(stack) \ {n}
  <2>1. Elements(stack') = {stack[i] : i \in 1..(d - 1)}
    BY <1>3 DEF Elements
  <2>2. 1..d = 1..(d - 1) \cup {d}
    BY <1>2
  <2>3. \A i \in 1..(d - 1) : stack[i] # n
    BY <1>2, <1>4
  <2>4. QED
    BY <1>2, <2>1, <2>2, <2>3 DEF Elements
<1>6. /\ Elements(post_order_list') = Elements(post_order_list) \cup {n}
      /\ post_order_list' \in Seq(Nodes)
      /\ Len(post_order_list) \in Nat
      /\ Len(post_order_list') = Len(post_order_list) + 1
      /\ \A i \in 1..Len(post_order_list) : post_order_list'[i] = post_order_list[i]
      /\ post_order_list'[Len(post_order_list) + 1] = n
  BY <1>1, <1>2, ElementsAppend, AppendProperties, LenProperties
     DEF WalkInv, TypeOK
<1>7. TypeOK'
  BY <1>1, <1>3, <1>6 DEF WalkInv, TypeOK, input
<1>8. StackDescends'
  BY <1>2, <1>3 DEF WalkInv, StackDescends
<1>9. VisitedSplit'
  <2>1. visited' = visited
    BY <1>1
  <2>2. QED
    BY <1>2, <1>5, <1>6, <2>1 DEF WalkInv, VisitedSplit
<1>10. PassedVisited' /\ UnvisitedFresh'
  BY <1>1 DEF WalkInv, PassedVisited, UnvisitedFresh
<1>11. RootOutermost'
  <2>1. root # Null /\ root \in visited /\ stack[1] = root
    BY <1>1, <1>2 DEF WalkInv, RootOutermost
  <2>2. CASE d = 1
    <3>1. stack' = <<>>
      BY <1>3, <2>2, EmptySeq
    <3>2. post_order_list'[Len(post_order_list')] = root
      BY <1>2, <1>6, <2>1, <2>2
    <3>3. QED
      BY <1>1, <2>1, <3>1, <3>2 DEF RootOutermost
  <2>3. CASE d > 1
    <3>1. Len(stack') # 0 /\ stack'[1] = root
      BY <1>2, <1>3, <2>1, <2>3
    <3>2. stack' # <<>>
      BY <3>1, EmptySeq
    <3>3. QED
      BY <1>1, <2>1, <3>1, <3>2 DEF RootOutermost
  <2>4. d = 1 \/ d > 1
    BY <1>2, DropLastArithmetic
  <2>5. QED
    BY <2>2, <2>3, <2>4
<1>12. OnlyReachable'
  BY <1>1, ReachableUntouched DEF WalkInv, OnlyReachable
<1>13. ListedOnce'
  <2>1. \A i \in 1..Len(post_order_list) : post_order_list[i] # n
    BY <1>2 DEF Elements
  <2>2. SUFFICES ASSUME NEW i \in 1..Len(post_order_list) + 1,
                        NEW j \in 1..Len(post_order_list) + 1,
                        post_order_list'[i] = post_order_list'[j]
                 PROVE  i = j
    BY <1>6 DEF ListedOnce
  <2>3. QED
    BY <1>6, <2>1, <2>2 DEF WalkInv, ListedOnce
<1>14. ChildrenFirst'
  <2>1. ASSUME NEW i \in 1..Len(post_order_list),
               NEW c \in ChildrenOf(post_order_list'[i])
        PROVE  \E j \in 1..(i - 1) : post_order_list'[j] = c
    <3>1. post_order_list'[i] = post_order_list[i]
      BY <1>6
    <3>2. c \in ChildrenOf(post_order_list[i])
      BY <2>1, <3>1
    <3>3. PICK j \in 1..(i - 1) : post_order_list[j] = c
      BY <3>2 DEF WalkInv, ChildrenFirst
    <3>4. j \in 1..Len(post_order_list)
      BY <1>6
    <3>5. QED
      BY <1>6, <3>3, <3>4
  <2>2. ASSUME NEW c \in ChildrenOf(n)
        PROVE  \E j \in 1..Len(post_order_list) : post_order_list'[j] = c
    <3>1. PICK k \in 1..Len(children[n]) : c = children[n][k] /\ c # Null
      BY <2>2 DEF ChildrenOf, Elements
    <3>2. k < next[n]
      BY <1>1, <1>2, <3>1, PlanFacts DEF WalkInv, TypeOK
    <3>3. c \in visited
      BY <1>2, <3>1, <3>2 DEF WalkInv, PassedVisited
    <3>4. c \in Elements(post_order_list)
      BY <1>1, <3>1, <3>3, VisitedChildListed
    <3>5. PICK j \in 1..Len(post_order_list) : post_order_list[j] = c
      BY <3>4 DEF Elements
    <3>6. QED
      BY <1>6, <3>5
  <2>3. ASSUME NEW i \in 1..Len(post_order_list'),
               NEW c \in ChildrenOf(post_order_list'[i])
        PROVE  \E j \in 1..(i - 1) : post_order_list'[j] = c
    <3>1. CASE i \in 1..Len(post_order_list)
      BY <2>1, <2>3, <3>1
    <3>2. CASE i = Len(post_order_list) + 1
      <4>1. post_order_list'[i] = n /\ 1..(i - 1) = 1..Len(post_order_list)
        BY <1>6, <3>2
      <4>2. QED
        BY <2>2, <2>3, <4>1
    <3>3. QED
      BY <1>6, <2>3, <3>1, <3>2
  <2>4. \A m : ChildrenOf(m)' = ChildrenOf(m)
    BY <1>1 DEF ChildrenOf, Elements
  <2>5. QED
    BY <2>3, <2>4 DEF ChildrenFirst
<1>15. QED
  BY <1>7, <1>8, <1>9, <1>10, <1>11, <1>12, <1>13, <1>14 DEF WalkInv

-----------------------------------------------------------------------------
(* Theorems of the specification.                                          *)

\* WalkInv holds in every reachable state.
THEOREM Invariance == Spec => []WalkInv
<1>1. WalkInv /\ [Next]_vars => WalkInv'
  <2>. SUFFICES ASSUME WalkInv, [Next]_vars PROVE WalkInv'
    OBVIOUS
  <2>1. CASE Skip
    BY <2>1, SkipInv
  <2>2. ASSUME NEW c \in Nodes, Descend(c) PROVE WalkInv'
    BY <2>2, DescendInv
  <2>3. CASE Return
    BY <2>3, ReturnInv
  <2>4. CASE UNCHANGED vars
    <3>1. TypeOK' /\ PassedVisited' /\ UnvisitedFresh'
      BY <2>4 DEF vars, input, WalkInv, TypeOK, PassedVisited, UnvisitedFresh
    <3>2. UNCHANGED <<children, root, stack, visited, post_order_list>>
      BY <2>4 DEF vars, input
    <3>3. QED
      BY <3>1, <3>2, ListUntouched DEF WalkInv
  <2>5. CASE FollowNull
    BY <2>5, FollowNullInv
  <2>6. QED
    BY <2>1, <2>2, <2>3, <2>4, <2>5 DEF Next
<1>2. QED
  BY <1>1, InitInv, PTL DEF Spec

\* The variables keep their types.
THEOREM TypeCorrect == Spec => []TypeOK
<1>1. WalkInv => TypeOK
  BY DEF WalkInv
<1>2. QED
  BY <1>1, Invariance, PTL

\* Work items are listed after everything they depend on.
THEOREM DependenciesFirst == Spec => []ChildrenFirst
<1>1. WalkInv => ChildrenFirst
  BY DEF WalkInv
<1>2. QED
  BY <1>1, Invariance, PTL

\* A shared node is listed once.
THEOREM NoDuplicates == Spec => []ListedOnce
<1>1. WalkInv => ListedOnce
  BY DEF WalkInv
<1>2. QED
  BY <1>1, Invariance, PTL

\* When the walk returns, the list holds exactly the nodes of the plan.
THEOREM Complete == Spec => []WholePlanListed
<1>1. WalkInv => WholePlanListed
  <2>. SUFFICES ASSUME WalkInv, Done PROVE
          /\ Elements(post_order_list) = IF root = Null THEN {} ELSE Reachable
          /\ root # Null => post_order_list[Len(post_order_list)] = root
    BY DEF WholePlanListed
  <2>1. Elements(stack) = {}
    BY DEF Done, Elements
  <2>2. Elements(post_order_list) = visited
    BY <2>1 DEF WalkInv, VisitedSplit
  <2>3. CASE root = Null
    BY <2>2, <2>3 DEF WalkInv, RootOutermost
  <2>4. CASE root # Null
    <3>1. \A m \in visited : ChildrenOf(m) \subseteq visited
      <4>1. SUFFICES ASSUME NEW i \in 1..Len(post_order_list),
                            NEW c \in ChildrenOf(post_order_list[i])
                     PROVE  c \in Elements(post_order_list)
        BY <2>2 DEF Elements
      <4>2. PICK j \in 1..(i - 1) : post_order_list[j] = c
        BY DEF WalkInv, ChildrenFirst
      <4>3. Len(post_order_list) \in Nat
        BY LenProperties DEF WalkInv, TypeOK
      <4>4. j \in 1..Len(post_order_list)
        BY <4>3
      <4>5. QED
        BY <4>2, <4>4 DEF Elements
    <3>2. root \in visited /\ visited \in SUBSET Nodes
      BY <2>4 DEF WalkInv, RootOutermost, TypeOK
    <3>3. Reachable \subseteq visited
      BY <3>1, <3>2 DEF Reachable
    <3>4. visited \subseteq Reachable
      BY <2>4 DEF WalkInv, OnlyReachable
    <3>5. QED
      BY <2>2, <2>4, <3>3, <3>4 DEF WalkInv, RootOutermost
  <2>5. QED
    BY <2>3, <2>4
<1>2. QED
  BY <1>1, Invariance, PTL

-----------------------------------------------------------------------------
(* Induction.                                                             *)

\* A set of natural numbers that is not empty has a least element.
LEMMA LeastNat ==
    ASSUME NEW T \in SUBSET Nat, T # {}
    PROVE  \E m \in T : \A k \in T : m <= k
<1>. DEFINE R == OpToRel(<, Nat)
<1>1. \A j, k \in Nat : j < k => <<j, k>> \in R
  BY DEF OpToRel
<1>2. IsWellFoundedOn(R, Nat)
  BY NatLessThanWellFounded
<1>. HIDE DEF R
<1>3. PICK m \in T : \A k \in T : <<k, m>> \notin R
  BY <1>2, WFMin
<1>4. ASSUME NEW k \in T PROVE m <= k
  <2>1. k \in Nat /\ m \in Nat
    OBVIOUS
  <2>2. ~(k < m)
    BY <1>1, <1>3, <2>1
  <2>3. QED
    BY <2>1, <2>2
<1>5. QED
  BY <1>4

-----------------------------------------------------------------------------
(* The nodes that can be reached.                                         *)

\* One step of the walk, and the nodes of the first i steps.
Grown(p, s) == s \cup UNION { KidsOf(p, m) : m \in s }

ReachedIn(p, r) ==
    LET reach[i \in 0..Len(p)] ==
          IF i = 0 THEN {r}
          ELSE LET s == reach[i - 1] IN s \cup UNION { KidsOf(p, m) : m \in s }
    IN  reach

\* The walk of Live is well defined.
LEMMA ReachedInSteps ==
    ASSUME NEW p, NEW r, Len(p) \in Nat
    PROVE  \A i \in 0..Len(p) :
             ReachedIn(p, r)[i] = IF i = 0 THEN {r} ELSE Grown(p, ReachedIn(p, r)[i - 1])
<1>. DEFINE Walk(f, n) == f = [i \in 0..n |-> IF i = 0 THEN {r} ELSE Grown(p, f[i - 1])]
            T == { n \in Nat : ~\E f : Walk(f, n) }
<1>1. T = {}
  <2>. SUFFICES ASSUME T # {} PROVE FALSE
    OBVIOUS
  <2>1. PICK n \in T : \A k \in T : n <= k
    BY LeastNat
  <2>2. n # 0
    <3>1. Walk([i \in 0..0 |-> {r}], 0)
      OBVIOUS
    <3>2. QED
      BY <3>1
  <2>3. n - 1 \in Nat /\ n - 1 \notin T
    <3>1. n \in Nat
      OBVIOUS
    <3>. HIDE DEF T
    <3>2. QED
      BY <2>1, <2>2, <3>1
  <2>4. PICK f : Walk(f, n - 1)
    BY <2>3
  <2>. DEFINE g == [i \in 0..n |-> IF i = n THEN Grown(p, f[n - 1]) ELSE f[i]]
  <2>5. ASSUME NEW i \in 0..n PROVE g[i] = IF i = 0 THEN {r} ELSE Grown(p, g[i - 1])
    <3>1. CASE i = n
      BY <2>2, <2>3, <3>1
    <3>2. CASE i # n
      <4>1. i \in 0..(n - 1) /\ (i # 0 => i - 1 \in 0..(n - 1) /\ i - 1 \in 0..n /\ i - 1 # n)
        BY <2>3, <3>2
      <4>2. f[i] = IF i = 0 THEN {r} ELSE Grown(p, f[i - 1])
        BY <2>4, <4>1
      <4>3. g[i] = f[i] /\ (i # 0 => g[i - 1] = f[i - 1])
        BY <3>2, <4>1
      <4>. HIDE DEF g
      <4>4. QED
        BY <4>2, <4>3
    <3>3. QED
      BY <3>1, <3>2
  <2>6. Walk(g, n)
    BY <2>5
  <2>7. QED
    BY <2>1, <2>6
<1>2. PICK f : Walk(f, Len(p))
  BY <1>1
<1>3. Walk(ReachedIn(p, r), Len(p))
  BY <1>2 DEF ReachedIn, Grown
<1>4. QED
  BY <1>3

\* Every pointer leads to an earlier node.
Descending(p) == \A n \in 1..Len(p) : KidsOf(p, n) \subseteq 1..(n - 1)

\* Live is the least set with the root that is closed under pointers.
LEMMA LiveLeast ==
    ASSUME NEW p, NEW r, NEW S, Len(p) \in Nat,
           r \in S, \A m \in S : KidsOf(p, m) \subseteq S
    PROVE  Live(p, r) \subseteq S
<1>. DEFINE w == ReachedIn(p, r)
            T == { i \in 0..Len(p) : ~(w[i] \subseteq S) }
<1>1. \A i \in 0..Len(p) : w[i] = IF i = 0 THEN {r} ELSE Grown(p, w[i - 1])
  BY ReachedInSteps
<1>2. Live(p, r) = w[Len(p)]
  BY DEF Live, ReachedIn
<1>. HIDE DEF w
<1>3. T = {}
  <2>. SUFFICES ASSUME T # {} PROVE FALSE
    OBVIOUS
  <2>1. PICK i \in T : \A k \in T : i <= k
    <3>1. T \in SUBSET Nat
      OBVIOUS
    <3>. HIDE DEF T
    <3>2. QED
      BY <3>1, LeastNat
  <2>2. i # 0
    BY <1>1
  <2>3. i - 1 \in 0..Len(p) /\ ~(i <= i - 1)
    BY <2>2
  <2>4. w[i - 1] \subseteq S
    BY <2>1, <2>3
  <2>5. Grown(p, w[i - 1]) \subseteq S
    BY <2>4 DEF Grown
  <2>6. QED
    BY <1>1, <2>2, <2>5
<1>4. QED
  BY <1>2, <1>3

\* If no pointer leads forward, it is closed itself, and no node lies behind the root.
LEMMA LiveClosed ==
    ASSUME NEW p, NEW r, Len(p) \in Nat, r \in 1..Len(p), Descending(p)
    PROVE  /\ r \in Live(p, r) /\ Live(p, r) \subseteq 1..r
           /\ \A m \in Live(p, r) : KidsOf(p, m) \subseteq Live(p, r)
<1>. DEFINE w == ReachedIn(p, r)
            Late(i) == /\ r \in w[i]
                       /\ \A m \in w[i] : m \in 1..(r - i) \/ KidsOf(p, m) \subseteq w[i]
            T == { i \in 0..Len(p) : ~Late(i) }
<1>1. \A i \in 0..Len(p) : w[i] = IF i = 0 THEN {r} ELSE Grown(p, w[i - 1])
  BY ReachedInSteps
<1>2. Live(p, r) = w[Len(p)]
  BY DEF Live, ReachedIn
<1>3. Live(p, r) \subseteq 1..r
  <2>1. \A m \in 1..r : KidsOf(p, m) \subseteq 1..r
    BY DEF Descending
  <2>2. r \in 1..r
    OBVIOUS
  <2>3. QED
    BY <2>1, <2>2, LiveLeast
<1>. HIDE DEF w
<1>4. T = {}
  <2>. SUFFICES ASSUME T # {} PROVE FALSE
    OBVIOUS
  <2>1. PICK i \in T : \A k \in T : i <= k
    <3>1. T \in SUBSET Nat
      OBVIOUS
    <3>. HIDE DEF T
    <3>2. QED
      BY <3>1, LeastNat
  <2>2. i # 0
    <3>1. Late(0)
      BY <1>1
    <3>2. QED
      BY <3>1
  <2>3. i - 1 \in 0..Len(p) /\ ~(i <= i - 1)
    BY <2>2
  <2>4. Late(i - 1)
    BY <2>1, <2>3
  <2>5. w[i] = Grown(p, w[i - 1])
    BY <1>1, <2>2
  <2>6. ASSUME NEW m \in w[i], ~(KidsOf(p, m) \subseteq w[i]) PROVE m \in 1..(r - i)
    <3>1. m \notin w[i - 1]
      BY <2>5, <2>6 DEF Grown
    <3>2. PICK n \in w[i - 1] : m \in KidsOf(p, n)
      BY <2>5, <3>1 DEF Grown
    <3>3. n \in 1..(r - (i - 1))
      BY <2>4, <3>1, <3>2
    <3>4. n \in 1..Len(p)
      BY <2>3, <3>3
    <3>5. m \in 1..(n - 1)
      BY <3>2, <3>4 DEF Descending
    <3>6. QED
      BY <3>3, <3>5
  <2>7. r \in w[i]
    BY <2>4, <2>5 DEF Grown
  <2>8. QED
    BY <2>6, <2>7
<1>5. Late(Len(p))
  BY <1>4
<1>6. 1..(r - Len(p)) = {}
  OBVIOUS
<1>7. QED
  BY <1>2, <1>3, <1>5, <1>6

-----------------------------------------------------------------------------
(* Sequences of anything.                                                 *)

\* A function on 1..n is a sequence.
LEMMA FcnIsSeq ==
    ASSUME NEW S, NEW n \in Nat, NEW f \in [1..n -> S]
    PROVE  f \in Seq(S) /\ Len(f) = n
<1>1. f \in Seq(S)
  BY SeqDef
<1>2. Len(f) \in Nat /\ 1..Len(f) = 1..n
  BY <1>1, LenProperties
<1>3. QED
  BY <1>1, <1>2

IsSeq(s) == Len(s) \in Nat /\ s = [i \in 1..Len(s) |-> s[i]]

\* It is one in the sense of Sequences.
LEMMA SeqOfElements ==
    ASSUME NEW s, IsSeq(s), NEW T, \A i \in 1..Len(s) : s[i] \in T
    PROVE  s \in Seq(T)
<1>1. s \in [1..Len(s) -> T] /\ Len(s) \in Nat
  BY DEF IsSeq
<1>2. QED
  BY <1>1, FcnIsSeq

\* And the other way round.
LEMMA SeqIs ==
    ASSUME NEW T, NEW s \in Seq(T)
    PROVE  IsSeq(s)
<1>1. Len(s) \in Nat /\ DOMAIN s = 1..Len(s) /\ s \in [1..Len(s) -> T]
  BY LenProperties
<1>2. QED
  BY <1>1 DEF IsSeq

\* A function on 1..n is one.
LEMMA FcnIs ==
    ASSUME NEW n \in Nat, NEW f, f = [i \in 1..n |-> f[i]]
    PROVE  IsSeq(f) /\ Len(f) = n
<1>1. f \in [1..n -> {f[i] : i \in 1..n}]
  OBVIOUS
<1>2. f \in Seq({f[i] : i \in 1..n}) /\ Len(f) = n
  BY <1>1, FcnIsSeq
<1>3. QED
  BY <1>2, SeqIs

\* What Append does to one.
LEMMA AppendIs ==
    ASSUME NEW s, NEW x, IsSeq(s)
    PROVE  /\ IsSeq(Append(s, x)) /\ Len(Append(s, x)) = Len(s) + 1
           /\ Append(s, x)[Len(s) + 1] = x
           /\ \A i \in 1..Len(s) : Append(s, x)[i] = s[i]
<1>. DEFINE T == {s[i] : i \in 1..Len(s)} \cup {x}
<1>1. s \in Seq(T)
  <2>1. \A i \in 1..Len(s) : s[i] \in T
    OBVIOUS
  <2>. HIDE DEF T
  <2>2. QED
    BY <2>1, SeqOfElements
<1>2. x \in T
  OBVIOUS
<1>. HIDE DEF T
<1>3. /\ Append(s, x) \in Seq(T) /\ Len(Append(s, x)) = Len(s) + 1
      /\ Append(s, x)[Len(s) + 1] = x
      /\ \A i \in 1..Len(s) : Append(s, x)[i] = s[i]
  BY <1>1, <1>2, AppendProperties
<1>4. QED
  BY <1>3, SeqIs

\* And what the concatenation of two is.
LEMMA ConcatIs ==
    ASSUME NEW s, NEW t, IsSeq(s), IsSeq(t)
    PROVE  /\ IsSeq(s \o t) /\ Len(s \o t) = Len(s) + Len(t)
           /\ \A i \in 1..Len(s) : (s \o t)[i] = s[i]
           /\ \A j \in 1..Len(t) : (s \o t)[Len(s) + j] = t[j]
<1>. DEFINE T == {s[i] : i \in 1..Len(s)} \cup {t[i] : i \in 1..Len(t)}
<1>1. s \in Seq(T) /\ t \in Seq(T)
  <2>1. (\A i \in 1..Len(s) : s[i] \in T) /\ (\A i \in 1..Len(t) : t[i] \in T)
    OBVIOUS
  <2>. HIDE DEF T
  <2>2. QED
    BY <2>1, SeqOfElements
<1>. HIDE DEF T
<1>2. /\ s \o t \in Seq(T) /\ Len(s \o t) = Len(s) + Len(t)
      /\ \A i \in 1..(Len(s) + Len(t)) : (s \o t)[i] = IF i <= Len(s) THEN s[i] ELSE t[i - Len(s)]
  BY <1>1, ConcatProperties
<1>3. Len(s) \in Nat /\ Len(t) \in Nat
  BY DEF IsSeq
<1>4. \A i \in 1..Len(s) : (s \o t)[i] = s[i]
  BY <1>2, <1>3
<1>5. ASSUME NEW j \in 1..Len(t) PROVE (s \o t)[Len(s) + j] = t[j]
  <2>1. Len(s) + j \in 1..(Len(s) + Len(t)) /\ ~(Len(s) + j <= Len(s)) /\ (Len(s) + j) - Len(s) = j
    BY <1>3
  <2>2. QED
    BY <1>2, <2>1
<1>6. QED
  BY <1>2, <1>4, <1>5, SeqIs

-----------------------------------------------------------------------------
(* Plans.                                                                 *)

\* The pointers of a sequence of nodes as a set.
LEMMA PointersAre ==
    ASSUME NEW p, NEW n, IsSeq(p[n].kids)
    PROVE  /\ KidsOf(p, n) = { p[n].kids[i] : i \in 1..Len(p[n].kids) }
           /\ \A i \in 1..Len(p[n].kids) : p[n].kids[i] \in KidsOf(p, n)
<1>1. DOMAIN p[n].kids = 1..Len(p[n].kids)
  BY DEF IsSeq
<1>2. KidsOf(p, n) = { p[n].kids[i] : i \in 1..Len(p[n].kids) }
  BY <1>1 DEF KidsOf, ToSet
<1>3. QED
  BY <1>2

\* If there are two of them.
LEMMA TwoPointers ==
    ASSUME NEW p, NEW n, IsSeq(p[n].kids), Len(p[n].kids) = 2
    PROVE  KidsOf(p, n) = {p[n].kids[1], p[n].kids[2]}
<1>1. DOMAIN p[n].kids = {1, 2}
  BY DEF IsSeq
<1>2. KidsOf(p, n) = { p[n].kids[i] : i \in {1, 2} }
  BY <1>1 DEF KidsOf, ToSet
<1>3. QED
  BY <1>2

IsNode(x) ==
    x \in [op : {x.op}, in : {x.in}, out : {x.out}, kids : {x.kids}, orders : {x.orders},
           posList : {x.posList}, matVals : {x.matVals}]

\* Nodes that lead to earlier ones.
Forest(p) ==
    /\ IsSeq(p) /\ Descending(p)
    /\ \A n \in 1..Len(p) : IsNode(p[n]) /\ IsSeq(p[n].kids)

\* The nodes of q stand in p behind d others, with their pointers moved.
Holds(p, q, d) ==
    /\ d \in Nat /\ Forest(p) /\ Forest(q) /\ d + Len(q) <= Len(p)
    /\ \A j \in 1..Len(q) :
         /\ p[d + j].op = q[j].op /\ p[d + j].in = q[j].in /\ p[d + j].out = q[j].out
         /\ Len(p[d + j].kids) = Len(q[j].kids)
         /\ \A i \in 1..Len(q[j].kids) : p[d + j].kids[i] = q[j].kids[i] + d

\* What Shifted does to the nodes.
LEMMA ShiftedIs ==
    ASSUME NEW q, Forest(q), NEW d \in Nat
    PROVE  /\ IsSeq(Shifted(q, d)) /\ Len(Shifted(q, d)) = Len(q)
           /\ \A j \in 1..Len(q) :
                /\ IsNode(Shifted(q, d)[j]) /\ IsSeq(Shifted(q, d)[j].kids)
                /\ Shifted(q, d)[j].op = q[j].op /\ Shifted(q, d)[j].in = q[j].in
                /\ Shifted(q, d)[j].out = q[j].out
                /\ Len(Shifted(q, d)[j].kids) = Len(q[j].kids)
                /\ \A i \in 1..Len(q[j].kids) : Shifted(q, d)[j].kids[i] = q[j].kids[i] + d
<1>. DEFINE moved(j) == [i \in DOMAIN q[j].kids |-> q[j].kids[i] + d]
            u == Shifted(q, d)
<1>1. Len(q) \in Nat /\ DOMAIN q = 1..Len(q)
  BY DEF Forest, IsSeq
<1>2. u = [j \in 1..Len(q) |-> [q[j] EXCEPT !.kids = moved(j)]]
  BY <1>1 DEF Shifted
<1>3. ASSUME NEW j \in 1..Len(q)
      PROVE  /\ IsSeq(moved(j)) /\ Len(moved(j)) = Len(q[j].kids)
             /\ \A i \in 1..Len(q[j].kids) : moved(j)[i] = q[j].kids[i] + d
  <2>1. Len(q[j].kids) \in Nat /\ DOMAIN q[j].kids = 1..Len(q[j].kids)
    BY DEF Forest, IsSeq
  <2>2. moved(j) = [i \in 1..Len(q[j].kids) |-> moved(j)[i]]
    BY <2>1
  <2>3. \A i \in 1..Len(q[j].kids) : moved(j)[i] = q[j].kids[i] + d
    BY <2>1
  <2>. HIDE DEF moved
  <2>4. QED
    BY <2>1, <2>2, <2>3, FcnIs
<1>. HIDE DEF moved
<1>4. ASSUME NEW j \in 1..Len(q)
      PROVE  /\ IsNode(u[j]) /\ u[j].kids = moved(j)
             /\ u[j].op = q[j].op /\ u[j].in = q[j].in /\ u[j].out = q[j].out
  <2>1. IsNode(q[j]) /\ u[j] = [q[j] EXCEPT !.kids = moved(j)]
    BY <1>2 DEF Forest
  <2>2. u[j] \in [op : {q[j].op}, in : {q[j].in}, out : {q[j].out}, kids : {moved(j)},
                  orders : {q[j].orders}, posList : {q[j].posList}, matVals : {q[j].matVals}]
    BY <2>1 DEF IsNode
  <2>3. QED
    BY <2>2 DEF IsNode
<1>5. IsSeq(u) /\ Len(u) = Len(q)
  <2>1. u = [j \in 1..Len(q) |-> u[j]]
    BY <1>2
  <2>. HIDE DEF u
  <2>2. QED
    BY <1>1, <2>1, FcnIs
<1>6. QED
  BY <1>3, <1>4, <1>5

\* Two forests in a row.
LEMMA RowOfForests ==
    ASSUME NEW p, NEW q, Forest(p), Forest(q)
    PROVE  LET r == p \o Shifted(q, Len(p))
           IN  Len(r) = Len(p) + Len(q) /\ Holds(r, p, 0) /\ Holds(r, q, Len(p))
<1>. DEFINE s == Shifted(q, Len(p))
            r == p \o s
<1>1. /\ IsSeq(p) /\ Len(p) \in Nat /\ IsSeq(q) /\ Len(q) \in Nat
      /\ Descending(p) /\ Descending(q)
      /\ \A n \in 1..Len(p) : IsNode(p[n]) /\ IsSeq(p[n].kids)
      /\ \A n \in 1..Len(q) : IsSeq(q[n].kids)
  BY DEF Forest, IsSeq
<1>2. /\ IsSeq(s) /\ Len(s) = Len(q)
      /\ \A j \in 1..Len(q) :
           /\ IsNode(s[j]) /\ IsSeq(s[j].kids)
           /\ s[j].op = q[j].op /\ s[j].in = q[j].in /\ s[j].out = q[j].out
           /\ Len(s[j].kids) = Len(q[j].kids)
           /\ \A i \in 1..Len(q[j].kids) : s[j].kids[i] = q[j].kids[i] + Len(p)
  BY <1>1, ShiftedIs
<1>. HIDE DEF s
<1>3. /\ IsSeq(r) /\ Len(r) = Len(p) + Len(q)
      /\ \A i \in 1..Len(p) : r[i] = p[i]
      /\ \A j \in 1..Len(q) : r[Len(p) + j] = s[j]
  BY <1>1, <1>2, ConcatIs
<1>. HIDE DEF r
<1>4. ASSUME NEW n \in 1..Len(r)
      PROVE  IsNode(r[n]) /\ IsSeq(r[n].kids) /\ KidsOf(r, n) \subseteq 1..(n - 1)
  <2>1. CASE n \in 1..Len(p)
    <3>1. r[n] = p[n]
      BY <1>3, <2>1
    <3>2. KidsOf(r, n) = KidsOf(p, n)
      BY <3>1 DEF KidsOf
    <3>3. QED
      BY <1>1, <2>1, <3>1, <3>2 DEF Descending
  <2>2. CASE n \notin 1..Len(p)
    <3>1. PICK j \in 1..Len(q) : n = Len(p) + j
      <4>1. n - Len(p) \in 1..Len(q) /\ n = Len(p) + (n - Len(p))
        BY <1>1, <1>3, <2>2
      <4>2. QED
        BY <4>1
    <3>2. r[n] = s[j] /\ IsSeq(r[n].kids) /\ IsNode(r[n])
      BY <1>2, <1>3, <3>1
    <3>3. ASSUME NEW x \in KidsOf(r, n) PROVE x \in 1..(n - 1)
      <4>1. PICK i \in 1..Len(r[n].kids) : x = r[n].kids[i]
        BY <3>2, <3>3, PointersAre
      <4>2. i \in 1..Len(q[j].kids) /\ x = q[j].kids[i] + Len(p)
        BY <1>2, <3>2, <4>1
      <4>3. q[j].kids[i] \in KidsOf(q, j)
        BY <1>1, <4>2, PointersAre
      <4>4. q[j].kids[i] \in 1..(j - 1)
        BY <1>1, <4>3 DEF Descending
      <4>5. \A a \in 1..(j - 1) : a + Len(p) \in 1..((Len(p) + j) - 1)
        BY <1>1
      <4>6. q[j].kids[i] + Len(p) \in 1..((Len(p) + j) - 1)
        BY <4>4, <4>5
      <4>7. QED
        BY <3>1, <4>2, <4>6
    <3>4. QED
      BY <3>2, <3>3
  <2>3. QED
    BY <2>1, <2>2
<1>5. Forest(r)
  BY <1>3, <1>4 DEF Forest, Descending
<1>6. Holds(r, p, 0)
  <2>1. \A n \in 1..Len(p) : r[0 + n] = p[n]
    BY <1>1, <1>3
  <2>2. ASSUME NEW n \in 1..Len(p), NEW i \in 1..Len(p[n].kids)
        PROVE  p[n].kids[i] = p[n].kids[i] + 0
    <3>1. p[n].kids[i] \in KidsOf(p, n)
      BY <1>1, PointersAre
    <3>2. p[n].kids[i] \in 1..(n - 1)
      BY <1>1, <3>1 DEF Descending
    <3>3. QED
      BY <3>2
  <2>3. 0 + Len(p) <= Len(r)
    BY <1>1, <1>3
  <2>4. QED
    BY <1>5, <2>1, <2>2, <2>3 DEF Holds
<1>7. Holds(r, q, Len(p))
  <2>1. Len(p) + Len(q) <= Len(r)
    BY <1>1, <1>3
  <2>2. QED
    BY <1>1, <1>2, <1>3, <1>5, <2>1 DEF Holds
<1>8. QED
  BY <1>3, <1>6, <1>7 DEF r, s

\* A node on top of a forest.
LEMMA TopOfForest ==
    ASSUME NEW p, Forest(p), NEW x, IsNode(x), IsSeq(x.kids),
           \A i \in 1..Len(x.kids) : x.kids[i] \in 1..Len(p)
    PROVE  Len(Append(p, x)) = Len(p) + 1 /\ Append(p, x)[Len(p) + 1] = x /\ Holds(Append(p, x), p, 0)
<1>. DEFINE r == Append(p, x)
<1>1. /\ IsSeq(p) /\ Len(p) \in Nat /\ Descending(p)
      /\ \A n \in 1..Len(p) : IsNode(p[n]) /\ IsSeq(p[n].kids)
  BY DEF Forest, IsSeq
<1>2. /\ IsSeq(r) /\ Len(r) = Len(p) + 1 /\ r[Len(p) + 1] = x
      /\ \A i \in 1..Len(p) : r[i] = p[i]
  BY <1>1, AppendIs
<1>. HIDE DEF r
<1>3. ASSUME NEW n \in 1..Len(r)
      PROVE  IsNode(r[n]) /\ IsSeq(r[n].kids) /\ KidsOf(r, n) \subseteq 1..(n - 1)
  <2>1. CASE n \in 1..Len(p)
    <3>1. r[n] = p[n]
      BY <1>2, <2>1
    <3>2. KidsOf(r, n) = KidsOf(p, n)
      BY <3>1 DEF KidsOf
    <3>3. QED
      BY <1>1, <2>1, <3>1, <3>2 DEF Descending
  <2>2. CASE n = Len(p) + 1
    <3>1. r[n] = x
      BY <1>2, <2>2
    <3>2. KidsOf(r, n) = { x.kids[i] : i \in 1..Len(x.kids) }
      BY <3>1, PointersAre
    <3>3. KidsOf(r, n) \subseteq 1..Len(p) /\ n - 1 = Len(p)
      BY <1>1, <2>2, <3>2
    <3>4. QED
      BY <3>1, <3>3
  <2>3. QED
    BY <1>1, <1>2, <2>1, <2>2
<1>4. Forest(r)
  BY <1>2, <1>3 DEF Forest, Descending
<1>5. \A n \in 1..Len(p) : r[0 + n] = p[n]
  BY <1>1, <1>2
<1>6. ASSUME NEW n \in 1..Len(p), NEW i \in 1..Len(p[n].kids)
      PROVE  p[n].kids[i] = p[n].kids[i] + 0
  <2>1. p[n].kids[i] \in KidsOf(p, n)
    BY <1>1, PointersAre
  <2>2. p[n].kids[i] \in 1..(n - 1)
    BY <1>1, <2>1 DEF Descending
  <2>3. QED
    BY <2>2
<1>7. 0 + Len(p) <= Len(r)
  BY <1>1, <1>2
<1>8. Holds(r, p, 0)
  BY <1>4, <1>5, <1>6, <1>7 DEF Holds
<1>9. QED
  BY <1>2, <1>8 DEF r

\* Induction over the numbers up to n.
LEMMA UpToNat ==
    ASSUME NEW n \in Nat, NEW S, 0 \in S, \A i \in 1..n : i - 1 \in S => i \in S
    PROVE  0..n \subseteq S
<1>. DEFINE T == { i \in 0..n : i \notin S }
<1>1. T = {}
  <2>. SUFFICES ASSUME T # {} PROVE FALSE
    OBVIOUS
  <2>1. PICK i \in T : \A k \in T : i <= k
    <3>1. T \in SUBSET Nat
      OBVIOUS
    <3>. HIDE DEF T
    <3>2. QED
      BY <3>1, LeastNat
  <2>2. i \in 1..n /\ i \notin S
    OBVIOUS
  <2>3. i - 1 \in 0..n /\ ~(i <= i - 1)
    BY <2>2
  <2>4. i - 1 \in S
    BY <2>1, <2>3
  <2>5. QED
    BY <2>2, <2>4
<1>2. QED
  BY <1>1

\* The node that Node makes is one.
LEMMA NodeIs ==
    ASSUME NEW op, NEW in, NEW out, NEW kids, NEW orders
    PROVE  /\ IsNode(Node(op, in, out, kids, orders))
           /\ Node(op, in, out, kids, orders).op = op
           /\ Node(op, in, out, kids, orders).in = in
           /\ Node(op, in, out, kids, orders).out = out
           /\ Node(op, in, out, kids, orders).kids = kids
<1>. DEFINE pos == op \in {"filter", "join", "semijoin", "group", "sort"}
            mat == op \in {"table", "fetch", "map", "sum", "agg", "group", "select"}
            x == Node(op, in, out, kids, orders)
<1>1. x = [op |-> op, in |-> in, out |-> out, kids |-> kids, orders |-> orders,
           posList |-> pos, matVals |-> mat]
  BY DEF Node
<1>. HIDE DEF pos, mat, x
<1>2. x \in [op : {x.op}, in : {x.in}, out : {x.out}, kids : {x.kids}, orders : {x.orders},
             posList : {x.posList}, matVals : {x.matVals}]
  BY <1>1
<1>3. x.op = op /\ x.in = in /\ x.out = out /\ x.kids = kids
  BY <1>1
<1>4. QED
  BY <1>2, <1>3 DEF IsNode, x



\* The empty sequence.
LEMMA EmptyIs == IsSeq(<<>>) /\ Len(<<>>) = 0
<1>1. Len(<<>>) = 0
  BY EmptySeq
<1>2. <<>> = [i \in 1..0 |-> <<>>[i]]
  <2>1. DOMAIN <<>> = 1..0
    BY EmptySeq, LenProperties
  <2>2. QED
    BY <2>1, EmptySeq, SeqIs DEF IsSeq
<1>3. QED
  BY <1>1, <1>2 DEF IsSeq
-----------------------------------------------------------------------------
(***************************************************************************)
(* The plan the SQL front end builds: the result on top, below it the sort,*)
(* below that the group, if the query has them, and below these neither.   *)
(***************************************************************************)

\* The nodes above the joins and aggregates.
Top == {"select", "sort", "group"}

\* A sum reads a list of columns.
SumsRead(p) == \A n \in 1..Len(p) : p[n].op = "sum" => IsSeq(p[n].in)

\* What is below the sort and the group of a query.
Lower(p) ==
    Forest(p) /\ Len(p) >= 1 /\ SumsRead(p) /\ \A n \in 1..Len(p) : p[n].op \notin Top

\* The plan p with the node x on top of it.
PutOn(r, p, x) ==
    /\ Forest(r) /\ Len(r) = Len(p) + 1 /\ r[Len(p) + 1] = x
    /\ \A n \in 1..Len(p) : r[n] = p[n]

\* The directions of a node.
LEMMA NodeOrders ==
    ASSUME NEW op, NEW in, NEW out, NEW kids, NEW orders
    PROVE  Node(op, in, out, kids, orders).orders = orders
BY DEF Node

\* A sequence of one.
LEMMA OneIs ==
    ASSUME NEW x PROVE IsSeq(<<x>>) /\ Len(<<x>>) = 1 /\ <<x>>[1] = x
<1>. DEFINE p == <<x>>
<1>1. p \in Seq({x}) /\ Len(p) = 1 /\ p[1] = x
  OBVIOUS
<1>. HIDE DEF p
<1>2. IsSeq(p)
  BY <1>1, SeqIs
<1>3. QED
  BY <1>1, <1>2 DEF p

\* A node above a plan.
LEMMA PutOnIs ==
    ASSUME NEW p, Forest(p), NEW x, IsNode(x), IsSeq(x.kids),
           \A i \in 1..Len(x.kids) : x.kids[i] \in 1..Len(p)
    PROVE  PutOn(Append(p, x), p, x)
<1>1. Len(Append(p, x)) = Len(p) + 1 /\ Append(p, x)[Len(p) + 1] = x /\ Holds(Append(p, x), p, 0)
  BY TopOfForest
<1>2. \A n \in 1..Len(p) : Append(p, x)[n] = p[n]
  BY AppendIs DEF Forest
<1>3. QED
  BY <1>1, <1>2 DEF PutOn, Holds

\* Over puts a node on the root of a plan.
LEMMA OverIs ==
    ASSUME NEW p, Forest(p), Len(p) >= 1, NEW op, NEW in, NEW out, NEW orders
    PROVE  PutOn(Over(p, op, in, out, orders), p, Node(op, in, out, <<Len(p)>>, orders))
<1>. DEFINE kids == <<Len(p)>>
            x == Node(op, in, out, kids, orders)
<1>1. Len(p) \in Nat /\ Len(p) \in 1..Len(p)
  BY DEF Forest, IsSeq
<1>2. IsSeq(kids) /\ Len(kids) = 1 /\ kids[1] = Len(p)
  BY OneIs
<1>3. Over(p, op, in, out, orders) = Append(p, x)
  BY DEF Over
<1>. HIDE DEF kids
<1>4. IsNode(x) /\ x.kids = kids
  BY NodeIs
<1>. HIDE DEF x
<1>5. \A i \in 1..Len(kids) : kids[i] \in 1..Len(p)
  BY <1>1, <1>2
<1>6. PutOn(Append(p, x), p, x)
  BY <1>2, <1>4, <1>5, PutOnIs
<1>7. QED
  BY <1>3, <1>6 DEF x, kids

\* Below the sort and the group it may be any other node.
LEMMA LowerPutOn ==
    ASSUME NEW p, NEW r, NEW x, Lower(p), PutOn(r, p, x), x.op \notin Top,
           x.op = "sum" => IsSeq(x.in)
    PROVE  Lower(r)
<1>1. Len(p) \in Nat /\ Len(r) = Len(p) + 1 /\ Forest(r)
  BY DEF Lower, Forest, IsSeq, PutOn
<1>2. ASSUME NEW n \in 1..Len(r) PROVE r[n].op \notin Top /\ (r[n].op = "sum" => IsSeq(r[n].in))
  <2>1. n \in 1..Len(p) \/ n = Len(p) + 1
    BY <1>1
  <2>2. CASE n \in 1..Len(p)
    BY <2>2 DEF Lower, SumsRead, PutOn
  <2>3. CASE n = Len(p) + 1
    BY <2>3 DEF PutOn
  <2>4. QED
    BY <2>1, <2>2, <2>3
<1>3. QED
  BY <1>1, <1>2 DEF Lower, SumsRead

\* The same for Over.
LEMMA OverLower ==
    ASSUME NEW p, Lower(p), NEW op, op \notin Top, NEW in, op = "sum" => IsSeq(in),
           NEW out, NEW orders
    PROVE  Lower(Over(p, op, in, out, orders))
<1>1. PutOn(Over(p, op, in, out, orders), p, Node(op, in, out, <<Len(p)>>, orders))
  BY OverIs DEF Lower
<1>2. /\ Node(op, in, out, <<Len(p)>>, orders).op = op
      /\ Node(op, in, out, <<Len(p)>>, orders).in = in
  BY NodeIs
<1>3. QED
  BY <1>1, <1>2, LowerPutOn

\* placePredicate, for the first i filters from the end.
Placed(q, t) ==
    LET n == Len(q.filters)
        placed[i \in 0..n] ==
          IF i = 0 THEN << Node("table", <<t>>, <<t>>, <<>>, <<>>) >>
          ELSE LET f == q.filters[n + 1 - i]
                   made == placed[i - 1]
               IN  IF TableOf[f[1]] = t THEN Over(made, "filter", f, <<f[1]>>, <<>>) ELSE made
    IN  placed

\* The plan u is v, possibly with a filter on top.
Filtered(u, v) == u = v \/ \E f : u = Over(v, "filter", f, <<f[1]>>, <<>>)

\* What placePredicate does with one filter.
LEMMA PlacedSteps ==
    ASSUME NEW q, NEW t, Len(q.filters) \in Nat
    PROVE  /\ Placed(q, t)[0] = << Node("table", <<t>>, <<t>>, <<>>, <<>>) >>
           /\ \A i \in 1..Len(q.filters) : Filtered(Placed(q, t)[i], Placed(q, t)[i - 1])
<1>. DEFINE m == Len(q.filters)
            first == << Node("table", <<t>>, <<t>>, <<>>, <<>>) >>
            Put(s, i) == LET f == q.filters[m + 1 - i]
                         IN  IF TableOf[f[1]] = t THEN Over(s, "filter", f, <<f[1]>>, <<>>) ELSE s
            Walk(f, n) == f = [i \in 0..n |-> IF i = 0 THEN first ELSE Put(f[i - 1], i)]
            S == { n \in Nat : \E f : Walk(f, n) }
<1>. HIDE DEF Put, first
<1>1. 0 \in S
  <2>1. Walk([i \in 0..0 |-> first], 0)
    OBVIOUS
  <2>2. QED
    BY <2>1
<1>2. ASSUME NEW n \in 1..m, n - 1 \in S PROVE n \in S
  <2>1. PICK f : Walk(f, n - 1)
    BY <1>2
  <2>. DEFINE g == [i \in 0..n |-> IF i = n THEN Put(f[n - 1], n) ELSE f[i]]
  <2>2. ASSUME NEW i \in 0..n PROVE g[i] = IF i = 0 THEN first ELSE Put(g[i - 1], i)
    <3>1. CASE i = n
      BY <3>1
    <3>2. CASE i # n
      <4>1. i \in 0..(n - 1) /\ (i # 0 => i - 1 \in 0..(n - 1) /\ i - 1 \in 0..n /\ i - 1 # n)
        BY <3>2
      <4>2. f[i] = IF i = 0 THEN first ELSE Put(f[i - 1], i)
        BY <2>1, <4>1
      <4>3. g[i] = f[i] /\ (i # 0 => g[i - 1] = f[i - 1])
        BY <3>2, <4>1
      <4>. HIDE DEF g
      <4>4. QED
        BY <4>2, <4>3
    <3>3. QED
      BY <3>1, <3>2
  <2>3. Walk(g, n)
    BY <2>2
  <2>4. n \in Nat /\ \E h : Walk(h, n)
    <3>. HIDE DEF Walk, g
    <3>1. QED
      BY <2>3
  <2>5. QED
    BY <2>4
<1>. HIDE DEF S
<1>3. m \in S
  <2>1. 0..m \subseteq S
    BY <1>1, <1>2, UpToNat
  <2>2. QED
    BY <2>1
<1>4. PICK f : Walk(f, m)
  BY <1>3 DEF S
<1>5. Walk(Placed(q, t), m)
  BY <1>4 DEF Placed, Put, first
<1>6. Placed(q, t)[0] = first /\ \A i \in 1..m : Placed(q, t)[i] = Put(Placed(q, t)[i - 1], i)
  <2>1. \A i \in 0..m : Placed(q, t)[i] = IF i = 0 THEN first ELSE Put(Placed(q, t)[i - 1], i)
    BY <1>5
  <2>2. m \in Nat /\ 0 \in 0..m /\ \A i \in 1..m : i \in 0..m /\ i # 0
    OBVIOUS
  <2>. HIDE DEF m
  <2>3. QED
    BY <2>1, <2>2
<1>7. \A s, i : Filtered(Put(s, i), s)
  BY DEF Put, Filtered
<1>8. QED
  BY <1>6, <1>7 DEF first

\* A table node alone.
LEMMA TableLower ==
    ASSUME NEW t
    PROVE  Lower(<< Node("table", <<t>>, <<t>>, <<>>, <<>>) >>)
<1>. DEFINE x == Node("table", <<t>>, <<t>>, <<>>, <<>>)
            p == <<x>>
<1>1. IsSeq(p) /\ Len(p) = 1 /\ p[1] = x
  BY OneIs
<1>2. Forest(p)
  <2>1. IsNode(x) /\ x.kids = <<>> /\ IsSeq(x.kids) /\ 1..0 = {}
    BY NodeIs, EmptyIs
  <2>. HIDE DEF x, p
  <2>2. KidsOf(p, 1) = { p[1].kids[i] : i \in 1..Len(p[1].kids) }
    BY <1>1, <2>1, PointersAre
  <2>3. KidsOf(p, 1) = {} /\ \A n \in 1..Len(p) : n = 1
    BY <1>1, <2>1, <2>2, EmptyIs
  <2>4. QED
    BY <1>1, <2>1, <2>3 DEF Forest, Descending
<1>3. x.op = "table"
  BY NodeIs
<1>. HIDE DEF x, p
<1>4. \A n \in 1..Len(p) : n = 1
  BY <1>1
<1>5. Lower(p)
  BY <1>1, <1>2, <1>3, <1>4 DEF Lower, SumsRead, Top
<1>6. QED
  BY <1>5 DEF x, p

\* A table with its filters.
LEMMA FiltersLower ==
    ASSUME NEW q, NEW t, Len(q.filters) \in Nat
    PROVE  Lower(TableWithFilters(q, t))
<1>. DEFINE w == Placed(q, t)
            S == { i \in 0..Len(q.filters) : Lower(w[i]) }
<1>1. /\ w[0] = << Node("table", <<t>>, <<t>>, <<>>, <<>>) >>
      /\ \A i \in 1..Len(q.filters) : Filtered(w[i], w[i - 1])
  BY PlacedSteps
<1>2. TableWithFilters(q, t) = w[Len(q.filters)]
  BY DEF TableWithFilters, Placed
<1>. HIDE DEF w
<1>3. 0 \in S
  BY <1>1, TableLower
<1>4. ASSUME NEW i \in 1..Len(q.filters), i - 1 \in S PROVE i \in S
  <2>1. Lower(w[i - 1])
    BY <1>4
  <2>2. Lower(w[i])
    <3>1. "filter" \notin Top /\ "filter" # "sum"
      BY DEF Top
    <3>2. QED
      BY <1>1, <2>1, <3>1, OverLower DEF Filtered
  <2>3. QED
    BY <2>2
<1>5. 0..Len(q.filters) \subseteq S
  <2>. HIDE DEF S
  <2>1. QED
    BY <1>3, <1>4, UpToNat
<1>6. QED
  BY <1>2, <1>5

\* A join of such a table to a plan.
LEMMA JoinOverLower ==
    ASSUME NEW q, NEW low, NEW left, NEW right, Len(q.filters) \in Nat, Lower(low)
    PROVE  Lower(JoinOver(q, low, left, right))
<1>. DEFINE dim == TableWithFilters(q, TableOf[right])
            all == low \o Shifted(dim, Len(low))
            kids == <<Len(low), Len(all)>>
            x == Node("join", <<left, right>>, <<left, right>>, kids, <<>>)
<1>1. Lower(dim)
  BY FiltersLower
<1>2. JoinOver(q, low, left, right) = Append(all, x)
  BY DEF JoinOver
<1>. HIDE DEF dim
<1>3. Len(all) = Len(low) + Len(dim) /\ Holds(all, low, 0) /\ Holds(all, dim, Len(low))
  BY <1>1, RowOfForests DEF Lower
<1>. HIDE DEF all
<1>4. /\ Len(low) \in Nat /\ Len(dim) \in Nat /\ Len(all) \in Nat
      /\ Len(low) >= 1 /\ Len(dim) >= 1 /\ Forest(all)
  BY <1>1, <1>3 DEF Lower, Forest, IsSeq, Holds
<1>5. ASSUME NEW n \in 1..Len(all) PROVE all[n].op \notin Top /\ (all[n].op = "sum" => IsSeq(all[n].in))
  <2>1. CASE n <= Len(low)
    <3>1. n \in 1..Len(low) /\ 0 + n = n
      BY <1>4, <2>1
    <3>2. all[0 + n].op = low[n].op /\ all[0 + n].in = low[n].in
      BY <1>3, <3>1 DEF Holds
    <3>3. QED
      BY <3>1, <3>2 DEF Lower, SumsRead
  <2>2. CASE ~(n <= Len(low))
    <3>1. n - Len(low) \in 1..Len(dim) /\ Len(low) + (n - Len(low)) = n
      BY <1>3, <1>4, <2>2
    <3>2. /\ all[Len(low) + (n - Len(low))].op = dim[n - Len(low)].op
          /\ all[Len(low) + (n - Len(low))].in = dim[n - Len(low)].in
      BY <1>3, <3>1 DEF Holds
    <3>3. QED
      BY <1>1, <3>1, <3>2 DEF Lower, SumsRead
  <2>3. QED
    BY <2>1, <2>2
<1>6. Lower(all)
  BY <1>3, <1>4, <1>5 DEF Lower, SumsRead
<1>7. IsSeq(kids) /\ \A i \in 1..Len(kids) : kids[i] \in 1..Len(all)
  <2>1. kids \in Seq(1..Len(all))
    BY <1>3, <1>4
  <2>. HIDE DEF kids
  <2>2. IsSeq(kids) /\ \A i \in 1..Len(kids) : kids[i] \in 1..Len(all)
    <3>1. IsSeq(kids)
      BY <2>1, SeqIs
    <3>2. \A i \in 1..Len(kids) : kids[i] \in 1..Len(all)
      BY <2>1
    <3>3. QED
      BY <3>1, <3>2
  <2>3. QED
    BY <2>2
<1>. HIDE DEF kids
<1>8. IsNode(x) /\ x.kids = kids /\ x.op = "join"
  BY NodeIs
<1>. HIDE DEF x
<1>9. PutOn(Append(all, x), all, x)
  BY <1>4, <1>7, <1>8, PutOnIs
<1>10. x.op \notin Top /\ x.op # "sum"
  BY <1>8 DEF Top
<1>11. QED
  BY <1>2, <1>6, <1>9, <1>10, LowerPutOn DEF all, dim, kids, x

\* buildJoin, for the first i conditions.
Built(q) ==
    LET first == IF q.joins = <<>> THEN q.from ELSE TableOf[q.joins[1][1]]
        built[i \in 0..Len(q.joins)] ==
          IF i = 0 THEN TableWithFilters(q, first)
          ELSE LET j == q.joins[i]
                   made == built[i - 1]
               IN  IF TableIn(made, TableOf[j[2]]) THEN JoinOver(q, made, j[2], j[1])
                   ELSE JoinOver(q, made, j[1], j[2])
    IN  built

\* What buildJoin does with one condition.
LEMMA BuiltSteps ==
    ASSUME NEW q, Len(q.joins) \in Nat
    PROVE  /\ Built(q)[0] =
                TableWithFilters(q, IF q.joins = <<>> THEN q.from ELSE TableOf[q.joins[1][1]])
           /\ \A i \in 1..Len(q.joins) :
                LET j == q.joins[i]
                    made == Built(q)[i - 1]
                IN  Built(q)[i] = IF TableIn(made, TableOf[j[2]]) THEN JoinOver(q, made, j[2], j[1])
                                  ELSE JoinOver(q, made, j[1], j[2])
<1>. DEFINE m == Len(q.joins)
            table == IF q.joins = <<>> THEN q.from ELSE TableOf[q.joins[1][1]]
            first == TableWithFilters(q, table)
            Put(s, i) == LET j == q.joins[i]
                         IN  IF TableIn(s, TableOf[j[2]]) THEN JoinOver(q, s, j[2], j[1])
                             ELSE JoinOver(q, s, j[1], j[2])
            Walk(f, n) == f = [i \in 0..n |-> IF i = 0 THEN first ELSE Put(f[i - 1], i)]
            S == { n \in Nat : \E f : Walk(f, n) }
<1>. HIDE DEF Put, first
<1>1. 0 \in S
  <2>1. Walk([i \in 0..0 |-> first], 0)
    OBVIOUS
  <2>2. QED
    BY <2>1
<1>2. ASSUME NEW n \in 1..m, n - 1 \in S PROVE n \in S
  <2>1. PICK f : Walk(f, n - 1)
    BY <1>2
  <2>. DEFINE g == [i \in 0..n |-> IF i = n THEN Put(f[n - 1], n) ELSE f[i]]
  <2>2. ASSUME NEW i \in 0..n PROVE g[i] = IF i = 0 THEN first ELSE Put(g[i - 1], i)
    <3>1. CASE i = n
      BY <3>1
    <3>2. CASE i # n
      <4>1. i \in 0..(n - 1) /\ (i # 0 => i - 1 \in 0..(n - 1) /\ i - 1 \in 0..n /\ i - 1 # n)
        BY <3>2
      <4>2. f[i] = IF i = 0 THEN first ELSE Put(f[i - 1], i)
        BY <2>1, <4>1
      <4>3. g[i] = f[i] /\ (i # 0 => g[i - 1] = f[i - 1])
        BY <3>2, <4>1
      <4>. HIDE DEF g
      <4>4. QED
        BY <4>2, <4>3
    <3>3. QED
      BY <3>1, <3>2
  <2>3. Walk(g, n)
    BY <2>2
  <2>4. n \in Nat /\ \E h : Walk(h, n)
    <3>. HIDE DEF Walk, g
    <3>1. QED
      BY <2>3
  <2>5. QED
    BY <2>4
<1>. HIDE DEF S
<1>3. m \in S
  <2>1. 0..m \subseteq S
    BY <1>1, <1>2, UpToNat
  <2>2. QED
    BY <2>1
<1>4. PICK f : Walk(f, m)
  BY <1>3 DEF S
<1>5. Walk(Built(q), m)
  BY <1>4 DEF Built, Put, first
<1>6. Built(q)[0] = first /\ \A i \in 1..m : Built(q)[i] = Put(Built(q)[i - 1], i)
  <2>1. \A i \in 0..m : Built(q)[i] = IF i = 0 THEN first ELSE Put(Built(q)[i - 1], i)
    BY <1>5
  <2>2. m \in Nat /\ 0 \in 0..m /\ \A i \in 1..m : i \in 0..m /\ i # 0
    OBVIOUS
  <2>. HIDE DEF m
  <2>3. QED
    BY <2>1, <2>2
<1>7. QED
  BY <1>6 DEF first, Put

\* All the joins of a query.
LEMMA JoinTreeLower ==
    ASSUME NEW q, Len(q.filters) \in Nat, Len(q.joins) \in Nat
    PROVE  Lower(JoinTree(q))
<1>. DEFINE w == Built(q)
            S == { i \in 0..Len(q.joins) : Lower(w[i]) }
<1>1. /\ \E t : w[0] = TableWithFilters(q, t)
      /\ \A i \in 1..Len(q.joins) : \E c, d : w[i] = JoinOver(q, w[i - 1], c, d)
  <2>1. \E t : w[0] = TableWithFilters(q, t)
    BY BuiltSteps
  <2>2. ASSUME NEW i \in 1..Len(q.joins)
        PROVE  \/ w[i] = JoinOver(q, w[i - 1], q.joins[i][2], q.joins[i][1])
               \/ w[i] = JoinOver(q, w[i - 1], q.joins[i][1], q.joins[i][2])
    BY BuiltSteps
  <2>. HIDE DEF w
  <2>3. QED
    BY <2>1, <2>2
<1>2. JoinTree(q) = w[Len(q.joins)]
  BY DEF JoinTree, Built
<1>. HIDE DEF w
<1>3. 0 \in S
  BY <1>1, FiltersLower
<1>4. ASSUME NEW i \in 1..Len(q.joins), i - 1 \in S PROVE i \in S
  <2>1. Lower(w[i - 1])
    BY <1>4
  <2>2. Lower(w[i])
    BY <1>1, <2>1, JoinOverLower
  <2>3. QED
    BY <2>2
<1>5. 0..Len(q.joins) \subseteq S
  <2>. HIDE DEF S
  <2>1. QED
    BY <1>3, <1>4, UpToNat
<1>6. QED
  BY <1>2, <1>5

\* The aggregates, the last i of the select list.
AggsOver(q) ==
    LET n == Len(q.aggs)
        over[i \in 0..n] ==
          IF i = 0 THEN JoinTree(q) ELSE AggOver(over[i - 1], q.aggs[n + 1 - i])
    IN  over

\* What is done with one aggregate.
LEMMA AggsOverSteps ==
    ASSUME NEW q, Len(q.aggs) \in Nat
    PROVE  /\ AggsOver(q)[0] = JoinTree(q)
           /\ \A i \in 1..Len(q.aggs) :
                AggsOver(q)[i] = AggOver(AggsOver(q)[i - 1], q.aggs[Len(q.aggs) + 1 - i])
<1>. DEFINE m == Len(q.aggs)
            first == JoinTree(q)
            Put(s, i) == AggOver(s, q.aggs[m + 1 - i])
            Walk(f, n) == f = [i \in 0..n |-> IF i = 0 THEN first ELSE Put(f[i - 1], i)]
            S == { n \in Nat : \E f : Walk(f, n) }
<1>. HIDE DEF Put, first
<1>1. 0 \in S
  <2>1. Walk([i \in 0..0 |-> first], 0)
    OBVIOUS
  <2>2. QED
    BY <2>1
<1>2. ASSUME NEW n \in 1..m, n - 1 \in S PROVE n \in S
  <2>1. PICK f : Walk(f, n - 1)
    BY <1>2
  <2>. DEFINE g == [i \in 0..n |-> IF i = n THEN Put(f[n - 1], n) ELSE f[i]]
  <2>2. ASSUME NEW i \in 0..n PROVE g[i] = IF i = 0 THEN first ELSE Put(g[i - 1], i)
    <3>1. CASE i = n
      BY <3>1
    <3>2. CASE i # n
      <4>1. i \in 0..(n - 1) /\ (i # 0 => i - 1 \in 0..(n - 1) /\ i - 1 \in 0..n /\ i - 1 # n)
        BY <3>2
      <4>2. f[i] = IF i = 0 THEN first ELSE Put(f[i - 1], i)
        BY <2>1, <4>1
      <4>3. g[i] = f[i] /\ (i # 0 => g[i - 1] = f[i - 1])
        BY <3>2, <4>1
      <4>. HIDE DEF g
      <4>4. QED
        BY <4>2, <4>3
    <3>3. QED
      BY <3>1, <3>2
  <2>3. Walk(g, n)
    BY <2>2
  <2>4. n \in Nat /\ \E h : Walk(h, n)
    <3>. HIDE DEF Walk, g
    <3>1. QED
      BY <2>3
  <2>5. QED
    BY <2>4
<1>. HIDE DEF S
<1>3. m \in S
  <2>1. 0..m \subseteq S
    BY <1>1, <1>2, UpToNat
  <2>2. QED
    BY <2>1
<1>4. PICK f : Walk(f, m)
  BY <1>3 DEF S
<1>5. Walk(AggsOver(q), m)
  BY <1>4 DEF AggsOver, Put, first
<1>6. AggsOver(q)[0] = first /\ \A i \in 1..m : AggsOver(q)[i] = Put(AggsOver(q)[i - 1], i)
  <2>1. \A i \in 0..m : AggsOver(q)[i] = IF i = 0 THEN first ELSE Put(AggsOver(q)[i - 1], i)
    BY <1>5
  <2>2. m \in Nat /\ 0 \in 0..m /\ \A i \in 1..m : i \in 0..m /\ i # 0
    OBVIOUS
  <2>. HIDE DEF m
  <2>3. QED
    BY <2>1, <2>2
<1>7. QED
  BY <1>6 DEF first, Put

\* An aggregate, with the arithmetic of its argument.
LEMMA AggOverLower ==
    ASSUME NEW low, Lower(low), NEW a, a.op \in {"sum", "agg"}, IsSeq(a.of)
    PROVE  Lower(AggOver(low, a))
<1>1. a.op \notin Top /\ "map" \notin Top /\ "map" # "sum" /\ IsSeq(<<a.via>>)
  BY OneIs DEF Top
<1>2. Lower(Over(low, "map", a.of, <<a.via>>, <<>>))
  BY <1>1, OverLower
<1>3. /\ Lower(Over(low, a.op, a.of, <<a.as>>, <<>>))
      /\ Lower(Over(Over(low, "map", a.of, <<a.via>>, <<>>), a.op, <<a.via>>, <<a.as>>, <<>>))
  BY <1>1, <1>2, OverLower
<1>4. QED
  BY <1>3 DEF AggOver

\* The joins of a query with its aggregates.
LEMMA AggregatedLower ==
    ASSUME NEW q \in ParsedQuery
    PROVE  Lower(Aggregated(q))
<1>. DEFINE w == AggsOver(q)
            m == Len(q.aggs)
            S == { i \in 0..m : Lower(w[i]) }
<1>1. /\ Len(q.filters) \in Nat /\ Len(q.joins) \in Nat /\ m \in Nat
      /\ \A i \in 1..m : q.aggs[i].op \in {"sum", "agg"} /\ IsSeq(q.aggs[i].of)
  <2>. DEFINE Agg == [op : {"sum", "agg"}, of : Seq(Names), via : Names \cup {""}, as : Names]
  <2>1. /\ q.filters \in Seq(Seq(Names)) /\ q.joins \in Seq(Names \X Names)
        /\ q.aggs \in Seq(Agg)
    BY DEF ParsedQuery
  <2>2. \A a \in Agg : a.op \in {"sum", "agg"} /\ IsSeq(a.of)
    <3>1. \A a \in Agg : a.op \in {"sum", "agg"} /\ a.of \in Seq(Names)
      OBVIOUS
    <3>. HIDE DEF Agg
    <3>2. QED
      BY <3>1, SeqIs
  <2>. HIDE DEF Agg
  <2>3. \A i \in 1..m : q.aggs[i] \in Agg
    BY <2>1
  <2>4. QED
    BY <2>1, <2>2, <2>3
<1>2. /\ w[0] = JoinTree(q)
      /\ \A i \in 1..m : w[i] = AggOver(w[i - 1], q.aggs[m + 1 - i])
  BY <1>1, AggsOverSteps
<1>3. Aggregated(q) = w[m]
  BY DEF Aggregated, AggsOver
<1>. HIDE DEF w, m
<1>4. 0 \in S
  BY <1>1, <1>2, JoinTreeLower
<1>5. ASSUME NEW i \in 1..m, i - 1 \in S PROVE i \in S
  <2>1. Lower(w[i - 1]) /\ m + 1 - i \in 1..m
    BY <1>1, <1>5
  <2>2. /\ q.aggs[m + 1 - i].op \in {"sum", "agg"} /\ IsSeq(q.aggs[m + 1 - i].of)
        /\ w[i] = AggOver(w[i - 1], q.aggs[m + 1 - i])
    BY <1>1, <1>2, <2>1
  <2>3. Lower(w[i])
    BY <2>1, <2>2, AggOverLower
  <2>4. QED
    BY <2>3
<1>6. 0..m \subseteq S
  <2>. HIDE DEF S
  <2>1. QED
    BY <1>1, <1>4, <1>5, UpToNat
<1>7. QED
  BY <1>1, <1>3, <1>6

-----------------------------------------------------------------------------
(* Where the sort and the group of a query stand.                          *)

\* Where the sort and the group of the query q stand.
SortAt(p) == Len(p) - 1
GroupAt(q, p) == IF q.order = <<>> THEN Len(p) - 1 ELSE Len(p) - 2

\* The node x orders by the columns of ORDER BY before any others.
InOrder(q, x) ==
    /\ Len(q.order) <= Len(x.in) /\ Len(q.order) <= Len(x.orders)
    /\ \A i \in 1..Len(q.order) : q.order[i] = <<x.in[i], x.orders[i]>>

\* The node x groups by the columns of GROUP BY; an aggregate may follow them.
KeysOf(x) == { x.in[i] : i \in 1..Len(x.orders) }
GroupedBy(q, x) ==
    /\ IsSeq(x.in) /\ IsSeq(x.orders) /\ Len(x.orders) <= Len(x.in)
    /\ KeysOf(x) = { q.group[i] : i \in 1..Len(q.group) }

\* Above the others there is the sort, or the group in its stead.
SortOnTop(q, p) ==
    /\ p[Len(p)].kids = <<SortAt(p)>> /\ Len(p[SortAt(p)].kids) = 1
    /\ IsSeq(p[SortAt(p)].in) /\ Len(p[SortAt(p)].in) = Len(q.order)
    /\ IsSeq(p[SortAt(p)].orders) /\ Len(p[SortAt(p)].orders) = Len(q.order)
    /\ InOrder(q, p[SortAt(p)])
GroupOnTop(q, p) ==
    /\ q.group # <<>> /\ p[Len(p)].kids = <<GroupAt(q, p)>> /\ InOrder(q, p[GroupAt(q, p)])

\* There is no other sort and no other group.
SortsPlaced(q, p) ==
    \A n \in 1..Len(p) : p[n].op = "sort" <=> q.order # <<>> /\ n = SortAt(p)
GroupsPlaced(q, p) ==
    \A n \in 1..Len(p) : p[n].op = "group" <=> q.group # <<>> /\ n = GroupAt(q, p)

\* The group is below the result or below the sort.
GroupBelow(q, p) ==
    \/ p[Len(p)].kids = <<GroupAt(q, p)>>
    \/ q.order # <<>> /\ SortOnTop(q, p) /\ p[SortAt(p)].kids = <<GroupAt(q, p)>>

\* A group has one child.
GroupOverOne(q, p) == q.group # <<>> => Len(p[GroupAt(q, p)].kids) = 1

\* The plan p of the query q, early if no rewriting has changed the group.
LaidOut(q, p, early) ==
    /\ Forest(p) /\ Len(p) >= 1 /\ p[Len(p)].op = "select" /\ SumsRead(p)
    /\ SortsPlaced(q, p) /\ GroupsPlaced(q, p)
    /\ q.order # <<>> =>
         /\ SortAt(p) \in 1..Len(p)
         /\ SortOnTop(q, p) \/ (~early /\ GroupOnTop(q, p))
    /\ q.group # <<>> =>
         /\ GroupAt(q, p) \in 1..Len(p)
         /\ GroupedBy(q, p[GroupAt(q, p)]) /\ GroupBelow(q, p)
         /\ early => Len(p[GroupAt(q, p)].in) = Len(p[GroupAt(q, p)].orders)

\* A node on top is the last one.
LEMMA PutOnAgain ==
    ASSUME NEW p, NEW r, NEW x, PutOn(r, p, x), Forest(p)
    PROVE  /\ Forest(r) /\ Len(r) \in Nat /\ Len(p) \in Nat /\ Len(r) = Len(p) + 1
           /\ Len(r) >= 1 /\ r[Len(r)] = x /\ \A n \in 1..Len(p) : r[n] = p[n]
           /\ \A n \in 1..Len(r) : n = Len(r) \/ n \in 1..Len(p)
BY DEF PutOn, Forest, IsSeq

\* The group of a query, if it has one, over its aggregates.
GroupedPlan(q, p) ==
    /\ Forest(p) /\ Len(p) >= 1 /\ SumsRead(p)
    /\ \A n \in 1..Len(p) : p[n].op \notin {"select", "sort"}
    /\ \A n \in 1..Len(p) : p[n].op = "group" <=> q.group # <<>> /\ n = Len(p)
    /\ q.group # <<>> =>
         /\ GroupedBy(q, p[Len(p)]) /\ Len(p[Len(p)].in) = Len(p[Len(p)].orders)
         /\ Len(p[Len(p)].kids) = 1

\* The group is put on a plan that has none.
LEMMA GroupOverIs ==
    ASSUME NEW q \in ParsedQuery
    PROVE  GroupedPlan(q, GroupOver(Aggregated(q), q))
<1>. DEFINE p == Aggregated(q)
            up == [i \in DOMAIN q.group |-> TRUE]
            x == Node("group", q.group, <<"idx", "srt", "clus">>, <<Len(p)>>, up)
            r == Over(p, "group", q.group, <<"idx", "srt", "clus">>, up)
<1>1. Lower(p)
  BY AggregatedLower
<1>. HIDE DEF p
<1>2. CASE q.group = <<>>
  <2>1. GroupOver(p, q) = p
    BY <1>2 DEF GroupOver
  <2>2. QED
    BY <1>1, <1>2, <2>1 DEF Lower, Top, GroupedPlan, p
<1>3. CASE q.group # <<>>
  <2>1. GroupOver(p, q) = r
    BY <1>3 DEF GroupOver
  <2>2. q.group \in Seq(Names)
    BY DEF ParsedQuery
  <2>3. IsSeq(q.group)
    BY <2>2, SeqIs
  <2>4. Len(q.group) \in Nat /\ DOMAIN q.group = 1..Len(q.group)
    BY <2>3 DEF IsSeq
  <2>5. IsSeq(up) /\ Len(up) = Len(q.group)
    <3>1. up = [i \in 1..Len(q.group) |-> up[i]]
      BY <2>4
    <3>. HIDE DEF up
    <3>2. QED
      BY <2>4, <3>1, FcnIs
  <2>. HIDE DEF up
  <2>6. PutOn(r, p, x)
    BY <1>1, OverIs DEF Lower
  <2>7. x.op = "group" /\ x.in = q.group /\ x.orders = up /\ x.kids = <<Len(p)>>
    BY NodeIs, NodeOrders
  <2>. HIDE DEF x, r
  <2>8. /\ Forest(r) /\ Len(r) \in Nat /\ Len(r) = Len(p) + 1 /\ Len(r) >= 1 /\ r[Len(r)] = x
        /\ Len(p) \in Nat /\ \A n \in 1..Len(p) : r[n] = p[n]
        /\ \A n \in 1..Len(r) : n = Len(r) \/ n \in 1..Len(p)
    BY <1>1, <2>6, PutOnAgain DEF Lower
  <2>9. GroupedBy(q, x) /\ Len(x.in) = Len(x.orders) /\ Len(x.kids) = 1
    BY <2>3, <2>4, <2>5, <2>7, OneIs DEF GroupedBy, KeysOf
  <2>10. \A n \in 1..Len(p) : r[n].op \notin Top
    BY <1>1, <2>8 DEF Lower
  <2>11. ASSUME NEW n \in 1..Len(r)
         PROVE  /\ r[n].op \notin {"select", "sort"} /\ (r[n].op = "group" <=> n = Len(r))
                /\ r[n].op = "sum" => IsSeq(r[n].in)
    <3>1. CASE n = Len(r)
      BY <2>7, <2>8, <3>1
    <3>2. CASE n # Len(r)
      <4>1. r[n].op \notin Top /\ (r[n].op = "sum" => IsSeq(r[n].in))
        BY <1>1, <2>8, <2>10, <3>2 DEF Lower, SumsRead
      <4>2. QED
        BY <3>2, <4>1 DEF Top
    <3>3. QED
      BY <3>1, <3>2
  <2>12. GroupedPlan(q, r)
    BY <1>3, <2>8, <2>9, <2>11 DEF GroupedPlan, SumsRead
  <2>13. QED
    BY <2>1, <2>12 DEF p
<1>4. QED
  BY <1>2, <1>3

\* The sort above it, if it has one.
SortedPlan(q, p, s) ==
    /\ Forest(s) /\ Len(s) >= 1 /\ SumsRead(s)
    /\ \A n \in 1..Len(s) : s[n].op # "select"
    /\ \A n \in 1..Len(s) : s[n].op = "sort" <=> q.order # <<>> /\ n = Len(s)
    /\ Len(p) \in Nat /\ Len(s) = IF q.order = <<>> THEN Len(p) ELSE Len(p) + 1
    /\ \A n \in 1..Len(p) : s[n] = p[n]
    /\ q.order # <<>> =>
         /\ s[Len(s)].kids = <<Len(p)>> /\ Len(s[Len(s)].kids) = 1 /\ InOrder(q, s[Len(s)])
         /\ IsSeq(s[Len(s)].in) /\ Len(s[Len(s)].in) = Len(q.order)
         /\ IsSeq(s[Len(s)].orders) /\ Len(s[Len(s)].orders) = Len(q.order)

\* And the sort on a plan that has none.
LEMMA SortOverIs ==
    ASSUME NEW q \in ParsedQuery, NEW p, GroupedPlan(q, p)
    PROVE  SortedPlan(q, p, SortOver(p, q))
<1>. DEFINE cols == [i \in DOMAIN q.order |-> q.order[i][1]]
            dirs == [i \in DOMAIN q.order |-> q.order[i][2]]
            x == Node("sort", cols, <<"sorted">>, <<Len(p)>>, dirs)
            r == Over(p, "sort", cols, <<"sorted">>, dirs)
<1>1. /\ Forest(p) /\ Len(p) >= 1 /\ Len(p) \in Nat /\ SumsRead(p)
      /\ \A n \in 1..Len(p) : p[n].op \notin {"select", "sort"}
  BY DEF GroupedPlan, Forest, IsSeq
<1>2. CASE q.order = <<>>
  <2>1. SortOver(p, q) = p
    BY <1>2 DEF SortOver
  <2>2. QED
    BY <1>1, <1>2, <2>1 DEF SortedPlan
<1>3. CASE q.order # <<>>
  <2>1. SortOver(p, q) = r
    BY <1>3 DEF SortOver
  <2>2. q.order \in Seq(Names \X BOOLEAN)
    BY DEF ParsedQuery
  <2>3. Len(q.order) \in Nat /\ DOMAIN q.order = 1..Len(q.order)
    BY <2>2
  <2>4. \A i \in 1..Len(q.order) : q.order[i] = <<q.order[i][1], q.order[i][2]>>
    BY <2>2
  <2>5. IsSeq(cols) /\ Len(cols) = Len(q.order) /\ \A i \in 1..Len(q.order) : cols[i] = q.order[i][1]
    <3>1. cols = [i \in 1..Len(q.order) |-> cols[i]] /\ \A i \in 1..Len(q.order) : cols[i] = q.order[i][1]
      BY <2>3
    <3>. HIDE DEF cols
    <3>2. QED
      BY <2>3, <3>1, FcnIs
  <2>6. IsSeq(dirs) /\ Len(dirs) = Len(q.order) /\ \A i \in 1..Len(q.order) : dirs[i] = q.order[i][2]
    <3>1. dirs = [i \in 1..Len(q.order) |-> dirs[i]] /\ \A i \in 1..Len(q.order) : dirs[i] = q.order[i][2]
      BY <2>3
    <3>. HIDE DEF dirs
    <3>2. QED
      BY <2>3, <3>1, FcnIs
  <2>. HIDE DEF cols, dirs
  <2>7. PutOn(r, p, x)
    BY <1>1, OverIs
  <2>8. /\ x.op = "sort" /\ x.in = cols /\ x.orders = dirs
        /\ x.kids = <<Len(p)>> /\ Len(x.kids) = 1
    BY NodeIs, NodeOrders, OneIs
  <2>. HIDE DEF x, r
  <2>9. /\ Forest(r) /\ Len(r) \in Nat /\ Len(r) = Len(p) + 1 /\ Len(r) >= 1 /\ r[Len(r)] = x
        /\ Len(p) \in Nat /\ \A n \in 1..Len(p) : r[n] = p[n]
        /\ \A n \in 1..Len(r) : n = Len(r) \/ n \in 1..Len(p)
    BY <1>1, <2>7, PutOnAgain
  <2>10. InOrder(q, x)
    BY <2>3, <2>4, <2>5, <2>6, <2>8 DEF InOrder
  <2>11. ASSUME NEW n \in 1..Len(r)
         PROVE  /\ r[n].op # "select" /\ (r[n].op = "sort" <=> n = Len(r))
                /\ r[n].op = "sum" => IsSeq(r[n].in)
    <3>1. CASE n = Len(r)
      BY <2>8, <2>9, <3>1
    <3>2. CASE n # Len(r)
      BY <1>1, <2>9, <3>2 DEF SumsRead
    <3>3. QED
      BY <3>1, <3>2
  <2>12. SortedPlan(q, p, r)
    BY <1>3, <2>5, <2>6, <2>8, <2>9, <2>10, <2>11 DEF SortedPlan, SumsRead
  <2>13. QED
    BY <2>1, <2>12
<1>4. QED
  BY <1>2, <1>3

\* And the result on top.
LEMMA PlanLaidOut ==
    ASSUME NEW q \in ParsedQuery
    PROVE  LaidOut(q, PlanOf(q), TRUE) /\ GroupOverOne(q, PlanOf(q))
<1>. DEFINE p == GroupOver(Aggregated(q), q)
            s == SortOver(p, q)
            x == Node("select", q.select, q.select, <<Len(s)>>, <<>>)
            r == Over(s, "select", q.select, q.select, <<>>)
<1>1. GroupedPlan(q, p)
  BY GroupOverIs
<1>2. SortedPlan(q, p, s)
  BY <1>1, SortOverIs
<1>3. PlanOf(q) = r
  BY DEF PlanOf
<1>. HIDE DEF p, s
<1>4. PutOn(r, s, x)
  BY <1>2, OverIs DEF SortedPlan
<1>5. x.op = "select" /\ x.kids = <<Len(s)>>
  BY NodeIs
<1>. HIDE DEF x, r
<1>6. /\ Forest(r) /\ Len(r) \in Nat /\ Len(s) \in Nat /\ Len(r) = Len(s) + 1
      /\ Len(r) >= 1 /\ r[Len(r)] = x /\ \A n \in 1..Len(s) : r[n] = s[n]
      /\ \A n \in 1..Len(r) : n = Len(r) \/ n \in 1..Len(s)
  BY <1>2, <1>4, PutOnAgain DEF SortedPlan
<1>7. /\ Len(p) \in Nat /\ Len(p) >= 1 /\ Len(s) >= 1
      /\ Len(s) = IF q.order = <<>> THEN Len(p) ELSE Len(p) + 1
  BY <1>1, <1>2 DEF GroupedPlan, SortedPlan
<1>8. SortAt(r) = Len(s) /\ GroupAt(q, r) = Len(p) /\ Len(s) \in 1..Len(r)
      /\ Len(p) \in 1..Len(r) /\ Len(p) \in 1..Len(s) /\ Len(s) \in 1..Len(s) /\ Len(p) \in 1..Len(p)
  BY <1>6, <1>7 DEF SortAt, GroupAt
<1>9. SortsPlaced(q, r)
  <2>1. ASSUME NEW n \in 1..Len(r) PROVE r[n].op = "sort" <=> q.order # <<>> /\ n = Len(s)
    <3>1. CASE n = Len(r)
      BY <1>5, <1>6, <3>1
    <3>2. CASE n # Len(r)
      BY <1>2, <1>6, <3>2 DEF SortedPlan
    <3>3. QED
      BY <3>1, <3>2
  <2>2. QED
    BY <1>8, <2>1 DEF SortsPlaced
<1>10. GroupsPlaced(q, r)
  <2>1. ASSUME NEW n \in 1..Len(r) PROVE r[n].op = "group" <=> q.group # <<>> /\ n = Len(p)
    <3>1. CASE n = Len(r)
      BY <1>5, <1>6, <1>7, <3>1
    <3>2. CASE n # Len(r) /\ n \in 1..Len(p)
      <4>1. r[n] = p[n]
        BY <1>2, <1>6, <3>2 DEF SortedPlan
      <4>2. QED
        BY <1>1, <3>2, <4>1 DEF GroupedPlan
    <3>3. CASE n # Len(r) /\ n \notin 1..Len(p)
      <4>1. n = Len(s) /\ q.order # <<>> /\ n # Len(p)
        BY <1>6, <1>7, <3>3
      <4>2. r[n].op = "sort"
        BY <1>2, <1>6, <1>8, <4>1 DEF SortedPlan
      <4>3. QED
        BY <4>1, <4>2
    <3>4. QED
      BY <3>1, <3>2, <3>3
  <2>2. QED
    BY <1>8, <2>1 DEF GroupsPlaced
<1>11. ASSUME q.order # <<>> PROVE SortOnTop(q, r) /\ r[SortAt(r)].kids = <<Len(p)>>
  <2>1. r[SortAt(r)] = s[Len(s)]
    BY <1>6, <1>8
  <2>2. r[Len(r)].kids = <<SortAt(r)>>
    BY <1>5, <1>6, <1>8
  <2>3. QED
    BY <1>2, <1>11, <2>1, <2>2 DEF SortOnTop, SortedPlan
<1>12. ASSUME q.group # <<>>
       PROVE  /\ GroupedBy(q, r[GroupAt(q, r)]) /\ GroupBelow(q, r)
              /\ Len(r[GroupAt(q, r)].in) = Len(r[GroupAt(q, r)].orders)
              /\ Len(r[GroupAt(q, r)].kids) = 1
  <2>1. r[GroupAt(q, r)] = p[Len(p)]
    BY <1>2, <1>6, <1>8 DEF SortedPlan
  <2>2. GroupBelow(q, r)
    <3>1. CASE q.order = <<>>
      BY <1>5, <1>6, <1>7, <1>8, <3>1 DEF GroupBelow
    <3>2. CASE q.order # <<>>
      BY <1>8, <1>11, <3>2 DEF GroupBelow
    <3>3. QED
      BY <3>1, <3>2
  <2>3. QED
    BY <1>1, <1>12, <2>1, <2>2 DEF GroupedPlan
<1>13. r[Len(r)].op = "select"
  BY <1>5, <1>6
<1>14. SumsRead(r)
  <2>1. ASSUME NEW n \in 1..Len(r), r[n].op = "sum" PROVE IsSeq(r[n].in)
    <3>1. n \in 1..Len(s)
      BY <1>6, <1>13, <2>1
    <3>2. QED
      BY <1>2, <1>6, <2>1, <3>1 DEF SortedPlan, SumsRead
  <2>2. QED
    BY <2>1 DEF SumsRead
<1>15. LaidOut(q, r, TRUE) /\ GroupOverOne(q, r)
  BY <1>6, <1>8, <1>9, <1>10, <1>11, <1>12, <1>13, <1>14 DEF LaidOut, GroupOverOne
<1>16. QED
  BY <1>3, <1>15 DEF r, s, p, x

-----------------------------------------------------------------------------
(***************************************************************************)
(* Semi joins.  What is below a node of a plan.                            *)
(***************************************************************************)

\* A node of a forest, and what is below it, is not behind it.
LEMMA LiveWithin ==
    ASSUME NEW p, Forest(p), NEW n \in 1..Len(p)
    PROVE  /\ n \in Live(p, n) /\ Live(p, n) \subseteq 1..n /\ Live(p, n) \subseteq 1..Len(p)
           /\ \A m \in Live(p, n) : KidsOf(p, m) \subseteq Live(p, n)
<1>1. Len(p) \in Nat /\ Descending(p)
  BY DEF Forest, IsSeq
<1>2. /\ n \in Live(p, n) /\ Live(p, n) \subseteq 1..n
      /\ \A m \in Live(p, n) : KidsOf(p, m) \subseteq Live(p, n)
  BY <1>1, LiveClosed
<1>3. 1..n \subseteq 1..Len(p)
  BY <1>1
<1>4. QED
  BY <1>2, <1>3

\* Below a node are the node and what is below its children.
LEMMA LiveOfNode ==
    ASSUME NEW p, Forest(p), NEW n \in 1..Len(p)
    PROVE  Live(p, n) = {n} \cup UNION { Live(p, k) : k \in KidsOf(p, n) }
<1>. DEFINE S == {n} \cup UNION { Live(p, k) : k \in KidsOf(p, n) }
<1>1. Len(p) \in Nat /\ KidsOf(p, n) \subseteq 1..Len(p)
  BY DEF Forest, IsSeq, Descending
<1>2. \A k \in KidsOf(p, n) : /\ k \in Live(p, k)
                              /\ \A m \in Live(p, k) : KidsOf(p, m) \subseteq Live(p, k)
  BY <1>1, LiveWithin
<1>3. Live(p, n) \subseteq S
  <2>1. \A m \in S : KidsOf(p, m) \subseteq S
    BY <1>2
  <2>2. n \in S /\ Len(p) \in Nat
    BY <1>1
  <2>. HIDE DEF S
  <2>3. QED
    BY <2>1, <2>2, LiveLeast
<1>4. S \subseteq Live(p, n)
  <2>1. /\ n \in Live(p, n)
        /\ \A m \in Live(p, n) : KidsOf(p, m) \subseteq Live(p, n)
    BY LiveWithin
  <2>2. \A k \in KidsOf(p, n) : Live(p, k) \subseteq Live(p, n)
    BY <1>1, <2>1, LiveLeast
  <2>3. QED
    BY <2>1, <2>2
<1>5. QED
  BY <1>3, <1>4

\* The tables below the node n.
Under(p, n) == { p[m].out[1] : m \in { x \in Live(p, n) : p[x].op = "table" } }

\* Below an operator are the tables below its children.
LEMMA UnderOfNode ==
    ASSUME NEW p, Forest(p), NEW n \in 1..Len(p), p[n].op # "table"
    PROVE  Under(p, n) = UNION { Under(p, k) : k \in KidsOf(p, n) }
<1>1. Live(p, n) = {n} \cup UNION { Live(p, k) : k \in KidsOf(p, n) }
  BY LiveOfNode
<1>2. QED
  BY <1>1 DEF Under

\* The pointers of a plan that stands in another.
LEMMA HoldsKids ==
    ASSUME NEW p, NEW q, NEW d, Holds(p, q, d), NEW n \in 1..Len(q)
    PROVE  /\ d + n \in 1..Len(p) /\ KidsOf(q, n) \subseteq 1..Len(q)
           /\ KidsOf(p, d + n) = { d + x : x \in KidsOf(q, n) }
<1>1. /\ Len(p) \in Nat /\ Len(q) \in Nat /\ d \in Nat /\ d + n \in 1..Len(p)
      /\ KidsOf(q, n) \subseteq 1..(n - 1)
  BY DEF Holds, Forest, IsSeq, Descending
<1>2. KidsOf(q, n) \subseteq 1..Len(q)
  BY <1>1
<1>3. IsSeq(q[n].kids) /\ IsSeq(p[d + n].kids)
  BY <1>1 DEF Holds, Forest
<1>4. /\ KidsOf(q, n) = { q[n].kids[i] : i \in 1..Len(q[n].kids) }
      /\ KidsOf(p, d + n) = { p[d + n].kids[i] : i \in 1..Len(p[d + n].kids) }
  BY <1>3, PointersAre
<1>5. Len(p[d + n].kids) = Len(q[n].kids)
  BY DEF Holds
<1>6. ASSUME NEW i \in 1..Len(q[n].kids) PROVE p[d + n].kids[i] = d + q[n].kids[i]
  <2>1. q[n].kids[i] \in 1..Len(q) /\ p[d + n].kids[i] = q[n].kids[i] + d
    BY <1>2, <1>4 DEF Holds
  <2>2. QED
    BY <1>1, <2>1
<1>7. KidsOf(p, d + n) = { d + q[n].kids[i] : i \in 1..Len(q[n].kids) }
  BY <1>4, <1>5, <1>6
<1>8. KidsOf(p, d + n) = { d + x : x \in KidsOf(q, n) }
  BY <1>4, <1>7
<1>9. QED
  BY <1>1, <1>2, <1>8

\* What is below a node of such a plan.
LEMMA HoldsLive ==
    ASSUME NEW p, NEW q, NEW d, Holds(p, q, d), NEW n \in 1..Len(q)
    PROVE  Live(p, d + n) = { d + m : m \in Live(q, n) }
<1>. DEFINE S == { d + m : m \in Live(q, n) }
            U == { m \in 1..Len(q) : d + m \in Live(p, d + n) }
<1>1. /\ Forest(p) /\ Forest(q) /\ Len(p) \in Nat /\ Len(q) \in Nat /\ d \in Nat
      /\ d + n \in 1..Len(p)
  BY HoldsKids DEF Holds, Forest, IsSeq
<1>2. /\ n \in Live(q, n) /\ Live(q, n) \subseteq 1..Len(q)
      /\ \A m \in Live(q, n) : KidsOf(q, m) \subseteq Live(q, n)
  BY <1>1, LiveWithin
<1>3. /\ d + n \in Live(p, d + n)
      /\ \A m \in Live(p, d + n) : KidsOf(p, m) \subseteq Live(p, d + n)
  BY <1>1, LiveWithin
<1>4. Live(p, d + n) \subseteq S
  <2>1. ASSUME NEW m \in Live(q, n) PROVE KidsOf(p, d + m) \subseteq S
    BY <1>2, HoldsKids
  <2>2. \A x \in S : KidsOf(p, x) \subseteq S
    BY <2>1
  <2>3. d + n \in S
    BY <1>2
  <2>. HIDE DEF S
  <2>4. QED
    BY <1>1, <2>2, <2>3, LiveLeast
<1>5. Live(q, n) \subseteq U
  <2>1. ASSUME NEW m \in U PROVE KidsOf(q, m) \subseteq U
    <3>1. KidsOf(q, m) \subseteq 1..Len(q) /\ KidsOf(p, d + m) = { d + x : x \in KidsOf(q, m) }
      BY HoldsKids
    <3>2. QED
      BY <1>3, <3>1
  <2>2. n \in U
    BY <1>3
  <2>. HIDE DEF U
  <2>3. QED
    BY <1>1, <2>1, <2>2, LiveLeast
<1>6. QED
  BY <1>4, <1>5

\* And which tables.
LEMMA HoldsUnder ==
    ASSUME NEW p, NEW q, NEW d, Holds(p, q, d), NEW n \in 1..Len(q)
    PROVE  Under(p, d + n) = Under(q, n)
<1>1. Live(p, d + n) = { d + m : m \in Live(q, n) } /\ Live(q, n) \subseteq 1..Len(q)
  <2>1. Forest(q)
    BY DEF Holds
  <2>2. QED
    BY <2>1, HoldsLive, LiveWithin
<1>2. \A m \in Live(q, n) : p[d + m].op = q[m].op /\ p[d + m].out = q[m].out
  BY <1>1 DEF Holds
<1>3. QED
  BY <1>1, <1>2 DEF Under

-----------------------------------------------------------------------------
(***************************************************************************)
(* The joins of the plan that the front end builds.                        *)
(***************************************************************************)

\* The join n adds one table on its right; what it adds it to is the table of
\* its first column alone, if this is unique there.
JoinFits(p, n) ==
    LET known == p[n].in[1]
        added == p[n].in[2]
        left == Under(p, p[n].kids[1])
    IN  /\ Len(p[n].kids) = 2 /\ p[n].in = <<known, added>>
        /\ Under(p, p[n].kids[2]) = {TableOf[added]}
        /\ TableOf[known] \in left /\ TableOf[added] \notin left
        /\ known \in Unique => left = {TableOf[known]}

\* In a plan that stands in another the joins are the same.
LEMMA HoldsFits ==
    ASSUME NEW p, NEW q, NEW d, Holds(p, q, d), NEW n \in 1..Len(q), JoinFits(q, n)
    PROVE  JoinFits(p, d + n)
<1>1. Len(q[n].kids) = 2 /\ IsSeq(q[n].kids)
  BY DEF JoinFits, Holds, Forest
<1>2. 1 \in 1..Len(q[n].kids) /\ 2 \in 1..Len(q[n].kids)
  BY <1>1
<1>3. /\ q[n].kids[1] \in 1..Len(q) /\ q[n].kids[2] \in 1..Len(q)
  <2>1. q[n].kids[1] \in KidsOf(q, n) /\ q[n].kids[2] \in KidsOf(q, n)
    BY <1>1, <1>2, PointersAre
  <2>2. QED
    BY <2>1, HoldsKids
<1>4. /\ p[d + n].kids[1] = d + q[n].kids[1] /\ p[d + n].kids[2] = d + q[n].kids[2]
      /\ Len(p[d + n].kids) = 2 /\ p[d + n].in = q[n].in
  <2>1. /\ p[d + n].kids[1] = q[n].kids[1] + d /\ p[d + n].kids[2] = q[n].kids[2] + d
        /\ Len(p[d + n].kids) = 2 /\ p[d + n].in = q[n].in /\ d \in Nat
    BY <1>1, <1>2 DEF Holds
  <2>2. QED
    BY <1>3, <2>1
<1>5. /\ Under(p, p[d + n].kids[1]) = Under(q, q[n].kids[1])
      /\ Under(p, p[d + n].kids[2]) = Under(q, q[n].kids[2])
  BY <1>3, <1>4, HoldsUnder
<1>6. QED
  BY <1>4, <1>5 DEF JoinFits

\* All tables of a plan.
TablesOf(p) == { p[m].out[1] : m \in { x \in 1..Len(p) : p[x].op = "table" } }

\* A plan with the tables T under its root, without semi joins; if star holds,
\* its joins fit.
Fits(p, T, star) ==
    /\ Forest(p) /\ Len(p) >= 1 /\ \A n \in 1..Len(p) : p[n].op # "semijoin"
    /\ star => /\ TablesOf(p) = T /\ Under(p, Len(p)) = T
               /\ \A n \in 1..Len(p) : p[n].op = "join" => JoinFits(p, n)

\* Under a node on top a plan stays what it is.
LEMMA PutOnHolds ==
    ASSUME NEW p, NEW r, NEW x, Forest(p), PutOn(r, p, x)
    PROVE  /\ Holds(r, p, 0) /\ Len(p) \in Nat
           /\ \A n \in 1..Len(p) : Under(r, n) = Under(p, n) /\ (JoinFits(p, n) => JoinFits(r, n))
<1>1. /\ Len(p) \in Nat /\ Len(r) = Len(p) + 1 /\ Forest(r)
      /\ \A n \in 1..Len(p) : r[n] = p[n] /\ IsSeq(p[n].kids) /\ KidsOf(p, n) \subseteq 1..(n - 1)
  BY DEF Forest, IsSeq, Descending, PutOn
<1>2. \A n \in 1..Len(p) : 0 + n = n
  BY <1>1
<1>3. ASSUME NEW n \in 1..Len(p), NEW i \in 1..Len(p[n].kids)
      PROVE  p[n].kids[i] + 0 = p[n].kids[i]
  <2>1. p[n].kids[i] \in KidsOf(p, n)
    BY <1>1, PointersAre
  <2>2. p[n].kids[i] \in 1..(n - 1)
    BY <1>1, <2>1
  <2>3. QED
    BY <2>2
<1>4. 0 + Len(p) <= Len(r) /\ 0 \in Nat
  BY <1>1
<1>5. Holds(r, p, 0)
  BY <1>1, <1>2, <1>3, <1>4 DEF Holds
<1>6. ASSUME NEW n \in 1..Len(p)
      PROVE  Under(r, n) = Under(p, n) /\ (JoinFits(p, n) => JoinFits(r, n))
  <2>1. Under(r, 0 + n) = Under(p, n) /\ (JoinFits(p, n) => JoinFits(r, 0 + n))
    BY <1>5, HoldsUnder, HoldsFits
  <2>2. QED
    BY <1>2, <2>1
<1>7. QED
  BY <1>1, <1>5, <1>6

\* The tables of a plan with an operator on top.
LEMMA PutOnTables ==
    ASSUME NEW p, NEW r, NEW x, Forest(p), PutOn(r, p, x), x.op # "table"
    PROVE  TablesOf(r) = TablesOf(p)
<1>1. \A n \in 1..Len(r) : n = Len(r) \/ n \in 1..Len(p)
  BY PutOnAgain
<1>2. r[Len(r)] = x /\ Len(r) \in Nat /\ Len(p) \in Nat /\ Len(r) = Len(p) + 1
      /\ \A n \in 1..Len(p) : r[n] = p[n]
  BY PutOnAgain
<1>3. 1..Len(p) \subseteq 1..Len(r)
  BY <1>2
<1>4. { m \in 1..Len(r) : r[m].op = "table" } = { m \in 1..Len(p) : p[m].op = "table" }
  BY <1>1, <1>2, <1>3
<1>5. QED
  BY <1>2, <1>4 DEF TablesOf

\* A plan fits as before with any other operator on top of it.
LEMMA OverFits ==
    ASSUME NEW p, NEW T, NEW star \in BOOLEAN, Fits(p, T, star),
           NEW op, op \notin {"table", "join", "semijoin"}, NEW in, NEW out, NEW orders
    PROVE  Fits(Over(p, op, in, out, orders), T, star)
<1>. DEFINE x == Node(op, in, out, <<Len(p)>>, orders)
            r == Over(p, op, in, out, orders)
<1>1. Forest(p) /\ PutOn(r, p, x)
  BY OverIs DEF Fits
<1>2. x.op = op /\ x.kids = <<Len(p)>>
  BY NodeIs
<1>. HIDE DEF x, r
<1>3. /\ Forest(r) /\ Len(r) >= 1 /\ r[Len(r)] = x /\ Len(r) \in 1..Len(r) /\ Len(p) \in 1..Len(p)
      /\ \A n \in 1..Len(p) : r[n] = p[n]
      /\ \A n \in 1..Len(r) : n = Len(r) \/ n \in 1..Len(p)
  <2>1. /\ Forest(r) /\ Len(r) >= 1 /\ r[Len(r)] = x /\ Len(r) \in Nat /\ Len(p) \in Nat
        /\ \A n \in 1..Len(p) : r[n] = p[n]
        /\ \A n \in 1..Len(r) : n = Len(r) \/ n \in 1..Len(p)
    BY <1>1, PutOnAgain
  <2>2. Len(p) >= 1
    BY DEF Fits
  <2>3. QED
    BY <2>1, <2>2
<1>4. \A n \in 1..Len(p) : Under(r, n) = Under(p, n) /\ (JoinFits(p, n) => JoinFits(r, n))
  BY <1>1, PutOnHolds
<1>5. \A n \in 1..Len(r) : r[n].op # "semijoin"
  BY <1>2, <1>3 DEF Fits
<1>6. TablesOf(r) = TablesOf(p)
  BY <1>1, <1>2, PutOnTables
<1>7. Under(r, Len(r)) = Under(p, Len(p))
  <2>1. KidsOf(r, Len(r)) = {Len(p)}
    <3>1. IsSeq(r[Len(r)].kids) /\ Len(r[Len(r)].kids) = 1 /\ r[Len(r)].kids[1] = Len(p)
      BY <1>2, <1>3, OneIs
    <3>2. KidsOf(r, Len(r)) = { r[Len(r)].kids[i] : i \in 1..1 }
      BY <3>1, PointersAre
    <3>3. QED
      BY <3>1, <3>2
  <2>2. Under(r, Len(r)) = UNION { Under(r, k) : k \in {Len(p)} }
    BY <1>2, <1>3, <2>1, UnderOfNode
  <2>3. QED
    BY <1>3, <1>4, <2>2
<1>8. star => \A n \in 1..Len(r) : r[n].op = "join" => JoinFits(r, n)
  BY <1>2, <1>3, <1>4 DEF Fits
<1>9. Fits(r, T, star)
  BY <1>3, <1>5, <1>6, <1>7, <1>8 DEF Fits
<1>10. QED
  BY <1>9 DEF r

\* A table node alone fits.
LEMMA TableFits ==
    ASSUME NEW t, NEW star \in BOOLEAN
    PROVE  Fits(<< Node("table", <<t>>, <<t>>, <<>>, <<>>) >>, {t}, star)
<1>. DEFINE x == Node("table", <<t>>, <<t>>, <<>>, <<>>)
            p == <<x>>
<1>1. IsSeq(p) /\ Len(p) = 1 /\ p[1] = x
  BY OneIs
<1>2. Forest(p)
  BY TableLower DEF Lower
<1>3. x.op = "table" /\ x.out = <<t>> /\ <<t>>[1] = t
  BY NodeIs, OneIs
<1>. HIDE DEF x, p
<1>4. 1..Len(p) = {1}
  BY <1>1
<1>5. TablesOf(p) = {t}
  BY <1>1, <1>3, <1>4 DEF TablesOf
<1>6. Live(p, 1) = {1}
  <2>1. 1 \in Live(p, 1) /\ Live(p, 1) \subseteq 1..Len(p)
    BY <1>2, <1>4, LiveWithin
  <2>2. QED
    BY <1>4, <2>1
<1>7. Under(p, Len(p)) = {t}
  BY <1>1, <1>3, <1>6 DEF Under
<1>8. \A n \in 1..Len(p) : p[n].op = "table"
  BY <1>1, <1>3, <1>4
<1>9. Fits(p, {t}, star)
  BY <1>1, <1>2, <1>5, <1>7, <1>8 DEF Fits
<1>10. QED
  BY <1>9 DEF x, p

\* And with the filters of its table.
LEMMA FiltersFit ==
    ASSUME NEW q, NEW t, Len(q.filters) \in Nat, NEW star \in BOOLEAN
    PROVE  Fits(TableWithFilters(q, t), {t}, star)
<1>. DEFINE w == Placed(q, t)
            S == { i \in 0..Len(q.filters) : Fits(w[i], {t}, star) }
<1>1. /\ w[0] = << Node("table", <<t>>, <<t>>, <<>>, <<>>) >>
      /\ \A i \in 1..Len(q.filters) : Filtered(w[i], w[i - 1])
  BY PlacedSteps
<1>2. TableWithFilters(q, t) = w[Len(q.filters)]
  BY DEF TableWithFilters, Placed
<1>. HIDE DEF w
<1>3. 0 \in S
  BY <1>1, TableFits
<1>4. ASSUME NEW i \in 1..Len(q.filters), i - 1 \in S PROVE i \in S
  <2>1. Fits(w[i - 1], {t}, star)
    BY <1>4
  <2>2. "filter" \notin {"table", "join", "semijoin"}
    OBVIOUS
  <2>3. \A f, out : Fits(Over(w[i - 1], "filter", f, out, <<>>), {t}, star)
    BY <2>1, <2>2, OverFits
  <2>4. Fits(w[i], {t}, star)
    BY <1>1, <2>1, <2>3 DEF Filtered
  <2>5. QED
    BY <2>4
<1>5. 0..Len(q.filters) \subseteq S
  <2>. HIDE DEF S
  <2>1. QED
    BY <1>3, <1>4, UpToNat
<1>6. Len(q.filters) \in S
  <2>. HIDE DEF S
  <2>1. QED
    BY <1>5
<1>7. QED
  BY <1>2, <1>6

\* The tables of two plans in a row.
LEMMA RowTables ==
    ASSUME NEW p, NEW q, NEW r, Len(r) = Len(p) + Len(q), Holds(r, p, 0), Holds(r, q, Len(p))
    PROVE  TablesOf(r) = TablesOf(p) \cup TablesOf(q)
<1>1. Len(p) \in Nat /\ Len(q) \in Nat
  BY DEF Holds, Forest, IsSeq
<1>2. /\ \A n \in 1..Len(p) : n \in 1..Len(r) /\ r[n].op = p[n].op /\ r[n].out = p[n].out
      /\ \A n \in 1..Len(q) : /\ Len(p) + n \in 1..Len(r)
                              /\ r[Len(p) + n].op = q[n].op /\ r[Len(p) + n].out = q[n].out
  <2>1. \A n \in 1..Len(p) : 0 + n = n /\ n \in 1..Len(r)
    BY <1>1
  <2>2. \A n \in 1..Len(q) : Len(p) + n \in 1..Len(r)
    BY <1>1
  <2>3. QED
    BY <2>1, <2>2 DEF Holds
<1>3. ASSUME NEW n \in 1..Len(r)
      PROVE  n \in 1..Len(p) \/ \E j \in 1..Len(q) : n = Len(p) + j
  <2>1. CASE n \in 1..Len(p)
    BY <2>1
  <2>2. CASE n \notin 1..Len(p)
    <3>1. n - Len(p) \in 1..Len(q) /\ n = Len(p) + (n - Len(p))
      BY <1>1, <2>2
    <3>2. QED
      BY <3>1
  <2>3. QED
    BY <2>1, <2>2
<1>4. TablesOf(r) \subseteq TablesOf(p) \cup TablesOf(q)
  <2>1. ASSUME NEW n \in 1..Len(r), r[n].op = "table"
        PROVE  r[n].out[1] \in TablesOf(p) \cup TablesOf(q)
    <3>1. CASE n \in 1..Len(p)
      BY <1>2, <2>1, <3>1 DEF TablesOf
    <3>2. CASE n \notin 1..Len(p)
      <4>1. PICK j \in 1..Len(q) : n = Len(p) + j
        BY <1>3, <3>2
      <4>2. q[j].op = "table" /\ r[n].out = q[j].out
        BY <1>2, <2>1, <4>1
      <4>3. QED
        BY <4>2 DEF TablesOf
    <3>3. QED
      BY <3>1, <3>2
  <2>2. QED
    BY <2>1 DEF TablesOf
<1>5. TablesOf(p) \subseteq TablesOf(r) /\ TablesOf(q) \subseteq TablesOf(r)
  <2>1. ASSUME NEW n \in 1..Len(p), p[n].op = "table" PROVE p[n].out[1] \in TablesOf(r)
    BY <1>2, <2>1 DEF TablesOf
  <2>2. ASSUME NEW n \in 1..Len(q), q[n].op = "table" PROVE q[n].out[1] \in TablesOf(r)
    <3>1. Len(p) + n \in 1..Len(r) /\ r[Len(p) + n].op = "table"
          /\ q[n].out[1] = r[Len(p) + n].out[1]
      BY <1>2, <2>2
    <3>. DEFINE m == Len(p) + n
    <3>2. m \in 1..Len(r) /\ r[m].op = "table" /\ q[n].out[1] = r[m].out[1]
      BY <3>1
    <3>. HIDE DEF m
    <3>3. QED
      BY <3>2 DEF TablesOf
  <2>3. QED
    BY <2>1, <2>2 DEF TablesOf
<1>6. QED
  BY <1>4, <1>5

\* A join that adds a new table to a plan that fits.
LEMMA JoinOverFits ==
    ASSUME NEW q, NEW low, NEW left, NEW right, Len(q.filters) \in Nat,
           NEW T, NEW star \in BOOLEAN, Fits(low, T, star),
           star => /\ TableOf[left] \in T /\ TableOf[right] \notin T
                   /\ left \in Unique => T = {TableOf[left]}
    PROVE  Fits(JoinOver(q, low, left, right), T \cup {TableOf[right]}, star)
<1>. DEFINE t == TableOf[right]
            dim == TableWithFilters(q, t)
            all == low \o Shifted(dim, Len(low))
            in == <<left, right>>
            kids == <<Len(low), Len(all)>>
            x == Node("join", in, in, kids, <<>>)
            r == Append(all, x)
<1>1. Fits(dim, {t}, star)
  BY FiltersFit
<1>2. JoinOver(q, low, left, right) = r
  BY DEF JoinOver
<1>3. in[1] = left /\ in[2] = right
  OBVIOUS
<1>. HIDE DEF dim, in
<1>4. Len(all) = Len(low) + Len(dim) /\ Holds(all, low, 0) /\ Holds(all, dim, Len(low))
  BY <1>1, RowOfForests DEF Fits
<1>. HIDE DEF all
<1>5. /\ Len(low) \in Nat /\ Len(dim) \in Nat /\ Len(all) \in Nat
      /\ Len(low) >= 1 /\ Len(dim) >= 1 /\ Forest(all)
  BY <1>1, <1>4 DEF Fits, Forest, IsSeq, Holds
<1>6. /\ Len(low) \in 1..Len(all) /\ Len(all) \in 1..Len(all) /\ Len(low) \in 1..Len(low)
      /\ Len(dim) \in 1..Len(dim) /\ 0 + Len(low) = Len(low)
  BY <1>4, <1>5
<1>7. IsSeq(kids) /\ Len(kids) = 2 /\ kids[1] = Len(low) /\ kids[2] = Len(all)
  <2>1. kids \in Seq(1..Len(all)) /\ Len(kids) = 2 /\ kids[1] = Len(low) /\ kids[2] = Len(all)
    BY <1>6
  <2>. HIDE DEF kids
  <2>2. QED
    BY <2>1, SeqIs
<1>8. \A i \in 1..Len(kids) : kids[i] \in 1..Len(all)
  <2>1. \A i \in 1..2 : i = 1 \/ i = 2
    OBVIOUS
  <2>. HIDE DEF kids
  <2>2. QED
    BY <1>6, <1>7, <2>1
<1>. HIDE DEF kids
<1>9. IsNode(x) /\ x.kids = kids /\ x.op = "join" /\ x.in = in
  BY NodeIs
<1>. HIDE DEF x
<1>10. PutOn(r, all, x)
  BY <1>5, <1>7, <1>8, <1>9, PutOnIs
<1>. HIDE DEF r
<1>11. /\ Forest(r) /\ Len(r) >= 1 /\ r[Len(r)] = x /\ Len(r) \in 1..Len(r)
       /\ \A n \in 1..Len(all) : r[n] = all[n]
       /\ \A n \in 1..Len(r) : n = Len(r) \/ n \in 1..Len(all)
  <2>1. /\ Forest(r) /\ Len(r) >= 1 /\ r[Len(r)] = x /\ Len(r) \in Nat
        /\ \A n \in 1..Len(all) : r[n] = all[n]
        /\ \A n \in 1..Len(r) : n = Len(r) \/ n \in 1..Len(all)
    BY <1>5, <1>10, PutOnAgain
  <2>2. QED
    BY <2>1
<1>12. \A n \in 1..Len(all) : Under(r, n) = Under(all, n) /\ (JoinFits(all, n) => JoinFits(r, n))
  BY <1>5, <1>10, PutOnHolds
<1>13. ASSUME NEW n \in 1..Len(all)
       PROVE  all[n].op # "semijoin" /\ (star /\ all[n].op = "join" => JoinFits(all, n))
  <2>1. CASE n <= Len(low)
    <3>1. n \in 1..Len(low) /\ 0 + n = n
      BY <1>5, <2>1
    <3>2. all[0 + n].op = low[n].op /\ (JoinFits(low, n) => JoinFits(all, 0 + n))
      BY <1>4, <3>1, HoldsFits DEF Holds
    <3>3. QED
      BY <3>1, <3>2 DEF Fits
  <2>2. CASE ~(n <= Len(low))
    <3>1. PICK j \in 1..Len(dim) : n = Len(low) + j
      <4>1. n - Len(low) \in 1..Len(dim) /\ n = Len(low) + (n - Len(low))
        BY <1>4, <1>5, <2>2
      <4>2. QED
        BY <4>1
    <3>2. all[n].op = dim[j].op /\ (JoinFits(dim, j) => JoinFits(all, n))
      BY <1>4, <3>1, HoldsFits DEF Holds
    <3>3. QED
      BY <1>1, <3>2 DEF Fits
  <2>3. QED
    BY <2>1, <2>2
<1>14. ASSUME star
       PROVE  /\ TablesOf(r) = T \cup {t}
              /\ Under(r, kids[1]) = T /\ Under(r, kids[2]) = {t}
  <2>1. TablesOf(r) = TablesOf(all)
    <3>1. x.op # "table"
      BY <1>9
    <3>2. QED
      BY <1>5, <1>10, <3>1, PutOnTables
  <2>2. TablesOf(all) = TablesOf(low) \cup TablesOf(dim)
    BY <1>4, RowTables
  <2>3. TablesOf(low) = T /\ TablesOf(dim) = {t} /\ Under(low, Len(low)) = T
        /\ Under(dim, Len(dim)) = {t}
    BY <1>1, <1>14 DEF Fits
  <2>4. Under(all, Len(low)) = T
    <3>1. Under(all, 0 + Len(low)) = Under(low, Len(low))
      BY <1>4, <1>6, HoldsUnder
    <3>2. QED
      BY <1>6, <2>3, <3>1
  <2>5. Under(all, Len(all)) = {t}
    <3>1. Under(all, Len(low) + Len(dim)) = Under(dim, Len(dim))
      BY <1>4, <1>6, HoldsUnder
    <3>2. QED
      BY <1>4, <2>3, <3>1
  <2>6. QED
    BY <1>6, <1>7, <1>12, <2>1, <2>2, <2>3, <2>4, <2>5
<1>15. ASSUME star PROVE Under(r, Len(r)) = T \cup {t} /\ JoinFits(r, Len(r))
  <2>1. KidsOf(r, Len(r)) = {kids[1], kids[2]}
    <3>1. IsSeq(r[Len(r)].kids) /\ r[Len(r)].kids = kids
      BY <1>7, <1>9, <1>11
    <3>2. QED
      BY <1>7, <3>1, TwoPointers
  <2>2. Under(r, Len(r)) = UNION { Under(r, k) : k \in {kids[1], kids[2]} }
    <3>1. r[Len(r)].op # "table"
      BY <1>9, <1>11
    <3>2. QED
      BY <1>11, <2>1, <3>1, UnderOfNode
  <2>3. Under(r, Len(r)) = T \cup {t}
    BY <1>14, <1>15, <2>2
  <2>4. in = <<in[1], in[2]>>
    BY DEF in
  <2>5. JoinFits(r, Len(r))
    BY <1>3, <1>7, <1>9, <1>11, <1>14, <1>15, <2>4 DEF JoinFits
  <2>6. QED
    BY <2>3, <2>5
<1>16. ASSUME NEW n \in 1..Len(r)
       PROVE  r[n].op # "semijoin" /\ (star /\ r[n].op = "join" => JoinFits(r, n))
  <2>1. CASE n = Len(r)
    BY <1>9, <1>11, <1>15, <2>1
  <2>2. CASE n \in 1..Len(all)
    BY <1>11, <1>12, <1>13, <2>2
  <2>3. QED
    BY <1>11, <2>1, <2>2
<1>17. Fits(r, T \cup {t}, star)
  BY <1>11, <1>14, <1>15, <1>16 DEF Fits
<1>18. QED
  BY <1>2, <1>17

\* The tables of the first i joins are there after i joins.
LEMMA JoinTreeFits ==
    ASSUME NEW q, Len(q.filters) \in Nat, Len(q.joins) \in Nat,
           NEW star \in BOOLEAN, star => StarJoins(q)
    PROVE  Fits(JoinTree(q), JoinedTables(q, Len(q.joins)), star)
<1>. DEFINE w == Built(q)
            m == Len(q.joins)
            J(i) == JoinedTables(q, i)
            S == { i \in 0..m : Fits(w[i], J(i), star) }
            known(i, k) == q.joins[i][k]
<1>1. w[0] = TableWithFilters(q, IF q.joins = <<>> THEN q.from ELSE TableOf[q.joins[1][1]])
  BY BuiltSteps
<1>2. \A i \in 1..m :
        w[i] = IF TableIn(w[i - 1], TableOf[known(i, 2)])
               THEN JoinOver(q, w[i - 1], known(i, 2), known(i, 1))
               ELSE JoinOver(q, w[i - 1], known(i, 1), known(i, 2))
  BY BuiltSteps
<1>3. JoinTree(q) = w[m]
  BY DEF JoinTree, Built
<1>4. J(0) = {IF q.joins = <<>> THEN q.from ELSE TableOf[q.joins[1][1]]}
  <2>1. 1..0 = {}
    OBVIOUS
  <2>2. QED
    BY <2>1 DEF JoinedTables
<1>5. ASSUME NEW i \in 1..m
      PROVE  J(i) = J(i - 1) \cup {TableOf[known(i, 1)], TableOf[known(i, 2)]}
  <2>1. 1..i = 1..(i - 1) \cup {i}
    OBVIOUS
  <2>2. QED
    BY <2>1 DEF JoinedTables
<1>6. ASSUME NEW i \in 1..m, star
      PROVE  \E k \in {1, 2} :
               /\ TableOf[known(i, k)] \in J(i - 1) /\ TableOf[known(i, 3 - k)] \notin J(i - 1)
               /\ known(i, k) \in Unique => J(i - 1) = {TableOf[known(i, k)]}
  BY <1>6 DEF StarJoins
<1>. HIDE DEF w, J, known
<1>7. 0 \in S
  <2>1. Fits(w[0], J(0), star)
    BY <1>1, <1>4, FiltersFit
  <2>2. QED
    BY <2>1
<1>8. ASSUME NEW i \in 1..m, i - 1 \in S PROVE i \in S
  <2>. DEFINE low == w[i - 1]
              a == known(i, 1)
              b == known(i, 2)
  <2>1. Fits(low, J(i - 1), star) /\ J(i) = J(i - 1) \cup {TableOf[a], TableOf[b]}
    BY <1>5, <1>8
  <2>2. w[i] = IF TableIn(low, TableOf[b]) THEN JoinOver(q, low, b, a) ELSE JoinOver(q, low, a, b)
    BY <1>2
  <2>3. star => (TableIn(low, TableOf[b]) <=> TableOf[b] \in J(i - 1))
    <3>1. DOMAIN low = 1..Len(low)
      BY <2>1 DEF Fits, Forest, IsSeq
    <3>2. TableIn(low, TableOf[b]) <=> TableOf[b] \in TablesOf(low)
      BY <3>1 DEF TableIn, TablesOf
    <3>3. QED
      BY <2>1, <3>2 DEF Fits
  <2>4. ASSUME star
        PROVE  \/ /\ TableOf[a] \in J(i - 1) /\ TableOf[b] \notin J(i - 1)
                  /\ a \in Unique => J(i - 1) = {TableOf[a]}
               \/ /\ TableOf[b] \in J(i - 1) /\ TableOf[a] \notin J(i - 1)
                  /\ b \in Unique => J(i - 1) = {TableOf[b]}
    <3>1. PICK k \in {1, 2} :
               /\ TableOf[known(i, k)] \in J(i - 1) /\ TableOf[known(i, 3 - k)] \notin J(i - 1)
               /\ known(i, k) \in Unique => J(i - 1) = {TableOf[known(i, k)]}
      BY <1>6, <2>4
    <3>2. 3 - 1 = 2 /\ 3 - 2 = 1
      OBVIOUS
    <3>3. QED
      BY <3>1, <3>2
  <2>. HIDE DEF low, a, b
  <2>5. CASE TableIn(low, TableOf[b])
    <3>1. star => /\ TableOf[b] \in J(i - 1) /\ TableOf[a] \notin J(i - 1)
                  /\ b \in Unique => J(i - 1) = {TableOf[b]}
      BY <2>3, <2>4, <2>5
    <3>2. Fits(JoinOver(q, low, b, a), J(i - 1) \cup {TableOf[a]}, star)
      BY <2>1, <3>1, JoinOverFits
    <3>3. star => J(i - 1) \cup {TableOf[a]} = J(i)
      BY <2>1, <3>1
    <3>4. Fits(w[i], J(i), star)
      BY <2>2, <2>5, <3>2, <3>3 DEF Fits
    <3>5. QED
      BY <3>4
  <2>6. CASE ~TableIn(low, TableOf[b])
    <3>1. star => /\ TableOf[a] \in J(i - 1) /\ TableOf[b] \notin J(i - 1)
                  /\ a \in Unique => J(i - 1) = {TableOf[a]}
      BY <2>3, <2>4, <2>6
    <3>2. Fits(JoinOver(q, low, a, b), J(i - 1) \cup {TableOf[b]}, star)
      BY <2>1, <3>1, JoinOverFits
    <3>3. star => J(i - 1) \cup {TableOf[b]} = J(i)
      BY <2>1, <3>1
    <3>4. Fits(w[i], J(i), star)
      BY <2>2, <2>6, <3>2, <3>3 DEF Fits
    <3>5. QED
      BY <3>4
  <2>7. QED
    BY <2>5, <2>6
<1>9. m \in S
  <2>1. 0..m \subseteq S
    <3>. HIDE DEF S
    <3>1. QED
      BY <1>7, <1>8, UpToNat
  <2>. HIDE DEF S
  <2>2. QED
    BY <2>1
<1>10. QED
  BY <1>3, <1>9 DEF J

\* So they are in the whole plan: what is put on the joins is none.
LEMMA PlanFits ==
    ASSUME NEW q \in ParsedQuery, NEW star \in BOOLEAN, star => StarJoins(q)
    PROVE  Fits(PlanOf(q), JoinedTables(q, Len(q.joins)), star)
<1>. DEFINE T == JoinedTables(q, Len(q.joins))
            w == AggsOver(q)
            m == Len(q.aggs)
            S == { i \in 0..m : Fits(w[i], T, star) }
<1>1. /\ Len(q.filters) \in Nat /\ Len(q.joins) \in Nat /\ m \in Nat
      /\ \A i \in 1..m : q.aggs[i].op \in {"sum", "agg"}
  <2>. DEFINE Agg == [op : {"sum", "agg"}, of : Seq(Names), via : Names \cup {""}, as : Names]
  <2>1. /\ q.filters \in Seq(Seq(Names)) /\ q.joins \in Seq(Names \X Names)
        /\ q.aggs \in Seq(Agg)
    BY DEF ParsedQuery
  <2>2. \A a \in Agg : a.op \in {"sum", "agg"}
    OBVIOUS
  <2>. HIDE DEF Agg
  <2>3. \A i \in 1..m : q.aggs[i] \in Agg
    BY <2>1
  <2>4. QED
    BY <2>1, <2>2, <2>3
<1>2. /\ w[0] = JoinTree(q)
      /\ \A i \in 1..m : w[i] = AggOver(w[i - 1], q.aggs[m + 1 - i])
  BY <1>1, AggsOverSteps
<1>3. Aggregated(q) = w[m]
  BY DEF Aggregated, AggsOver
<1>. HIDE DEF w, m, T
<1>4. ASSUME NEW p, Fits(p, T, star), NEW op, op \in {"map", "sum", "agg", "group", "sort", "select"}
      PROVE  \A in, out, orders : Fits(Over(p, op, in, out, orders), T, star)
  <2>1. op \notin {"table", "join", "semijoin"}
    BY <1>4
  <2>2. QED
    BY <1>4, <2>1, OverFits
<1>5. ASSUME NEW p, Fits(p, T, star), NEW a, a.op \in {"sum", "agg"}
      PROVE  Fits(AggOver(p, a), T, star)
  <2>1. Fits(Over(p, "map", a.of, <<a.via>>, <<>>), T, star)
    BY <1>4, <1>5
  <2>2. /\ Fits(Over(p, a.op, a.of, <<a.as>>, <<>>), T, star)
        /\ Fits(Over(Over(p, "map", a.of, <<a.via>>, <<>>), a.op, <<a.via>>, <<a.as>>, <<>>), T, star)
    BY <1>4, <1>5, <2>1
  <2>3. QED
    BY <2>2 DEF AggOver
<1>6. 0 \in S
  <2>1. Fits(w[0], T, star)
    BY <1>1, <1>2, JoinTreeFits DEF T
  <2>2. QED
    BY <1>1, <2>1
<1>7. ASSUME NEW i \in 1..m, i - 1 \in S PROVE i \in S
  <2>1. Fits(w[i - 1], T, star) /\ m + 1 - i \in 1..m
    BY <1>1, <1>7
  <2>2. /\ q.aggs[m + 1 - i].op \in {"sum", "agg"}
        /\ w[i] = AggOver(w[i - 1], q.aggs[m + 1 - i])
    BY <1>1, <1>2, <2>1
  <2>3. Fits(w[i], T, star)
    BY <1>5, <2>1, <2>2
  <2>4. QED
    BY <2>3
<1>8. Fits(Aggregated(q), T, star)
  <2>1. 0..m \subseteq S
    <3>. HIDE DEF S
    <3>1. QED
      BY <1>1, <1>6, <1>7, UpToNat
  <2>2. m \in S
    <3>. HIDE DEF S
    <3>1. QED
      BY <1>1, <2>1
  <2>3. QED
    BY <1>3, <2>2
<1>9. Fits(GroupOver(Aggregated(q), q), T, star)
  <2>1. \A in, out, orders : Fits(Over(Aggregated(q), "group", in, out, orders), T, star)
    BY <1>4, <1>8
  <2>2. QED
    BY <1>8, <2>1 DEF GroupOver
<1>10. Fits(SortOver(GroupOver(Aggregated(q), q), q), T, star)
  <2>1. \A in, out, orders :
          Fits(Over(GroupOver(Aggregated(q), q), "sort", in, out, orders), T, star)
    BY <1>4, <1>9
  <2>2. QED
    BY <1>9, <2>1 DEF SortOver
<1>11. \A in, out, orders :
         Fits(Over(SortOver(GroupOver(Aggregated(q), q), q), "select", in, out, orders), T, star)
  BY <1>4, <1>10
<1>12. Fits(PlanOf(q), T, star)
  BY <1>11 DEF PlanOf
<1>13. QED
  BY <1>12 DEF T

-----------------------------------------------------------------------------
(***************************************************************************)
(* Semi joins as they are placed and after they have been.                 *)
(***************************************************************************)

\* NeededAbove, of any plan.
Needed(p, n) == { TableOf[c] : c \in InputsOf(p, Ancestors(p, Len(p), n)) }

\* The semi join n discards one child, which is one table that nothing above
\* reads, and a column of it that is unique there.
SemiFits(p, n) ==
    LET c == p[n].in[1]
    IN  /\ c \in Unique /\ TableOf[c] \notin Needed(p, n)
        /\ \E k \in KidsOf(p, n) :
             /\ Under(p, k) = {TableOf[c]}
             /\ \A x \in KidsOf(p, n) \ {k} : TableOf[c] \notin Under(p, x)

Filtering(p) ==
    Forest(p) /\ Len(p) >= 1 /\ \A n \in 1..Len(p) : p[n].op = "semijoin" => SemiFits(p, n)

\* Then all semi joins are mere filters.
LEMMA FilteringIs ==
    ASSUME Filtering(logical) PROVE SemiJoinsOnlyFilter
<1>1. Forest(logical) /\ Len(logical) \in Nat /\ Root = Len(logical) /\ Root \in 1..Len(logical)
  BY DEF Filtering, Forest, IsSeq, Root
<1>2. /\ LiveLogical = Live(logical, Root) /\ LiveLogical \subseteq 1..Len(logical)
      /\ \A m \in LiveLogical : KidsOf(logical, m) \subseteq LiveLogical
  BY <1>1, LiveWithin DEF LiveLogical
<1>3. ASSUME NEW n \in LiveLogical
      PROVE  /\ Live(logical, n) \subseteq LiveLogical /\ n \in Live(logical, n)
             /\ Live(logical, n) = {n} \cup UNION { Live(logical, k) : k \in KidsOf(logical, n) }
  BY <1>1, <1>2, LiveLeast, LiveWithin, LiveOfNode
<1>4. ASSUME NEW n \in LiveLogical, NEW m \in LiveLogical
      PROVE  n \in Ancestors(logical, Root, m) <=> n # m /\ m \in Live(logical, n)
  BY <1>2 DEF Ancestors
<1>5. ASSUME NEW n \in LiveLogical, logical[n].op = "semijoin"
      PROVE  LET discarded == { m \in LiveLogical :
                                  logical[m].op = "table" /\ n \in Ancestors(logical, Root, m)
                                  /\ logical[m].out[1] = TableOf[logical[n].in[1]] }
                 side == CHOOSE k \in KidsOf(logical, n) :
                           \E m \in discarded : m = k \/ k \in Ancestors(logical, Root, m)
                 tables == { logical[m].out[1] :
                               m \in { x \in LiveLogical : logical[x].op = "table"
                                         /\ (x = side \/ side \in Ancestors(logical, Root, x)) } }
             IN  /\ tables \cap NeededAbove(n) = {}
                 /\ Cardinality(tables) = 1
                 /\ logical[n].in[1] \in Unique
  <2>. DEFINE c == logical[n].in[1]
              discarded == { m \in LiveLogical :
                                  logical[m].op = "table" /\ n \in Ancestors(logical, Root, m)
                                  /\ logical[m].out[1] = TableOf[c] }
              OnWay(k) == \E m \in discarded : m = k \/ k \in Ancestors(logical, Root, m)
              side == CHOOSE k \in KidsOf(logical, n) : OnWay(k)
              tables == { logical[m].out[1] :
                               m \in { x \in LiveLogical : logical[x].op = "table"
                                         /\ (x = side \/ side \in Ancestors(logical, Root, x)) } }
  <2>1. c \in Unique /\ TableOf[c] \notin NeededAbove(n)
    BY <1>2, <1>5 DEF Filtering, SemiFits, Needed, NeededAbove, Root
  <2>2. PICK k \in KidsOf(logical, n) :
             /\ Under(logical, k) = {TableOf[c]}
             /\ \A x \in KidsOf(logical, n) \ {k} : TableOf[c] \notin Under(logical, x)
    BY <1>2, <1>5 DEF Filtering, SemiFits
  <2>. HIDE DEF c
  <2>3. KidsOf(logical, n) \subseteq LiveLogical
    BY <1>2
  <2>4. \A x \in KidsOf(logical, n) : \A m \in LiveLogical :
          m = x \/ x \in Ancestors(logical, Root, m) <=> m \in Live(logical, x)
    BY <1>3, <1>4, <2>3
  <2>5. ASSUME NEW x \in KidsOf(logical, n), OnWay(x) PROVE x = k
    <3>1. PICK m \in discarded : m \in Live(logical, x)
      BY <2>4, <2>5
    <3>2. logical[m].op = "table" /\ logical[m].out[1] = TableOf[c]
      BY <3>1
    <3>3. TableOf[c] \in Under(logical, x)
      BY <3>1, <3>2 DEF Under
    <3>4. QED
      BY <2>2, <3>3
  <2>6. OnWay(k)
    <3>1. PICK m \in Live(logical, k) : logical[m].op = "table" /\ logical[m].out[1] = TableOf[c]
      BY <2>2 DEF Under
    <3>2. m \in LiveLogical /\ m \in Live(logical, n)
      BY <1>3, <2>3, <3>1
    <3>3. m # n
      BY <1>5, <3>1
    <3>4. m \in discarded
      BY <1>4, <3>1, <3>2, <3>3
    <3>5. m = k \/ k \in Ancestors(logical, Root, m)
      BY <2>4, <3>1, <3>2
    <3>6. QED
      BY <3>4, <3>5
  <2>7. side = k
    <3>. HIDE DEF OnWay
    <3>1. QED
      BY <2>5, <2>6
  <2>. HIDE DEF side
  <2>8. { x \in LiveLogical : logical[x].op = "table"
                                /\ (x = side \/ side \in Ancestors(logical, Root, x)) }
          = { x \in Live(logical, k) : logical[x].op = "table" }
    BY <1>3, <2>3, <2>4, <2>7
  <2>9. tables = {TableOf[c]}
    BY <2>2, <2>8 DEF Under
  <2>10. Cardinality(tables) = 1
    BY <2>9, FS_Singleton
  <2>11. QED
    BY <2>1, <2>9, <2>10 DEF side, c
<1>6. QED
  BY <1>5 DEF SemiJoinsOnlyFilter

\* Where no node below n has changed, the same is below it.
LEMMA UnderSame ==
    ASSUME NEW p, NEW r, Forest(p), Forest(r), Len(r) = Len(p), NEW n \in 1..Len(p),
           \A m \in 1..n : /\ KidsOf(r, m) = KidsOf(p, m)
                           /\ r[m].op = "table" <=> p[m].op = "table"
                           /\ p[m].op = "table" => r[m].out = p[m].out
    PROVE  Live(r, n) = Live(p, n) /\ Under(r, n) = Under(p, n)
<1>1. Len(p) \in Nat /\ Len(r) \in Nat /\ n \in 1..Len(r)
  BY DEF Forest, IsSeq
<1>2. /\ n \in Live(p, n) /\ Live(p, n) \subseteq 1..n
      /\ \A m \in Live(p, n) : KidsOf(p, m) \subseteq Live(p, n)
  BY LiveWithin
<1>3. /\ n \in Live(r, n) /\ Live(r, n) \subseteq 1..n
      /\ \A m \in Live(r, n) : KidsOf(r, m) \subseteq Live(r, n)
  BY <1>1, LiveWithin
<1>4. Live(r, n) \subseteq Live(p, n)
  BY <1>1, <1>2, LiveLeast
<1>5. Live(p, n) \subseteq Live(r, n)
  BY <1>1, <1>3, LiveLeast
<1>6. QED
  BY <1>2, <1>4, <1>5 DEF Under

\* Where every pointer leads where one could get before, no node is new below another.
LEMMA LiveShrinks ==
    ASSUME NEW p, NEW r, Forest(p), Len(r) = Len(p),
           \A n \in 1..Len(p) : KidsOf(r, n) \subseteq Live(p, n), NEW m \in 1..Len(p)
    PROVE  Live(r, m) \subseteq Live(p, m)
<1>1. Len(p) \in Nat /\ Len(r) \in Nat
  BY DEF Forest, IsSeq
<1>2. /\ m \in Live(p, m) /\ Live(p, m) \subseteq 1..Len(p)
      /\ \A x \in Live(p, m) : KidsOf(p, x) \subseteq Live(p, m)
  BY LiveWithin
<1>3. ASSUME NEW x \in Live(p, m) PROVE KidsOf(r, x) \subseteq Live(p, m)
  <2>1. Live(p, x) \subseteq Live(p, m)
    BY <1>1, <1>2, LiveLeast
  <2>2. KidsOf(r, x) \subseteq Live(p, x)
    BY <1>2
  <2>3. QED
    BY <2>1, <2>2
<1>4. QED
  BY <1>1, <1>2, <1>3, LiveLeast

\* The plan r has the nodes of p below top; every way in it is one in p, and a
\* node above a semi join reads what the nodes above it on such a way have read.
Trimmed(r, p, top) ==
    /\ Forest(r) /\ Len(r) = Len(p)
    /\ \A n \in 1..Len(p) : r[n].op = p[n].op /\ KidsOf(r, n) \subseteq Live(p, n)
    /\ \A n \in 1..Len(p) : n < top =>
         r[n].in = p[n].in /\ r[n].out = p[n].out /\ KidsOf(r, n) = KidsOf(p, n)
    /\ \A m \in 1..Len(p) : \A n \in Live(r, m) \ {m} :
         p[n].op = "semijoin" => ToSet(r[m].in) \subseteq InputsOf(p, Ancestors(p, m, n))

\* Then its semi joins are mere filters, if those of p were and are below top.
LEMMA TrimmedFilters ==
    ASSUME NEW p, NEW r, NEW top \in Nat, Filtering(p), Trimmed(r, p, top),
           \A n \in 1..Len(p) : p[n].op = "semijoin" => n < top
    PROVE  Filtering(r)
<1>1. Forest(p) /\ Forest(r) /\ Len(p) \in Nat /\ Len(r) = Len(p) /\ Len(p) \in 1..Len(p)
  BY DEF Filtering, Trimmed, Forest, IsSeq
<1>2. \A m \in 1..Len(p) : m \in Live(p, m) /\ Live(r, m) \subseteq Live(p, m)
  BY <1>1, LiveWithin, LiveShrinks DEF Trimmed
<1>3. ASSUME NEW n \in 1..Len(p), r[n].op = "semijoin" PROVE SemiFits(r, n)
  <2>1. p[n].op = "semijoin" /\ n < top /\ SemiFits(p, n)
    BY <1>3 DEF Trimmed, Filtering
  <2>2. r[n].in = p[n].in /\ KidsOf(r, n) = KidsOf(p, n)
    BY <2>1 DEF Trimmed
  <2>3. KidsOf(p, n) \subseteq 1..(n - 1) /\ n - 1 \in Nat
    BY <1>1 DEF Forest, Descending
  <2>4. ASSUME NEW k \in KidsOf(p, n) PROVE Under(r, k) = Under(p, k)
    <3>1. k \in 1..Len(p) /\ \A m \in 1..k : m \in 1..Len(p) /\ m < top
      BY <1>1, <2>1, <2>3
    <3>2. \A m \in 1..k : r[m].op = p[m].op /\ r[m].out = p[m].out /\ KidsOf(r, m) = KidsOf(p, m)
      BY <3>1 DEF Trimmed
    <3>3. QED
      BY <1>1, <3>1, <3>2, UnderSame
  <2>5. InputsOf(r, Ancestors(r, Len(r), n)) \subseteq InputsOf(p, Ancestors(p, Len(p), n))
    <3>1. ASSUME NEW m \in Ancestors(r, Len(r), n)
          PROVE  ToSet(r[m].in) \subseteq InputsOf(p, Ancestors(p, Len(p), n))
      <4>1. m \in Live(p, Len(p)) /\ m # n /\ n \in Live(r, m)
        BY <1>1, <1>2 DEF Ancestors
      <4>2. /\ m \in 1..Len(p)
            /\ \A x \in Live(p, Len(p)) : KidsOf(p, x) \subseteq Live(p, Len(p))
        BY <1>1, <4>1, LiveWithin
      <4>3. Live(p, m) \subseteq Live(p, Len(p))
        BY <1>1, <4>1, <4>2, LiveLeast
      <4>4. Ancestors(p, m, n) \subseteq Ancestors(p, Len(p), n)
        BY <4>3 DEF Ancestors
      <4>5. ToSet(r[m].in) \subseteq InputsOf(p, Ancestors(p, m, n))
        BY <2>1, <4>1, <4>2 DEF Trimmed
      <4>6. QED
        BY <4>4, <4>5 DEF InputsOf
    <3>2. QED
      BY <3>1 DEF InputsOf
  <2>6. Needed(r, n) \subseteq Needed(p, n)
    BY <2>5 DEF Needed
  <2>7. QED
    BY <2>1, <2>2, <2>4, <2>6 DEF SemiFits
<1>4. QED
  BY <1>1, <1>3 DEF Filtering

-----------------------------------------------------------------------------
(* What the rewritings leave.                                              *)

\* A plan with the same shape above the joins has its sort and group in place.
LEMMA PlacedAgain ==
    ASSUME NEW q, NEW p, NEW r, NEW early, LaidOut(q, p, early),
           IsSeq(r), Len(r) = Len(p),
           \A n \in 1..Len(r) :
             /\ IsNode(r[n]) /\ IsSeq(r[n].kids) /\ KidsOf(r, n) \subseteq 1..(n - 1)
             /\ r[n].op = p[n].op \/ (p[n].op \notin Top /\ r[n].op \notin Top)
    PROVE  /\ Forest(r) /\ Len(r) >= 1 /\ r[Len(r)].op = "select"
           /\ SortsPlaced(q, r) /\ GroupsPlaced(q, r)
           /\ SortAt(r) = SortAt(p) /\ GroupAt(q, r) = GroupAt(q, p)
<1>1. Len(p) \in Nat /\ Len(p) \in 1..Len(p) /\ Len(p) >= 1
  BY DEF LaidOut, Forest, IsSeq
<1>2. Forest(r)
  BY DEF Forest, Descending
<1>3. \A n \in 1..Len(r) : \A x \in Top : r[n].op = x <=> p[n].op = x
  OBVIOUS
<1>4. "select" \in Top /\ "sort" \in Top /\ "group" \in Top
  BY DEF Top
<1>5. SortAt(r) = SortAt(p) /\ GroupAt(q, r) = GroupAt(q, p)
  BY DEF SortAt, GroupAt
<1>6. r[Len(r)].op = "select"
  BY <1>1, <1>3, <1>4 DEF LaidOut
<1>7. SortsPlaced(q, r)
  BY <1>3, <1>4, <1>5 DEF LaidOut, SortsPlaced
<1>8. GroupsPlaced(q, r)
  BY <1>3, <1>4, <1>5 DEF LaidOut, GroupsPlaced
<1>9. QED
  BY <1>1, <1>2, <1>5, <1>6, <1>7, <1>8

\* Changes of other nodes that leave their pointers do not matter.
LEMMA SameTop ==
    ASSUME NEW q, NEW p, NEW r, LaidOut(q, p, TRUE), GroupOverOne(q, p),
           IsSeq(r), Len(r) = Len(p), SumsRead(r),
           \A n \in 1..Len(r) :
             /\ IsNode(r[n]) /\ r[n].kids = p[n].kids
             /\ r[n] = p[n] \/ (p[n].op \notin Top /\ r[n].op \notin Top)
    PROVE  LaidOut(q, r, TRUE) /\ GroupOverOne(q, r)
<1>1. Forest(p) /\ Len(p) \in Nat /\ Len(p) \in 1..Len(p)
  BY DEF LaidOut, Forest, IsSeq
<1>2. \A n \in 1..Len(r) :
        /\ IsNode(r[n]) /\ IsSeq(r[n].kids) /\ KidsOf(r, n) \subseteq 1..(n - 1)
        /\ r[n].op = p[n].op \/ (p[n].op \notin Top /\ r[n].op \notin Top)
  BY <1>1 DEF Forest, Descending, KidsOf
<1>3. /\ Forest(r) /\ Len(r) >= 1 /\ r[Len(r)].op = "select"
      /\ SortsPlaced(q, r) /\ GroupsPlaced(q, r)
      /\ SortAt(r) = SortAt(p) /\ GroupAt(q, r) = GroupAt(q, p)
  BY <1>2, PlacedAgain
<1>4. "select" \in Top /\ "sort" \in Top /\ "group" \in Top
  BY DEF Top
<1>5. r[Len(r)] = p[Len(p)]
  BY <1>1, <1>4 DEF LaidOut
<1>6. ASSUME q.order # <<>>
      PROVE  SortAt(p) \in 1..Len(p) /\ r[SortAt(p)] = p[SortAt(p)] /\ SortOnTop(q, p)
  BY <1>4, <1>6 DEF LaidOut, SortsPlaced
<1>7. ASSUME q.group # <<>>
      PROVE  GroupAt(q, p) \in 1..Len(p) /\ r[GroupAt(q, p)] = p[GroupAt(q, p)]
  BY <1>4, <1>7 DEF LaidOut, GroupsPlaced
<1>8. q.order # <<>> => SortOnTop(q, r)
  BY <1>3, <1>5, <1>6 DEF SortOnTop
<1>9. q.group # <<>> => GroupBelow(q, r)
  BY <1>3, <1>5, <1>6, <1>7, <1>8 DEF LaidOut, GroupBelow
<1>10. GroupOverOne(q, r)
  BY <1>3, <1>7 DEF GroupOverOne
<1>11. QED
  BY <1>3, <1>6, <1>7, <1>8, <1>9, <1>10 DEF LaidOut

\* What a later pass has to leave of an early plan.
LEMMA LaidOutLater ==
    ASSUME NEW q, NEW p, LaidOut(q, p, TRUE) PROVE LaidOut(q, p, FALSE)
BY DEF LaidOut

-----------------------------------------------------------------------------
(***************************************************************************)
(* The optimizer, which takes over such a plan.  Its passes up to the      *)
(* materialisation are followed node by node.                              *)
(***************************************************************************)

\* placeSemiJoins: a join keeps its children and stays no sort.
LEMMA SemiJoinIs ==
    ASSUME Forest(logical), NEW n \in 1..Len(logical), logical[n].op = "join",
           NEW y, y = WithSemiJoin(n)
    PROVE  /\ IsNode(y) /\ y.kids = logical[n].kids /\ y.op \in {"join", "semijoin"}
<1>. DEFINE x == logical[n]
            semi == [x EXCEPT !.op = "semijoin"]
            back == [semi EXCEPT !.in = Swapped(@), !.out = Swapped(@)]
<1>1. IsNode(x) /\ x.op = "join"
  BY DEF Forest
<1>2. y = x \/ y = semi \/ y = back
  BY DEF WithSemiJoin
<1>. HIDE DEF x
<1>3. IsNode(semi) /\ semi.op = "semijoin" /\ semi.kids = x.kids
  <2>1. semi \in [op : {"semijoin"}, in : {x.in}, out : {x.out}, kids : {x.kids},
                  orders : {x.orders}, posList : {x.posList}, matVals : {x.matVals}]
    BY <1>1 DEF IsNode
  <2>2. QED
    BY <2>1 DEF IsNode
<1>. HIDE DEF semi
<1>4. IsNode(back) /\ back.op = "semijoin" /\ back.kids = x.kids
  <2>1. back \in [op : {"semijoin"}, in : {Swapped(semi.in)}, out : {Swapped(semi.out)},
                  kids : {x.kids}, orders : {semi.orders}, posList : {semi.posList},
                  matVals : {semi.matVals}]
    BY <1>3 DEF IsNode
  <2>2. QED
    BY <2>1 DEF IsNode
<1>. HIDE DEF back
<1>5. QED
  BY <1>1, <1>2, <1>3, <1>4 DEF x

\* placeSemiJoins leaves the sort, the group and what they read.
LEMMA SemiJoinsKeep ==
    ASSUME LaidOut(query, logical, TRUE), GroupOverOne(query, logical), PlaceSemiJoins
    PROVE  LaidOut(query, logical', TRUE) /\ GroupOverOne(query, logical')
<1>1. /\ Forest(logical) /\ IsSeq(logical) /\ Len(logical) \in Nat
      /\ DOMAIN logical = 1..Len(logical) /\ SumsRead(logical)
  BY DEF LaidOut, Forest, IsSeq
<1>2. CASE logical' = logical
  BY <1>2
<1>3. CASE logical' # logical
  <2>. DEFINE r == [n \in 1..Len(logical) |->
                      IF logical[n].op = "join" THEN WithSemiJoin(n) ELSE logical[n]]
  <2>1. logical' = r
    BY <1>1, <1>3 DEF PlaceSemiJoins
  <2>2. \A n \in 1..Len(logical) :
          r[n] = IF logical[n].op = "join" THEN WithSemiJoin(n) ELSE logical[n]
    OBVIOUS
  <2>3. r = [n \in 1..Len(logical) |-> r[n]]
    OBVIOUS
  <2>. HIDE DEF r
  <2>4. IsSeq(r) /\ Len(r) = Len(logical)
    BY <1>1, <2>3, FcnIs
  <2>5. ASSUME NEW n \in 1..Len(logical)
        PROVE  /\ IsNode(r[n]) /\ r[n].kids = logical[n].kids
               /\ r[n] = logical[n] \/ (logical[n].op \notin Top /\ r[n].op \notin Top)
               /\ r[n].op = "sum" => IsSeq(r[n].in)
    <3>1. CASE logical[n].op = "join"
      <4>1. r[n] = WithSemiJoin(n)
        BY <2>2, <3>1
      <4>2. IsNode(r[n]) /\ r[n].kids = logical[n].kids /\ r[n].op \in {"join", "semijoin"}
        BY <1>1, <3>1, <4>1, SemiJoinIs
      <4>3. "join" \notin Top /\ "semijoin" \notin Top /\ "join" # "sum" /\ "semijoin" # "sum"
        BY DEF Top
      <4>4. QED
        BY <3>1, <4>2, <4>3
    <3>2. CASE logical[n].op # "join"
      <4>1. r[n] = logical[n]
        BY <2>2, <3>2
      <4>2. QED
        BY <1>1, <4>1 DEF Forest, SumsRead
    <3>3. QED
      BY <3>1, <3>2
  <2>6. SumsRead(r)
    BY <2>4, <2>5 DEF SumsRead
  <2>7. \A n \in 1..Len(r) :
          /\ IsNode(r[n]) /\ r[n].kids = logical[n].kids
          /\ r[n] = logical[n] \/ (logical[n].op \notin Top /\ r[n].op \notin Top)
    BY <2>4, <2>5
  <2>8. QED
    BY <2>1, <2>4, <2>6, <2>7, SameTop
<1>4. QED
  BY <1>2, <1>3

\* What a join becomes reads the same columns; a semi join the discarded one first.
LEMMA SemiJoinReads ==
    ASSUME Forest(logical), NEW n \in 1..Len(logical), logical[n].op = "join",
           NEW y, y = WithSemiJoin(n), JoinFits(logical, n)
    PROVE  /\ ToSet(y.in) = ToSet(logical[n].in)
           /\ y.op = "semijoin" =>
                \E i \in {1, 2} : LET c == logical[n].in[i] IN
                  y.in[1] = c /\ c \in Unique /\ TableOf[c] \notin NeededAbove(n)
<1>. DEFINE x == logical[n]
            a == x.in[1]
            b == x.in[2]
            inner == TableOf[a] \in NeededAbove(n)
            outer == TableOf[b] \in NeededAbove(n)
            semi == [x EXCEPT !.op = "semijoin"]
            back == [semi EXCEPT !.in = Swapped(@), !.out = Swapped(@)]
<1>1. IsNode(x) /\ x.op = "join" /\ x.in = <<a, b>>
  BY DEF Forest, JoinFits
<1>2. y = IF inner /\ outer THEN x
          ELSE IF (IF inner THEN b ELSE a) \notin Unique THEN x
          ELSE IF inner THEN back ELSE semi
  BY DEF WithSemiJoin
<1>. HIDE DEF inner, outer
<1>3. semi.in = x.in /\ back.in = Swapped(x.in)
  BY <1>1 DEF IsNode
<1>4. Swapped(x.in) = <<b, a>>
  BY DEF Swapped
<1>. HIDE DEF semi, back, x
<1>5. ToSet(<<a, b>>) = ToSet(<<b, a>>)
  BY DEF ToSet
<1>6. ToSet(y.in) = ToSet(x.in)
  BY <1>1, <1>2, <1>3, <1>4, <1>5
<1>. HIDE DEF a, b
<1>7. ASSUME y.op = "semijoin"
      PROVE  \/ y.in = <<a, b>> /\ a \in Unique /\ ~inner
             \/ y.in = <<b, a>> /\ b \in Unique /\ ~outer
  BY <1>1, <1>2, <1>3, <1>4, <1>7
<1>8. <<a, b>>[1] = a /\ <<b, a>>[1] = b
  OBVIOUS
<1>9. ASSUME y.op = "semijoin"
      PROVE  \E i \in {1, 2} : LET c == x.in[i] IN
                  y.in[1] = c /\ c \in Unique /\ TableOf[c] \notin NeededAbove(n)
  <2>1. CASE y.in = <<a, b>> /\ a \in Unique /\ ~inner
    <3>1. y.in[1] = x.in[1] /\ x.in[1] \in Unique /\ TableOf[x.in[1]] \notin NeededAbove(n)
      BY <1>8, <2>1 DEF a, inner
    <3>2. QED
      BY <3>1
  <2>2. CASE y.in = <<b, a>> /\ b \in Unique /\ ~outer
    <3>1. y.in[1] = x.in[2] /\ x.in[2] \in Unique /\ TableOf[x.in[2]] \notin NeededAbove(n)
      BY <1>8, <2>2 DEF b, outer
    <3>2. QED
      BY <3>1
  <2>3. QED
    BY <1>7, <1>9, <2>1, <2>2
<1>10. QED
  BY <1>6, <1>9 DEF x

\* Either side that a join can discard is one table that the other has not.
LEMMA SidesFit ==
    ASSUME NEW p, Forest(p), NEW n \in 1..Len(p), JoinFits(p, n), NEW i \in {1, 2},
           p[n].in[i] \in Unique
    PROVE  \E k \in KidsOf(p, n) :
             /\ Under(p, k) = {TableOf[p[n].in[i]]}
             /\ \A x \in KidsOf(p, n) \ {k} : TableOf[p[n].in[i]] \notin Under(p, x)
<1>. DEFINE l == p[n].kids[1]
            r == p[n].kids[2]
<1>1. KidsOf(p, n) = {l, r}
  <2>1. IsSeq(p[n].kids) /\ Len(p[n].kids) = 2
    BY DEF Forest, JoinFits
  <2>2. KidsOf(p, n) = { p[n].kids[j] : j \in 1..2 }
    BY <2>1, PointersAre
  <2>3. 1..2 = {1, 2}
    OBVIOUS
  <2>4. QED
    BY <2>2, <2>3
<1>2. /\ Under(p, r) = {TableOf[p[n].in[2]]}
      /\ TableOf[p[n].in[1]] \in Under(p, l) /\ TableOf[p[n].in[2]] \notin Under(p, l)
      /\ p[n].in[1] \in Unique => Under(p, l) = {TableOf[p[n].in[1]]}
  BY DEF JoinFits
<1>. HIDE DEF l, r
<1>3. CASE i = 1
  BY <1>1, <1>2, <1>3
<1>4. CASE i = 2
  BY <1>1, <1>2, <1>4
<1>5. QED
  BY <1>3, <1>4

\* placeSemiJoins makes semi joins only of joins that are mere filters.
LEMMA SemiJoinsFilter ==
    ASSUME NEW T, LaidOut(query, logical, TRUE), GroupOverOne(query, logical), PlaceSemiJoins,
           Fits(logical, T, FALSE), options.semiJoins => Fits(logical, T, TRUE)
    PROVE  Filtering(logical')
<1>1. /\ Forest(logical) /\ Len(logical) \in Nat /\ Len(logical) >= 1
      /\ DOMAIN logical = 1..Len(logical) /\ \A n \in 1..Len(logical) : logical[n].op # "semijoin"
  BY DEF Fits, Forest, IsSeq
<1>2. CASE logical' = logical
  BY <1>1, <1>2 DEF Filtering
<1>3. CASE logical' # logical
  <2>. DEFINE r == [n \in 1..Len(logical) |->
                      IF logical[n].op = "join" THEN WithSemiJoin(n) ELSE logical[n]]
              p == logical
              L == Len(logical)
  <2>1. logical' = r /\ Fits(p, T, TRUE)
    BY <1>1, <1>3 DEF PlaceSemiJoins
  <2>2. \A n \in 1..L : r[n] = IF p[n].op = "join" THEN WithSemiJoin(n) ELSE p[n]
    OBVIOUS
  <2>3. Len(r) = L /\ Forest(r)
    <3>1. r = [n \in 1..L |-> r[n]]
      OBVIOUS
    <3>2. Forest(logical')
      BY SemiJoinsKeep DEF LaidOut
    <3>. HIDE DEF r
    <3>3. QED
      BY <1>1, <2>1, <3>1, <3>2, FcnIs
  <2>. HIDE DEF r, p
  <2>4. ASSUME NEW n \in 1..L
        PROVE  /\ KidsOf(r, n) = KidsOf(p, n) /\ ToSet(r[n].in) = ToSet(p[n].in)
               /\ r[n].op = "table" <=> p[n].op = "table"
               /\ p[n].op = "table" => r[n].out = p[n].out
               /\ r[n].op = "semijoin" =>
                    \E i \in {1, 2} : LET c == p[n].in[i] IN
                      /\ r[n].in[1] = c /\ c \in Unique /\ TableOf[c] \notin Needed(p, n)
                      /\ JoinFits(p, n)
    <3>1. CASE p[n].op = "join"
      <4>1. r[n] = WithSemiJoin(n) /\ JoinFits(p, n)
        BY <2>1, <2>2, <3>1 DEF Fits, p
      <4>2. r[n].kids = p[n].kids /\ r[n].op \in {"join", "semijoin"}
        BY <1>1, <3>1, <4>1, SemiJoinIs DEF p
      <4>3. /\ ToSet(r[n].in) = ToSet(p[n].in)
            /\ r[n].op = "semijoin" =>
                 \E i \in {1, 2} : LET c == p[n].in[i] IN
                   r[n].in[1] = c /\ c \in Unique /\ TableOf[c] \notin NeededAbove(n)
        BY <1>1, <3>1, <4>1, SemiJoinReads DEF p
      <4>4. NeededAbove(n) = Needed(p, n)
        BY DEF NeededAbove, Needed, Root, p
      <4>5. QED
        BY <3>1, <4>1, <4>2, <4>3, <4>4 DEF KidsOf
    <3>2. CASE p[n].op # "join"
      <4>1. r[n] = p[n] /\ p[n].op # "semijoin"
        BY <1>1, <2>2, <3>2 DEF p
      <4>2. QED
        BY <4>1 DEF KidsOf
    <3>3. QED
      BY <3>1, <3>2
  <2>5. ASSUME NEW n \in 1..L PROVE Live(r, n) = Live(p, n) /\ Under(r, n) = Under(p, n)
    <3>1. \A m \in 1..n : m \in 1..L
      BY <1>1
    <3>2. Forest(p) /\ Len(r) = Len(p) /\ n \in 1..Len(p)
      BY <1>1, <2>3 DEF p
    <3>3. QED
      BY <2>3, <2>4, <3>1, <3>2, UnderSame
  <2>6. ASSUME NEW n \in 1..L PROVE Needed(r, n) = Needed(p, n)
    <3>1. Live(p, L) \subseteq 1..L /\ Len(p) = L /\ L \in 1..L
      BY <1>1, LiveWithin DEF p
    <3>2. Ancestors(r, L, n) = Ancestors(p, L, n) /\ Ancestors(p, L, n) \subseteq 1..L
      BY <2>5, <3>1 DEF Ancestors
    <3>3. InputsOf(r, Ancestors(r, L, n)) = InputsOf(p, Ancestors(p, L, n))
      BY <2>4, <3>2 DEF InputsOf
    <3>4. QED
      BY <2>3, <3>1, <3>3 DEF Needed
  <2>7. ASSUME NEW n \in 1..L, r[n].op = "semijoin" PROVE SemiFits(r, n)
    <3>1. PICK i \in {1, 2} :
             /\ r[n].in[1] = p[n].in[i] /\ p[n].in[i] \in Unique
             /\ TableOf[p[n].in[i]] \notin Needed(p, n) /\ JoinFits(p, n)
      BY <2>4, <2>7
    <3>2. \E k \in KidsOf(p, n) :
             /\ Under(p, k) = {TableOf[p[n].in[i]]}
             /\ \A x \in KidsOf(p, n) \ {k} : TableOf[p[n].in[i]] \notin Under(p, x)
      BY <1>1, <3>1, SidesFit DEF p
    <3>3. KidsOf(p, n) \subseteq 1..L
      BY <1>1 DEF Forest, Descending, p
    <3>4. QED
      BY <2>4, <2>5, <2>6, <3>1, <3>2, <3>3 DEF SemiFits
  <2>8. QED
    BY <1>1, <2>1, <2>3, <2>7 DEF Filtering
<1>4. QED
  BY <1>2, <1>3

\* A semi join is below the group.
LEMMA SemiJoinsBelow ==
    ASSUME NEW q, NEW p, NEW early, LaidOut(q, p, early), q.group # <<>>,
           NEW n \in 1..Len(p), p[n].op = "semijoin"
    PROVE  n < GroupAt(q, p)
<1>1. Len(p) \in Nat /\ p[Len(p)].op = "select" /\ GroupAt(q, p) \in 1..Len(p)
  BY DEF LaidOut, Forest, IsSeq
<1>2. n # Len(p) /\ n # GroupAt(q, p)
  BY <1>1 DEF LaidOut, GroupsPlaced
<1>3. CASE q.order = <<>>
  BY <1>1, <1>2, <1>3 DEF GroupAt
<1>4. CASE q.order # <<>>
  <2>1. n # SortAt(p)
    BY <1>4 DEF LaidOut, SortsPlaced
  <2>2. QED
    BY <1>1, <1>2, <1>4, <2>1 DEF GroupAt, SortAt
<1>5. QED
  BY <1>3, <1>4

-----------------------------------------------------------------------------
(* mergeSortIntoGroupIfSubset.                                             *)

\* The walk of Others.
OthersTo(in, keys) ==
    LET rest[i \in 0..Len(in)] ==
          IF i = 0 THEN <<>>
          ELSE IF Contains(keys, in[i]) THEN rest[i - 1] ELSE Append(rest[i - 1], in[i])
    IN  rest

\* What Others does with one column.
LEMMA OthersSteps ==
    ASSUME NEW in, NEW keys, Len(in) \in Nat
    PROVE  /\ OthersTo(in, keys)[0] = <<>>
           /\ \A i \in 1..Len(in) :
                OthersTo(in, keys)[i] =
                  IF Contains(keys, in[i]) THEN OthersTo(in, keys)[i - 1]
                  ELSE Append(OthersTo(in, keys)[i - 1], in[i])
<1>. DEFINE m == Len(in)
            first == <<>>
            Put(s, i) == IF Contains(keys, in[i]) THEN s ELSE Append(s, in[i])
            Walk(f, n) == f = [i \in 0..n |-> IF i = 0 THEN first ELSE Put(f[i - 1], i)]
            S == { n \in Nat : \E f : Walk(f, n) }
<1>. HIDE DEF Put, first
<1>1. 0 \in S
  <2>1. Walk([i \in 0..0 |-> first], 0)
    OBVIOUS
  <2>2. QED
    BY <2>1
<1>2. ASSUME NEW n \in 1..m, n - 1 \in S PROVE n \in S
  <2>1. PICK f : Walk(f, n - 1)
    BY <1>2
  <2>. DEFINE g == [i \in 0..n |-> IF i = n THEN Put(f[n - 1], n) ELSE f[i]]
  <2>2. ASSUME NEW i \in 0..n PROVE g[i] = IF i = 0 THEN first ELSE Put(g[i - 1], i)
    <3>1. CASE i = n
      BY <3>1
    <3>2. CASE i # n
      <4>1. i \in 0..(n - 1) /\ (i # 0 => i - 1 \in 0..(n - 1) /\ i - 1 \in 0..n /\ i - 1 # n)
        BY <3>2
      <4>2. f[i] = IF i = 0 THEN first ELSE Put(f[i - 1], i)
        BY <2>1, <4>1
      <4>3. g[i] = f[i] /\ (i # 0 => g[i - 1] = f[i - 1])
        BY <3>2, <4>1
      <4>. HIDE DEF g
      <4>4. QED
        BY <4>2, <4>3
    <3>3. QED
      BY <3>1, <3>2
  <2>3. Walk(g, n)
    BY <2>2
  <2>4. n \in Nat /\ \E h : Walk(h, n)
    <3>. HIDE DEF Walk, g
    <3>1. QED
      BY <2>3
  <2>5. QED
    BY <2>4
<1>. HIDE DEF S
<1>3. m \in S
  <2>1. 0..m \subseteq S
    BY <1>1, <1>2, UpToNat
  <2>2. QED
    BY <2>1
<1>4. PICK f : Walk(f, m)
  BY <1>3 DEF S
<1>5. Walk(OthersTo(in, keys), m)
  BY <1>4 DEF OthersTo, Put, first
<1>6. /\ OthersTo(in, keys)[0] = first
      /\ \A i \in 1..m : OthersTo(in, keys)[i] = Put(OthersTo(in, keys)[i - 1], i)
  <2>1. \A i \in 0..m :
          OthersTo(in, keys)[i] = IF i = 0 THEN first ELSE Put(OthersTo(in, keys)[i - 1], i)
    BY <1>5
  <2>2. m \in Nat /\ 0 \in 0..m /\ \A i \in 1..m : i \in 0..m /\ i # 0
    OBVIOUS
  <2>. HIDE DEF m
  <2>3. QED
    BY <2>1, <2>2
<1>7. QED
  BY <1>6 DEF first, Put

\* The elements of a sequence.
Elems(s) == { s[i] : i \in 1..Len(s) }

\* The elements of s among the first i, unless they are keys.
RestTo(r, in, keys, i) == IsSeq(r) /\ Elems(r) = { in[j] : j \in 1..i } \ Elems(keys)

\* What Others leaves.
LEMMA OthersAre ==
    ASSUME NEW in, NEW keys, IsSeq(in), IsSeq(keys)
    PROVE  IsSeq(Others(in, keys)) /\ Elems(Others(in, keys)) = Elems(in) \ Elems(keys)
<1>. DEFINE w == OthersTo(in, keys)
            m == Len(in)
            S == { i \in 0..m : RestTo(w[i], in, keys, i) }
<1>1. m \in Nat
  BY DEF IsSeq
<1>2. /\ w[0] = <<>>
      /\ \A i \in 1..m : w[i] = IF Contains(keys, in[i]) THEN w[i - 1]
                                ELSE Append(w[i - 1], in[i])
  BY <1>1, OthersSteps
<1>3. Others(in, keys) = w[m]
  BY DEF Others, OthersTo
<1>. HIDE DEF w
<1>4. 0 \in S
  <2>1. IsSeq(<<>>) /\ Len(<<>>) = 0
    BY EmptyIs
  <2>2. RestTo(w[0], in, keys, 0)
    BY <1>2, <2>1 DEF RestTo, Elems
  <2>3. QED
    BY <1>1, <2>2
<1>5. ASSUME NEW i \in 1..m, i - 1 \in S PROVE i \in S
  <2>1. IsSeq(w[i - 1]) /\ Elems(w[i - 1]) = { in[j] : j \in 1..(i - 1) } \ Elems(keys)
    BY <1>5 DEF RestTo
  <2>2. { in[j] : j \in 1..i } = { in[j] : j \in 1..(i - 1) } \cup {in[i]}
    <3>1. \A j : j \in 1..i <=> j \in 1..(i - 1) \/ j = i
      BY <1>1
    <3>2. QED
      BY <3>1
  <2>3. CASE Contains(keys, in[i])
    <3>1. in[i] \in Elems(keys) /\ w[i] = w[i - 1]
      BY <1>2, <2>3 DEF Contains, Elems
    <3>2. QED
      BY <2>1, <2>2, <3>1 DEF RestTo
  <2>4. CASE ~Contains(keys, in[i])
    <3>1. in[i] \notin Elems(keys) /\ w[i] = Append(w[i - 1], in[i])
      BY <1>2, <2>4 DEF Contains, Elems
    <3>2. IsSeq(w[i]) /\ Elems(w[i]) = Elems(w[i - 1]) \cup {in[i]}
      <4>. DEFINE u == w[i - 1]
      <4>1. /\ IsSeq(w[i]) /\ Len(w[i]) = Len(u) + 1 /\ w[i][Len(u) + 1] = in[i]
            /\ \A j \in 1..Len(u) : w[i][j] = u[j]
        BY <2>1, <3>1, AppendIs
      <4>2. \A j : j \in 1..Len(w[i]) <=> j \in 1..Len(u) \/ j = Len(u) + 1
        <5>1. Len(u) \in Nat
          BY <2>1 DEF IsSeq
        <5>2. QED
          BY <4>1, <5>1
      <4>. HIDE DEF u
      <4>3. Elems(w[i]) = Elems(u) \cup {in[i]}
        BY <4>1, <4>2 DEF Elems
      <4>4. QED
        BY <4>1, <4>3 DEF u
    <3>3. \A A, K, x : x \notin K => (A \ K) \cup {x} = (A \cup {x}) \ K
      OBVIOUS
    <3>4. Elems(w[i]) = { in[j] : j \in 1..i } \ Elems(keys)
      <4>. DEFINE A == { in[j] : j \in 1..(i - 1) }
      <4>1. Elems(w[i]) = (A \ Elems(keys)) \cup {in[i]}
        BY <2>1, <3>2
      <4>2. { in[j] : j \in 1..i } = A \cup {in[i]}
        BY <2>2
      <4>. HIDE DEF A
      <4>3. QED
        BY <3>1, <3>3, <4>1, <4>2
    <3>5. RestTo(w[i], in, keys, i)
      BY <3>2, <3>4 DEF RestTo
    <3>6. QED
      BY <3>5
  <2>5. QED
    BY <2>3, <2>4
<1>6. 0..m \subseteq S
  <2>. HIDE DEF S
  <2>1. QED
    BY <1>1, <1>4, <1>5, UpToNat
<1>7. RestTo(w[m], in, keys, m)
  BY <1>1, <1>6
<1>8. QED
  BY <1>3, <1>7 DEF RestTo, Elems

\* A sequence of TRUEs.
LEMMA OnesAre ==
    ASSUME NEW s, IsSeq(s)
    PROVE  IsSeq([i \in DOMAIN s |-> TRUE]) /\ Len([i \in DOMAIN s |-> TRUE]) = Len(s)
<1>. DEFINE f == [i \in DOMAIN s |-> TRUE]
<1>1. Len(s) \in Nat /\ f = [i \in 1..Len(s) |-> f[i]]
  BY DEF IsSeq
<1>. HIDE DEF f
<1>2. IsSeq(f) /\ Len(f) = Len(s)
  BY <1>1, FcnIs
<1>3. QED
  BY <1>2 DEF f

\* The elements of two sequences in a row.
LEMMA ElemsOfBoth ==
    ASSUME NEW s, NEW t, IsSeq(s), IsSeq(t)
    PROVE  Elems(s \o t) = Elems(s) \cup Elems(t)
<1>1. /\ Len(s \o t) = Len(s) + Len(t) /\ Len(s) \in Nat /\ Len(t) \in Nat
      /\ \A i \in 1..Len(s) : (s \o t)[i] = s[i]
      /\ \A j \in 1..Len(t) : (s \o t)[Len(s) + j] = t[j]
  BY ConcatIs DEF IsSeq
<1>. DEFINE u == s \o t
<1>. HIDE DEF u
<1>2. ASSUME NEW i \in 1..(Len(s) + Len(t)) PROVE u[i] \in Elems(s) \cup Elems(t)
  <2>1. CASE i <= Len(s)
    BY <1>1, <2>1 DEF Elems, u
  <2>2. CASE ~(i <= Len(s))
    <3>1. i - Len(s) \in 1..Len(t) /\ Len(s) + (i - Len(s)) = i
      BY <1>1, <2>2
    <3>2. u[i] = t[i - Len(s)]
      BY <1>1, <3>1 DEF u
    <3>3. QED
      BY <3>1, <3>2 DEF Elems
  <2>3. QED
    BY <2>1, <2>2
<1>3. ASSUME NEW i \in 1..Len(s) PROVE s[i] \in Elems(u)
  <2>1. i \in 1..Len(u) /\ u[i] = s[i]
    BY <1>1 DEF u
  <2>2. QED
    BY <2>1 DEF Elems
<1>4. ASSUME NEW j \in 1..Len(t) PROVE t[j] \in Elems(u)
  <2>1. Len(s) + j \in 1..Len(u) /\ u[Len(s) + j] = t[j]
    BY <1>1 DEF u
  <2>2. QED
    BY <2>1 DEF Elems
<1>5. Elems(u) = Elems(s) \cup Elems(t)
  <2>1. Len(u) = Len(s) + Len(t)
    BY <1>1 DEF u
  <2>2. Elems(u) \subseteq Elems(s) \cup Elems(t)
    BY <1>2, <2>1 DEF Elems
  <2>3. Elems(s) \subseteq Elems(u) /\ Elems(t) \subseteq Elems(u)
    BY <1>3, <1>4 DEF Elems
  <2>4. QED
    BY <2>2, <2>3
<1>6. QED
  BY <1>5 DEF u

\* The group g with the columns of the sort s in front of its own.
Regrouped(q, g, s, y) ==
    /\ IsNode(y) /\ y.op = g.op /\ y.kids = g.kids
    /\ GroupedBy(q, y) /\ InOrder(q, y) /\ Elems(y.in) = Elems(g.in)

\* The group then orders as the sort did and groups as before.
LEMMA SortedGroupIs ==
    ASSUME NEW q, NEW g, NEW s, IsNode(g), GroupedBy(q, g), Len(g.in) = Len(g.orders),
           IsSeq(s.in), IsSeq(s.orders), Len(s.in) = Len(s.orders), Elems(s.in) \subseteq Elems(g.in),
           InOrder(q, s), Len(q.order) \in Nat,
           NEW y, y = SortedGroup(g, s)
    PROVE  Regrouped(q, g, s, y)
<1>. DEFINE rest == Others(g.in, s.in)
            ones == [i \in DOMAIN rest |-> TRUE]
            in == s.in \o rest
            orders == s.orders \o ones
<1>1. IsSeq(rest) /\ Elems(rest) = Elems(g.in) \ Elems(s.in)
  BY OthersAre DEF GroupedBy
<1>2. y = [g EXCEPT !.in = in, !.orders = orders]
  BY DEF SortedGroup
<1>3. IsSeq(ones) /\ Len(ones) = Len(rest)
  BY <1>1, OnesAre
<1>. HIDE DEF rest, ones
<1>4. /\ IsSeq(in) /\ Len(in) = Len(s.in) + Len(rest)
      /\ \A i \in 1..Len(s.in) : in[i] = s.in[i]
  BY <1>1, ConcatIs
<1>5. /\ IsSeq(orders) /\ Len(orders) = Len(s.orders) + Len(ones)
      /\ \A i \in 1..Len(s.orders) : orders[i] = s.orders[i]
  BY <1>3, ConcatIs
<1>6. Elems(in) = Elems(g.in)
  <2>1. Elems(in) = Elems(s.in) \cup Elems(rest)
    BY <1>1, ElemsOfBoth
  <2>2. QED
    BY <1>1, <2>1
<1>. HIDE DEF in, orders
<1>7. IsNode(y) /\ y.op = g.op /\ y.kids = g.kids /\ y.in = in /\ y.orders = orders
  <2>1. y \in [op : {g.op}, in : {in}, out : {g.out}, kids : {g.kids}, orders : {orders},
               posList : {g.posList}, matVals : {g.matVals}]
    BY <1>2 DEF IsNode
  <2>2. QED
    BY <2>1 DEF IsNode
<1>8. Len(in) = Len(orders) /\ Len(in) \in Nat /\ Len(rest) \in Nat /\ Len(s.in) \in Nat
  BY <1>1, <1>3, <1>4, <1>5 DEF IsSeq
<1>9. KeysOf(y) = KeysOf(g)
  <2>1. KeysOf(y) = Elems(in)
    BY <1>7, <1>8 DEF KeysOf, Elems
  <2>2. KeysOf(g) = Elems(g.in)
    BY DEF KeysOf, Elems
  <2>3. QED
    BY <1>6, <2>1, <2>2
<1>10. GroupedBy(q, y)
  BY <1>4, <1>5, <1>7, <1>8, <1>9 DEF GroupedBy
<1>11. InOrder(q, y)
  <2>1. Len(q.order) <= Len(s.in) /\ \A i \in 1..Len(q.order) : q.order[i] = <<s.in[i], s.orders[i]>>
    BY DEF InOrder
  <2>2. Len(q.order) <= Len(in)
    BY <1>4, <1>8, <2>1
  <2>3. \A i \in 1..Len(q.order) : i \in 1..Len(s.in)
    BY <1>8, <2>1
  <2>4. QED
    BY <1>4, <1>5, <1>7, <1>8, <2>1, <2>2, <2>3 DEF InOrder
<1>12. QED
  BY <1>6, <1>7, <1>10, <1>11 DEF Regrouped

\* A pointer to n becomes one to k.
Instead(x, n, k) == IF x = n THEN k ELSE x

\* The node x with the pointers to n moved to k.
Moved1(y, x, n, k) ==
    /\ IsNode(y) /\ y.op = x.op /\ y.in = x.in /\ y.out = x.out /\ y.orders = x.orders
    /\ IsSeq(y.kids) /\ Len(y.kids) = Len(x.kids)
    /\ \A i \in 1..Len(x.kids) : y.kids[i] = Instead(x.kids[i], n, k)

\* The same for every node of p.
Redirected(u, p, n, k) ==
    /\ IsSeq(u) /\ Len(u) = Len(p)
    /\ \A m \in 1..Len(p) : Moved1(u[m], p[m], n, k)

\* The nodes of p can be moved.
Movables(p) == IsSeq(p) /\ \A m \in 1..Len(p) : IsNode(p[m]) /\ IsSeq(p[m].kids)

\* mergeSortIntoGroup bypasses the sort n on the way to k.
LEMMA BypassedIs ==
    ASSUME NEW p, Movables(p), NEW n, NEW k
    PROVE  Redirected(Bypassed(p, n, k), p, n, k)
<1>. DEFINE kids(m) == [i \in DOMAIN p[m].kids |-> IF p[m].kids[i] = n THEN k ELSE p[m].kids[i]]
            u == Bypassed(p, n, k)
<1>1. /\ IsSeq(p) /\ Len(p) \in Nat /\ DOMAIN p = 1..Len(p)
      /\ \A m \in 1..Len(p) : IsNode(p[m]) /\ IsSeq(p[m].kids)
  BY DEF Movables, IsSeq
<1>2. u = [m \in 1..Len(p) |-> [p[m] EXCEPT !.kids = kids(m)]]
  BY <1>1 DEF Bypassed
<1>3. ASSUME NEW m \in 1..Len(p)
      PROVE  /\ IsSeq(kids(m)) /\ Len(kids(m)) = Len(p[m].kids)
             /\ \A i \in 1..Len(p[m].kids) : kids(m)[i] = Instead(p[m].kids[i], n, k)
  <2>1. Len(p[m].kids) \in Nat /\ DOMAIN p[m].kids = 1..Len(p[m].kids)
    BY <1>1 DEF IsSeq
  <2>2. kids(m) = [i \in 1..Len(p[m].kids) |-> kids(m)[i]]
    BY <2>1
  <2>3. \A i \in 1..Len(p[m].kids) : kids(m)[i] = Instead(p[m].kids[i], n, k)
    BY <2>1 DEF Instead
  <2>. HIDE DEF kids
  <2>4. QED
    BY <2>1, <2>2, <2>3, FcnIs
<1>. HIDE DEF kids
<1>4. ASSUME NEW m \in 1..Len(p) PROVE Moved1(u[m], p[m], n, k)
  <2>1. IsNode(p[m]) /\ u[m] = [p[m] EXCEPT !.kids = kids(m)]
    BY <1>1, <1>2
  <2>2. u[m] \in [op : {p[m].op}, in : {p[m].in}, out : {p[m].out}, kids : {kids(m)},
                  orders : {p[m].orders}, posList : {p[m].posList}, matVals : {p[m].matVals}]
    BY <2>1 DEF IsNode
  <2>3. /\ IsNode(u[m]) /\ u[m].kids = kids(m) /\ u[m].op = p[m].op /\ u[m].in = p[m].in
        /\ u[m].out = p[m].out /\ u[m].orders = p[m].orders
    BY <2>2 DEF IsNode
  <2>4. QED
    BY <1>3, <2>3 DEF Moved1
<1>5. IsSeq(u) /\ Len(u) = Len(p)
  <2>1. u = [m \in 1..Len(p) |-> u[m]]
    BY <1>2
  <2>. HIDE DEF u
  <2>2. QED
    BY <1>1, <2>1, FcnIs
<1>6. QED
  BY <1>4, <1>5 DEF Redirected

\* What holds of every pointer holds of every child.
LEMMA KidsAreIn ==
    ASSUME NEW p, NEW n, IsSeq(p[n].kids), NEW S, \A i \in 1..Len(p[n].kids) : p[n].kids[i] \in S
    PROVE  KidsOf(p, n) \subseteq S
  BY DEF KidsOf, ToSet, IsSeq

\* A sequence of one element is what its element says.
LEMMA IsOne ==
    ASSUME NEW s, IsSeq(s), Len(s) = 1 PROVE s = <<s[1]>>
<1>1. s = [i \in 1..1 |-> s[1]]
  <2>1. s = [i \in 1..1 |-> s[i]] /\ \A i \in 1..1 : i = 1
    BY DEF IsSeq
  <2>2. QED
    BY <2>1
<1>2. <<s[1]>> = [i \in 1..1 |-> s[1]]
  OBVIOUS
<1>3. QED
  BY <1>1, <1>2

\* The sort that is merged is the one of the query, and the group its child.
LEMMA MergeableIs ==
    ASSUME LaidOut(query, logical, TRUE), NEW s \in LiveLogical, Mergeable(s)
    PROVE  /\ query.order # <<>> /\ s = SortAt(logical) /\ s \in 1..Len(logical)
           /\ query.group # <<>> /\ logical[s].kids[1] = GroupAt(query, logical)
           /\ logical[s].kids[1] \in 1..(s - 1)
           /\ Elems(logical[s].in) \subseteq Elems(logical[logical[s].kids[1]].in)
<1>. DEFINE k == logical[s].kids[1]
<1>1. /\ Forest(logical) /\ Descending(logical) /\ Len(logical) \in Nat
      /\ Len(logical) \in 1..Len(logical)
  BY DEF LaidOut, Forest, IsSeq
<1>2. s \in 1..Len(logical)
  <2>1. s \in Live(logical, Len(logical))
    BY DEF LiveLogical, Root
  <2>2. QED
    BY <1>1, <2>1, LiveClosed
<1>3. logical[s].op = "sort" /\ logical[k].op = "group"
  BY DEF Mergeable
<1>4. query.order # <<>> /\ s = SortAt(logical)
  BY <1>2, <1>3 DEF LaidOut, SortsPlaced
<1>5. Len(logical[s].kids) = 1 /\ IsSeq(logical[s].kids)
  BY <1>1, <1>2, <1>4 DEF LaidOut, SortOnTop, Forest
<1>6. k \in 1..(s - 1)
  <2>1. k \in KidsOf(logical, s)
    BY <1>5, PointersAre
  <2>2. QED
    BY <1>1, <1>2, <2>1 DEF Descending
<1>7. k \in 1..Len(logical)
  BY <1>1, <1>2, <1>6
<1>8. query.group # <<>> /\ k = GroupAt(query, logical)
  BY <1>3, <1>7 DEF LaidOut, GroupsPlaced
<1>9. Elems(logical[s].in) \subseteq Elems(logical[k].in)
  <2>1. IsSeq(logical[s].in) /\ IsSeq(logical[k].in)
    BY <1>4, <1>8 DEF LaidOut, SortOnTop, GroupedBy
  <2>2. ToSet(logical[s].in) \subseteq ToSet(logical[k].in)
    BY DEF Mergeable
  <2>3. \A x : IsSeq(x) => ToSet(x) = Elems(x)
    BY DEF ToSet, Elems, IsSeq
  <2>4. QED
    BY <2>1, <2>2, <2>3
<1>10. QED
  BY <1>2, <1>4, <1>6, <1>8, <1>9

\* Pointers that lead down still do.
LEMMA BelowBelow ==
    ASSUME NEW n \in Nat, NEW k \in 1..(n - 1), NEW x \in 1..(k - 1)
    PROVE  x \in 1..(n - 1)
OBVIOUS

\* So do those that have been redirected.
LEMMA InsteadBelow ==
    ASSUME NEW n \in Nat, NEW s, NEW k \in 1..(s - 1), NEW x \in 1..(n - 1)
    PROVE  Instead(x, s, k) \in 1..(n - 1)
<1>1. CASE x = s
  BY <1>1, BelowBelow DEF Instead
<1>2. CASE x # s
  BY <1>2 DEF Instead
<1>3. QED
  BY <1>1, <1>2

\* What counts of a group are its columns and directions.
LEMMA RegroupedStays ==
    ASSUME NEW q, NEW g, NEW s, NEW y, Regrouped(q, g, s, y),
           NEW x, x.in = y.in, x.orders = y.orders
    PROVE  GroupedBy(q, x) /\ InOrder(q, x)
<1>1. GroupedBy(q, y) /\ InOrder(q, y)
  BY DEF Regrouped
<1>2. KeysOf(x) = KeysOf(y)
  BY DEF KeysOf
<1>3. GroupedBy(q, x)
  BY <1>1, <1>2 DEF GroupedBy
<1>4. InOrder(q, x)
  BY <1>1 DEF InOrder
<1>5. QED
  BY <1>3, <1>4

\* The pointers of the node m of u are those it has in p, with the ones to n moved to k.
Moves(u, p, m, n, k) ==
    /\ \A x \in KidsOf(u, m) : \E z \in KidsOf(p, m) : x = Instead(z, n, k)
    /\ \A z \in KidsOf(p, m) : Instead(z, n, k) \in KidsOf(u, m)

\* So it is with a node moved.
LEMMA MovedPointers ==
    ASSUME NEW u, NEW p, NEW m, NEW n, NEW k, IsSeq(p[m].kids), Moved1(u[m], p[m], n, k)
    PROVE  Moves(u, p, m, n, k)
<1>1. /\ IsSeq(u[m].kids) /\ Len(u[m].kids) = Len(p[m].kids)
      /\ \A i \in 1..Len(p[m].kids) : u[m].kids[i] = Instead(p[m].kids[i], n, k)
  BY DEF Moved1
<1>2. /\ \A x \in KidsOf(p, m) : \E i \in 1..Len(p[m].kids) : x = p[m].kids[i]
      /\ \A i \in 1..Len(p[m].kids) : p[m].kids[i] \in KidsOf(p, m)
  BY PointersAre
<1>3. /\ \A x \in KidsOf(u, m) : \E i \in 1..Len(u[m].kids) : x = u[m].kids[i]
      /\ \A i \in 1..Len(u[m].kids) : u[m].kids[i] \in KidsOf(u, m)
  BY <1>1, PointersAre
<1>4. ASSUME NEW x \in KidsOf(u, m)
      PROVE  \E z \in KidsOf(p, m) : x = Instead(z, n, k)
  <2>1. PICK i \in 1..Len(p[m].kids) : x = u[m].kids[i]
    BY <1>1, <1>3
  <2>2. p[m].kids[i] \in KidsOf(p, m) /\ x = Instead(p[m].kids[i], n, k)
    BY <1>1, <1>2, <2>1
  <2>3. QED
    BY <2>2
<1>5. ASSUME NEW z \in KidsOf(p, m) PROVE Instead(z, n, k) \in KidsOf(u, m)
  <2>1. PICK i \in 1..Len(p[m].kids) : z = p[m].kids[i]
    BY <1>2
  <2>2. u[m].kids[i] = Instead(z, n, k) /\ u[m].kids[i] \in KidsOf(u, m)
    BY <1>1, <1>3, <2>1
  <2>3. QED
    BY <2>2
<1>6. QED
  BY <1>4, <1>5 DEF Moves

\* The plan in which the sort has been merged into the group is laid out as one that never had a sort.
LEMMA MergedIs ==
    ASSUME LaidOut(query, logical, TRUE), GroupOverOne(query, logical), Len(query.order) \in Nat,
           NEW s \in LiveLogical, Mergeable(s),
           NEW r, r = Bypassed([logical EXCEPT ![logical[s].kids[1]] =
                                      SortedGroup(@, logical[s])], s, logical[s].kids[1])
    PROVE  /\ LaidOut(query, r, FALSE) /\ GroupOverOne(query, r)
           /\ query.group # <<>> /\ Trimmed(r, logical, GroupAt(query, logical))
<1>. DEFINE k == logical[s].kids[1]
            y == SortedGroup(logical[k], logical[s])
            p == [logical EXCEPT ![k] = y]
            L == Len(logical)
<1>1. /\ query.order # <<>> /\ s = SortAt(logical) /\ s \in 1..L
      /\ query.group # <<>> /\ k = GroupAt(query, logical) /\ k \in 1..(s - 1)
      /\ Elems(logical[s].in) \subseteq Elems(logical[k].in)
  BY MergeableIs
<1>2. /\ Forest(logical) /\ IsSeq(logical) /\ L \in Nat /\ L \in 1..L /\ k \in 1..L /\ s < L
      /\ SumsRead(logical)
  BY <1>1 DEF LaidOut, Forest, IsSeq, SortAt
<1>3. /\ SortOnTop(query, logical) /\ GroupedBy(query, logical[k])
      /\ Len(logical[k].in) = Len(logical[k].orders) /\ Len(logical[k].kids) = 1
  BY <1>1 DEF LaidOut, GroupOverOne
<1>4. logical[k].op = "group" /\ logical[s].op = "sort" /\ logical[L].op = "select"
  BY <1>1, <1>2 DEF LaidOut, GroupsPlaced, SortsPlaced
<1>5. Regrouped(query, logical[k], logical[s], y)
  <2>1. IsNode(logical[k])
    BY <1>2 DEF Forest
  <2>2. /\ IsSeq(logical[s].in) /\ IsSeq(logical[s].orders)
        /\ Len(logical[s].in) = Len(logical[s].orders) /\ InOrder(query, logical[s])
    BY <1>1, <1>3 DEF SortOnTop
  <2>3. QED
    BY <1>1, <1>3, <2>1, <2>2, SortedGroupIs
<1>6. r = Bypassed(p, s, k)
  OBVIOUS
<1>. HIDE DEF y
<1>7. p = [n \in 1..L |-> IF n = k THEN y ELSE logical[n]]
  BY <1>2 DEF IsSeq
<1>. HIDE DEF k
<1>8. IsSeq(p) /\ Len(p) = L /\ \A n \in 1..L : p[n] = IF n = k THEN y ELSE logical[n]
  <2>1. p = [n \in 1..L |-> p[n]] /\ \A n \in 1..L : p[n] = IF n = k THEN y ELSE logical[n]
    BY <1>7
  <2>. HIDE DEF p, L
  <2>2. QED
    BY <1>2, <2>1, FcnIs
<1>. HIDE DEF p, L
<1>9. \A n \in 1..L :
        /\ IsNode(p[n]) /\ p[n].op = logical[n].op /\ p[n].kids = logical[n].kids /\ IsSeq(p[n].kids)
        /\ n # k => p[n] = logical[n]
  BY <1>2, <1>5, <1>8 DEF Forest, Regrouped, L
<1>10. /\ IsSeq(r) /\ Len(r) = L
       /\ \A n \in 1..L : Moved1(r[n], p[n], s, k)
  <2>1. Movables(p)
    BY <1>8, <1>9 DEF Movables
  <2>2. Redirected(r, p, s, k)
    BY <1>6, <2>1, BypassedIs
  <2>3. QED
    BY <1>8, <2>2 DEF Redirected
<1>11. ASSUME NEW n \in 1..L
       PROVE  IsNode(r[n]) /\ IsSeq(r[n].kids) /\ r[n].op = logical[n].op
              /\ Len(r[n].kids) = Len(logical[n].kids)
  BY <1>9, <1>10 DEF Moved1
<1>12. ASSUME NEW n \in 1..L PROVE KidsOf(r, n) \subseteq 1..(n - 1)
  <2>1. ASSUME NEW i \in 1..Len(r[n].kids) PROVE r[n].kids[i] \in 1..(n - 1)
    <3>1. i \in 1..Len(logical[n].kids) /\ logical[n].kids[i] \in KidsOf(logical, n)
      BY <1>2, <1>11, PointersAre DEF Forest, L
    <3>2. logical[n].kids[i] \in 1..(n - 1)
      BY <1>2, <3>1 DEF Forest, Descending, L
    <3>3. r[n].kids[i] = Instead(logical[n].kids[i], s, k)
      <4>1. Moved1(r[n], p[n], s, k) /\ p[n].kids = logical[n].kids
        BY <1>9, <1>10
      <4>2. QED
        BY <3>1, <4>1 DEF Moved1
    <3>4. QED
      <4>1. n \in Nat /\ k \in 1..(s - 1)
        BY <1>1, <1>2 DEF L, k
      <4>. HIDE DEF k
      <4>2. QED
        BY <3>2, <3>3, <4>1, InsteadBelow
  <2>2. IsSeq(r[n].kids)
    BY <1>11
  <2>3. QED
    BY <2>1, <2>2, KidsAreIn
<1>13. /\ Forest(r) /\ Len(r) >= 1 /\ r[Len(r)].op = "select"
       /\ SortsPlaced(query, r) /\ GroupsPlaced(query, r)
       /\ SortAt(r) = SortAt(logical) /\ GroupAt(query, r) = GroupAt(query, logical)
  <2>1. IsSeq(r) /\ Len(r) = Len(logical)
    BY <1>10 DEF L
  <2>2. \A n \in 1..Len(r) :
          /\ IsNode(r[n]) /\ IsSeq(r[n].kids) /\ KidsOf(r, n) \subseteq 1..(n - 1)
          /\ r[n].op = logical[n].op \/ (logical[n].op \notin Top /\ r[n].op \notin Top)
    BY <1>10, <1>11, <1>12
  <2>3. QED
    BY <2>1, <2>2, PlacedAgain
<1>14. r[L].kids = <<k>>
  <2>1. L # k /\ logical[L].kids = <<s>> /\ Len(logical[L].kids) = 1 /\ logical[L].kids[1] = s
    BY <1>1, <1>2, <1>3, OneIs DEF SortOnTop, L
  <2>2. Len(r[L].kids) = 1 /\ IsSeq(r[L].kids)
    BY <1>2, <1>11, <2>1
  <2>3. r[L].kids[1] = k
    <3>1. Moved1(r[L], p[L], s, k) /\ p[L].kids = logical[L].kids
      BY <1>2, <1>9, <1>10 DEF L
    <3>2. 1 \in 1..Len(p[L].kids)
      BY <2>1, <3>1
    <3>3. r[L].kids[1] = Instead(s, s, k)
      BY <2>1, <3>1, <3>2 DEF Moved1
    <3>4. QED
      BY <3>3 DEF Instead
  <2>4. QED
    BY <2>2, <2>3, IsOne
<1>15. r[k].in = y.in /\ r[k].orders = y.orders /\ Len(r[k].kids) = 1
  BY <1>2, <1>3, <1>8, <1>10, <1>11 DEF Moved1
<1>16. GroupedBy(query, r[k]) /\ InOrder(query, r[k])
  BY <1>5, <1>15, RegroupedStays
<1>17. SumsRead(r)
  <2>1. ASSUME NEW n \in 1..L, r[n].op = "sum" PROVE IsSeq(r[n].in)
    <3>1. logical[n].op = "sum" /\ n # k
      BY <1>4, <1>11, <2>1
    <3>2. r[n].in = logical[n].in
      BY <1>9, <1>10, <3>1 DEF Moved1
    <3>3. QED
      BY <1>2, <3>1, <3>2 DEF SumsRead, L
  <2>2. QED
    BY <1>10, <2>1 DEF SumsRead
<1>18. GroupOnTop(query, r) /\ GroupBelow(query, r)
  BY <1>1, <1>10, <1>13, <1>14, <1>16 DEF GroupOnTop, GroupBelow
<1>19. SortAt(r) \in 1..Len(r) /\ GroupAt(query, r) \in 1..Len(r) /\ GroupAt(query, r) = k
  BY <1>1, <1>2, <1>10, <1>13
<1>20. LaidOut(query, r, FALSE)
  BY <1>13, <1>16, <1>17, <1>18, <1>19 DEF LaidOut
<1>21. GroupOverOne(query, r)
  BY <1>15, <1>19 DEF GroupOverOne
<1>22. ASSUME NEW n \in 1..L
       PROVE  /\ IsSeq(logical[n].kids)
              /\ KidsOf(logical, n) \subseteq 1..(n - 1)
              /\ \A x \in KidsOf(r, n) : \E z \in KidsOf(logical, n) : x = Instead(z, s, k)
              /\ \A z \in KidsOf(logical, n) : Instead(z, s, k) \in KidsOf(r, n)
  <2>1. IsSeq(logical[n].kids) /\ KidsOf(logical, n) \subseteq 1..(n - 1)
    BY <1>2 DEF Forest, Descending, L
  <2>2. Moved1(r[n], p[n], s, k) /\ p[n].kids = logical[n].kids /\ IsSeq(p[n].kids)
    BY <1>9, <1>10
  <2>3. KidsOf(p, n) = KidsOf(logical, n)
    BY <2>2 DEF KidsOf
  <2>4. Moves(r, p, n, s, k)
    BY <2>2, MovedPointers
  <2>5. QED
    BY <2>1, <2>3, <2>4 DEF Moves
<1>23. ASSUME NEW n \in 1..L PROVE KidsOf(r, n) \subseteq Live(logical, n)
  <2>1. /\ n \in Live(logical, n)
        /\ \A x \in Live(logical, n) : KidsOf(logical, x) \subseteq Live(logical, n)
    BY <1>2, LiveWithin DEF L
  <2>2. k \in KidsOf(logical, s)
    <3>1. IsSeq(logical[s].kids) /\ 1 \in 1..Len(logical[s].kids)
      BY <1>1, <1>3, <1>22 DEF SortOnTop
    <3>2. QED
      BY <3>1, PointersAre DEF k
  <2>3. ASSUME NEW x \in KidsOf(logical, n) PROVE Instead(x, s, k) \in Live(logical, n)
    <3>1. x \in Live(logical, n)
      BY <2>1
    <3>2. QED
      BY <2>1, <2>2, <3>1 DEF Instead
  <2>4. ASSUME NEW x \in KidsOf(r, n) PROVE x \in Live(logical, n)
    <3>1. PICK z \in KidsOf(logical, n) : x = Instead(z, s, k)
      BY <1>22
    <3>2. QED
      BY <2>3, <3>1
  <2>5. QED
    BY <2>4
<1>24. ASSUME NEW n \in 1..L, n < k
       PROVE  r[n].in = logical[n].in /\ r[n].out = logical[n].out /\ KidsOf(r, n) = KidsOf(logical, n)
  <2>1. n # k /\ \A x \in 1..(n - 1) : x # s
    BY <1>1, <1>2, <1>24
  <2>2. r[n].in = logical[n].in /\ r[n].out = logical[n].out
    BY <1>9, <1>10, <2>1 DEF Moved1
  <2>3. \A x \in KidsOf(logical, n) : Instead(x, s, k) = x
    BY <1>22, <2>1 DEF Instead
  <2>4. ASSUME NEW x \in KidsOf(r, n) PROVE x \in KidsOf(logical, n)
    <3>1. PICK z \in KidsOf(logical, n) : x = Instead(z, s, k)
      BY <1>22
    <3>2. QED
      BY <2>3, <3>1
  <2>5. ASSUME NEW x \in KidsOf(logical, n) PROVE x \in KidsOf(r, n)
    <3>1. Instead(x, s, k) \in KidsOf(r, n) /\ Instead(x, s, k) = x
      BY <1>22, <2>3
    <3>2. QED
      BY <3>1
  <2>6. QED
    BY <2>2, <2>4, <2>5
<1>25. ASSUME NEW m \in 1..L PROVE ToSet(r[m].in) = ToSet(logical[m].in)
  <2>1. CASE m # k
    BY <1>9, <1>10, <2>1 DEF Moved1
  <2>2. CASE m = k
    <3>1. IsSeq(y.in) /\ IsSeq(logical[k].in) /\ Elems(y.in) = Elems(logical[k].in)
      BY <1>3, <1>5 DEF Regrouped, GroupedBy
    <3>2. \A x : IsSeq(x) => ToSet(x) = Elems(x)
      BY DEF ToSet, Elems, IsSeq
    <3>3. QED
      BY <1>15, <2>2, <3>1, <3>2
  <2>3. QED
    BY <2>1, <2>2
<1>26. ASSUME NEW m \in 1..L, NEW n \in Live(r, m) \ {m}
       PROVE  ToSet(r[m].in) \subseteq InputsOf(logical, Ancestors(logical, m, n))
  <2>1. Live(r, m) \subseteq Live(logical, m) /\ m \in Live(logical, m)
    BY <1>2, <1>10, <1>23, LiveShrinks, LiveWithin DEF L
  <2>2. m \in Ancestors(logical, m, n)
    BY <2>1 DEF Ancestors
  <2>3. QED
    BY <1>25, <2>2 DEF InputsOf
<1>27. Trimmed(r, logical, k)
  BY <1>10, <1>11, <1>13, <1>23, <1>24, <1>26 DEF Trimmed, L
<1>28. QED
  BY <1>1, <1>20, <1>21, <1>27

\* mergeSortIntoGroup keeps the order, whether or not it finds a sort to merge.
LEMMA MergeKeeps ==
    ASSUME LaidOut(query, logical, TRUE), GroupOverOne(query, logical), Len(query.order) \in Nat,
           MergeSortIntoGroup
    PROVE  LaidOut(query, logical', FALSE) /\ GroupOverOne(query, logical')
<1>1. CASE logical' = logical
  BY <1>1, LaidOutLater
<1>2. CASE logical' # logical
  <2>1. PICK s \in LiveLogical :
          /\ Mergeable(s)
          /\ logical' = Bypassed([logical EXCEPT ![logical[s].kids[1]] =
                                        SortedGroup(@, logical[s])], s, logical[s].kids[1])
    BY <1>2 DEF MergeSortIntoGroup
  <2>2. QED
    BY <2>1, MergedIs
<1>3. QED
  BY <1>1, <1>2

\* And the semi joins.
LEMMA MergeFilters ==
    ASSUME LaidOut(query, logical, TRUE), GroupOverOne(query, logical), Len(query.order) \in Nat,
           MergeSortIntoGroup, Filtering(logical)
    PROVE  Filtering(logical')
<1>1. CASE logical' = logical
  BY <1>1
<1>2. CASE logical' # logical
  <2>1. PICK s \in LiveLogical :
          /\ Mergeable(s)
          /\ logical' = Bypassed([logical EXCEPT ![logical[s].kids[1]] =
                                        SortedGroup(@, logical[s])], s, logical[s].kids[1])
    BY <1>2 DEF MergeSortIntoGroup
  <2>. DEFINE G == GroupAt(query, logical)
  <2>2. query.group # <<>> /\ Trimmed(logical', logical, G)
    BY <2>1, MergedIs
  <2>3. G \in Nat /\ \A n \in 1..Len(logical) : logical[n].op = "semijoin" => n < G
    BY <2>2, SemiJoinsBelow DEF LaidOut
  <2>4. QED
    BY <2>2, <2>3, TrimmedFilters
<1>3. QED
  BY <1>1, <1>2

\* The node y at n is the group x with more columns behind its own.
Widened(y, x, n) ==
    /\ IsNode(y) /\ IsSeq(y.kids) /\ y.op = "group" /\ y.orders = x.orders
    /\ \A i \in 1..Len(y.kids) : y.kids[i] \in 1..(n - 1)
    /\ IsSeq(y.in) /\ Len(y.in) \in Nat /\ Len(x.in) <= Len(y.in)
    /\ \A i \in 1..Len(x.in) : y.in[i] = x.in[i]

\* moveAggIntoGroup: the group takes over the sum below it.
LEMMA WithAggIs ==
    ASSUME LaidOut(query, logical, FALSE), GroupOverOne(query, logical),
           NEW n \in 1..Len(logical), logical[n].op = "group", logical[logical[n].kids[1]].op = "sum",
           NEW y, y = WithAgg(logical[n], logical[logical[n].kids[1]])
    PROVE  /\ query.group # <<>> /\ n = GroupAt(query, logical) /\ Widened(y, logical[n], n)
           /\ y.kids = logical[logical[n].kids[1]].kids
           /\ Elems(y.in) = Elems(logical[n].in) \cup Elems(logical[logical[n].kids[1]].in)
           /\ IsSeq(logical[n].in) /\ IsSeq(logical[logical[n].kids[1]].in)
           /\ logical[n].kids[1] \in KidsOf(logical, n)
<1>. DEFINE k == logical[n].kids[1]
            a == logical[k]
            in == logical[n].in \o a.in
            out == logical[n].out \o a.out
<1>1. /\ Forest(logical) /\ SumsRead(logical) /\ GroupsPlaced(query, logical) /\ Len(logical) \in Nat
  BY DEF LaidOut, Forest, IsSeq
<1>2. query.group # <<>> /\ n = GroupAt(query, logical)
  BY <1>1 DEF GroupsPlaced
<1>3. /\ IsNode(logical[n]) /\ IsSeq(logical[n].kids) /\ Len(logical[n].kids) = 1
      /\ GroupedBy(query, logical[n])
  BY <1>1, <1>2 DEF Forest, GroupOverOne, LaidOut
<1>4. k \in KidsOf(logical, n) /\ k \in 1..(n - 1)
  <2>1. k \in KidsOf(logical, n)
    BY <1>3, PointersAre
  <2>2. QED
    BY <1>1, <2>1 DEF Forest, Descending
<1>5. k \in 1..Len(logical) /\ n \in Nat /\ k \in Nat
  BY <1>1, <1>4
<1>6. IsSeq(a.in) /\ IsSeq(a.kids)
  BY <1>1, <1>5 DEF SumsRead, Forest
<1>7. \A i \in 1..Len(a.kids) : a.kids[i] \in 1..(n - 1)
  <2>1. ASSUME NEW i \in 1..Len(a.kids) PROVE a.kids[i] \in 1..(n - 1)
    <3>1. a.kids[i] \in KidsOf(logical, k)
      BY <1>6, PointersAre
    <3>2. a.kids[i] \in 1..(k - 1)
      BY <1>1, <1>5, <3>1 DEF Forest, Descending
    <3>3. QED
      BY <1>4, <1>5, <3>2, BelowBelow
  <2>2. QED
    BY <2>1
<1>8. /\ IsSeq(in) /\ Len(in) = Len(logical[n].in) + Len(a.in)
      /\ \A i \in 1..Len(logical[n].in) : in[i] = logical[n].in[i]
  <2>1. IsSeq(logical[n].in)
    BY <1>3 DEF GroupedBy
  <2>. DEFINE b == logical[n].in
              c == a.in
  <2>2. IsSeq(b) /\ IsSeq(c)
    BY <1>6, <2>1
  <2>. HIDE DEF b, c
  <2>3. /\ IsSeq(b \o c) /\ Len(b \o c) = Len(b) + Len(c)
        /\ \A i \in 1..Len(b) : (b \o c)[i] = b[i]
    BY <2>2, ConcatIs
  <2>4. QED
    BY <2>3 DEF b, c
<1>9. /\ Len(logical[n].in) \in Nat /\ Len(a.in) \in Nat
  BY <1>3, <1>6 DEF GroupedBy, IsSeq
<1>. DEFINE u == Len(logical[n].in)
            v == Len(a.in)
            w == Len(in)
<1>14. u \in Nat /\ v \in Nat /\ w = u + v
  BY <1>8, <1>9
<1>. HIDE DEF u, v, w
<1>15. w \in Nat /\ u <= w
  BY <1>14
<1>10. y = [logical[n] EXCEPT !.in = in, !.out = out, !.kids = a.kids]
  BY DEF WithAgg
<1>. HIDE DEF in, out, a, k
<1>11. /\ IsNode(y) /\ y.op = "group" /\ y.in = in /\ y.kids = a.kids
       /\ y.orders = logical[n].orders
  <2>1. y \in [op : {logical[n].op}, in : {in}, out : {out}, kids : {a.kids},
               orders : {logical[n].orders}, posList : {logical[n].posList},
               matVals : {logical[n].matVals}]
    BY <1>3, <1>10 DEF IsNode
  <2>2. QED
    BY <2>1 DEF IsNode
<1>12. IsSeq(y.in) /\ Len(y.in) \in Nat /\ Len(logical[n].in) <= Len(y.in)
  <2>1. y.in = in
    BY <1>11
  <2>2. QED
    BY <1>8, <1>15, <2>1 DEF u, w
<1>13. Widened(y, logical[n], n)
  BY <1>6, <1>7, <1>8, <1>11, <1>12 DEF Widened
<1>16. Elems(y.in) = Elems(logical[n].in) \cup Elems(a.in) /\ IsSeq(logical[n].in)
  <2>1. IsSeq(logical[n].in) /\ IsSeq(a.in)
    BY <1>3, <1>6 DEF GroupedBy
  <2>2. y.in = logical[n].in \o a.in
    BY <1>11 DEF in
  <2>3. QED
    BY <2>1, <2>2, ElemsOfBoth
<1>17. QED
  BY <1>2, <1>4, <1>6, <1>11, <1>13, <1>16 DEF a, k

\* The node n of r is the one of the plan, with the sum below it if it is a group.
SumMoved(r, n) ==
    \/ r[n] = logical[n]
    \/ /\ logical[n].op = "group" /\ logical[logical[n].kids[1]].op = "sum"
       /\ r[n] = WithAgg(logical[n], logical[logical[n].kids[1]])

\* The plan in which a sum has moved into the group is laid out as before.
LEMMA MovedIs ==
    ASSUME LaidOut(query, logical, FALSE), GroupOverOne(query, logical), Len(query.order) \in Nat,
           NEW r, IsSeq(r), Len(r) = Len(logical), \A n \in 1..Len(r) : SumMoved(r, n)
    PROVE  LaidOut(query, r, FALSE)
<1>. DEFINE G == GroupAt(query, logical)
            S == SortAt(logical)
            L == Len(logical)
<1>1. /\ Forest(logical) /\ IsSeq(logical) /\ L \in Nat /\ L \in 1..L
      /\ SumsRead(logical) /\ logical[L].op = "select"
      /\ SortsPlaced(query, logical) /\ GroupsPlaced(query, logical)
  BY DEF LaidOut, Forest, IsSeq
<1>2. ASSUME NEW n \in 1..L
      PROVE  /\ IsNode(r[n]) /\ IsSeq(r[n].kids) /\ KidsOf(r, n) \subseteq 1..(n - 1)
             /\ r[n].op = logical[n].op /\ r[n].orders = logical[n].orders
             /\ r[n] = logical[n] \/ (r[n].op = "group" /\ query.group # <<>> /\ n = G)
             /\ r[n].op = "group" =>
                  /\ IsSeq(r[n].in) /\ Len(r[n].in) \in Nat /\ Len(logical[n].in) <= Len(r[n].in)
                  /\ \A i \in 1..Len(logical[n].in) : r[n].in[i] = logical[n].in[i]
  <2>1. CASE r[n] = logical[n]
    <3>1. KidsOf(r, n) = KidsOf(logical, n)
      BY <2>1 DEF KidsOf
    <3>2. IsNode(r[n]) /\ IsSeq(r[n].kids) /\ KidsOf(r, n) \subseteq 1..(n - 1)
      BY <1>1, <2>1, <3>1 DEF Forest, Descending
    <3>3. r[n].op = "group" => IsSeq(r[n].in) /\ Len(r[n].in) \in Nat
      <4>1. ASSUME r[n].op = "group" PROVE IsSeq(r[n].in) /\ Len(r[n].in) \in Nat
        <5>1. query.group # <<>> /\ n = G
          BY <1>1, <2>1, <4>1 DEF GroupsPlaced
        <5>2. GroupedBy(query, r[n])
          BY <2>1, <5>1 DEF LaidOut
        <5>3. QED
          BY <5>2 DEF GroupedBy, IsSeq
      <4>2. QED
        BY <4>1
    <3>4. QED
      BY <2>1, <3>2, <3>3
  <2>2. CASE /\ logical[n].op = "group" /\ logical[logical[n].kids[1]].op = "sum"
             /\ r[n] = WithAgg(logical[n], logical[logical[n].kids[1]])
    <3>1. query.group # <<>> /\ n = G /\ Widened(r[n], logical[n], n)
      BY <2>2, WithAggIs
    <3>2. KidsOf(r, n) \subseteq 1..(n - 1)
      BY <3>1, KidsAreIn DEF Widened
    <3>3. QED
      BY <2>2, <3>1, <3>2 DEF Widened
  <2>3. QED
    BY <2>1, <2>2 DEF SumMoved
<1>3. /\ Forest(r) /\ Len(r) >= 1 /\ r[Len(r)].op = "select"
      /\ SortsPlaced(query, r) /\ GroupsPlaced(query, r)
      /\ SortAt(r) = S /\ GroupAt(query, r) = G
  <2>1. \A n \in 1..Len(r) :
          /\ IsNode(r[n]) /\ IsSeq(r[n].kids) /\ KidsOf(r, n) \subseteq 1..(n - 1)
          /\ r[n].op = logical[n].op \/ (logical[n].op \notin Top /\ r[n].op \notin Top)
    BY <1>2
  <2>. HIDE DEF G, S, L
  <2>2. QED
    BY <2>1, PlacedAgain DEF G, S
<1>4. SumsRead(r)
  BY <1>1, <1>2 DEF SumsRead
<1>5. r[L] = logical[L]
  BY <1>1, <1>2
<1>6. SortOnTop(query, logical) /\ S \in 1..L /\ query.order # <<>> => SortOnTop(query, r)
  <2>1. ASSUME S \in 1..L, query.order # <<>> PROVE r[S] = logical[S]
    <3>1. logical[S].op = "sort"
      BY <1>1, <2>1 DEF SortsPlaced
    <3>2. QED
      BY <1>2, <2>1, <3>1
  <2>2. QED
    BY <1>3, <1>5, <2>1 DEF SortOnTop
<1>7. ASSUME query.group # <<>>, G \in 1..L, GroupedBy(query, logical[G])
      PROVE  /\ GroupedBy(query, r[G])
             /\ InOrder(query, logical[G]) => InOrder(query, r[G])
  <2>1. logical[G].op = "group"
    BY <1>1, <1>7 DEF GroupsPlaced
  <2>2. /\ IsSeq(r[G].in) /\ Len(r[G].in) \in Nat /\ Len(logical[G].in) <= Len(r[G].in)
        /\ \A i \in 1..Len(logical[G].in) : r[G].in[i] = logical[G].in[i]
        /\ r[G].orders = logical[G].orders
    BY <1>2, <1>7, <2>1
  <2>3. /\ IsSeq(logical[G].in) /\ IsSeq(logical[G].orders)
        /\ Len(logical[G].orders) <= Len(logical[G].in)
        /\ Len(logical[G].orders) \in Nat /\ Len(logical[G].in) \in Nat
        /\ KeysOf(logical[G]) = { query.group[i] : i \in 1..Len(query.group) }
    BY <1>7 DEF GroupedBy, IsSeq
  <2>4. KeysOf(r[G]) = KeysOf(logical[G])
    <3>1. \A i \in 1..Len(logical[G].orders) : r[G].in[i] = logical[G].in[i]
      BY <2>2, <2>3
    <3>2. QED
      BY <2>2, <3>1 DEF KeysOf
  <2>5. GroupedBy(query, r[G])
    BY <2>2, <2>3, <2>4 DEF GroupedBy
  <2>6. InOrder(query, logical[G]) => InOrder(query, r[G])
    BY <2>2, <2>3 DEF InOrder
  <2>7. QED
    BY <2>5, <2>6
<1>8. query.order # <<>> =>
        SortAt(r) \in 1..Len(r) /\ (SortOnTop(query, r) \/ GroupOnTop(query, r))
  <2>1. ASSUME query.order # <<>> PROVE SortOnTop(query, r) \/ GroupOnTop(query, r)
    <3>1. S \in 1..L /\ (SortOnTop(query, logical) \/ GroupOnTop(query, logical))
      BY <2>1 DEF LaidOut
    <3>2. CASE SortOnTop(query, logical)
      BY <1>6, <2>1, <3>1, <3>2
    <3>3. CASE GroupOnTop(query, logical)
      <4>1. query.group # <<>> /\ G \in 1..L /\ GroupedBy(query, logical[G])
        BY <3>3 DEF LaidOut, GroupOnTop
      <4>2. QED
        BY <1>3, <1>5, <1>7, <3>3, <4>1 DEF GroupOnTop
    <3>4. QED
      BY <3>1, <3>2, <3>3
  <2>2. QED
    BY <1>3, <2>1 DEF LaidOut
<1>9. query.group # <<>> =>
        /\ GroupAt(query, r) \in 1..Len(r)
        /\ GroupedBy(query, r[GroupAt(query, r)]) /\ GroupBelow(query, r)
  <2>1. ASSUME query.group # <<>>
        PROVE  G \in 1..L /\ GroupedBy(query, r[G]) /\ GroupBelow(query, r)
    <3>1. G \in 1..L /\ GroupedBy(query, logical[G]) /\ GroupBelow(query, logical)
      BY <2>1 DEF LaidOut
    <3>2. GroupBelow(query, r)
      <4>1. CASE logical[Len(logical)].kids = <<G>>
        BY <1>3, <1>5, <4>1 DEF GroupBelow
      <4>2. CASE query.order # <<>> /\ SortOnTop(query, logical) /\ logical[S].kids = <<G>>
        <5>1. S \in 1..L /\ logical[S].op = "sort"
          BY <1>1, <4>2 DEF LaidOut, SortsPlaced
        <5>2. r[S] = logical[S]
          BY <1>2, <5>1
        <5>3. QED
          BY <1>3, <1>6, <4>2, <5>1, <5>2 DEF GroupBelow
      <4>3. QED
        BY <3>1, <4>1, <4>2 DEF GroupBelow
    <3>3. QED
      BY <1>7, <2>1, <3>1, <3>2
  <2>2. QED
    BY <1>3, <2>1
<1>10. QED
  BY <1>3, <1>4, <1>8, <1>9 DEF LaidOut

\* moveAggIntoGroup keeps the order and the columns of the group.
LEMMA AggKeeps ==
    ASSUME LaidOut(query, logical, FALSE), GroupOverOne(query, logical), Len(query.order) \in Nat,
           MoveAggIntoGroup
    PROVE  LaidOut(query, logical', FALSE)
<1>. DEFINE f(n) == IF n \in LiveLogical /\ Movable(n)
                    THEN WithAgg(logical[n], logical[logical[n].kids[1]])
                    ELSE logical[n]
<1>1. IsSeq(logical) /\ Len(logical) \in Nat /\ DOMAIN logical = 1..Len(logical)
  BY DEF LaidOut, Forest, IsSeq
<1>2. logical' = [n \in 1..Len(logical) |-> f(n)]
  BY <1>1 DEF MoveAggIntoGroup
<1>3. \A n \in 1..Len(logical) : SumMoved(logical', n)
  BY <1>2 DEF Movable, SumMoved
<1>4. IsSeq(logical') /\ Len(logical') = Len(logical)
  <2>1. logical' = [n \in 1..Len(logical) |-> logical'[n]]
    BY <1>2
  <2>2. QED
    BY <1>1, <2>1, FcnIs
<1>5. QED
  BY <1>3, <1>4, MovedIs

\* Two sequences with the same elements.
LEMMA SameSeq ==
    ASSUME NEW s, NEW t, IsSeq(s), IsSeq(t), Len(s) = Len(t), \A i \in 1..Len(s) : s[i] = t[i]
    PROVE  s = t
<1>1. s = [i \in 1..Len(s) |-> s[i]] /\ t = [i \in 1..Len(s) |-> t[i]]
  BY DEF IsSeq
<1>2. [i \in 1..Len(s) |-> s[i]] = [i \in 1..Len(s) |-> t[i]]
  OBVIOUS
<1>3. QED
  BY <1>1, <1>2

\* And the semi joins.
LEMMA AggFilters ==
    ASSUME LaidOut(query, logical, FALSE), GroupOverOne(query, logical), Len(query.order) \in Nat,
           MoveAggIntoGroup, Filtering(logical)
    PROVE  Filtering(logical')
<1>. DEFINE p == logical
            r == logical'
            L == Len(logical)
            G == GroupAt(query, logical)
<1>1. /\ Forest(p) /\ L \in Nat /\ DOMAIN p = 1..L /\ IsSeq(p) /\ GroupsPlaced(query, p)
      /\ query.group # <<>> => G \in 1..L
  BY DEF LaidOut, Forest, IsSeq
<1>2. Forest(r)
  BY AggKeeps DEF LaidOut
<1>3. Len(r) = L /\ \A n \in 1..L : SumMoved(r, n)
  <2>. DEFINE f(n) == IF n \in LiveLogical /\ Movable(n)
                      THEN WithAgg(logical[n], logical[logical[n].kids[1]])
                      ELSE logical[n]
  <2>1. r = [n \in 1..L |-> f(n)]
    BY <1>1 DEF MoveAggIntoGroup
  <2>2. \A n \in 1..L : SumMoved(r, n)
    BY <2>1 DEF Movable, SumMoved
  <2>3. r = [n \in 1..L |-> r[n]]
    BY <2>1
  <2>4. QED
    BY <1>1, <2>2, <2>3, FcnIs
<1>4. ASSUME NEW n \in 1..L, r[n] # p[n]
      PROVE  /\ query.group # <<>> /\ n = G /\ r[n].op = p[n].op
             /\ \E k \in KidsOf(p, n) :
                  /\ p[k].op = "sum" /\ r[n].kids = p[k].kids
                  /\ ToSet(r[n].in) = ToSet(p[n].in) \cup ToSet(p[k].in)
  <2>. DEFINE k == p[n].kids[1]
  <2>1. p[n].op = "group" /\ p[k].op = "sum" /\ r[n] = WithAgg(p[n], p[k])
    BY <1>3, <1>4 DEF SumMoved
  <2>2. /\ query.group # <<>> /\ n = G /\ Widened(r[n], p[n], n)
        /\ r[n].kids = p[k].kids /\ Elems(r[n].in) = Elems(p[n].in) \cup Elems(p[k].in)
        /\ IsSeq(p[n].in) /\ IsSeq(p[k].in) /\ k \in KidsOf(p, n)
    BY <2>1, WithAggIs
  <2>3. IsSeq(r[n].in) /\ r[n].op = "group"
    BY <2>2 DEF Widened
  <2>4. \A x : IsSeq(x) => ToSet(x) = Elems(x)
    BY DEF ToSet, Elems, IsSeq
  <2>5. ToSet(r[n].in) = ToSet(p[n].in) \cup ToSet(p[k].in)
    BY <2>2, <2>3, <2>4
  <2>6. QED
    BY <2>1, <2>2, <2>3, <2>5
<1>5. CASE query.group = <<>>
  <2>1. \A n \in 1..L : r[n] = p[n]
    BY <1>4, <1>5
  <2>2. r = p
    BY <1>1, <1>2, <1>3, <2>1, SameSeq DEF Forest
  <2>3. QED
    BY <2>2
<1>6. CASE query.group # <<>>
  <2>. HIDE DEF p, r, L, G
  <2>1. L = Len(p) /\ G \in Nat
    BY <1>1, <1>6 DEF L, p
  <2>2. ASSUME NEW n \in 1..L
        PROVE  /\ n \in Live(p, n) /\ KidsOf(p, n) \subseteq 1..L
               /\ \A x \in Live(p, n) : KidsOf(p, x) \subseteq Live(p, n)
    <3>1. KidsOf(p, n) \subseteq 1..L
      BY <1>1, <2>1 DEF Forest, Descending
    <3>2. QED
      BY <1>1, <2>1, <3>1, LiveWithin
  <2>3. ASSUME NEW n \in 1..L PROVE r[n].op = p[n].op /\ KidsOf(r, n) \subseteq Live(p, n)
    <3>1. CASE r[n] = p[n]
      BY <2>2, <3>1 DEF KidsOf
    <3>2. CASE r[n] # p[n]
      <4>1. PICK k \in KidsOf(p, n) : r[n].kids = p[k].kids
        BY <1>4, <3>2
      <4>2. KidsOf(r, n) = KidsOf(p, k)
        BY <4>1 DEF KidsOf
      <4>3. QED
        BY <1>4, <2>2, <3>2, <4>2
    <3>3. QED
      BY <3>1, <3>2
  <2>4. ASSUME NEW n \in 1..L, n < G
        PROVE  r[n].in = p[n].in /\ r[n].out = p[n].out /\ KidsOf(r, n) = KidsOf(p, n)
    <3>1. n # G
      BY <2>1, <2>4
    <3>2. r[n] = p[n]
      BY <1>4, <3>1
    <3>3. QED
      BY <3>2 DEF KidsOf
  <2>5. ASSUME NEW m \in 1..L, NEW n \in Live(r, m) \ {m}, p[n].op = "semijoin"
        PROVE  ToSet(r[m].in) \subseteq InputsOf(p, Ancestors(p, m, n))
    <3>1. \A x \in 1..L : Live(r, x) \subseteq Live(p, x)
      BY <1>1, <1>3, <2>1, <2>3, LiveShrinks
    <3>2. m \in Ancestors(p, m, n)
      BY <2>2, <3>1 DEF Ancestors
    <3>3. CASE r[m] = p[m]
      BY <3>2, <3>3 DEF InputsOf
    <3>4. CASE r[m] # p[m]
      <4>1. PICK k \in KidsOf(p, m) :
              /\ p[k].op = "sum" /\ r[m].kids = p[k].kids
              /\ ToSet(r[m].in) = ToSet(p[m].in) \cup ToSet(p[k].in)
        BY <1>4, <3>4
      <4>2. k \in 1..L /\ k # n /\ k \in Live(p, m)
        BY <2>2, <2>5, <4>1
      <4>3. PICK x \in KidsOf(p, k) : n \in Live(r, x)
        <5>1. KidsOf(r, m) = KidsOf(p, k)
          BY <4>1 DEF KidsOf
        <5>2. Live(r, m) = {m} \cup UNION { Live(r, x) : x \in KidsOf(r, m) }
          BY <1>2, <1>3, LiveOfNode
        <5>3. QED
          BY <5>1, <5>2
      <4>4. n \in Live(p, k)
        <5>1. x \in 1..L /\ n \in Live(p, x)
          BY <2>2, <3>1, <4>2, <4>3
        <5>2. Live(p, k) = {k} \cup UNION { Live(p, z) : z \in KidsOf(p, k) }
          BY <1>1, <2>1, <4>2, LiveOfNode
        <5>3. QED
          BY <4>3, <5>1, <5>2
      <4>5. k \in Ancestors(p, m, n)
        BY <4>2, <4>4 DEF Ancestors
      <4>6. QED
        BY <3>2, <4>1, <4>5 DEF InputsOf
    <3>5. QED
      BY <3>3, <3>4
  <2>6. Trimmed(r, p, G)
    BY <1>2, <1>3, <2>1, <2>3, <2>4, <2>5 DEF Trimmed
  <2>7. \A n \in 1..Len(p) : p[n].op = "semijoin" => n < G
    BY <1>6, SemiJoinsBelow DEF p, G
  <2>8. Filtering(r)
    BY <2>1, <2>6, <2>7, TrimmedFilters DEF p
  <2>9. QED
    BY <2>8 DEF r
<1>7. QED
  BY <1>5, <1>6

-----------------------------------------------------------------------------
(***************************************************************************)
(* The invariant of the optimizer.                                         *)
(***************************************************************************)

CONSTANT Cases
VARIABLES phase, plan, ret, names, items

\* The optimizer, over the same plans.
Opt == INSTANCE Optimizer

\* The optimizer means the same by what it shares with the front end.
LEMMA OptPlan ==
    ASSUME NEW q PROVE Opt!PlanOf(q) = PlanOf(q)
<1>1. /\ \A op, in, out, kids, orders :
            Opt!Node(op, in, out, kids, orders) = Node(op, in, out, kids, orders)
      /\ \A p, n : Opt!Shifted(p, n) = Shifted(p, n)
      /\ \A p, t : Opt!TableIn(p, t) = TableIn(p, t)
  BY DEF Opt!Node, Node, Opt!Shifted, Shifted, Opt!TableIn, TableIn
<1>2. \A p, op, in, out, orders : Opt!Over(p, op, in, out, orders) = Over(p, op, in, out, orders)
  BY <1>1 DEF Opt!Over, Over
<1>3. Opt!Aggregated(q) = Aggregated(q)
  BY DEF Opt!Aggregated, Aggregated, Opt!AggOver, AggOver, Opt!Over, Over, Opt!Node, Node,
         Opt!JoinTree, JoinTree, Opt!TableWithFilters, TableWithFilters, Opt!TableIn, TableIn,
         Opt!JoinOver, JoinOver, Opt!Shifted, Shifted
<1>4. \A p : Opt!GroupOver(p, q) = GroupOver(p, q) /\ Opt!SortOver(p, q) = SortOver(p, q)
  BY <1>2 DEF Opt!GroupOver, GroupOver, Opt!SortOver, SortOver
<1>5. QED
  BY <1>2, <1>3, <1>4 DEF Opt!PlanOf, PlanOf

\* And by its rewritings.
LEMMA OptPasses ==
    /\ Opt!PlaceSemiJoins => PlaceSemiJoins
    /\ Opt!MergeSortIntoGroup => MergeSortIntoGroup
    /\ Opt!MoveAggIntoGroup => MoveAggIntoGroup
<1>1. Opt!PlaceSemiJoins => PlaceSemiJoins
  BY DEF Opt!PlaceSemiJoins, PlaceSemiJoins, Opt!WithSemiJoin, WithSemiJoin,
         Opt!NeededAbove, NeededAbove, Opt!InputsOf, InputsOf, Opt!Ancestors, Ancestors,
         Opt!Parent, Parent, Opt!Live, Live, Opt!KidsOf, KidsOf, Opt!ToSet, ToSet,
         Opt!Swapped, Swapped, Opt!Root, Root
<1>2. Opt!MergeSortIntoGroup => MergeSortIntoGroup
  BY DEF Opt!MergeSortIntoGroup, MergeSortIntoGroup, Opt!LiveLogical, LiveLogical,
         Opt!Mergeable, Mergeable, Opt!SortedGroup, SortedGroup, Opt!Others, Others,
         Opt!Contains, Contains, Opt!Bypassed, Bypassed,
         Opt!Live, Live, Opt!KidsOf, KidsOf, Opt!ToSet, ToSet, Opt!Root, Root
<1>3. Opt!MoveAggIntoGroup => MoveAggIntoGroup
  BY DEF Opt!MoveAggIntoGroup, MoveAggIntoGroup, Opt!LiveLogical, LiveLogical,
         Opt!Movable, Movable, Opt!WithAgg, WithAgg, Opt!Ancestors, Ancestors,
         Opt!Parent, Parent, Opt!Live, Live, Opt!KidsOf, KidsOf, Opt!ToSet, ToSet, Opt!Root, Root
<1>4. QED
  BY <1>1, <1>2, <1>3

\* No rewriting has changed the group's columns yet; it has one child.
EarlyPhase == phase \in {"semijoins", "merge"}
BeforeAgg == phase \in {"semijoins", "merge", "agg"}

\* Throughout the rewritings the sort and the group of the query stand where
\* the front end put them, or the group in the place of both.
PlacesInv ==
    /\ query \in ParsedQuery
    /\ LaidOut(query, logical, EarlyPhase)
    /\ BeforeAgg => GroupOverOne(query, logical)

\* The queries of the constant are such as the parser leaves them.
CasesAreQueries == \A c \in Cases : c[1] \in ParsedQuery

\* The lists of a query.
LEMMA OrderLength ==
    ASSUME NEW q \in ParsedQuery
    PROVE  /\ IsSeq(q.order) /\ Len(q.order) \in Nat /\ IsSeq(q.group)
           /\ \A i \in 1..Len(q.order) : q.order[i] \in Names \X BOOLEAN
<1>1. q.order \in Seq(Names \X BOOLEAN) /\ q.group \in Seq(Names)
  BY DEF ParsedQuery
<1>. DEFINE o == q.order
            g == q.group
<1>. HIDE DEF o, g
<1>2. IsSeq(o) /\ \A i \in 1..Len(o) : o[i] \in Names \X BOOLEAN
  BY <1>1, SeqIs DEF o
<1>3. IsSeq(g)
  BY <1>1, SeqIs DEF g
<1>4. QED
  BY <1>2, <1>3 DEF o, g, IsSeq

\* At the start they stand where the front end has put them.
LEMMA PlacesInvInit ==
    ASSUME CasesAreQueries, Opt!Init PROVE PlacesInv
<1>1. query \in ParsedQuery /\ logical = PlanOf(query) /\ phase = "semijoins"
  BY OptPlan DEF CasesAreQueries, Opt!Init
<1>2. EarlyPhase = TRUE
  BY <1>1 DEF EarlyPhase
<1>3. LaidOut(query, logical, TRUE) /\ GroupOverOne(query, logical)
  BY <1>1, PlanLaidOut
<1>4. QED
  BY <1>1, <1>2, <1>3 DEF PlacesInv

\* What the early and the late phases ask for.
LEMMA EarlyPlaces ==
    ASSUME PlacesInv, EarlyPhase
    PROVE  LaidOut(query, logical, TRUE) /\ GroupOverOne(query, logical) /\ Len(query.order) \in Nat
<1>1. EarlyPhase = TRUE /\ BeforeAgg
  BY DEF EarlyPhase, BeforeAgg
<1>2. QED
  BY <1>1, OrderLength DEF PlacesInv

\* What the passes after the three rewritings leave.
LEMMA PlacesStay ==
    ASSUME PlacesInv, query' = query, logical' = logical, ~EarlyPhase, ~EarlyPhase', ~BeforeAgg'
    PROVE  PlacesInv'
<1>1. EarlyPhase = FALSE /\ EarlyPhase' = FALSE
  BY DEF EarlyPhase
<1>2. LaidOut(query, logical, FALSE)
  BY <1>1 DEF PlacesInv
<1>3. LaidOut(query', logical', EarlyPhase')
  BY <1>1, <1>2
<1>4. QED
  BY <1>3 DEF PlacesInv

\* Every step keeps them there.
LEMMA PlacesInvStep ==
    ASSUME PlacesInv, Opt!Next PROVE PlacesInv'
<1>1. CASE Opt!SemiJoins
  <2>0. PlaceSemiJoins
    BY <1>1, OptPasses DEF Opt!SemiJoins
  <2>1. phase = "semijoins" /\ phase' = "merge" /\ query' = query
    BY <1>1, <2>0 DEF Opt!SemiJoins, PlaceSemiJoins
  <2>2. EarlyPhase /\ EarlyPhase' = TRUE
    BY <2>1 DEF EarlyPhase
  <2>3. LaidOut(query, logical', TRUE) /\ GroupOverOne(query, logical')
    BY <2>0, <2>2, EarlyPlaces, SemiJoinsKeep
  <2>4. LaidOut(query', logical', EarlyPhase') /\ GroupOverOne(query', logical')
    BY <2>1, <2>2, <2>3
  <2>5. QED
    BY <2>1, <2>4 DEF PlacesInv
<1>2. CASE Opt!SortIntoGroup
  <2>0. MergeSortIntoGroup
    BY <1>2, OptPasses DEF Opt!SortIntoGroup
  <2>1. phase = "merge" /\ phase' = "agg" /\ query' = query
    BY <1>2, <2>0 DEF Opt!SortIntoGroup, MergeSortIntoGroup
  <2>2. EarlyPhase /\ EarlyPhase' = FALSE
    BY <2>1 DEF EarlyPhase
  <2>3. LaidOut(query, logical', FALSE) /\ GroupOverOne(query, logical')
    BY <2>0, <2>2, EarlyPlaces, MergeKeeps
  <2>4. LaidOut(query', logical', EarlyPhase') /\ GroupOverOne(query', logical')
    BY <2>1, <2>2, <2>3
  <2>5. QED
    BY <2>1, <2>4 DEF PlacesInv
<1>3. CASE Opt!AggIntoGroup
  <2>0. MoveAggIntoGroup
    BY <1>3, OptPasses DEF Opt!AggIntoGroup
  <2>1. phase = "agg" /\ phase' = "materialize" /\ query' = query
    BY <1>3, <2>0 DEF Opt!AggIntoGroup, MoveAggIntoGroup
  <2>2. BeforeAgg /\ ~BeforeAgg' /\ EarlyPhase = FALSE /\ EarlyPhase' = FALSE
    BY <2>1 DEF EarlyPhase, BeforeAgg
  <2>3. LaidOut(query, logical, FALSE) /\ GroupOverOne(query, logical) /\ Len(query.order) \in Nat
    BY <2>2, OrderLength DEF PlacesInv
  <2>4. LaidOut(query, logical', FALSE)
    BY <2>0, <2>3, AggKeeps
  <2>5. LaidOut(query', logical', EarlyPhase')
    BY <2>1, <2>2, <2>4
  <2>6. QED
    BY <2>1, <2>2, <2>5 DEF PlacesInv
<1>4. CASE \E n \in DOMAIN logical : Opt!MaterializeNode(n)
  <2>1. /\ phase = "materialize" /\ phase' \in {"materialize", "grandchildren"}
        /\ query' = query /\ logical' = logical
    BY <1>4 DEF Opt!MaterializeNode
  <2>2. QED
    BY <2>1, PlacesStay DEF EarlyPhase, BeforeAgg
<1>5. CASE Opt!GrandChildren
  <2>1. /\ phase = "grandchildren" /\ phase' = "rename"
        /\ query' = query /\ logical' = logical
    BY <1>5 DEF Opt!GrandChildren
  <2>2. QED
    BY <2>1, PlacesStay DEF EarlyPhase, BeforeAgg
<1>6. CASE Opt!Rename
  <2>1. /\ phase = "rename" /\ phase' = "items"
        /\ query' = query /\ logical' = logical
    BY <1>6 DEF Opt!Rename
  <2>2. QED
    BY <2>1, PlacesStay DEF EarlyPhase, BeforeAgg
<1>7. CASE Opt!CreateWorkItems
  <2>1. /\ phase = "items" /\ phase' = "done"
        /\ query' = query /\ logical' = logical
    BY <1>7 DEF Opt!CreateWorkItems
  <2>2. QED
    BY <2>1, PlacesStay DEF EarlyPhase, BeforeAgg
<1>8. CASE Opt!Finished
  <2>1. phase' = phase /\ query' = query /\ logical' = logical
    BY <1>8 DEF Opt!Finished, Opt!vars
  <2>2. QED
    BY <2>1 DEF PlacesInv, EarlyPhase, BeforeAgg
<1>9. QED
  BY <1>1, <1>2, <1>3, <1>4, <1>5, <1>6, <1>7, <1>8 DEF Opt!Next

\* The same for stuttering steps.
LEMMA PlacesInvKeeps ==
    ASSUME PlacesInv, [Opt!Next]_(Opt!vars) PROVE PlacesInv'
<1>1. CASE UNCHANGED Opt!vars
  <2>1. phase' = phase /\ query' = query /\ logical' = logical
    BY <1>1 DEF Opt!vars
  <2>2. QED
    BY <2>1 DEF PlacesInv, EarlyPhase, BeforeAgg
<1>2. QED
  BY <1>1, PlacesInvStep

\* The first n elements of a sequence.
LEMMA FirstOnes ==
    ASSUME NEW s, IsSeq(s), NEW n \in Nat, n <= Len(s)
    PROVE  /\ IsSeq(SubSeq(s, 1, n)) /\ Len(SubSeq(s, 1, n)) = n
           /\ \A i \in 1..n : SubSeq(s, 1, n)[i] = s[i]
<1>. DEFINE T == { s[i] : i \in 1..Len(s) }
<1>1. s \in Seq(T)
  <2>1. \A i \in 1..Len(s) : s[i] \in T
    OBVIOUS
  <2>. HIDE DEF T
  <2>2. QED
    BY <2>1, SeqOfElements
<1>. HIDE DEF T
<1>2. CASE n = 0
  <2>1. SubSeq(s, 1, n) = <<>>
    BY <1>1, <1>2
  <2>2. QED
    BY <1>2, <2>1 DEF IsSeq
<1>3. CASE n # 0
  <2>. DEFINE u == SubSeq(s, 1, n)
  <2>1. Len(s) \in Nat /\ n \in 1..Len(s) /\ 1 \in 1..(n + 1) /\ \A i \in 1..n : i \in 1..Len(s)
    BY <1>3 DEF IsSeq
  <2>2. u \in Seq(T) /\ Len(u) = n /\ \A i \in 1..n : u[i] = s[i]
    BY <1>1, <2>1
  <2>. HIDE DEF u
  <2>3. QED
    BY <2>2, SeqIs DEF u
<1>4. QED
  BY <1>2, <1>3

\* The columns a node sorts or groups by.
KeySeq(x) == SubSeq(x.in, 1, Len(x.orders))

\* They are the first of its inputs.
LEMMA KeySeqIs ==
    ASSUME NEW x, IsSeq(x.in), IsSeq(x.orders), Len(x.orders) <= Len(x.in)
    PROVE  /\ IsSeq(KeySeq(x)) /\ Len(KeySeq(x)) = Len(x.orders) /\ Len(x.orders) \in Nat
           /\ \A i \in 1..Len(x.orders) : KeySeq(x)[i] = x.in[i]
<1>1. Len(x.orders) \in Nat
  BY DEF IsSeq
<1>2. QED
  BY <1>1, FirstOnes DEF KeySeq

\* A node in the order of the query has it as the front of its columns and directions.
LEMMA OrderIsPrefix ==
    ASSUME NEW q \in ParsedQuery, NEW x, InOrder(q, x), IsSeq(x.in), IsSeq(x.orders),
           Len(x.orders) <= Len(x.in)
    PROVE  IsPrefix(q.order, Zip(KeySeq(x), x.orders))
<1>. DEFINE o == q.order
            k == KeySeq(x)
            z == Zip(k, x.orders)
            n == Len(x.orders)
<1>1. /\ IsSeq(k) /\ Len(k) = n /\ n \in Nat
      /\ \A i \in 1..n : k[i] = x.in[i]
  BY KeySeqIs
<1>2. /\ IsSeq(o) /\ Len(o) \in Nat /\ Len(o) <= n
      /\ \A i \in 1..Len(o) : o[i] = <<x.in[i], x.orders[i]>>
  BY OrderLength DEF InOrder
<1>3. z = [i \in 1..n |-> <<k[i], x.orders[i]>>]
  BY <1>1 DEF Zip
<1>4. IsSeq(z) /\ Len(z) = n /\ \A i \in 1..n : z[i] = <<k[i], x.orders[i]>>
  <2>1. z = [i \in 1..n |-> z[i]] /\ \A i \in 1..n : z[i] = <<k[i], x.orders[i]>>
    BY <1>3
  <2>. HIDE DEF z, n, k
  <2>2. QED
    BY <1>1, <2>1, FcnIs
<1>. HIDE DEF o, k, z, n
<1>5. SubSeq(o, 1, Len(o)) = SubSeq(z, 1, Len(o))
  <2>. DEFINE u == SubSeq(o, 1, Len(o))
              v == SubSeq(z, 1, Len(o))
  <2>1. IsSeq(u) /\ Len(u) = Len(o) /\ \A i \in 1..Len(o) : u[i] = o[i]
    BY <1>2, FirstOnes
  <2>2. IsSeq(v) /\ Len(v) = Len(o) /\ \A i \in 1..Len(o) : v[i] = z[i]
    BY <1>2, <1>4, FirstOnes
  <2>3. \A i \in 1..Len(o) : i \in 1..n
    <3>. DEFINE m == Len(o)
    <3>1. m \in Nat /\ n \in Nat /\ m <= n
      BY <1>1, <1>2
    <3>. HIDE DEF m
    <3>2. \A i \in 1..m : i \in 1..n
      BY <3>1
    <3>3. QED
      BY <3>2 DEF m
  <2>4. \A i \in 1..Len(o) : o[i] = z[i]
    BY <1>1, <1>2, <1>4, <2>3 DEF n
  <2>. HIDE DEF u, v
  <2>5. QED
    BY <2>1, <2>2, <2>4, SameSeq DEF u, v
<1>6. IsPrefix(o, z)
  BY <1>2, <1>4, <1>5 DEF IsPrefix
<1>7. QED
  BY <1>6 DEF o, k, z

\* A node that groups by the columns of the query has them as its keys.
LEMMA GroupIsKeys ==
    ASSUME NEW q \in ParsedQuery, NEW x, GroupedBy(q, x)
    PROVE  ToSet(KeySeq(x)) = ToSet(q.group)
<1>1. /\ IsSeq(KeySeq(x)) /\ Len(KeySeq(x)) = Len(x.orders)
      /\ \A i \in 1..Len(x.orders) : KeySeq(x)[i] = x.in[i]
  BY KeySeqIs DEF GroupedBy
<1>2. DOMAIN KeySeq(x) = 1..Len(x.orders)
  BY <1>1 DEF IsSeq
<1>3. ToSet(KeySeq(x)) = KeysOf(x)
  BY <1>1, <1>2 DEF ToSet, KeysOf
<1>4. ToSet(q.group) = { q.group[i] : i \in 1..Len(q.group) }
  <2>1. DOMAIN q.group = 1..Len(q.group)
    BY OrderLength DEF IsSeq
  <2>2. QED
    BY <2>1 DEF ToSet
<1>5. QED
  BY <1>3, <1>4 DEF GroupedBy

\* The result and what it points to are live, and so is what that points to.
LEMMA TopLive ==
    ASSUME Forest(logical), Len(logical) \in 1..Len(logical)
    PROVE  /\ Len(logical) \in LiveLogical /\ LiveLogical \subseteq 1..Len(logical)
           /\ \A m \in LiveLogical : \A n : logical[m].kids = <<n>> => n \in LiveLogical
<1>1. Descending(logical) /\ Len(logical) \in Nat
  BY DEF Forest, IsSeq
<1>2. /\ Len(logical) \in Live(logical, Len(logical))
      /\ Live(logical, Len(logical)) \subseteq 1..Len(logical)
      /\ \A m \in Live(logical, Len(logical)) : KidsOf(logical, m) \subseteq Live(logical, Len(logical))
  BY <1>1, LiveClosed
<1>3. LiveLogical = Live(logical, Len(logical))
  BY DEF LiveLogical, Root
<1>4. ASSUME NEW m \in LiveLogical, NEW n, logical[m].kids = <<n>>
      PROVE  n \in LiveLogical
  <2>1. KidsOf(logical, m) \subseteq LiveLogical
    BY <1>2, <1>3
  <2>2. IsSeq(logical[m].kids) /\ Len(logical[m].kids) = 1 /\ logical[m].kids[1] = n
    BY <1>4, OneIs
  <2>3. 1 \in 1..Len(logical[m].kids)
    BY <2>2
  <2>4. logical[m].kids[1] \in KidsOf(logical, m)
    BY <2>2, <2>3, PointersAre
  <2>5. QED
    BY <2>1, <2>2, <2>4
<1>5. QED
  BY <1>2, <1>3, <1>4

\* Places in the plan are what the query asks for.
LEMMA PlacesKept ==
    ASSUME PlacesInv PROVE OrderAndGroupsKept
<1>. DEFINE G == GroupAt(query, logical)
            S == SortAt(logical)
            L == Len(logical)
<1>1. /\ query \in ParsedQuery /\ Forest(logical) /\ L \in Nat /\ L \in 1..L
      /\ SortsPlaced(query, logical) /\ GroupsPlaced(query, logical)
  BY DEF PlacesInv, LaidOut, Forest, IsSeq
<1>2. /\ query.order # <<>> => S \in 1..L /\ (SortOnTop(query, logical) \/ GroupOnTop(query, logical))
      /\ query.group # <<>> => /\ G \in 1..L /\ GroupedBy(query, logical[G])
                               /\ GroupBelow(query, logical)
  BY DEF PlacesInv, LaidOut
<1>3. /\ L \in LiveLogical
      /\ \A m \in LiveLogical : \A n : logical[m].kids = <<n>> => n \in LiveLogical
  BY <1>1, TopLive
<1>4. query.group # <<>> => G \in LiveLogical /\ logical[G].op = "group"
  <2>1. ASSUME query.group # <<>> PROVE G \in LiveLogical
    <3>1. CASE logical[L].kids = <<G>>
      BY <1>3, <3>1
    <3>2. CASE query.order # <<>> /\ SortOnTop(query, logical) /\ logical[S].kids = <<G>>
      <4>1. S \in LiveLogical
        BY <1>3, <3>2 DEF SortOnTop
      <4>2. QED
        BY <1>3, <3>2, <4>1
    <3>3. QED
      BY <1>2, <2>1, <3>1, <3>2 DEF GroupBelow
  <2>2. QED
    BY <1>1, <1>2, <2>1 DEF GroupsPlaced
<1>5. ASSUME query.order # <<>>
      PROVE  \E n \in LiveLogical :
               /\ logical[n].op \in {"sort", "group"}
               /\ IsPrefix(query.order, Zip(KeySeq(logical[n]), logical[n].orders))
  <2>1. CASE SortOnTop(query, logical)
    <3>1. S \in LiveLogical /\ logical[S].op = "sort"
      BY <1>1, <1>2, <1>3, <1>5, <2>1 DEF SortOnTop, SortsPlaced
    <3>2. /\ InOrder(query, logical[S]) /\ IsSeq(logical[S].in) /\ IsSeq(logical[S].orders)
          /\ Len(logical[S].orders) <= Len(logical[S].in)
      <4>1. Len(query.order) \in Nat
        BY <1>1, OrderLength
      <4>2. QED
        BY <2>1, <4>1 DEF SortOnTop
    <3>3. IsPrefix(query.order, Zip(KeySeq(logical[S]), logical[S].orders))
      BY <1>1, <3>2, OrderIsPrefix
    <3>4. QED
      BY <3>1, <3>3
  <2>2. CASE GroupOnTop(query, logical)
    <3>1. G \in LiveLogical /\ logical[G].op = "group" /\ GroupedBy(query, logical[G])
      BY <1>2, <1>4, <2>2 DEF GroupOnTop
    <3>2. /\ InOrder(query, logical[G]) /\ IsSeq(logical[G].in) /\ IsSeq(logical[G].orders)
          /\ Len(logical[G].orders) <= Len(logical[G].in)
      BY <2>2, <3>1 DEF GroupOnTop, GroupedBy
    <3>3. IsPrefix(query.order, Zip(KeySeq(logical[G]), logical[G].orders))
      BY <1>1, <3>2, OrderIsPrefix
    <3>4. QED
      BY <3>1, <3>3
  <2>3. QED
    BY <1>2, <1>5, <2>1, <2>2
<1>6. ASSUME query.group # <<>>
      PROVE  \E n \in LiveLogical :
               /\ logical[n].op = "group"
               /\ ToSet(KeySeq(logical[n])) = ToSet(query.group)
  BY <1>1, <1>2, <1>4, <1>6, GroupIsKeys
<1>7. QED
  BY <1>5, <1>6 DEF OrderAndGroupsKept, KeySeq

\* The rewritings keep what the query asks for: the rows come in the order of
\* ORDER BY, from the sort or from the group that has taken its place, and the
\* group still has the columns of GROUP BY.  placeSemiJoins,
\* mergeSortIntoGroupIfSubset and moveAggIntoGroup of ir_optimizations.cpp, for
\* every query and choice of options, whatever the passes after them do.
THEOREM RewritingsKeepOrder ==
    CasesAreQueries => (Opt!Spec => []OrderAndGroupsKept)
<1>1. CasesAreQueries /\ Opt!Init => PlacesInv
  BY PlacesInvInit
<1>2. PlacesInv /\ [Opt!Next]_(Opt!vars) => PlacesInv'
  BY PlacesInvKeeps
<1>3. PlacesInv => OrderAndGroupsKept
  BY PlacesKept
<1>4. QED
  BY <1>1, <1>2, <1>3, PTL DEF Opt!Spec

-----------------------------------------------------------------------------
(***************************************************************************)
(* Semi joins in every plan of the optimizer.                              *)
(***************************************************************************)

\* If semi joins are made, the joins of the query form stars.
OfStars == options.semiJoins => StarJoins(query)

\* The joins fit until they are looked at, and then the semi joins do.
SemiJoinsInv ==
    /\ PlacesInv
    /\ phase = "semijoins" =>
         \E T : Fits(logical, T, FALSE) /\ (StarJoins(query) => Fits(logical, T, TRUE))
    /\ phase # "semijoins" /\ OfStars => Filtering(logical)

\* At the start the joins are those of the query.
LEMMA SemiJoinsInvInit ==
    ASSUME CasesAreQueries, Opt!Init PROVE SemiJoinsInv
<1>1. PlacesInv /\ query \in ParsedQuery
  BY PlacesInvInit DEF PlacesInv
<1>2. logical = PlanOf(query) /\ phase = "semijoins"
  BY OptPlan DEF Opt!Init
<1>. DEFINE T == JoinedTables(query, Len(query.joins))
<1>3. Fits(PlanOf(query), T, FALSE)
  BY <1>1, PlanFits
<1>4. StarJoins(query) => Fits(PlanOf(query), T, TRUE)
  BY <1>1, PlanFits
<1>. HIDE DEF T
<1>5. QED
  BY <1>1, <1>2, <1>3, <1>4 DEF SemiJoinsInv

\* Every step keeps it.
LEMMA SemiJoinsInvKeeps ==
    ASSUME SemiJoinsInv, [Opt!Next]_(Opt!vars) PROVE SemiJoinsInv'
<1>1. PlacesInv /\ PlacesInv'
  BY PlacesInvKeeps DEF SemiJoinsInv
<1>2. query' = query /\ options' = options
  <2>1. CASE Opt!SemiJoins
    <3>1. PlaceSemiJoins
      BY <2>1, OptPasses DEF Opt!SemiJoins
    <3>2. QED
      BY <3>1 DEF PlaceSemiJoins
  <2>2. CASE Opt!SortIntoGroup
    <3>1. MergeSortIntoGroup
      BY <2>2, OptPasses DEF Opt!SortIntoGroup
    <3>2. QED
      BY <3>1 DEF MergeSortIntoGroup
  <2>3. CASE Opt!AggIntoGroup
    <3>1. MoveAggIntoGroup
      BY <2>3, OptPasses DEF Opt!AggIntoGroup
    <3>2. QED
      BY <3>1 DEF MoveAggIntoGroup
  <2>4. CASE \E n \in DOMAIN logical : Opt!MaterializeNode(n)
    BY <2>4 DEF Opt!MaterializeNode
  <2>5. CASE Opt!GrandChildren
    BY <2>5 DEF Opt!GrandChildren
  <2>6. CASE Opt!Rename
    BY <2>6 DEF Opt!Rename
  <2>7. CASE Opt!CreateWorkItems
    BY <2>7 DEF Opt!CreateWorkItems
  <2>8. CASE Opt!Finished \/ UNCHANGED Opt!vars
    BY <2>8 DEF Opt!Finished, Opt!vars
  <2>9. QED
    BY <2>1, <2>2, <2>3, <2>4, <2>5, <2>6, <2>7, <2>8 DEF Opt!Next
<1>3. OfStars' <=> OfStars
  BY <1>2 DEF OfStars
<1>4. CASE Opt!SemiJoins
  <2>1. PlaceSemiJoins /\ phase = "semijoins" /\ phase' = "merge"
    BY <1>4, OptPasses DEF Opt!SemiJoins
  <2>2. LaidOut(query, logical, TRUE) /\ GroupOverOne(query, logical)
    BY <1>1, <2>1, EarlyPlaces DEF EarlyPhase
  <2>3. PICK T : Fits(logical, T, FALSE) /\ (StarJoins(query) => Fits(logical, T, TRUE))
    BY <2>1 DEF SemiJoinsInv
  <2>4. ASSUME OfStars PROVE Filtering(logical')
    <3>1. options.semiJoins => Fits(logical, T, TRUE)
      BY <2>3, <2>4 DEF OfStars
    <3>2. QED
      BY <2>1, <2>2, <2>3, <3>1, SemiJoinsFilter
  <2>5. QED
    BY <1>1, <1>3, <2>1, <2>4 DEF SemiJoinsInv
<1>5. CASE Opt!SortIntoGroup
  <2>1. MergeSortIntoGroup /\ phase = "merge" /\ phase' = "agg"
    BY <1>5, OptPasses DEF Opt!SortIntoGroup
  <2>2. LaidOut(query, logical, TRUE) /\ GroupOverOne(query, logical) /\ Len(query.order) \in Nat
    BY <1>1, <2>1, EarlyPlaces DEF EarlyPhase
  <2>3. ASSUME OfStars PROVE Filtering(logical')
    <3>1. Filtering(logical)
      BY <2>1, <2>3 DEF SemiJoinsInv
    <3>2. QED
      BY <2>1, <2>2, <3>1, MergeFilters
  <2>4. QED
    BY <1>1, <1>3, <2>1, <2>3 DEF SemiJoinsInv
<1>6. CASE Opt!AggIntoGroup
  <2>1. MoveAggIntoGroup /\ phase = "agg" /\ phase' = "materialize"
    BY <1>6, OptPasses DEF Opt!AggIntoGroup
  <2>2. LaidOut(query, logical, FALSE) /\ GroupOverOne(query, logical) /\ Len(query.order) \in Nat
    <3>1. BeforeAgg /\ EarlyPhase = FALSE
      BY <2>1 DEF BeforeAgg, EarlyPhase
    <3>2. QED
      BY <1>1, <3>1, OrderLength DEF PlacesInv
  <2>3. ASSUME OfStars PROVE Filtering(logical')
    <3>1. Filtering(logical)
      BY <2>1, <2>3 DEF SemiJoinsInv
    <3>2. QED
      BY <2>1, <2>2, <3>1, AggFilters
  <2>4. QED
    BY <1>1, <1>3, <2>1, <2>3 DEF SemiJoinsInv
<1>7. ASSUME logical' = logical, phase # "semijoins", phase' # "semijoins" PROVE SemiJoinsInv'
  <2>1. OfStars => Filtering(logical)
    BY <1>7 DEF SemiJoinsInv
  <2>2. OfStars' => Filtering(logical')
    BY <1>7, <1>3, <2>1
  <2>3. QED
    BY <1>1, <1>7, <2>2 DEF SemiJoinsInv
<1>8. CASE \E n \in DOMAIN logical : Opt!MaterializeNode(n)
  <2>1. phase = "materialize" /\ phase' # "semijoins" /\ logical' = logical
    BY <1>8 DEF Opt!MaterializeNode
  <2>2. QED
    BY <1>7, <2>1
<1>9. CASE Opt!GrandChildren \/ Opt!Rename \/ Opt!CreateWorkItems
  <2>1. phase # "semijoins" /\ phase' # "semijoins" /\ logical' = logical
    BY <1>9 DEF Opt!GrandChildren, Opt!Rename, Opt!CreateWorkItems
  <2>2. QED
    BY <1>7, <2>1
<1>10. CASE Opt!Finished \/ UNCHANGED Opt!vars
  <2>1. phase' = phase /\ logical' = logical
    BY <1>10 DEF Opt!Finished, Opt!vars
  <2>2. QED
    BY <1>1, <1>2, <1>3, <2>1 DEF SemiJoinsInv
<1>11. QED
  BY <1>4, <1>5, <1>6, <1>8, <1>9, <1>10 DEF Opt!Next

\* Until joins are replaced there is no semi join.
LEMMA SemiJoinsKept ==
    ASSUME SemiJoinsInv, OfStars PROVE SemiJoinsOnlyFilter
<1>1. Filtering(logical)
  <2>1. CASE phase = "semijoins"
    BY <2>1 DEF SemiJoinsInv, Filtering, Fits
  <2>2. CASE phase # "semijoins"
    BY <2>2 DEF SemiJoinsInv
  <2>3. QED
    BY <2>1, <2>2
<1>2. QED
  BY <1>1, FilteringIs

\* placeSemiJoins makes a semi join only where the join is a mere filter, and
\* it stays one while the sort and the sum above it are merged into the group:
\* for any options, and any query whose joins form stars.
THEOREM SemiJoinsFilterOnly ==
    CasesAreQueries => (Opt!Spec => [](OfStars => SemiJoinsOnlyFilter))
<1>1. CasesAreQueries /\ Opt!Init => SemiJoinsInv
  BY SemiJoinsInvInit
<1>2. SemiJoinsInv /\ [Opt!Next]_(Opt!vars) => SemiJoinsInv'
  BY SemiJoinsInvKeeps
<1>3. SemiJoinsInv => (OfStars => SemiJoinsOnlyFilter)
  BY SemiJoinsKept
<1>4. QED
  BY <1>1, <1>2, <1>3, PTL DEF Opt!Spec

=============================================================================
