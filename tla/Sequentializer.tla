--------------------------- MODULE Sequentializer ---------------------------
(***************************************************************************)
(* src/cpp/code/include/util/sequentializer.hpp: the recursive post-order  *)
(* walk that turns a query plan into the list from which the work items    *)
(* are created and sent.  The call stack is explicit: a frame is a node    *)
(* and the index of the child its loop looks at next, and since a node is  *)
(* entered once that index is kept per node.                               *)
(*                                                                         *)
(* to_sequence_children_list walks all children of a node and follows      *)
(* every pointer; to_sequence_two_children walks left and right, which are *)
(* at most two children, and passes over null pointers.  A plan may share  *)
(* a node between two parents.                                             *)
(***************************************************************************)
EXTENDS Naturals, Sequences

CONSTANTS Nodes,    \* the plan nodes
          Null,     \* a null child pointer
          Rank,     \* a height of every node, which makes plans acyclic
          Plans     \* the plans considered: Nodes -> Seq(Nodes \cup {Null})

ASSUME NullIsNoNode == Null \notin Nodes
ASSUME RankType == Rank \in [Nodes -> Nat]
ASSUME PlansType == \A p \in Plans : p \in [Nodes -> Seq(Nodes \cup {Null})]
\* Nodes own their children through shared_ptr and are built bottom-up, so a
\* child is always lower than its parent.
ASSUME PlansAcyclic ==
    \A p \in Plans : \A n \in Nodes : \A i \in 1..Len(p[n]) :
        p[n][i] # Null => Rank[p[n][i]] < Rank[n]

VARIABLES walk,             \* which of the two walks it is: never changes
          children,         \* the plan: never changes
          root,             \* the node the walk is called with, or Null
          visited,          \* visited
          stack,            \* the nodes of the frames, innermost last
          next,             \* the next child index of each node's frame
          post_order_list,  \* post_order_list
          crashed           \* a null pointer has been followed

input == <<walk, children, root>>
vars == <<input, visited, stack, next, post_order_list, crashed>>

ChildrenList == "children_list"
TwoChildren == "two_children"

Elements(s) == {s[i] : i \in 1..Len(s)}

ChildrenOf(n) == Elements(children[n]) \ {Null}

TypeOK ==
    /\ walk \in {ChildrenList, TwoChildren}
    /\ children \in Plans
    /\ root \in Nodes \cup {Null}
    /\ visited \in SUBSET Nodes
    /\ stack \in Seq(Nodes)
    /\ next \in [Nodes -> Nat \ {0}]
    /\ post_order_list \in Seq(Nodes)
    /\ crashed \in BOOLEAN

\* The call on the root: with a null root to_sequence_two_children returns the
\* empty list at once.
Init ==
    /\ walk \in {ChildrenList, TwoChildren}
    /\ children \in Plans
    /\ walk = TwoChildren => \A n \in Nodes : Len(children[n]) <= 2
    /\ root \in Nodes \cup {Null}
    /\ visited = {root} \ {Null}
    /\ stack = IF root = Null THEN <<>> ELSE <<root>>
    /\ next = [n \in Nodes |-> 1]
    /\ post_order_list = <<>>
    /\ crashed = (walk = ChildrenList /\ root = Null)

-----------------------------------------------------------------------------
(* One iteration of the loop over the children of the innermost frame.     *)

Innermost == stack[Len(stack)]

\* The child the innermost frame looks at.
AtChild(c) ==
    /\ stack # <<>> /\ ~crashed
    /\ next[Innermost] <= Len(children[Innermost])
    /\ c = children[Innermost][next[Innermost]]

Advance == next' = [next EXCEPT ![Innermost] = @ + 1]

\* Mutant: the loop does not go on after a child it skips.
SkipInPlace ==
    /\ \E c \in visited : AtChild(c)
    /\ UNCHANGED vars

Skip ==
    /\ (\E c \in visited : AtChild(c)) \/ (walk = TwoChildren /\ AtChild(Null))
    /\ Advance
    /\ UNCHANGED <<input, visited, stack, post_order_list, crashed>>

\* No node is null, so visited does not hold it.
FollowNull ==
    /\ walk = ChildrenList /\ AtChild(Null)
    /\ crashed' = TRUE
    /\ UNCHANGED <<input, visited, stack, next, post_order_list>>

\* Mutant: visited is not looked at.
DescendAgain(c) ==
    /\ AtChild(c)
    /\ Advance
    /\ visited' = visited \cup {c}
    /\ stack' = Append(stack, c)
    /\ UNCHANGED <<input, post_order_list, crashed>>

\* Mutant: a node is listed when it is entered.
DescendPreOrder(c) ==
    /\ AtChild(c)
    /\ c \notin visited
    /\ Advance
    /\ visited' = visited \cup {c}
    /\ stack' = Append(stack, c)
    /\ post_order_list' = Append(post_order_list, c)
    /\ UNCHANGED <<input, crashed>>

\* The recursive call, up to the insertion into visited at its entry.
Descend(c) ==
    /\ AtChild(c)
    /\ c \notin visited
    /\ Advance
    /\ visited' = visited \cup {c}
    /\ stack' = Append(stack, c)
    /\ UNCHANGED <<input, post_order_list, crashed>>

\* Mutant: the loop stops before the last child.
ReturnEarly ==
    /\ stack # <<>> /\ ~crashed
    /\ next[Innermost] >= Len(children[Innermost])
    /\ post_order_list' = Append(post_order_list, Innermost)
    /\ stack' = SubSeq(stack, 1, Len(stack) - 1)
    /\ UNCHANGED <<input, visited, next, crashed>>

\* The loop is over: the node is listed and the call returns.
Return ==
    /\ stack # <<>> /\ ~crashed
    /\ next[Innermost] > Len(children[Innermost])
    /\ post_order_list' = Append(post_order_list, Innermost)
    /\ stack' = SubSeq(stack, 1, Len(stack) - 1)
    /\ UNCHANGED <<input, visited, next, crashed>>

Next == Skip \/ FollowNull \/ Return \/ \E c \in Nodes : Descend(c)

Spec == Init /\ [][Next]_vars

\* The walk is ordinary sequential code: it runs to its end.
FairSpec == Spec /\ WF_vars(Next)

-----------------------------------------------------------------------------
(* Properties *)

Done == stack = <<>> /\ ~crashed

\* The list is an order in which work items can be executed: when a node is
\* listed, everything it reads from has been listed before it, also when a
\* child is shared and was reached along another path.
ChildrenFirst ==
    \A i \in 1..Len(post_order_list) :
        \A c \in ChildrenOf(post_order_list[i]) :
            \E j \in 1..(i - 1) : post_order_list[j] = c

\* A node shared by several parents yields one work item, not several.
ListedOnce ==
    \A i, j \in 1..Len(post_order_list) :
        post_order_list[i] = post_order_list[j] => i = j

\* The nodes of every set that contains the root and, with a node, its
\* children.
Reachable ==
    {n \in Nodes : \A S \in SUBSET Nodes :
        /\ root \in S
        /\ \A m \in S : ChildrenOf(m) \subseteq S
        => n \in S}

\* At the end the list holds the nodes of the plan and nothing else, the root
\* last.
WholePlanListed ==
    Done => /\ Elements(post_order_list) =
                  (IF root = Null THEN {} ELSE Reachable)
            /\ root # Null =>
                  post_order_list[Len(post_order_list)] = root

\* The walk ends, whatever is shared, or has followed a null pointer, which
\* only to_sequence_children_list can.
WalkEnds == <>(Done \/ (crashed /\ walk = ChildrenList))
=============================================================================
