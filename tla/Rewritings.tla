----------------------------- MODULE Rewritings -----------------------------
(***************************************************************************)
(* The passes that rewrite the plan of operators before columns are        *)
(* materialised (ir_optimizations.cpp): joins become semi joins, a sort is *)
(* merged into a group, an aggregation is moved into one.                  *)
(***************************************************************************)
EXTENDS Plans

VARIABLES query, options,
          logical   \* the plan before materialisation

Root == Len(logical)

LiveLogical == Live(logical, Root)

-----------------------------------------------------------------------------
(***************************************************************************)
(* placeSemiJoins.  The tables needed later are those of the inputs of the *)
(* nodes above.                                                            *)
(***************************************************************************)
NeededAbove(n) ==
  { TableOf[c] : c \in InputsOf(logical, Ancestors(logical, Root, n)) }

Swapped(s) == <<s[2], s[1]>>

\* Mutant: the column of the side that is kept is tested.
WithSemiJoinOther(n) ==
  LET node == logical[n]
      inner == TableOf[node.in[1]] \in NeededAbove(n)
      outer == TableOf[node.in[2]] \in NeededAbove(n)
      semi == [node EXCEPT !.op = "semijoin"]
  IN  IF inner /\ outer THEN node
      ELSE IF (IF inner THEN node.in[1] ELSE node.in[2]) \notin Unique THEN node
      ELSE IF inner THEN [semi EXCEPT !.in = Swapped(@), !.out = Swapped(@)]
      ELSE semi

WithSemiJoin(n) ==
  LET node == logical[n]
      inner == TableOf[node.in[1]] \in NeededAbove(n)
      outer == TableOf[node.in[2]] \in NeededAbove(n)
      semi == [node EXCEPT !.op = "semijoin"]
  IN  IF inner /\ outer THEN node
      ELSE IF (IF inner THEN node.in[2] ELSE node.in[1]) \notin Unique THEN node
      ELSE IF inner THEN [semi EXCEPT !.in = Swapped(@), !.out = Swapped(@)]
      ELSE semi

PlaceSemiJoins ==
  /\ logical' = IF ~options.semiJoins THEN logical
                ELSE [n \in DOMAIN logical |->
                        IF logical[n].op = "join" THEN WithSemiJoin(n) ELSE logical[n]]
  /\ UNCHANGED <<query, options>>

(***************************************************************************)
(* mergeSortIntoGroupIfSubset: the group takes over the columns and        *)
(* directions of the sort, and the sort is bypassed.                       *)
(***************************************************************************)
Mergeable(s) ==
  /\ logical[s].op = "sort"
  /\ LET g == logical[logical[s].kids[1]]
     IN  g.op = "group" /\ ToSet(logical[s].in) \subseteq ToSet(g.in)

\* The columns of a sequence that are not among the given ones.
Others(in, keys) ==
  LET rest[i \in 0..Len(in)] ==
        IF i = 0 THEN <<>>
        ELSE IF Contains(keys, in[i]) THEN rest[i - 1] ELSE Append(rest[i - 1], in[i])
  IN  rest[Len(in)]

\* Mutant: the directions of the sort are lost.
SortedGroupAscending(g, s) ==
  LET rest == Others(g.in, s.in)
  IN  [g EXCEPT !.in = s.in \o rest]

SortedGroup(g, s) ==
  LET rest == Others(g.in, s.in)
  IN  [g EXCEPT !.in = s.in \o rest,
                !.orders = s.orders \o [i \in DOMAIN rest |-> TRUE]]

Bypassed(p, n, k) ==
  [m \in DOMAIN p |-> [p[m] EXCEPT !.kids = [i \in DOMAIN @ |-> IF @[i] = n THEN k ELSE @[i]]]]

MergeSortIntoGroup ==
  /\ IF options.mergeSubsetSort /\ \E s \in LiveLogical : Mergeable(s)
     THEN \E s \in LiveLogical :
            /\ Mergeable(s)
            /\ LET g == logical[s].kids[1]
               IN  logical' = Bypassed([logical EXCEPT ![g] = SortedGroup(@, logical[s])], s, g)
     ELSE UNCHANGED logical
  /\ UNCHANGED <<query, options>>

(***************************************************************************)
(* moveAggIntoGroup: the only aggregation below a group, when it is a sum  *)
(* right below it, becomes part of the group (setAgg).                     *)
(***************************************************************************)
Movable(g) ==
  LET k == logical[g].kids[1]
      aggs == { n \in LiveLogical :
                  logical[n].op \in {"sum", "agg"} /\ g \in Ancestors(logical, Root, n) }
  IN  logical[g].op = "group" /\ aggs = {k} /\ logical[k].op = "sum"

WithAgg(g, a) ==
  [g EXCEPT !.in = @ \o a.in, !.out = @ \o a.out, !.kids = a.kids]

MoveAggIntoGroup ==
  /\ logical' = [n \in DOMAIN logical |->
                   IF n \in LiveLogical /\ Movable(n)
                   THEN WithAgg(logical[n], logical[logical[n].kids[1]])
                   ELSE logical[n]]
  /\ UNCHANGED <<query, options>>

-----------------------------------------------------------------------------
(* What the rewritings keep. *)

\* The rewritings keep what the query asks for: the rows come in the order
\* of ORDER BY, from the sort or from the group that replaces it, and the
\* group still has the columns of GROUP BY.
OrderAndGroupsKept ==
  LET keys(n) == SubSeq(logical[n].in, 1, Len(logical[n].orders)) IN
  /\ query.order # <<>> =>
       \E n \in LiveLogical :
         /\ logical[n].op \in {"sort", "group"}
         /\ IsPrefix(query.order, Zip(keys(n), logical[n].orders))
  /\ query.group # <<>> =>
       \E n \in LiveLogical :
         /\ logical[n].op = "group"
         /\ ToSet(keys(n)) = ToSet(query.group)

\* The tables of the first i joins of the query q.
JoinedTables(q, i) ==
  {IF q.joins = <<>> THEN q.from ELSE TableOf[q.joins[1][1]]}
    \cup { TableOf[q.joins[j][k]] : j \in 1..i, k \in {1, 2} }

\* Every join adds a table, and the column by which it is added to several
\* others is not one that is unique in its table.
StarJoins(q) ==
  \A i \in 1..Len(q.joins) : \E k \in {1, 2} :
    LET known == q.joins[i][k]
        added == q.joins[i][3 - k]
        before == JoinedTables(q, i - 1)
    IN  /\ TableOf[known] \in before /\ TableOf[added] \notin before
        /\ known \in Unique => before = {TableOf[known]}

\* A join becomes a semi join only where it is a mere filter: nothing of the
\* discarded side is read above it, and no row of the other side can find
\* two partners there.
SemiJoinsOnlyFilter ==
  \A n \in LiveLogical : logical[n].op = "semijoin" =>
    LET discarded == { m \in LiveLogical :
                         logical[m].op = "table" /\ n \in Ancestors(logical, Root, m)
                         /\ logical[m].out[1] = TableOf[logical[n].in[1]] }
        side == CHOOSE k \in KidsOf(logical, n) :
                  \E m \in discarded : m = k \/ k \in Ancestors(logical, Root, m)
        tables == { logical[m].out[1] :
                      m \in { x \in LiveLogical : logical[x].op = "table"
                                /\ (x = side \/ side \in Ancestors(logical, Root, x)) } }
    IN  /\ tables \cap NeededAbove(n) = {}
        /\ Cardinality(tables) = 1
        /\ logical[n].in[1] \in Unique
=============================================================================
