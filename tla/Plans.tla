------------------------------- MODULE Plans -------------------------------
(***************************************************************************)
(* Query plans: the nodes of the optimizer's intermediate representation   *)
(* (plan_node.hpp, ir_views.hpp) and the plan the SQL front end builds for *)
(* a query (generate_AST.cpp, optimizer_one.cpp, ast_to_ir.cpp).           *)
(*                                                                         *)
(* A plan is a sequence of nodes; a pointer to a node is its index.  A     *)
(* column is its name; the table follows from the name, as in the catalog. *)
(* Texts, types and constants of predicates are left out.                  *)
(***************************************************************************)
EXTENDS Naturals, FiniteSets, SequencesExt

CONSTANTS Columns,   \* all columns, in the order of std::set<TableColumn>
          TableOf,   \* the table of a column, and of a table itself
          Unique     \* the columns of which Catalog::isUnique is true

Tables == { TableOf[c] : c \in DOMAIN TableOf }

(***************************************************************************)
(* The tables "AGG" and "MAP" hold the results of operators.               *)
(***************************************************************************)
Virtual(c) == TableOf[c] \in {"AGG", "MAP"}

ASSUME PlansAssumption ==
  /\ ToSet(Columns) \subseteq DOMAIN TableOf
  /\ \A t \in Tables : t \in DOMAIN TableOf => TableOf[t] = t
  /\ Unique \subseteq ToSet(Columns)
  /\ \A i, j \in DOMAIN Columns : Columns[i] = Columns[j] => i = j

\* A query as the parser leaves it, an alias in ORDER BY resolved as
\* makeOrderNode does.  `joins` are the equations of two columns in WHERE.
Names == DOMAIN TableOf

ParsedQuery ==
  [from : Names, joins : Seq(Names \X Names), filters : Seq(Seq(Names)),
   aggs : Seq([op : {"sum", "agg"}, of : Seq(Names), via : Names \cup {""}, as : Names]),
   group : Seq(Names), order : Seq(Names \X BOOLEAN), select : Seq(Names)]

\* "sum" is an aggregation with AGG_SUM, "agg" one with another function.
Operators == {"table", "fetch", "filter", "join", "semijoin", "map", "sum", "agg",
              "group", "sort", "select", "materialize"}

(***************************************************************************)
(* A node reads the columns `in` and writes the columns `out`.  posList    *)
(* and matVals are the flags outputsPosList and outputsMatVals; orders are *)
(* the sort directions (TRUE for ascending).                               *)
(***************************************************************************)
Node(op, in, out, kids, orders) ==
  [op |-> op, in |-> in, out |-> out, kids |-> kids, orders |-> orders,
   posList |-> op \in {"filter", "join", "semijoin", "group", "sort"},
   matVals |-> op \in {"table", "fetch", "map", "sum", "agg", "group", "select"}]

Fetch(c) == Node("fetch", <<c>>, <<c>>, <<>>, <<>>)

Materialize(idx, filter, out, posList, kids) ==
  [Node("materialize", <<idx, filter>>, <<out>>, kids, <<>>)
     EXCEPT !.posList = posList, !.matVals = ~posList]

(***************************************************************************)
(* The front end.  A subtree is a sequence of nodes in post-order, so its  *)
(* root is the last one; Shifted moves it behind n other nodes.            *)
(***************************************************************************)
Shifted(tree, n) ==
  [i \in DOMAIN tree |->
     [tree[i] EXCEPT !.kids = [j \in DOMAIN @ |-> @[j] + n]]]

Over(tree, op, in, out, orders) ==
  Append(tree, Node(op, in, out, <<Len(tree)>>, orders))

\* placePredicate puts every predicate right above its table, below the
\* predicates placed before it.
TableWithFilters(q, t) ==
  LET n == Len(q.filters)
      placed[i \in 0..n] ==
        IF i = 0 THEN << Node("table", <<t>>, <<t>>, <<>>, <<>>) >>
        ELSE LET f == q.filters[n + 1 - i]
                 tree == placed[i - 1]
             IN  IF TableOf[f[1]] = t THEN Over(tree, "filter", f, <<f[1]>>, <<>>) ELSE tree
  IN  placed[n]

\* A table that is not joined has an alias, its own name if the query gives
\* none; the tables that buildJoin makes anew have none.
Aliased(q) == q.joins = <<>>

TableIn(tree, t) == \E i \in DOMAIN tree : tree[i].op = "table" /\ tree[i].out[1] = t

\* buildJoin: left-deep; a condition whose second table is already there is
\* turned around.  optimizeCrossProduct puts its tree in the place of the
\* topmost join, a cross product or an explicit JOIN: the conditions in ON
\* are dropped, and without one in WHERE the null pointer is put there, which
\* placePredicate dereferences.  Such queries have no plan; `from` without
\* joins is one table.
JoinOver(q, tree, left, right) ==
  LET dim == Shifted(TableWithFilters(q, TableOf[right]), Len(tree))
      all == tree \o dim
  IN  Append(all, Node("join", <<left, right>>, <<left, right>>,
                       <<Len(tree), Len(all)>>, <<>>))

JoinTree(q) ==
  LET first == IF q.joins = <<>> THEN q.from ELSE TableOf[q.joins[1][1]]
      built[i \in 0..Len(q.joins)] ==
        IF i = 0 THEN TableWithFilters(q, first)
        ELSE LET j == q.joins[i]
                 tree == built[i - 1]
             IN  IF TableIn(tree, TableOf[j[2]]) THEN JoinOver(q, tree, j[2], j[1])
                 ELSE JoinOver(q, tree, j[1], j[2])
  IN  built[Len(q.joins)]

\* The aggregates of the select list, the first one on top, each over the
\* arithmetic of its argument if it has some.
AggOver(tree, a) ==
  IF Len(a.of) = 1 THEN Over(tree, a.op, a.of, <<a.as>>, <<>>)
  ELSE Over(Over(tree, "map", a.of, <<a.via>>, <<>>), a.op, <<a.via>>, <<a.as>>, <<>>)

Aggregated(q) ==
  LET n == Len(q.aggs)
      over[i \in 0..n] ==
        IF i = 0 THEN JoinTree(q) ELSE AggOver(over[i - 1], q.aggs[n + 1 - i])
  IN  over[n]

GroupOver(tree, q) ==
  IF q.group = <<>> THEN tree
  ELSE Over(tree, "group", q.group, <<"idx", "srt", "clus">>, [i \in DOMAIN q.group |-> TRUE])

SortOver(tree, q) ==
  IF q.order = <<>> THEN tree
  ELSE Over(tree, "sort", [i \in DOMAIN q.order |-> q.order[i][1]], <<"sorted">>,
            [i \in DOMAIN q.order |-> q.order[i][2]])

PlanOf(q) ==
  Over(SortOver(GroupOver(Aggregated(q), q), q), "select", q.select, q.select, <<>>)

-----------------------------------------------------------------------------
(***************************************************************************)
(* Walks over a plan p with the root r.                                    *)
(***************************************************************************)
KidsOf(p, n) == ToSet(p[n].kids)

\* The nodes that can be reached in exactly i steps from n.
Level(p, n, i) ==
  LET level[j \in 0..i] ==
        IF j = 0 THEN {n} ELSE UNION { KidsOf(p, m) : m \in level[j - 1] }
  IN  level[i]

Live(p, r) ==
  LET reach[i \in 0..Len(p)] ==
        IF i = 0 THEN {r}
        ELSE LET s == reach[i - 1] IN s \cup UNION { KidsOf(p, m) : m \in s }
  IN  reach[Len(p)]

\* In the plan of a query, a tree, every node but the root has one parent.
Parent(p, r, n) == CHOOSE m \in Live(p, r) : n \in KidsOf(p, m)

\* The nodes above n.
Ancestors(p, r, n) == { m \in Live(p, r) \ {n} : n \in Live(p, m) }

InputsOf(p, S) == UNION { ToSet(p[m].in) : m \in S }
=============================================================================
