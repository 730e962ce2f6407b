----------------------------- MODULE Optimizer -----------------------------
(***************************************************************************)
(* DBClient::runOptimizerPipeline: the plan of one query is rewritten,     *)
(* gets the nodes that materialise columns, its columns are renamed and it *)
(* becomes work items.                                                     *)
(*                                                                         *)
(* An operator like a filter or a join does not move values: it writes     *)
(* position lists, and whoever reads a column above it must apply them.    *)
(* The three strategies that place these applications (Materialize nodes)  *)
(* are the heart of the optimizer, and that every reader gets the rows it  *)
(* means is what this module checks.                                       *)
(***************************************************************************)
EXTENDS Rewritings

CONSTANT Cases    \* the queries and the options of the client, pairs

ASSUME CasesAssumption == \A c \in Cases : c[1] \in ParsedQuery

VARIABLES phase,
          plan,     \* the same nodes rewired, new ones appended
          ret,      \* what the recursive calls made so far have returned
          names,    \* the columns each node reads, after renaming
          items     \* the columns each work item reads

vars == <<query, options, phase, logical, plan, ret, names, items>>

Phases == {"semijoins", "merge", "agg", "materialize", "grandchildren",
           "rename", "items", "done"}

Strategies == {"std", "lateMat", "lateMatHybrid"}

\* ensureCorrectColumnSetup comes first (it is in JsonPlan).  In a plan from
\* SQL the names are those of columns already, so that it only writes the
\* aliases of columns, which are in the header of the result and in no
\* comparison of columns.
Init ==
  /\ \E c \in Cases : query = c[1] /\ options = c[2]
  /\ phase = "semijoins"
  /\ logical = PlanOf(query)
  /\ plan = <<>> /\ ret = <<>> /\ names = <<>> /\ items = <<>>

-----------------------------------------------------------------------------
(***************************************************************************)
(* The passes over the plan of operators.                                  *)
(***************************************************************************)
SemiJoins ==
  /\ phase = "semijoins"
  /\ phase' = "merge"
  /\ PlaceSemiJoins
  /\ UNCHANGED <<plan, ret, names, items>>

SortIntoGroup ==
  /\ phase = "merge"
  /\ phase' = "agg"
  /\ MergeSortIntoGroup
  /\ UNCHANGED <<plan, ret, names, items>>

AggIntoGroup ==
  /\ phase = "agg"
  /\ phase' = "materialize"
  /\ MoveAggIntoGroup
  /\ plan' = logical'
  /\ UNCHANGED <<ret, names, items>>

-----------------------------------------------------------------------------
(***************************************************************************)
(* Materialisation.  A call returns the tables below the node and, per     *)
(* table, the node of the latest position list (pos) and, per column, that *)
(* of the latest materialised values (mat); 0 is the null pointer, which   *)
(* the [] of a map puts at a missing key.                                  *)
(***************************************************************************)
NoPos == [t \in Tables |-> 0]
NoMat == [c \in ToSet(Columns) |-> 0]

\* std::map::merge keeps what is already there.
MergedWith(f, g) == [x \in DOMAIN f |-> IF f[x] # 0 THEN f[x] ELSE g[x]]

\* columnsNeededLater, in the order of the set.
NeededLater(n) ==
  LET needed == InputsOf(logical, {n} \cup Ancestors(logical, Root, n))
  IN  SelectSeq(Columns, LAMBDA c : c \in needed)

HasTable(node, c) == \E i \in DOMAIN node.out : TableOf[node.out[i]] = TableOf[c]

\* How many steps below n the table of c first appears as an output.
Distance(p, n, c) ==
  LET at == { i \in 0..Len(p) : \E m \in Level(p, n, i) : HasTable(p[m], c) }
  IN  IF at = {} THEN Len(p) + 1 ELSE Min(at)

\* detFilterColIdx: the output of the operator k that holds positions for
\* the table of c.
\* Mutant: the search below the join is not made.
FilterColDirect(p, k, c) ==
  LET own == SelectSeq(p[k].out, LAMBDA o : TableOf[o] = TableOf[c])
  IN  IF p[k].op = "join" /\ own # <<>> THEN own[1] ELSE p[k].out[Len(p[k].out)]

FilterCol(p, k, c) ==
  LET own == SelectSeq(p[k].out, LAMBDA o : TableOf[o] = TableOf[c])
  IN  IF p[k].op # "join" THEN p[k].out[1]
      ELSE IF own # <<>> THEN own[1]
      ELSE IF Distance(p, p[k].kids[1], c) <= Distance(p, p[k].kids[2], c)
           THEN p[k].out[1] ELSE p[k].out[2]

\* The column a group or another operator provides as values.
ValueCols(node) ==
  IF node.op = "group" THEN SelectSeq(node.out, Virtual) ELSE <<node.out[1]>>

WithValues(a, k) ==
  LET value == ValueCols(a.plan[k])
  IN  IF a.plan[k].matVals /\ value # <<>> THEN [a EXCEPT !.mat[value[1]] = k] ELSE a

\* The tables that are found in the set of tables below the table n.  Tables
\* are compared with their aliases, and the table of a column has none.
FoundBelow(n) == IF Aliased(query) THEN {} ELSE {logical[n].out[1]}

\* The table base node gets the column its parent reads, the last one if
\* there are several.  The default strategy takes them from a set and gives
\* the parent a copy of the node for each.
ColumnsOfTable(n) ==
  LET in == logical[Parent(logical, Root, n)].in
      own(c) == TableOf[c] = logical[n].out[1]
  IN  IF options.matType = "std"
      THEN SelectSeq(Columns, LAMBDA c : Contains(in, c) /\ own(c))
      ELSE SelectSeq(in, own)

VisitTable(n) ==
  LET cols == ColumnsOfTable(n)
      named == [plan EXCEPT ![n].in = <<Last(cols)>>, ![n].out = <<Last(cols)>>]
      copies == [i \in DOMAIN cols |-> Node("table", <<cols[i]>>, <<cols[i]>>, <<>>, <<>>)]
      std == options.matType = "std"
  IN  /\ plan' = named \o (IF std THEN copies ELSE <<>>)
      /\ ret' = ret @@ (n :> [below |-> FoundBelow(n), pos |-> NoPos,
                   mat |-> [c \in DOMAIN NoMat |->
                              IF std /\ Contains(cols, c)
                              THEN Len(plan) + SelectInSeq(cols, LAMBDA d : d = c) ELSE 0]])

Below(n) == UNION { ret[k].below : k \in KidsOf(logical, n) }

(***************************************************************************)
(* fillMaterializes, the default: behind every operator that writes a      *)
(* position list, every column needed later is materialised anew.          *)
(***************************************************************************)
\* Mutant: the new node is taken for the one behind it.
FillUpdatePastEnd(a, c, k) ==
  LET known == a.mat[c] # 0
      p == IF known THEN a.plan ELSE Append(a.plan, Fetch(c))
      source == IF known THEN a.mat[c] ELSE Len(p)
  IN  [a EXCEPT !.plan = Append(p, Materialize(c, FilterCol(a.plan, k, c), c, FALSE, <<source, k>>)),
                !.mat[c] = Len(p) + 2]

FillUpdate(a, c, k) ==
  LET known == a.mat[c] # 0
      p == IF known THEN a.plan ELSE Append(a.plan, Fetch(c))
      source == IF known THEN a.mat[c] ELSE Len(p)
  IN  [a EXCEPT !.plan = Append(p, Materialize(c, FilterCol(a.plan, k, c), c, FALSE, <<source, k>>)),
                !.mat[c] = Len(p) + 1]

FillChild(n, a, k) ==
  LET prev == [a EXCEPT !.mat = MergedWith(@, ret[k].mat)]
      later == SelectSeq(NeededLater(n), LAMBDA c : TableOf[c] \in ret[k].below)
  IN  WithValues(IF a.plan[k].posList
                 THEN FoldLeft(LAMBDA b, c : FillUpdate(b, c, k), prev, later)
                 ELSE prev, k)

FillNode(n) ==
  LET a == FoldLeft(LAMBDA b, k : FillChild(n, b, k),
                    [plan |-> plan, mat |-> NoMat], logical[n].kids)
      found == SelectSeq(logical[n].in, LAMBDA c : a.mat[c] # 0)
  IN  /\ plan' = [a.plan EXCEPT ![n].kids = [i \in DOMAIN found |-> a.mat[found[i]]]]
      /\ ret' = ret @@ (n :> [below |-> Below(n), pos |-> NoPos, mat |-> a.mat])

(***************************************************************************)
(* putLateMaterializationV2 and putLateMaterializationHybrid: position     *)
(* lists are composed, values materialised where they are read.  Values    *)
(* are carried along only for results of operators and, in the hybrid, for *)
(* the only column needed of its table.  The merge of the previous values  *)
(* at line 375 is of the map with itself, so it adds nothing.              *)
(***************************************************************************)
Carried(n, c) ==
  \/ Virtual(c)
  \/ /\ options.matType = "lateMatHybrid"
     /\ ~\E d \in ToSet(NeededLater(n)) \ {c} : TableOf[d] = TableOf[c]

\* The first output of the table; dereferencing the end of an empty range
\* yields some column that is none of the query's.
Garbage == "?"
PosCol(node, c) ==
  IF HasTable(node, c)
  THEN SelectSeq(node.out, LAMBDA o : TableOf[o] = TableOf[c])[1] ELSE Garbage

LateUpdate(n, a, c, k) ==
  LET t == TableOf[c]
      prev == ret[k]
      filter == FilterCol(a.plan, k, c)
  IN  IF prev.mat[c] # 0 /\ Carried(n, c)
      THEN [a EXCEPT !.plan = Append(@, Materialize(c, filter, c, FALSE, <<prev.mat[c], k>>)),
                     !.mat[c] = Len(a.plan) + 1]
      ELSE IF t \notin prev.below \/ a.pos[t] # 0 THEN a
      ELSE IF prev.pos[t] = 0 THEN [a EXCEPT !.pos[t] = k]
      ELSE [a EXCEPT !.plan = Append(@, Materialize(PosCol(a.plan[prev.pos[t]], c), filter, c, TRUE,
                                                    <<prev.pos[t], k>>)),
                     !.pos[t] = Len(a.plan) + 1]

LateChild(n, a, k) ==
  WithValues(IF a.plan[k].posList
             THEN FoldLeft(LAMBDA b, c : LateUpdate(n, b, c, k), a, NeededLater(n))
             ELSE [a EXCEPT !.pos = MergedWith(@, ret[k].pos)], k)

LateInput(a, c) ==
  LET list == a.pos[TableOf[c]]
      fetch == Len(a.plan) + 1
  IN  IF a.mat[c] # 0 THEN [a EXCEPT !.kids = Append(@, a.mat[c])]
      ELSE IF list = 0 THEN a   \* "required but not found", an error is printed
      ELSE [a EXCEPT !.plan = @ \o << Fetch(c), Materialize(c, PosCol(a.plan[list], c), c, FALSE,
                                                            <<fetch, list>>) >>,
                     !.mat[c] = fetch + 1,
                     !.kids = Append(@, fetch + 1)]

LateNode(n) ==
  LET below == FoldLeft(LAMBDA b, k : LateChild(n, b, k),
                        [plan |-> plan, pos |-> NoPos, mat |-> NoMat, kids |-> <<>>],
                        logical[n].kids)
      a == FoldLeft(LateInput, below, logical[n].in)
  IN  /\ plan' = [a.plan EXCEPT ![n].kids = a.kids]
      /\ ret' = ret @@ (n :> [below |-> Below(n), pos |-> a.pos, mat |-> a.mat])

\* One call of the recursion per step, children first.
MaterializeNode(n) ==
  /\ phase = "materialize"
  /\ n \in LiveLogical \ DOMAIN ret
  /\ \A m \in LiveLogical \ DOMAIN ret : n <= m
  /\ IF logical[n].op = "table" THEN VisitTable(n)
     ELSE IF options.matType = "std" THEN FillNode(n)
     ELSE LateNode(n)
  /\ phase' = IF n = Root THEN "grandchildren" ELSE phase
  /\ UNCHANGED <<query, options, logical, names, items>>

-----------------------------------------------------------------------------
(***************************************************************************)
(* grandChildrenOptimization: values filtered by a composed position list  *)
(* can be taken from the operator that already had them as input.          *)
(***************************************************************************)
Provides(node, c) == node.matVals /\ Contains(IF node.op = "group" THEN ValueCols(node) ELSE node.out, c)

Shortcut(node) ==
  IF ~(node.op = "materialize" /\ node.matVals) THEN node
  ELSE LET f == plan[node.kids[2]] IN
       IF ~(f.op = "materialize" /\ f.posList) THEN node
       ELSE LET op == f.kids[2]
                hits == SelectSeq(plan[op].kids, LAMBDA g : Provides(plan[g], node.in[1]))
            IN  IF hits = <<>> THEN node
                ELSE [node EXCEPT !.kids = <<hits[1], op>>, !.in = <<node.in[1], f.in[2]>>]

GrandChildren ==
  /\ phase = "grandchildren"
  /\ phase' = "rename"
  /\ plan' = IF options.grandChildOpt
             THEN [n \in DOMAIN plan |->
                     IF n \in Live(plan, Root) THEN Shortcut(plan[n]) ELSE plan[n]]
             ELSE plan
  /\ UNCHANGED <<query, options, logical, ret, names, items>>

(***************************************************************************)
(* uniqueColNames.  The new name of an output is the pair of its node and  *)
(* the old name; <<0, c>> is the column c of a base table.  An input takes *)
(* the name at the front of the queue of its old name, and removes it if   *)
(* another one is behind it.                                               *)
(***************************************************************************)
NameOf(k, c) == IF plan[k].op \in {"table", "fetch"} THEN <<0, c>> ELSE <<k, c>>

Bound(node, i) ==
  LET c == node.in[i]
      queue == SelectSeq(node.kids, LAMBDA k : Contains(plan[k].out, c))
      taken == Cardinality({ j \in 1..(i - 1) : node.in[j] = c })
  IN  IF queue = <<>> THEN <<0, c>>
      ELSE NameOf(queue[Min({taken + 1, Len(queue)})], c)

Rename ==
  /\ phase = "rename"
  /\ phase' = "items"
  /\ names' = [n \in Live(plan, Root) |->
                 [i \in DOMAIN plan[n].in |-> Bound(plan[n], i)]]
  /\ UNCHANGED <<query, options, logical, plan, ret, items>>

(***************************************************************************)
(* irToApiData and createWorkItems: the columns a work item names.  A      *)
(* filter names its first column; the partner of a map and the columns of  *)
(* a sort come from the operator's data, which the renaming has not        *)
(* reached.  Fetches are dropped, and semi joins have no item.             *)
(***************************************************************************)
Raw(c) == <<0, c>>

\* Mutant: a filter, too, goes by the names of the query.
FilterReadsRaw(n) == << Raw(plan[n].in[1]) >>

FilterReads(n) == << names[n][1] >>
MapReads(n) == << names[n][1], Raw(plan[n].in[2]) >>
SortReads(n) == [i \in DOMAIN plan[n].in |-> Raw(plan[n].in[i])]

ItemReads(n) ==
  CASE plan[n].op = "filter" -> FilterReads(n)
    [] plan[n].op = "map" -> MapReads(n)
    [] plan[n].op = "sort" -> SortReads(n)
    [] OTHER -> names[n]

CreateWorkItems ==
  /\ phase = "items"
  /\ phase' = "done"
  /\ items' = [n \in { m \in DOMAIN names : plan[m].op \notin {"table", "fetch", "semijoin"} } |->
                 ItemReads(n)]
  /\ UNCHANGED <<query, options, logical, plan, ret, names>>

Finished == phase = "done" /\ UNCHANGED vars

Next ==
  \/ SemiJoins
  \/ SortIntoGroup
  \/ AggIntoGroup
  \/ \E n \in DOMAIN logical : MaterializeNode(n)
  \/ GrandChildren
  \/ Rename
  \/ CreateWorkItems
  \/ Finished

Spec == Init /\ [][Next]_vars /\ WF_vars(Next)
-----------------------------------------------------------------------------
(***************************************************************************)
(* What a name stands for: the column it comes from, with the position     *)
(* lists applied to it so far, each the output of an operator.             *)
(***************************************************************************)
SourceOf(name) ==
  LET source[x \in {name} \cup UNION { Range(names[n]) : n \in DOMAIN names }] ==
        IF x[1] # 0 /\ plan[x[1]].op = "materialize" THEN source[names[x[1]][1]] ELSE x
  IN  source[name]

RowsOf(name) ==
  LET rows[x \in {name} \cup UNION { Range(names[n]) : n \in DOMAIN names }] ==
        IF x[1] = 0 THEN <<>>
        ELSE IF plan[x[1]].op = "materialize"
             THEN rows[names[x[1]][1]] \o rows[names[x[1]][2]]
        ELSE IF Virtual(x[2]) THEN <<>>
        ELSE << <<x[1], SelectInSeq(plan[x[1]].out, LAMBDA c : c = x[2])>> >>
  IN  rows[name]

(***************************************************************************)
(* What the node n means by the column c in the plan of operators: the     *)
(* node below it that has the column, and the rows every operator between  *)
(* the two leaves, for a join on the side on which the column comes in.    *)
(***************************************************************************)
Origin(n, c) ==
  CHOOSE m \in LiveLogical :
    /\ n \in Ancestors(logical, Root, m)
    /\ IF Virtual(c) THEN logical[m].op # "select" /\ Contains(logical[m].out, c)
                          /\ logical[m].op \in {"map", "sum", "agg", "group"}
       ELSE logical[m].op = "table" /\ logical[m].out[1] = TableOf[c]

RowsFrom(m, n) ==
  LET rows[k \in LiveLogical] ==
        LET q == Parent(logical, Root, k) IN
        IF q = n THEN <<>>
        ELSE (IF logical[q].posList
              THEN << <<q, SelectInSeq(logical[q].kids, LAMBDA d : d = k)>> >> ELSE <<>>)
             \o rows[q]
  IN  rows[m]

MeantBy(n, c) ==
  [source |-> IF Virtual(c) THEN <<Origin(n, c), c>> ELSE <<0, c>>,
   rows |-> RowsFrom(Origin(n, c), n)]

Readers == { n \in LiveLogical : logical[n].op # "table" }

-----------------------------------------------------------------------------
(* State what holds. *)

\* The optimizer's data have their types, and pointers point to nodes.
TypeOK ==
  /\ phase \in Phases
  /\ \A p \in {logical, plan} : \A n \in DOMAIN p :
       /\ p[n].op \in Operators
       /\ KidsOf(p, n) \subseteq DOMAIN p
       /\ p[n].posList \in BOOLEAN /\ p[n].matVals \in BOOLEAN
  /\ DOMAIN ret \subseteq LiveLogical
  /\ \A n \in DOMAIN ret : /\ Range(ret[n].pos) \subseteq 0..Len(plan)
                           /\ Range(ret[n].mat) \subseteq 0..Len(plan)

\* Every operator of the plan reads, for each of its input columns, that very
\* column with exactly the rows that are left where the operator stands in the
\* plan: no position list below it is forgotten, applied twice, taken from the
\* wrong side of a join or bound to the name of another column.  It is about
\* the names uniqueColNames gives to the nodes; what becomes of them in the
\* items is the matter of ReadsAreWritten.
InputsAligned ==
  phase = "done" /\ ~(\E n \in LiveLogical : logical[n].op = "semijoin") =>
    \A n \in Readers :
      /\ n \in DOMAIN names
      /\ \A i \in DOMAIN plan[n].in :
           LET name == names[n][i] IN
           [source |-> SourceOf(name), rows |-> RowsOf(name)] = MeantBy(n, plan[n].in[i])

\* The columns an item takes from the operator's data, as the query names
\* them: those of a sort (ir_to_api.cpp:105), the partner of a map
\* (ir_to_api.cpp:57).
NamedByQuery(n, i) == plan[n].op = "sort" \/ (plan[n].op = "map" /\ i = 2)

\* Whatever an item reads is written by the item of a child, or it is a column
\* of a base table that no child has materialised anew: no item is missing, and
\* none goes by a name that the renaming has replaced.  This fails for the
\* columns of sorts and the partners of maps, which are excepted: these items
\* go by the replaced name.  Plans with semi joins have no items for these.
ReadsAreWritten ==
  phase = "done" /\ ~(\E n \in LiveLogical : logical[n].op = "semijoin") =>
    \A n \in DOMAIN items : \A i \in { j \in DOMAIN items[n] : ~NamedByQuery(n, j) } :
      LET read == items[n][i]
          written == DOMAIN items \cap KidsOf(plan, n)
      IN  \/ read[1] \in written /\ Contains(plan[read[1]].out, read[2])
          \/ /\ read[1] = 0 /\ ~Virtual(read[2])
             /\ ~\E k \in written : plan[k].matVals /\ Contains(plan[k].out, read[2])
=============================================================================
