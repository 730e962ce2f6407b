------------------------------ MODULE JsonPlan ------------------------------
(***************************************************************************)
(* DBClient::getIrRootJson: the plan that PostgreSQL made for a query is   *)
(* read from a JSON file, pruned of what the executor does not need,       *)
(* enriched with the conditions, aggregates and orders that a second       *)
(* parser finds in the SQL text, and turned into the optimizer's           *)
(* representation.  The SQL front end (PlanOf in Plans) is the             *)
(* specification: both must produce the same operators.                    *)
(*                                                                         *)
(* Texts are records of what the code's expressions tell apart: a function *)
(* name (or ""), the words, and whether there are blanks between them.     *)
(* Literals, arithmetic operators and costs are left out.                  *)
(***************************************************************************)
EXTENDS Plans, Integers

CONSTANTS Inputs,     \* pairs of a plan file and the text of its query
          StringCols, \* the base columns that hold strings
          Unlisted    \* columns with a table's prefix that the catalog lacks

VARIABLES file, sql,  \* the input
          phase,      \* prune, enrich, ir, columns, done, threw or crashed
          at,         \* the node that pruneTree works on
          tree, root, \* the tree of PlanNodes; a pointer is an index
          plan        \* the tree in the optimizer's representation

vars == <<file, sql, phase, at, tree, root, plan>>

-----------------------------------------------------------------------------
(***************************************************************************)
(* The SQL text and what parseQuery makes of it.  A select item is a text  *)
(* with an alias or ""; a condition compares the column left with the      *)
(* column right or with literals (right = ""), and more are the columns of *)
(* the other comparisons when it is an OR in parentheses.                  *)
(***************************************************************************)
Word(w) == [fn |-> "", of |-> <<w>>, blank |-> FALSE]

Text == [fn : STRING, of : Seq(STRING) \ {<<>>}, blank : BOOLEAN]
Condition == [left : STRING \ {""}, op : STRING, right : STRING, more : SUBSET STRING]

SqlText == [from : STRING, select : Seq([text : Text, as : STRING]), where : Seq(Condition),
            group : Seq(Text), order : Seq([by : Text, dir : STRING])]

\* All functions, and those isAggColumn and mapStringToAggFunc spell alike.
IsAggregation(text) == text.fn # ""
IsAggColumn(text) == text.fn \in {"SUM", "COUNT", "MIN", "MAX", "AVG"}
ContainsArithMapOp(text) == Len(text.of) > 1 \/ text.of = <<"*">>
RemoveAllWhitespace(text) == [text EXCEPT !.blank = FALSE]

\* A BETWEEN is protected from the split at AND only if its first bound has no
\* blank in it; otherwise there are two conditions, neither of them complete.
SplitAtAnd(c) ==
  IF c.op # "between blank" THEN <<c>>
  ELSE << [c EXCEPT !.op = "broken"], [c EXCEPT !.op = "broken", !.left = ""] >>

AggregationsOf(select) ==
  LET of[i \in 0..Len(select)] ==
        IF i = 0 THEN <<>>
        ELSE IF IsAggregation(select[i].text) THEN Append(of[i - 1], select[i]) ELSE of[i - 1]
  IN  of[Len(select)]

ParseQuery(q) ==
  [selections   |-> q.select,
   aggregations |-> AggregationsOf(q.select),
   conditions   |-> FlattenSeq([i \in DOMAIN q.where |-> SplitAtAnd(q.where[i])]),
   groupBys     |-> q.group,
   sorting      |-> [i \in DOMAIN q.order |->
                       [field |-> q.order[i].by, asc |-> q.order[i].dir # "DESC"]]]

Query == ParseQuery(sql)

-----------------------------------------------------------------------------
(***************************************************************************)
(* Tables and types.  The parsers go by the prefix of a column, the        *)
(* catalog by a list of names.                                             *)
(***************************************************************************)
GetTableFromColumn(w) ==
  IF w \in DOMAIN TableOf /\ ~Virtual(w) /\ TableOf[w] # w THEN TableOf[w] ELSE ""

IsPlain(text) == text.fn = "" /\ Len(text.of) = 1

GetTableName(text) ==
  IF IsPlain(text) /\ text.of[1] \notin Unlisted /\ GetTableFromColumn(text.of[1]) # ""
  THEN GetTableFromColumn(text.of[1]) ELSE "Default"

GetSSBColumnType(table, text) ==
  LET t == IF table = "" THEN GetTableName(text) ELSE table
  IN  IF t \notin {"", "Default"} /\ IsPlain(text) /\ text.of[1] \in StringCols
      THEN "string" ELSE "int"

Column(table, text, type) == [table |-> table, text |-> text, type |-> type]

TypedColumn(table, w) == Column(table, Word(w), GetSSBColumnType(table, Word(w)))

\* Mutant: the tables of aggregates are not set.
NamedInCatalog(text) == GetTableName(text)

\* The table of a column named in the text: that of an aggregate is AGG.
NamedIn(text) ==
  IF GetTableName(text) = "Default" /\ IsAggColumn(text) THEN "AGG" ELSE GetTableName(text)

-----------------------------------------------------------------------------
(***************************************************************************)
(* pruneTree works on the children first; the file lists them first.       *)
(***************************************************************************)
Gather == {"Gather", "Gather Merge"}
Sorts == {"Incremental Sort", "Sort"}
Bitmap == {"Bitmap Heap Scan", "Bitmap Index Scan"}

\* What PostgreSQL puts below a bitmap heap scan, and the scans that name a table.
MakesBitmap == {"Bitmap Index Scan", "BitmapAnd", "BitmapOr"}
ReadsTable == {"Index Scan", "Seq Scan", "Bitmap Heap Scan"}

\* convertToAbstract
KindOf(type) ==
  CASE type \in {"Nested Loop", "Hash Join"}            -> "join"
    [] type = "Aggregate"                               -> "agg"
    [] type \in Sorts                                   -> "sort"
    [] type \in {"Index Scan", "Seq Scan"} \cup Bitmap  -> "source"
    [] type = "Limit"                                   -> "result"
    [] OTHER                                            -> "empty"

\* The constructor of PlanNode, recursively; the plans call the dates dim_date.
ReadPlan(f) ==
  [n \in DOMAIN f |->
     [type |-> f[n].type, kids |-> f[n].kids, kind |-> "empty", conds |-> <<>>,
      table |-> IF f[n].table = "dim_date" THEN "dates" ELSE f[n].table]]

\* Every pointer to n becomes one to k.
Rewired(t, n, k) ==
  [m \in DOMAIN t |-> [t[m] EXCEPT !.kids = [i \in DOMAIN @ |-> IF @[i] = n THEN k ELSE @[i]]]]

\* The first node of one of the types on the way down from n along the first
\* children, or 0.
FirstBelow(t, n, types) ==
  LET first[m \in 0..Len(t)] ==
        IF m = 0 \/ t[m].type \in types THEN m
        ELSE IF t[m].kids = <<>> THEN 0 ELSE first[t[m].kids[1]]
  IN  first[n]

\* removeDeepAggregate and removeDeepSort: that node gives way to its child.
RemovedBelow(t, n, types) ==
  LET m == FirstBelow(t, n, types)
  IN  IF m # 0 /\ Len(t[m].kids) = 1 THEN Rewired(t, m, t[m].kids[1]) ELSE t

OneKid(n) == Len(tree[n].kids) = 1

\* PostgreSQL nests the nodes of a plan, so every node but the last is the child
\* of a later one; there are bitmaps below a bitmap scan and nowhere else.
PlanFile(f) ==
  /\ f \in Seq([type : STRING, table : STRING, kids : Seq(Nat)]) /\ f # <<>>
  /\ \A n \in DOMAIN f : KidsOf(f, n) \subseteq 1..(n - 1)
  /\ \A n \in 1..(Len(f) - 1) : \E m \in DOMAIN f : n \in KidsOf(f, m)
  /\ \A n \in DOMAIN f : \A k \in KidsOf(f, n) :
       f[k].type \in MakesBitmap <=> f[n].type \in Bitmap \cup MakesBitmap
  /\ f[Len(f)].type \notin MakesBitmap
  /\ \A n \in DOMAIN f : f[n].type \in ReadsTable => f[n].table # ""

\* No table has the name that stands for none.
ASSUME InputsAssumption ==
  /\ \A in \in Inputs : PlanFile(in[1]) /\ in[2] \in SqlText
  /\ "Default" \notin Tables

Start ==
  \E in \in Inputs :
    /\ file = in[1] /\ sql = in[2]
    /\ tree = ReadPlan(in[1])
    /\ root = Len(in[1])

Init == Start /\ phase = "prune" /\ at = 1 /\ plan = <<>>

\* The recursive call for node `at` returns the node r; its caller stores it.
PruneReturns(t, r) ==
  /\ tree' = Rewired(t, at, r)
  /\ root' = IF root = at THEN r ELSE root
  /\ at' = at + 1
  /\ phase' = IF at = Len(file) THEN "enrich" ELSE "prune"
  /\ UNCHANGED <<file, sql, plan>>

\* Mutant: the type is matched by its beginning, and any children will do.
PruneHashPrefix ==
  /\ phase = "prune" /\ tree[at].type \in {"Hash", "Hash Join"} /\ tree[at].kids # <<>>
  /\ PruneReturns(tree, tree[at].kids[1])

PruneHash ==
  /\ phase = "prune" /\ tree[at].type = "Hash" /\ OneKid(at)
  /\ PruneReturns(tree, tree[at].kids[1])

\* With the node goes the partial aggregate of the workers, below it.
PruneGather ==
  /\ phase = "prune" /\ tree[at].type \in Gather /\ OneKid(at)
  /\ LET t == RemovedBelow(tree, tree[at].kids[1], {"Aggregate"})
     IN  PruneReturns(t, t[at].kids[1])

\* A bitmap heap scan takes over the children of its index scan.
Collapsed(t, n) ==
  LET k == t[n].kids[1]
  IN  IF /\ t[n].type \in Bitmap /\ Len(t[n].kids) = 1 /\ t[k].type \in Bitmap
      THEN [t EXCEPT ![n].kids = t[k].kids] ELSE t

\* Mutant: the order of aggregate and sort is left.
ExchangedNever(t, n) == t

\* A sort right below an aggregate changes places with it.
Exchanged(t, n) ==
  LET k == t[n].kids[1]
      As(m, o) == [t[o] EXCEPT !.kids = t[m].kids]
  IN  IF t[n].kind = "agg" /\ t[n].kids # <<>> /\ t[k].kind = "sort"
      THEN [t EXCEPT ![n] = As(n, k), ![k] = As(k, n)] ELSE t

PruneOther ==
  /\ phase = "prune"
  /\ ~(tree[at].type \in Gather \cup {"Hash"} /\ OneKid(at))
  /\ LET single == IF tree[at].type \in Sorts /\ OneKid(at)
                   THEN RemovedBelow(tree, tree[at].kids[1], Sorts) ELSE tree
         kinded == [Collapsed(single, at) EXCEPT ![at].kind = KindOf(tree[at].type)]
     IN  PruneReturns(Exchanged(kinded, at), at)

-----------------------------------------------------------------------------
(***************************************************************************)
(* enrichTree.  A scan gets the conditions whose words all belong to its   *)
(* table, a join the first condition between its two sides.                *)
(***************************************************************************)
Reachable == Live(tree, root)

\* The base tables under each node; a scan hides what is under it.
TablesUnder ==
  LET under[n \in DOMAIN tree] ==
        IF tree[n].kind = "source" THEN {tree[n].table}
        ELSE UNION {under[k] : k \in ToSet(tree[n].kids)}
  IN  under

\* Everything in the text of a condition that looks like a column, be it one
\* or a part of a literal.
WordsOf(c) == ({c.left, c.right} \ {""}) \cup c.more

FiltersOf(table) ==
  LET of[i \in 0..Len(Query.conditions)] ==
        IF i = 0 THEN <<>>
        ELSE IF { GetTableFromColumn(w) : w \in WordsOf(Query.conditions[i]) } = {table}
             THEN Append(of[i - 1], Query.conditions[i]) ELSE of[i - 1]
  IN  of[Len(Query.conditions)]

\* parseConditionTables splits at the first "="; what else the operator is made
\* of stays behind the column on the left.
ConditionTables(c) ==
  IF c.op \in {"=", "<=", ">=", "!="} THEN <<GetTableFromColumn(c.left), GetTableFromColumn(c.right)>>
  ELSE <<"", "">>

Between(c, left, right) ==
  LET t == ConditionTables(c) IN t[1] \in left /\ t[2] \in right

\* The conditions between two sides, by their places in the query.
Fitting(left, right) ==
  { i \in DOMAIN Query.conditions :
      \/ Between(Query.conditions[i], left, right)
      \/ Between(Query.conditions[i], right, left) }

\* Mutant: the children stay where they are.
EnrichedJoinUnswapped(n) ==
  LET fit == Fitting(TablesUnder[tree[n].kids[1]], TablesUnder[tree[n].kids[2]])
  IN  IF fit = {} THEN tree[n]
      ELSE [tree[n] EXCEPT !.conds = <<Query.conditions[Min(fit)]>>]

EnrichedJoin(n) ==
  LET left == TablesUnder[tree[n].kids[1]]
      right == TablesUnder[tree[n].kids[2]]
      fit == Fitting(left, right)
      first == Query.conditions[Min(fit)]
  IN  IF fit = {} THEN tree[n]
      ELSE [tree[n] EXCEPT !.conds = <<first>>,
                           !.kids = IF Between(first, left, right) THEN @ ELSE Reverse(@)]

Enriched(n) ==
  CASE tree[n].kind = "source"                           -> [tree[n] EXCEPT !.conds = FiltersOf(tree[n].table)]
    [] tree[n].kind = "join" /\ Len(tree[n].kids) = 2    -> EnrichedJoin(n)
    [] OTHER                                             -> tree[n]

\* The aggregate node copies aggregations[0] without looking whether it is there.
\* That is undefined: a vector that was never filled has no storage, so the copy
\* reads from the null page.
NoAggregation ==
  Query.aggregations = <<>> /\ \E n \in Reachable : tree[n].kind = "agg"

\* The columns of the select list stay in sql; the new root stands for them.
Enrich ==
  /\ phase = "enrich"
  /\ phase' = IF NoAggregation THEN "crashed" ELSE "ir"
  /\ tree' = Append([n \in DOMAIN tree |-> IF n \in Reachable THEN Enriched(n) ELSE tree[n]],
                    [type |-> "", kids |-> <<root>>, kind |-> "result", conds |-> <<>>, table |-> ""])
  /\ root' = Len(tree) + 1
  /\ UNCHANGED <<file, sql, at, plan>>

-----------------------------------------------------------------------------
(***************************************************************************)
(* abstractToIr.  A subtree becomes a plan; Above puts a node on plans.    *)
(***************************************************************************)
Above(subs, op, in, out, orders) ==
  LET upTo[i \in 0..Len(subs)] ==
        IF i = 0 THEN <<>> ELSE upTo[i - 1] \o Shifted(subs[i], Len(upTo[i - 1]))
  IN  Append(upTo[Len(subs)],
             Node(op, in, out, [i \in DOMAIN subs |-> Len(upTo[i])], orders))

\* What the column is compared with is not modelled.
FilterOver(p, table, c) ==
  LET col == TypedColumn(table, c.left) IN Above(<<p>>, "filter", <<col>>, <<col>>, <<>>)

\* The first filter is on top.
SourcePlan(node) ==
  LET last == Len(node.conds)
      over[i \in 0..last] ==
        IF i = 0 THEN << Node("table", <<node.table>>, <<node.table>>, <<>>, <<>>) >>
        ELSE FilterOver(over[i - 1], node.table, node.conds[last + 1 - i])
  IN  over[last]

JoinPlan(node, subs) ==
  LET c == node.conds[1]
      t == ConditionTables(c)
      cols == <<TypedColumn(t[1], c.left), TypedColumn(t[2], c.right)>>
  IN  Above(subs, "join", cols, cols, <<>>)

\* The only aggregate that is used, and the column of its argument.
TheAggregation == Query.aggregations[1]

MapColumn ==
  Column("MAP", [TheAggregation.text EXCEPT !.fn = "", !.blank = FALSE], "int")

ArgumentColumn ==
  LET w == TheAggregation.text.of[1]
  IN  IF ContainsArithMapOp(TheAggregation.text) THEN MapColumn
      ELSE Column(GetTableName(Word(w)), Word(w), GetSSBColumnType("", Word(w)))

AggColumn ==
  Column("AGG", RemoveAllWhitespace(TheAggregation.text),
         CASE TheAggregation.text.fn \in {"COUNT", "count"} -> "int"
           [] TheAggregation.text.fn \in {"AVG", "avg"}     -> "float"
           [] OTHER                                         -> ArgumentColumn.type)

AggPlan(sub) ==
  LET text == TheAggregation.text
      operands == [i \in DOMAIN text.of |->
                     TypedColumn(GetTableName(Word(text.of[i])), text.of[i])]
      mapped == IF ContainsArithMapOp(text)
                THEN Above(<<sub>>, "map", operands, <<MapColumn>>, <<>>) ELSE sub
      summed == Above(<<mapped>>, IF text.fn \in {"SUM", "sum"} THEN "sum" ELSE "agg",
                      <<ArgumentColumn>>, <<AggColumn>>, <<>>)
      keys == [i \in DOMAIN Query.groupBys |->
                 LET k == Query.groupBys[i]
                 IN  Column(NamedIn(k), k, GetSSBColumnType(NamedIn(k), k))]
  IN  IF keys = <<>> THEN summed
      ELSE Above(<<summed>>, "group", keys, <<"idx", "srt", "clus">>,
                 [i \in DOMAIN keys |-> TRUE])

\* An alias in ORDER BY stands for the text of the select item, blanks included.
Unaliased(field) ==
  IF \E s \in ToSet(Query.selections) : s.as # "" /\ field = Word(s.as)
  THEN (CHOOSE s \in ToSet(Query.selections) : s.as # "" /\ field = Word(s.as)).text
  ELSE field

SortPlan(subs) ==
  LET keys == [i \in DOMAIN Query.sorting |->
                 LET k == Unaliased(Query.sorting[i].field)
                 IN  Column(NamedIn(k), k, GetSSBColumnType("", k))]
  IN  Above(subs, "sort", keys, <<"sorted">>,
            [i \in DOMAIN keys |-> Query.sorting[i].asc])

\* Table and type are those of the item with its alias, which no table has; only
\* the root has columns, a LIMIT in the plan has none.
SelectedColumn(s) ==
  LET table == IF s.as # "" /\ ~IsAggColumn(s.text) THEN "Default" ELSE NamedIn(s.text)
  IN  Column(table, RemoveAllWhitespace(s.text),
             IF s.as # "" THEN "int" ELSE GetSSBColumnType("", s.text))

SelectPlan(n, subs) ==
  LET cols == IF n # root THEN <<>>
              ELSE [i \in DOMAIN Query.selections |-> SelectedColumn(Query.selections[i])]
  IN  Above(subs, "select", cols, cols, <<>>)

NodePlan(n, subs) ==
  CASE tree[n].kind = "source" -> SourcePlan(tree[n])
    [] tree[n].kind = "join"   -> JoinPlan(tree[n], subs)
    [] tree[n].kind = "agg"    -> AggPlan(subs[1])
    [] tree[n].kind = "sort"   -> SortPlan(subs)
    [] tree[n].kind = "result" -> SelectPlan(n, subs)
    [] tree[n].kind = "empty"  -> Above(subs, "empty", <<>>, <<>>, <<>>)

PlanOfTree ==
  LET sub[n \in DOMAIN tree] ==
        NodePlan(n, [i \in DOMAIN tree[n].kids |-> sub[tree[n].kids[i]]])
  IN  sub[root]

\* The exceptions: a join without a condition, a condition that none of the three
\* patterns matches, an aggregate of "*" or of an expression over strings, an
\* aggregate with other than one child.
Throws(n) ==
  LET node == tree[n]
  IN  \/ node.kind = "join" /\ node.conds = <<>>
      \/ node.kind = "source" /\ \E c \in ToSet(node.conds) : c.op = "broken"
      \/ node.kind = "agg" /\ \/ Len(node.kids) # 1
                              \/ TheAggregation.text.of = <<"*">>
                              \/ /\ Len(TheAggregation.text.of) > 1
                                 /\ \E w \in ToSet(TheAggregation.text.of) :
                                      GetSSBColumnType(GetTableName(Word(w)), Word(w)) = "string"

\* A scan's children are dropped before anything reads what became of them, but
\* they are converted first.
AbstractToIr ==
  /\ phase = "ir"
  /\ IF \E n \in Live(tree, root) : Throws(n)
     THEN phase' = "threw" /\ UNCHANGED plan
     ELSE phase' = "columns" /\ plan' = PlanOfTree
  /\ UNCHANGED <<file, sql, at, tree, root>>

-----------------------------------------------------------------------------
(***************************************************************************)
(* ensureCorrectColumnSetup: below the root select, down to a select in    *)
(* the middle, an alias becomes the column it stands for; a column without *)
(* a table that is spelled like an aggregate function is one of AGG, one   *)
(* that contains an operator one of MAP.                                   *)
(***************************************************************************)
\* mapStringToAggFunc ignores case; two spellings stand for all.
NamesAggFunc(text) ==
  /\ IsPlain(text)
  /\ text.of[1] \in {"SUM", "COUNT", "MIN", "MAX", "AVG", "sum", "count", "min", "max", "avg"}

ApplyAlias(col, inScope) ==
  LET named == { s \in ToSet(Query.selections) : inScope /\ s.as # "" /\ Word(s.as) = col.text }
      text == IF named = {} THEN col.text ELSE RemoveAllWhitespace((CHOOSE s \in named : TRUE).text)
  IN  [col EXCEPT !.text = text,
                  !.table = IF @ \notin {"", "Default"} THEN @
                            ELSE IF NamesAggFunc(text) THEN "AGG"
                            ELSE IF ContainsArithMapOp(text) THEN "MAP" ELSE @]

InScope(n) ==
  \A m \in ({n} \cup Ancestors(plan, Len(plan), n)) \ {Len(plan)} : plan[m].op # "select"

HasColumns(n) == plan[n].op \notin {"table", "empty"}

EnsureCorrectColumnSetup ==
  /\ phase = "columns"
  /\ phase' = "done"
  /\ plan' = [n \in DOMAIN plan |->
                IF ~HasColumns(n) THEN plan[n]
                ELSE [plan[n] EXCEPT
                        !.in = [i \in DOMAIN @ |-> ApplyAlias(@[i], InScope(n))],
                        !.out = IF plan[n].op \in {"group", "sort"} THEN @
                                ELSE [i \in DOMAIN @ |-> ApplyAlias(@[i], InScope(n))]]]
  /\ UNCHANGED <<file, sql, at, tree, root>>

Next == \/ PruneHash \/ PruneGather \/ PruneOther
        \/ Enrich \/ AbstractToIr \/ EnsureCorrectColumnSetup

Spec == Init /\ [][Next]_vars

-----------------------------------------------------------------------------
(***************************************************************************)
(* Properties.                                                             *)
(***************************************************************************)
(***************************************************************************)
(* What the file and the query say, before anything is done to them.       *)
(***************************************************************************)
FileKinds(kind) == { n \in DOMAIN file : KindOf(file[n].type) = kind }

\* A scan, or the heap scan above the scans that make its bitmap.
FileScans ==
  { n \in FileKinds("source") :
      \A m \in FileKinds("source") \ {n} : n \notin Live(file, m) }

ScannedTables == { ReadPlan(file)[n].table : n \in FileScans }

IsJoinCondition(c) ==
  /\ c.op = "=" /\ c.more = {}
  /\ GetTableFromColumn(c.left) # "" /\ GetTableFromColumn(c.right) # ""
  /\ GetTableFromColumn(c.left) # GetTableFromColumn(c.right)

JoinConditions == SelectSeq(sql.where, IsJoinCondition)

IsFilter(c) == c.right = "" /\ c.op \in {"=", "<", "<=", "between"} /\ c.more \subseteq {c.left}

\* The two sides of every join have a condition between them.
NoCrossProduct ==
  LET f == ReadPlan(file)
      tables[n \in DOMAIN f] ==
        (IF n \in FileScans THEN {f[n].table} ELSE {}) \cup UNION {tables[k] : k \in ToSet(f[n].kids)}
  IN  \A n \in FileKinds("join") :
        \E c \in ToSet(JoinConditions) :
          \/ Between(c, tables[f[n].kids[1]], tables[f[n].kids[2]])
          \/ Between(c, tables[f[n].kids[2]], tables[f[n].kids[1]])

UnderGather(n) ==
  \E g \in DOMAIN file : file[g].type \in Gather /\ n \in Live(file, g)

\* If the query aggregates, the plan does so above what the workers do.
AggregatesAbove ==
  Query.aggregations # <<>> => \E n \in FileKinds("agg") : ~UnderGather(n)

\* What is sorted by: an alias stands for what it names.
SortTexts == { Unaliased(o.field) : o \in ToSet(Query.sorting) }
SelectTexts == { s.text : s \in ToSet(sql.select) }

\* All scans are below one chain of aggregates and sorts, with a limit on top.
ChainFrom(b) ==
  /\ \A n \in 1..b : KindOf(file[n].type) \notin {"agg", "sort", "result"}
  /\ \A n \in (b + 1)..Len(file) :
       /\ file[n].kids = <<n - 1>>
       /\ \/ file[n].type \in {"Aggregate"} \cup Sorts \cup Gather
          \/ file[n].type = "Limit" /\ n = Len(file)

JoinsFirst == \E b \in DOMAIN file : ChainFrom(b)

\* The plan scans every table that the query names.
TablesScanned ==
  \A text \in SelectTexts \cup ToSet(sql.group) \cup SortTexts :
    \A w \in ToSet(text.of) : GetTableFromColumn(w) \in ScannedTables \cup {""}

\* What the shipped queries and plans have in common: simple conditions, one
\* aggregate in capitals over columns of numbers, aliases for it only that are not
\* columns, names the catalog knows, no blanks in what is sorted by, and no
\* aggregate there that is not selected.
RegularNames ==
  /\ \A s \in ToSet(sql.select) :
       IF IsAggregation(s.text)
       THEN /\ IsAggColumn(s.text) /\ GetTableFromColumn(s.as) = ""
            /\ \/ s.text.of = <<"*">>
               \/ \A w \in ToSet(s.text.of) : GetTableName(Word(w)) # "Default"
       ELSE s.as = "" /\ GetTableName(s.text) # "Default"
  /\ Len(Query.aggregations) <= 1
  /\ \A k \in ToSet(sql.group) : GetTableName(k) # "Default"
  /\ \A k \in SortTexts : /\ ~k.blank /\ NamedIn(k) # "Default"
                          /\ IsAggColumn(k) => k \in SelectTexts

RegularTypes ==
  \A s \in ToSet(Query.aggregations) :
    s.text.of # <<"*">> /\ s.text.fn # "AVG" /\ ToSet(s.text.of) \cap StringCols = {}

RegularConditions ==
  /\ \A c \in ToSet(sql.where) : IsJoinCondition(c) \/ IsFilter(c)
  /\ Len(JoinConditions) = Cardinality(ScannedTables) - 1

\* Only operators that convertToAbstract knows, joins with a condition, and above
\* them an aggregate and a sort if and only if the query has them; the aggregate
\* that counts is not one of the workers below a Gather.
RegularFile ==
  /\ \A n \in DOMAIN file :
       \/ KindOf(file[n].type) \notin {"empty", "result"}
       \/ file[n].type \in Gather \cup MakesBitmap \cup {"Hash"}
  /\ NoCrossProduct /\ JoinsFirst
  /\ FileKinds("sort") # {} <=> sql.order # <<>>
  /\ AggregatesAbove
  /\ Query.aggregations = <<>> => FileKinds("agg") = {} /\ sql.group = <<>>

Regular == RegularNames /\ RegularTypes /\ RegularConditions /\ RegularFile

(***************************************************************************)
(* The same query for the SQL front end; its aggregate is called total and *)
(* the argument of that expr.                                              *)
(***************************************************************************)
NameIn(text) == IF IsPlain(text) THEN text.of[1] ELSE "total"

QueryOfSql ==
  [from    |-> sql.from,
   joins   |-> [i \in DOMAIN JoinConditions |-> <<JoinConditions[i].left, JoinConditions[i].right>>],
   filters |-> LET f == SelectSeq(sql.where, LAMBDA c : ~IsJoinCondition(c))
               IN  [i \in DOMAIN f |-> <<f[i].left>>],
   aggs    |-> [i \in DOMAIN Query.aggregations |->
                  [op |-> IF Query.aggregations[i].text.fn = "SUM" THEN "sum" ELSE "agg",
                   of |-> Query.aggregations[i].text.of, via |-> "expr", as |-> "total"]],
   group   |-> [i \in DOMAIN sql.group |-> NameIn(sql.group[i])],
   order   |-> [i \in DOMAIN sql.order |->
                  <<NameIn(Unaliased(sql.order[i].by)), sql.order[i].dir # "DESC">>],
   select  |-> [i \in DOMAIN sql.select |-> NameIn(sql.select[i].text)]]

NameOf(col) ==
  CASE col.table = "MAP" /\ col = MapColumn                 -> "expr"
    [] col.table = "AGG" /\ col.text = AggColumn.text       -> "total"
    [] IsPlain(col.text) /\ GetTableName(col.text) = col.table -> col.text.of[1]
    [] OTHER                                                -> "unknown"

Named(p) ==
  [n \in DOMAIN p |->
     IF p[n].op = "table" THEN p[n]
     ELSE [p[n] EXCEPT !.in = [i \in DOMAIN @ |-> NameOf(@[i])]]]

TablesBelow(p, n) == { p[m].out[1] : m \in { k \in Live(p, n) : p[k].op = "table" } }

\* A node with what is below it; the joins come in another order.
Described(p, n) ==
  [op    |-> p[n].op, orders |-> p[n].orders,
   reads |-> IF p[n].op = "join" THEN <<>> ELSE p[n].in,
   joins |-> IF p[n].op = "join" THEN ToSet(p[n].in) ELSE {},
   below |-> IF p[n].op = "join" THEN {} ELSE { p[m].op : m \in Live(p, n) } \cup TablesBelow(p, n)]

Census(p) ==
  LET all == [n \in DOMAIN p |-> Described(p, n)]
  IN  [d \in ToSet(all) |-> Cardinality({ n \in DOMAIN p : all[n] = d })]

\* For every plan PostgreSQL may make of a regular query (in whatever order and
\* kind of joins, with partial aggregates, double sorts, hashes and gathers) the
\* two front ends produce the same operators in the same order above the joins,
\* and neither an exception nor the crash on a missing aggregate stops this one.
FrontEndsAgree ==
  Regular => /\ phase \notin {"threw", "crashed"}
             /\ phase = "done" => Census(Named(plan)) = Census(PlanOf(QueryOfSql))

\* pruneTree: however much is cut out and rewired, at every moment what hangs below
\* the root is free of cycles, each table is scanned once, and each join is there.
TablesKept ==
  phase \in {"prune", "enrich"} =>
    LET here == Live(tree, root)
        scans == { n \in here \cap FileKinds("source") : n \in FileScans }
    IN  /\ \A n \in here : \A k \in KidsOf(tree, n) : k < n
        /\ scans = FileScans
        /\ FileKinds("join") \subseteq here

\* A join reads its first column from its first child and the second one from its
\* second, whichever way the condition is written and the plan is joined.
JoinSides ==
  phase \in {"columns", "done"} =>
    \A n \in DOMAIN plan :
      plan[n].op = "join" =>
        \A side \in {1, 2} : plan[n].in[side].table \in TablesBelow(plan, plan[n].kids[side])

Written(p, n) ==
  UNION { ToSet(p[m].out) :
            m \in { k \in Live(p, n) \ {n} : p[k].op \notin {"table", "group", "sort"} } }

\* A column of a base table with its type, or one an operator below writes.
Resolves(p, n, col) ==
  \/ col \in Written(p, n)
  \/ /\ IsPlain(col.text) /\ col.table \in TablesBelow(p, n)
     /\ GetTableFromColumn(col.text.of[1]) = col.table
     /\ col.type = IF col.text.of[1] \in StringCols THEN "string" ELSE "int"

\* Every column that an operator names, under the name, the table and the type it
\* has there, is one that exists: true for the names of the shipped queries and
\* every plan that joins before it aggregates and sorts.  Blanks or small letters
\* in an aggregate, an alias for a column or like one, AVG and a plan that
\* aggregates in the workers only are what breaks it.
ColumnsResolve ==
  phase = "done" /\ RegularNames /\ RegularTypes /\ AggregatesAbove
                 /\ JoinsFirst /\ TablesScanned =>
    \A n \in DOMAIN plan :
      HasColumns(n) => \A i \in DOMAIN plan[n].in : Resolves(plan, n, plan[n].in[i])
=============================================================================
