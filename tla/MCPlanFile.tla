----------------------------- MODULE MCPlanFile -----------------------------
(***************************************************************************)
(* Plan files in the shapes of src/pb-plans, with three tables, and        *)
(* queries in the shapes of the benchmark's and around them.               *)
(***************************************************************************)
EXTENDS JsonPlan

MCColumns == << "c_city", "c_custkey", "c_region", "d_datekey", "d_year",
                "lo_cost", "lo_custkey", "lo_orderdate", "lo_revenue", "c_title" >>

MCTableOf ==
  [c \in {"customer", "c_city", "c_custkey", "c_region", "c_title"} |-> "customer"]
  @@ [c \in {"dates", "d_datekey", "d_year"} |-> "dates"]
  @@ [c \in {"lineorder", "lo_cost", "lo_custkey", "lo_orderdate", "lo_revenue"} |-> "lineorder"]
  @@ ("MAP" :> "MAP") @@ ("expr" :> "MAP") @@ ("AGG" :> "AGG") @@ ("total" :> "AGG")

MCStringCols == {"c_city", "c_region", "c_title"}

-----------------------------------------------------------------------------
\* A file is built like a plan: the children, then the node.
Over_(subs, type, table) ==
  LET all == FoldLeft(LAMBDA done, s :
                        [nodes |-> done.nodes \o [i \in DOMAIN s |->
                             [s[i] EXCEPT !.kids = [j \in DOMAIN @ |-> @[j] + Len(done.nodes)]]],
                         roots |-> Append(done.roots, Len(done.nodes) + Len(s))],
                      [nodes |-> <<>>, roots |-> <<>>], subs)
  IN  Append(all.nodes, [type |-> type, table |-> table, kids |-> all.roots])

Op(type, sub) == Over_(<<sub>>, type, "")
Scan(type, t) == Over_(<<>>, type, t)
Pair(type, a, b) == Over_(<<a, b>>, type, "")

LO == Scan("Seq Scan", "lineorder")
C == Scan("Seq Scan", "customer")
D == Scan("Seq Scan", "dim_date")
BitmapLO == Over_(<<Scan("Bitmap Index Scan", "")>>, "Bitmap Heap Scan", "lineorder")
BitmapAndLO ==
  Over_(<<Pair("BitmapAnd", Scan("Bitmap Index Scan", ""), Scan("Bitmap Index Scan", ""))>>,
        "Bitmap Heap Scan", "lineorder")
HashJoin(a, b) == Pair("Hash Join", a, Op("Hash", b))
Loop(a, b) == Pair("Nested Loop", a, b)

\* The joins of the facts with two tables, in the orders and kinds there are.
Joins == { HashJoin(HashJoin(LO, C), D),
           HashJoin(Loop(C, Scan("Index Scan", "lineorder")), D),
           HashJoin(D, HashJoin(BitmapLO, C)),
           Loop(D, Loop(BitmapAndLO, Scan("Index Scan", "customer"))) }

\* Not so regular: an operator the code does not know in the middle, above a scan
\* or instead of one, and the product of the small tables.
OddJoins == { Loop(HashJoin(LO, C), Op("Memoize", Scan("Index Scan", "dim_date"))),
              Loop(Op("Materialize", HashJoin(LO, C)), D),
              Loop(HashJoin(LO, C), Scan("Index Only Scan", "dim_date")),
              HashJoin(LO, Loop(C, D)) }

Agg(s) == Op("Aggregate", s)
Sort(s) == Op("Sort", s)
Merge(s) == Op("Gather Merge", s)
Workers(s) == Op("Gather", s)
More(s) == Op("Incremental Sort", s)

\* What is above the joins when there is no order.
Summed(j) == { Agg(j), Agg(Workers(j)), Agg(Workers(Agg(j))) }

\* With an order that the group takes over, and with one of its own.
Ordered(j) ==
  { Agg(Sort(j)), Agg(Merge(Sort(Agg(j)))), Agg(Merge(Sort(j))), Agg(Merge(Agg(Sort(j)))),
    Sort(Agg(j)), Sort(Agg(Sort(j))), More(Agg(Merge(Sort(Agg(j))))), More(Agg(Merge(Sort(j)))),
    More(Agg(Merge(Agg(Sort(j))))), Sort(Workers(Agg(j))) }

Plain(j) == { j, Workers(j) }
PlainOrdered(j) == { Sort(j), Merge(Sort(j)), Sort(Workers(j)), Op("Limit", Sort(j)) }

-----------------------------------------------------------------------------
Cond(left, op, right) == [left |-> left, op |-> op, right |-> right, more |-> {}]
Both(c) == [c EXCEPT !.more = {c.left}]
Item(fn, of, blank, as) == [text |-> [fn |-> fn, of |-> of, blank |-> blank], as |-> as]
By(text, dir) == [by |-> text, dir |-> dir]

ByDate == Cond("lo_orderdate", "=", "d_datekey")
ByCustomer == Cond("lo_custkey", "=", "c_custkey")
Years == << Cond("d_year", "<=", ""), Cond("d_year", "<", "") >>

Revenue == Item("SUM", <<"lo_revenue">>, FALSE, "revenue")
Profit == Item("SUM", <<"lo_revenue", "lo_cost">>, TRUE, "profit")

\* As query 1 of the benchmark with two tables, as 3 and as 4.
Q1 == [from |-> "lineorder", select |-> <<Profit>>,
       where |-> << ByDate, ByCustomer, Cond("d_year", "=", ""), Cond("lo_cost", "between", "") >>,
       group |-> <<>>, order |-> <<>>]
Q3 == [from |-> "lineorder",
       select |-> << Item("", <<"c_city">>, FALSE, ""), Item("", <<"d_year">>, FALSE, ""), Revenue >>,
       where |-> << ByCustomer, ByDate, Cond("c_region", "=", "") >> \o Years,
       group |-> << Word("c_city"), Word("d_year") >>,
       order |-> << By(Word("d_year"), "ASC"), By(Word("revenue"), "DESC") >>]
Q4 == [Q3 EXCEPT !.select = << Item("", <<"d_year">>, FALSE, ""), Item("", <<"c_city">>, FALSE, ""), Profit >>,
                 !.where = << Cond("c_custkey", "=", "lo_custkey"), ByDate, Both(Cond("c_city", "=", "")) >>,
                 !.order = << By(Word("d_year"), ""), By(Word("c_city"), "") >>]
Detail == [Q3 EXCEPT !.select = << Item("", <<"lo_revenue">>, FALSE, ""), Item("", <<"c_city">>, FALSE, "") >>,
                     !.group = <<>>, !.order = <<>>]
DetailOrdered == [Detail EXCEPT !.order = << By(Word("c_city"), "DESC") >>]

\* Queries the second parser reads otherwise.
OddQueries ==
  { [Q3 EXCEPT !.where = @ \o <<c>>] :
      c \in { Cond("c_city", "between blank", ""), Cond("c_region", "=", "c_city"),
              Cond("c_city", "=", "x_y"), [Cond("c_city", "=", "") EXCEPT !.more = {"d_year"}] } }
  \cup { [Q4 EXCEPT !.order = << By(Word("profit"), "DESC") >>],
         [Q3 EXCEPT !.select[3] = Item("sum", <<"lo_revenue">>, FALSE, "revenue")],
         [Q3 EXCEPT !.select[3] = Item("AVG", <<"lo_revenue">>, FALSE, "revenue")],
         [Q3 EXCEPT !.select[3] = Item("MIN", <<"c_city">>, FALSE, "revenue")],
         [Q3 EXCEPT !.select[3] = Item("COUNT", <<"*">>, FALSE, "revenue")],
         [Q3 EXCEPT !.select[3] = Item("SUM", <<"lo_cost">>, FALSE, "lo_revenue")],
         [Q3 EXCEPT !.select[3] = Item("COUNT", <<"lo_cost">>, FALSE, "revenue")],
         [Q3 EXCEPT !.select[3] = Item("SUM", <<"lo_cost", "c_city">>, FALSE, "revenue")],
         [Q3 EXCEPT !.select[1].as = "city", !.group[1] = Word("city")],
         [Q3 EXCEPT !.select[1].text = Word("c_title"), !.group[1] = Word("c_title")],
         [Q3 EXCEPT !.select = Append(@, Item("SUM", <<"lo_cost">>, FALSE, "cost"))],
         [Q3 EXCEPT !.select = Front(@), !.order = Front(@)],
         [Q3 EXCEPT !.select[3].as = "", !.order = << By(Word("sum"), "DESC") >>],
         [Q3 EXCEPT !.where[1].op = ">="], [Q3 EXCEPT !.where[2].op = "!="],
         [Q3 EXCEPT !.order = <<>>] }

MCInputs ==
  UNION { (Summed(j) \X {Q1}) \cup (Ordered(j) \X {Q3, Q4})
          \cup (Plain(j) \X {Detail}) \cup (PlainOrdered(j) \X {DetailOrdered})
            : j \in Joins \cup OddJoins }
  \cup ({More(Agg(Merge(Agg(Sort(HashJoin(HashJoin(LO, C), D))))))} \X OddQueries)
  \cup {<<Sort(Loop(Agg(HashJoin(LO, C)), D)), Q3>>}
=============================================================================
