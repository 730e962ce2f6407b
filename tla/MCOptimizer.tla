---------------------------- MODULE MCOptimizer ----------------------------
(***************************************************************************)
(* Queries over the star schema, in the shapes of the benchmark's and some *)
(* around them.                                                            *)
(***************************************************************************)
EXTENDS Optimizer

MCColumns == << "minimum", "revenue", "second", "price*discount", "revenue-cost",
                "c_city", "c_custkey", "c_region",
                "d_datekey", "d_year",
                "lo_cost", "lo_custkey", "lo_discount", "lo_orderdate", "lo_price", "lo_revenue",
                "s_nation", "s_suppkey" >>

MCTableOf ==
  [c \in {"AGG", "minimum", "revenue", "second"} |-> "AGG"]
  @@ [c \in {"MAP", "price*discount", "revenue-cost"} |-> "MAP"]
  @@ [c \in {"GROUP", "idx", "srt", "clus"} |-> "GROUP"]
  @@ [c \in {"SORT", "sorted"} |-> "SORT"]
  @@ [c \in {"customer", "c_city", "c_custkey", "c_region"} |-> "customer"]
  @@ [c \in {"date", "d_datekey", "d_year"} |-> "date"]
  @@ [c \in {"supplier", "s_nation", "s_suppkey"} |-> "supplier"]
  @@ [c \in {"lineorder", "lo_cost", "lo_custkey", "lo_discount", "lo_orderdate",
             "lo_price", "lo_revenue", "lo_suppkey"} |-> "lineorder"]

MCUnique == {"c_custkey", "d_datekey", "s_suppkey"}

Sum(of, via) == [op |-> "sum", of |-> of, via |-> via, as |-> "revenue"]

Dates == <<"lo_orderdate", "d_datekey">>
Customers == <<"lo_custkey", "c_custkey">>

\* Q1: a sum over arithmetic, no group.
Q1 == [from |-> "lineorder", joins |-> <<Dates>>,
       filters |-> << <<"d_year">>, <<"lo_discount">>, <<"lo_discount">> >>,
       aggs |-> << Sum(<<"lo_price", "lo_discount">>, "price*discount") >>,
       group |-> <<>>, order |-> <<>>, select |-> <<"revenue">>]

\* Q2: grouped, ordered by one of the keys, the other way round.
Q2 == [from |-> "lineorder", joins |-> <<Dates, Customers>>,
       filters |-> << <<"c_region">> >>,
       aggs |-> << Sum(<<"lo_revenue">>, "") >>,
       group |-> <<"d_year", "c_city">>, order |-> << <<"c_city", FALSE>> >>,
       select |-> <<"revenue", "d_year", "c_city">>]

\* Q3: ordered by a key and by the sum.
Q3 == [Q2 EXCEPT !.joins = <<Customers, Dates>>,
                 !.filters = << <<"c_region">>, <<"d_year">>, <<"d_year">> >>,
                 !.order = << <<"d_year", TRUE>>, <<"revenue", FALSE>> >>]

\* Q4: a grouped sum over arithmetic.
Q4 == [Q2 EXCEPT !.aggs = << Sum(<<"lo_revenue", "lo_cost">>, "revenue-cost") >>,
                 !.order = << <<"d_year", TRUE>>, <<"c_city", TRUE>> >>]

\* No aggregate: a sort right over the joins.
Q5 == [Q2 EXCEPT !.aggs = <<>>, !.group = <<>>, !.select = <<"c_city", "lo_revenue">>,
                 !.order = << <<"lo_revenue", FALSE>> >>]

\* Two aggregates.
Q6 == [Q2 EXCEPT !.aggs = << Sum(<<"lo_revenue">>, ""),
                             [op |-> "sum", of |-> <<"lo_cost">>, via |-> "", as |-> "second"] >>,
                 !.select = <<"revenue", "second", "d_year">>]

\* Another function than a sum.
Q7 == [Q2 EXCEPT !.aggs = << [op |-> "agg", of |-> <<"lo_revenue">>, via |-> "", as |-> "minimum"] >>,
                 !.select = <<"minimum", "d_year">>]

\* Grouped by the key of the join.
Q8 == [Q4 EXCEPT !.group = <<"c_custkey">>, !.order = <<>>, !.select = <<"c_custkey", "revenue">>]

\* One table, with and without a filter.
Q9 == [from |-> "customer", joins |-> <<>>, filters |-> << <<"c_region">> >>, aggs |-> <<>>,
       group |-> <<>>, order |-> << <<"c_city", TRUE>> >>, select |-> <<"c_custkey", "c_city">>]
Q10 == [Q9 EXCEPT !.filters = <<>>]
Q11 == [Q10 EXCEPT !.order = <<>>]

\* A filter that compares two columns; a join condition written the other way.
Q12 == [Q1 EXCEPT !.filters = << <<"lo_cost", "lo_price">>, <<"d_year">> >>,
                  !.joins = << <<"d_datekey", "lo_orderdate">> >>]

\* One column of the facts in two joins.
Q13 == [Q5 EXCEPT !.joins = << <<"lo_custkey", "c_custkey">>, <<"lo_custkey", "s_suppkey">> >>,
                  !.select = <<"s_nation", "c_city", "lo_revenue">>]

\* A join on a key of a table joined before.
Q14 == [Q13 EXCEPT !.joins = << <<"lo_custkey", "c_custkey">>, <<"c_custkey", "s_suppkey">> >>]

\* The same without a filter on the customers.
Q15 == [Q13 EXCEPT !.filters = <<>>]

\* Nothing of the facts is read above their join with the customers.
Q16 == [Q9 EXCEPT !.from = "lineorder", !.joins = <<Customers>>]

\* As Q14, and nothing of the customers is read above the second join.
Q17 == [Q14 EXCEPT !.select = <<"s_nation", "lo_revenue">>]

\* One table and a sum of all its rows.
Q18 == [Q11 EXCEPT !.aggs = << Sum(<<"c_custkey">>, "") >>, !.select = <<"revenue">>]

Queries == {Q1, Q2, Q3, Q4, Q5, Q6, Q7, Q8, Q9, Q10, Q11, Q12, Q13, Q14, Q15, Q16, Q17, Q18}

Options == [semiJoins : BOOLEAN, mergeSubsetSort : BOOLEAN, grandChildOpt : BOOLEAN,
            matType : Strategies]

(***************************************************************************)
(* Where InputsAligned, and in the last case SemiJoinsOnlyFilter, is known *)
(* to fail, by cause.                                                      *)
(***************************************************************************)
\* The default strategy does not apply a sort, or a group, to the result of
\* an aggregate below it: the tables below never include AGG.
AggregateNotMoved(q, o) ==
  LET merged == /\ o.mergeSubsetSort
                /\ \A i \in DOMAIN q.order : Contains(q.group, q.order[i][1])
  IN  /\ o.matType = "std" /\ q.aggs # <<>>
      /\ \/ q.order # <<>> /\ ~merged
         \/ q.group # <<>> /\ (Len(q.aggs) > 1 \/ q.aggs[1].op # "sum")

\* The late strategies lose values that another operator stands between.
ValuesLost(q, o) == o.matType # "std" /\ (q = Q6 \/ (q = Q8 /\ o.matType = "lateMatHybrid"))

\* A query of one table that filters, groups or sorts it: the table is not
\* found below (FoundBelow), and no strategy applies the position lists.
LoneTableMoved(q) ==
  Aliased(q) /\ (q.filters # <<>> \/ q.group # <<>> \/ q.order # <<>>)

\* Two operators below a late materialisation have a column of one name.
NameTaken(q, o) == o.matType # "std" /\ q \in {Q14, Q15, Q17}

\* The joins of all but these two form stars.
ASSUME StarsAssumption == { q \in Queries : ~StarJoins(q) } = {Q14, Q17}

\* A semi join discards the side of a column that is unique in its table,
\* although the side holds other tables too.
SideDiscarded(q, o) == o.semiJoins /\ q = Q17

MCCases ==
  { c \in Queries \X Options :
      ~\/ AggregateNotMoved(c[1], c[2]) \/ ValuesLost(c[1], c[2])
       \/ LoneTableMoved(c[1]) \/ NameTaken(c[1], c[2])
       \/ SideDiscarded(c[1], c[2]) }

Defaults == [semiJoins |-> FALSE, mergeSubsetSort |-> FALSE, grandChildOpt |-> FALSE,
             matType |-> "std"]

\* Ordered by the sum, with the options of a client started without flags.
MCSortedSum == {Q1, Q3} \X {Defaults}
=============================================================================
