-------------------------- MODULE MCSequentializer --------------------------
(* Every plan over four nodes: node n may have up to two children, chosen  *)
(* among the nodes below it and null, also twice the same.                 *)
EXTENDS Sequentializer

MCNode == 1..4
MCNull == 0
MCRank == [n \in MCNode |-> n]

Lower(n) == 0..(n - 1)
ChildLists(n) ==
    {<<>>} \cup {<<a>> : a \in Lower(n)} \cup {<<a, b>> : a, b \in Lower(n)}

MCPlans ==
    {p \in [MCNode -> UNION {ChildLists(n) : n \in MCNode}] :
        \A n \in MCNode : p[n] \in ChildLists(n)}
=============================================================================
