------------------------------ MODULE MCNodes ------------------------------
EXTENDS Nodes

CONSTANTS a, b, p, q

MCHome == [x \in {p, q} |-> IF x = p THEN a ELSE b]
MCMaxOps == [x \in {p, q} |-> IF x = p THEN 2 ELSE 1]
Same == [x \in {a, b} |-> 1]
Differ == [x \in {a, b} |-> IF x = a THEN 1 ELSE 2]
MCStarts == {[cookie |-> Same, published |-> {a, b}],
             [cookie |-> Differ, published |-> {b}]}
=============================================================================
