---------------------------- MODULE MCGenServer -----------------------------
(* Small instances of GenServer.                                           *)
EXTENDS GenServer

CONSTANTS c1, c2, b1, s1, s2

Nobody == {}
Everybody == Procs
ButC1AndB1 == Procs \ {c1, b1}
FirstUsesSecond == {<<s1, s2>>}
FirstOnly == {s1}
FirstTwice == [s \in Servers |-> IF s = s1 THEN 2 ELSE 1]
Once == [s \in Servers |-> 1]
OneCall == [p \in Procs |-> 1]
OneCallOfThree == [p \in Procs |-> IF p \in {c1, c2, b1, <<s1, 1>>} THEN 1 ELSE 0]
TwoFromC1 == [p \in Procs |-> IF p = c1 THEN 2 ELSE 1]
=============================================================================
