------------------------ MODULE MCDynamicSupervisor -------------------------
(* Small instances of DynamicSupervisor.                                   *)
EXTENDS DynamicSupervisor

OneStatic == <<"s">>

Servers == [c \in Children |-> "gen_server"]
ServerThenTask == [c \in Children |-> IF c \in Dynamic THEN "task" ELSE "gen_server"]

\* Servers whose starts fail in every way, under each strategy.
Failing ==
    [strategy : {"one_for_one", "one_for_all", "rest_for_one"}, kind : {Servers},
     faults : {{"slow", "error", "early_crash"}, {"error", "early_crash"}}, failures : {2},
     requests : {1}]

\* A task that clients add, under each strategy.
TaskAdded ==
    [strategy : {"one_for_one", "one_for_all", "rest_for_one"}, kind : {ServerThenTask},
     faults : {{}}, failures : {1}, requests : {2}]

\* Servers that may be slow, and a third request: a child added again after its
\* start was given up.
Slow ==
    [strategy : {"one_for_one"}, kind : {Servers}, faults : {{"slow"}},
     failures : {0}, requests : {3}]
      \cup [strategy : {"one_for_one"}, kind : {Servers}, faults : {{"slow"}},
            failures : {1}, requests : {2}]

\* Both clients terminate the child that one of them has added, while one fails.
Demanding ==
    [strategy : {"one_for_one"}, kind : {Servers}, faults : {{}},
     failures : {1}, requests : {3}]

\* Clients that do not wait for their replies.
Impatient ==
    [strategy : {"one_for_one"}, kind : {Servers}, faults : {{"late"}},
     failures : {1}, requests : {2}]

SomeSetups == Failing \cup TaskAdded \cup Slow \cup Demanding \cup Impatient
=============================================================================
