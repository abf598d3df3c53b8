---------------------------- MODULE MCSupervisor ----------------------------
(* Small instances of Supervisor.                                          *)
EXTENDS Supervisor

Servers == [c \in Children |-> "gen_server"]
ServerThenTask == [c \in Children |-> IF c = 1 THEN "gen_server" ELSE "task"]

\* Two servers under each strategy.
ServersFailing ==
    [strategy : {"one_for_one", "one_for_all", "rest_for_one"}, max_restarts : {2},
     window_passes : {FALSE}, kind : {Servers}, faults : {{"error", "early_crash"}}]

\* A server and a task that may be slow, under one_for_one.
TaskFailing ==
    [strategy : {"one_for_one"}, max_restarts : {1}, window_passes : {TRUE},
     kind : {ServerThenTask}, faults : {{"slow", "error", "early_crash"}}]

Failing == ServersFailing \cup TaskFailing

\* Servers that start without a fault, in an order that matters.
Dependent ==
    [strategy : {"one_for_all", "rest_for_one"}, max_restarts : {2},
     window_passes : {FALSE}, kind : {Servers}, faults : {{}}]

\* Servers that only crash, each on its own.
Independent ==
    [strategy : {"one_for_one"}, max_restarts : {2},
     window_passes : {FALSE}, kind : {Servers}, faults : {{}}]

NoSignals == {}
=============================================================================
