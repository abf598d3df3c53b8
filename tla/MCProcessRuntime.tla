-------------------------- MODULE MCProcessRuntime --------------------------
(* Small instances of ProcessRuntime.                                      *)
EXTENDS ExitWalk, TLC

CONSTANTS
    p1, p2, p3, p4, n1,
    MaxDeferred    \* bound: exit signals only while fewer clean-ups are pending

NoNames == {}
NobodyNamed == [p \in Pids |-> NoName]
TrapperNamed == [p \in Pids |-> IF p = p4 THEN n1 ELSE NoName]
TwoRefs == 0 .. 1
OneRef == {0}

Symmetry == Permutations(Pids \ Trapping)

\* Nothing a step does, other than Receive, depends on what waits in a mailbox.
NoMail == <<table, task, cancel, burst, deferred, links, monitors, monitored_by, names,
            walkVars>>

\* Who spawns or stops another process is seen only in messages, so the program
\* outside stands for every process but the one that holds the loop.
Someone == {System, burst} \ {NoPid}

Spawned(p) == \E a \in Someone : Spawn(a, p)
Stopped(p) ==
    \/ Return(p)
    \/ Crash(p)
    \/ /\ Cardinality(deferred) < MaxDeferred
       /\ \E a \in Someone \cup {p}, reason \in ExitReasons : Exit(a, p, reason)

(* Processes that link and fail; nobody monitors.                          *)
LinkNext ==
    \/ \E a, p \in Pids : SpawnLink(a, p) \/ Link(a, p) \/ Unlink(a, p)
    \/ \E p \in Pids : Spawned(p) \/ Stopped(p) \/ EventLoop(p) \/ Receive(p)
    \/ Shutdown

(* All run, linked in any way; at most one of them monitors another.       *)
Connected ==
    /\ table = Pids
    /\ task = [p \in Pids |-> "running"]
    /\ links \in {g \in [Pids -> SUBSET Pids] :
                    \A p, q \in Pids : (q \in g[p]) <=> (p \in g[q] /\ p # q)}
    /\ monitors \in [Refs -> Pids \cup {NoPid}]
    /\ Cardinality({r \in Refs : monitors[r] # NoPid}) <= 1
    /\ monitored_by = [p \in Pids |-> {r \in Refs : monitors[r] = p}]
    /\ names = [n \in Names |-> p4]
    /\ cancel = {} /\ burst = NoPid /\ deferred = {}
    /\ mailbox = NoMessage

(* In such states, and as long as nobody is gone, exit() or a crash is     *)
(* followed step by step.                                                  *)
AllRun == task = [p \in Pids |-> "running"] /\ cancel = {} /\ table = Pids

LinkInit == (Init \/ Connected) /\ NoWalk

LinkSpec ==
    /\ LinkInit
    /\ [][\/ /\ first = {} /\ \A r \in Refs : monitors[r] = NoPid
             /\ LinkNext /\ UNCHANGED walkVars
          \/ (first = {} => AllRun) /\ WalkStep /\ UNCHANGED vars]_<<vars, walkVars>>

(* p1 monitors the others; p2 links to them; p4 has a name.                *)
WatchNext ==
    \/ \E p \in Pids : SpawnMonitor(p1, p) \/ Monitor(p1, p)
    \/ \E p \in Pids \ {p2} : Link(p2, p)
    \/ \E ref \in Refs : Demonitor(p1, ref, TRUE)
    \/ \E a \in Someone, n \in Names : Register(a, n, p4) \/ Unregister(a, n) \/ Whereis(a, n)
    \/ \E a \in Someone : Send(a, p1)
    \/ \E p \in Pids : Spawned(p) \/ Stopped(p) \/ EventLoop(p) \/ Receive(p)
    \/ Shutdown
WatchInit == Init /\ NoWalk
WatchSpec == WatchInit /\ [][WatchNext /\ UNCHANGED walkVars]_<<vars, walkVars>> /\ Fairness
=============================================================================
