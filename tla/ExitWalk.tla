------------------------------ MODULE ExitWalk ------------------------------
(***************************************************************************)
(* Inside one call of the runtime: the recursion of _notify_exit, one      *)
(* linked process, one severed process at a time                           *)
(* (runtime/backends/asyncio_backend/backend.py).  Nothing suspends while  *)
(* it runs, so the variables of ProcessRuntime keep the state before the   *)
(* call and the walk edits what it leaves behind.  What it does to the     *)
(* links while it walks over them is what ProcessRuntime sums up in        *)
(* Cascade and NotifyExit.                                                 *)
(***************************************************************************)
EXTENDS ProcessRuntime, Sequences

VARIABLES
    first,    \* the processes the call starts from; {} when there is no walk
    why,      \* the reason of the signal
    todo,     \* those of first from which it has still to start
    visited,  \* the set the calls of one recursion share
    stack,    \* the calls under way, the innermost first: whose, and the
              \* linked processes it has still to look at
    severed,  \* the processes whose call has ended
    left,     \* what the walk leaves of links, monitors, monitored_by, names
    stopped,  \* the processes it cancels
    sent      \* the messages it puts in each mailbox

walkVars == <<first, why, todo, visited, stack, severed, left, stopped, sent>>

Relations == [links |-> links, monitors |-> monitors,
              monitored_by |-> monitored_by, names |-> names]

NoRelations == [links |-> [p \in Pids |-> {}], monitors |-> [r \in Refs |-> NoPid],
                monitored_by |-> [p \in Pids |-> {}], names |-> [n \in Names |-> NoPid]]

NoWalk ==
    /\ first = {} /\ why = CRASH /\ todo = {} /\ visited = {} /\ stack = <<>>
    /\ severed = {} /\ left = NoRelations /\ stopped = {} /\ sent = NoMessage

-----------------------------------------------------------------------------
Begin(roots, reason) ==
    /\ first = {} /\ roots # {}
    /\ first' = roots /\ why' = reason /\ todo' = roots
    /\ visited' = {} /\ stack' = <<>> /\ severed' = {}
    /\ left' = Relations /\ stopped' = {} /\ sent' = NoMessage

\* exit(q, reason) with a reason that is not a graceful one.
BeginExit(q, reason) ==
    /\ q \in table
    /\ reason \notin {SHUTDOWN, SUPERVISOR_SHUTDOWN}
    /\ Begin({q}, reason)

\* The loop of _handle_process_exit: exit() on each linked process that does not
\* trap exits.
BeginCrash(p) ==
    /\ p \in table
    /\ Begin((links[p] \cap table) \ Trapping, CRASH)

\* Fault: the links are taken apart before the loop.
CallOnUnlinked(v) == [pid |-> v, todo |-> {}]

\* The links are copied before the loop.
CallOn(v) == [pid |-> v, todo |-> left.links[v]]

\* The next process exit() is called on: a recursion of its own, with a new set.
NextRoot(r) ==
    /\ stack = <<>>
    /\ r \in todo
    /\ todo' = todo \ {r}
    /\ visited' = {r}
    /\ stack' = <<CallOn(r)>>
    /\ stopped' = IF Traps(r) THEN stopped ELSE stopped \cup {r}
    /\ UNCHANGED <<first, why, severed, left, sent>>

LookedAt(n) == [stack EXCEPT ![1] = [pid |-> @.pid, todo |-> @.todo \ {n}]]

\* linked is not in the table.
Skip(n) ==
    /\ n \notin table
    /\ stack' = LookedAt(n)
    /\ UNCHANGED <<visited, stopped, sent>>

\* linked traps exits.
Tell(n) ==
    /\ n \in table /\ Traps(n)
    /\ stack' = LookedAt(n)
    /\ sent' = [sent EXCEPT ![n] = @ \cup {EXIT(Head(stack).pid, why)}]
    /\ UNCHANGED <<visited, stopped>>

\* Otherwise it is cancelled and, unless it has been visited, called on.
Follow(n) ==
    /\ n \in table /\ ~Traps(n)
    /\ stopped' = stopped \cup {n}
    /\ visited' = visited \cup {n}
    /\ stack' = IF n \in visited THEN LookedAt(n) ELSE <<CallOn(n)>> \o LookedAt(n)
    /\ UNCHANGED sent

LookAt(n) ==
    /\ stack # <<>>
    /\ n \in Head(stack).todo
    /\ Skip(n) \/ Tell(n) \/ Follow(n)
    /\ UNCHANGED <<first, why, todo, severed, left>>

\* The watchers of v that a DOWN reaches.
DownsOf(v, w) ==
    {DOWN(4, ref, v, why) : ref \in {r \in left.monitored_by[v] :
                                       Watcher(r) = w /\ w \in table \cap WithMailbox}}

\* After the loop: the watchers are told, and both halves of each link and of
\* each monitor are undone, where the other process is in the table.
Sever ==
    LET v == Head(stack).pid
    IN /\ stack # <<>> /\ Head(stack).todo = {}
       /\ stack' = Tail(stack)
       /\ severed' = severed \cup {v}
       /\ sent' = [w \in Pids |-> sent[w] \cup DownsOf(v, w)]
       /\ left' = [links |-> [p \in Pids |->
                      IF p = v THEN {}
                      ELSE IF p \in left.links[v] \cap table THEN left.links[p] \ {v}
                           ELSE left.links[p]],
                   monitors |-> [r \in Refs |->
                      IF r \in left.monitored_by[v] /\ Watcher(r) \in table
                        THEN NoPid ELSE left.monitors[r]],
                   monitored_by |-> [left.monitored_by EXCEPT ![v] = {}],
                   names |-> [n \in Names |->
                      IF SpawnName[v] = n THEN NoPid ELSE left.names[n]]]
       /\ UNCHANGED <<first, why, todo, visited, stopped>>

WalkStep ==
    \/ \E q \in Pids, reason \in ExitReasons : BeginExit(q, reason)
    \/ \E p \in Pids : BeginCrash(p) \/ NextRoot(p) \/ LookAt(p)
    \/ Sever

(***************************************************************************)
(* A walk may begin in any state of the runtime.                           *)
(***************************************************************************)
WalkNext ==
    \/ first = {} /\ Next /\ UNCHANGED walkVars
    \/ WalkStep /\ UNCHANGED vars

WalkSpec == Init /\ NoWalk /\ [][WalkNext]_<<vars, walkVars>>

-----------------------------------------------------------------------------
WalkDone == first # {} /\ todo = {} /\ stack = <<>>

\* Whatever the link graph, the monitors and the order in which sets are iterated,
\* the recursion ends having severed exactly the processes that links connect to
\* where it started without passing through one that traps exits.  Though it takes
\* the links apart while it walks over them, and starts afresh for each linked
\* process of a crash, nobody is skipped; both halves of each link and monitor are
\* gone; and each watcher and each trapping neighbour has been told of each, as
\* ProcessRuntime's NotifyExit says.
WalkIsCascade ==
    WalkDone =>
        LET V == Cascade(first)
        IN /\ severed = V
           /\ stopped = {v \in V : ~Traps(v)}
           /\ left = [links |-> LinksWithout(V), monitors |-> MonitorsWithout(V),
                      monitored_by |-> MonitoredByWithout(V), names |-> NamesWithout(V)]
           /\ \A q \in Pids : sent[q] = ExitsTo(q, V, why) \cup DownsTo(q, V, 4, why)

=============================================================================
