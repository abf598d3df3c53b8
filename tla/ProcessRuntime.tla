--------------------------- MODULE ProcessRuntime ---------------------------
(***************************************************************************)
(* The process core of the asyncio backend of otpylib                      *)
(* (runtime/backends/asyncio_backend/backend.py and process.py): the       *)
(* process table, links, monitors, exit signals and the name registry of   *)
(* one node without a distribution layer.                                  *)
(*                                                                         *)
(* A backend method awaits only unbounded queues, which never suspend, so  *)
(* one call is one step.  What interleaves is everything between two       *)
(* calls: the tasks of the event loop, and the clean-up that               *)
(* exit(pid, KILLED) leaves to loop.call_soon.                             *)
(***************************************************************************)
EXTENDS Naturals, FiniteSets

CONSTANTS
    Pids,          \* the processes that may be spawned; a pid is never reused
    Trapping,      \* those spawned with trap_exits=True
    WithMailbox,   \* those spawned with mailbox=True
    Names,         \* names of the registry
    SpawnName,     \* the name each pid is spawned under, or NoName
    NoName, NoPid,
    System,        \* the sender of an exit signal issued outside any process
    RefNumbers,    \* bound: the numbers a monitor reference may carry
    ExitReasons    \* the reasons callers give to exit()

NORMAL == "normal"
SHUTDOWN == "shutdown"
SUPERVISOR_SHUTDOWN == "supervisor_shutdown"
KILLED == "killed"
CRASH == "crash"          \* an exception instance, or any other term

Reasons == {NORMAL, SHUTDOWN, SUPERVISOR_SHUTDOWN, KILLED, CRASH}

ASSUME ConstantsAssumption ==
    /\ Trapping \subseteq Pids
    /\ WithMailbox \subseteq Pids
    /\ SpawnName \in [Pids -> Names \cup {NoName}]
    /\ NoName \notin Names
    /\ NoPid \notin Pids
    /\ System \notin Pids
    /\ RefNumbers \subseteq Nat
    /\ ExitReasons \subseteq Reasons

\* "#Ref<watcher.n>" is the pair of the watcher and the number.
Refs == Pids \X RefNumbers
Watcher(ref) == ref[1]

EXIT(from, reason) == [tag |-> "EXIT", from |-> from, reason |-> reason]

\* The two shapes of a DOWN tuple: (DOWN, ref, pid, reason) and
\* (DOWN, ref, process, pid, reason).
DOWN(arity, ref, pid, reason) ==
    [tag |-> "DOWN", arity |-> arity, ref |-> ref, pid |-> pid, reason |-> reason]
USER == [tag |-> "USER"]

Messages ==
    {EXIT(f, r) : f \in Pids \cup {System}, r \in Reasons}
      \cup {DOWN(a, ref, p, r) : a \in {4, 5}, ref \in Refs, p \in Pids, r \in Reasons}
      \cup {USER}

VARIABLES
    table,         \* _processes: the pids it holds
    task,          \* the state of each process's asyncio task
    cancel,        \* tasks with a cancellation that is not delivered yet
    burst,         \* the process that runs on although its own task is cancelled
    deferred,      \* _cleanup_process calls queued with call_soon
    links,         \* Process.links
    monitors,      \* Process.monitors of the reference's watcher: ref -> target
    monitored_by,  \* Process.monitored_by: refs (each names its watcher)
    names,         \* _name_registry
    mailbox        \* the distinct messages waiting in each mailbox

vars == <<table, task, cancel, burst, deferred, links, monitors, monitored_by,
          names, mailbox>>

TaskStates == {"absent", "created", "running", "done"}

(***************************************************************************)
(* A mailbox keeps which messages wait, not their order or number: nothing *)
(* here reads more.  Receive removes a message; leaving a second copy of   *)
(* it behind is a stuttering step.                                         *)
(***************************************************************************)
Init ==
    /\ table = {}
    /\ task = [p \in Pids |-> "absent"]
    /\ cancel = {}
    /\ burst = NoPid
    /\ deferred = {}
    /\ links = [p \in Pids |-> {}]
    /\ monitors = [r \in Refs |-> NoPid]
    /\ monitored_by = [p \in Pids |-> {}]
    /\ names = [n \in Names |-> NoPid]
    /\ mailbox = [p \in Pids |-> {}]

-----------------------------------------------------------------------------
(* Who may take a step.                                                    *)

\* Code outside every process: it runs when no process holds the loop.
Outside == burst = NoPid

\* The body of a runs: its task has started and has not been cancelled, or it
\* cancelled itself and has not reached a suspension point yet.
Runs(a) ==
    /\ task[a] = "running"
    /\ IF a \in cancel THEN burst = a ELSE burst = NoPid

Caller(a) == IF a = System THEN Outside ELSE Runs(a)

\* After a call, a process whose own task is now cancelled holds the loop
\* until it suspends.
KeepLoop(a, cancelled) == burst' = IF a \in cancelled THEN a ELSE NoPid

-----------------------------------------------------------------------------
(* _notify_exit: its effect on all visited.  ExitWalk has its recursion.   *)

Traps(p) == p \in Trapping \cap WithMailbox

\* Fault: the recursion goes on through processes that trap exits.
CascadeThroughTraps(roots) ==
    {q \in table :
        \A S \in SUBSET table :
            (/\ roots \subseteq S
             /\ \A v \in S, n \in table : n \in links[v] => n \in S)
            => q \in S}

\* The processes _notify_exit visits from those in roots: through links that
\* are in the table and are not trapping.
Cascade(roots) ==
    {q \in table :
        \A S \in SUBSET table :
            (/\ roots \subseteq S
             /\ \A v \in S, n \in table : (n \in links[v] /\ ~Traps(n)) => n \in S)
            => q \in S}

CancelAll(P) == cancel \cup {p \in P : task[p] \in {"created", "running"}}

\* EXIT messages put in t's mailbox when the processes in V are notified.
ExitsTo(t, V, reason) ==
    IF t \in table /\ Traps(t) THEN {EXIT(v, reason) : v \in {u \in V : t \in links[u]}}
                               ELSE {}

\* Fault: a graceful end is not reported to the watchers.
DownsToUnlessShutdown(w, V, arity, reason) ==
    IF w \in table \cap WithMailbox /\ reason # SHUTDOWN
      THEN {DOWN(arity, d[1], d[2], reason) :
               d \in {e \in Refs \X V : Watcher(e[1]) = w /\ e[1] \in monitored_by[e[2]]}}
      ELSE {}

\* DOWN messages put in w's mailbox for the watched processes in V.
DownsTo(w, V, arity, reason) ==
    IF w \in table \cap WithMailbox
      THEN {DOWN(arity, d[1], d[2], reason) :
               d \in {e \in Refs \X V : Watcher(e[1]) = w /\ e[1] \in monitored_by[e[2]]}}
      ELSE {}

LinksWithout(V) == [p \in Pids |-> IF p \in V THEN {} ELSE links[p] \ V]
\* Fault: the watchers keep their entries for the processes in V.
MonitorsKept(V) == monitors
MonitorsWithout(V) ==
    [r \in Refs |-> IF \E v \in V : r \in monitored_by[v] THEN NoPid ELSE monitors[r]]
MonitoredByWithout(V) == [p \in Pids |-> IF p \in V THEN {} ELSE monitored_by[p]]

\* process.name is popped whoever holds the name now.
NamesWithout(V) ==
    [n \in Names |-> IF \E v \in V : SpawnName[v] = n THEN NoPid ELSE names[n]]

-----------------------------------------------------------------------------
(* Spawning and running.                                                   *)

\* spawn, spawn_link and spawn_monitor: no suspension between their parts.
NewProcess(p) ==
    /\ task[p] = "absent"
    /\ table' = table \cup {p}
    /\ task' = [task EXCEPT ![p] = "created"]
    /\ names' = [n \in Names |-> IF n = SpawnName[p] THEN p ELSE names[n]]

Spawn(a, p) ==
    /\ Caller(a)
    /\ NewProcess(p)
    /\ UNCHANGED <<cancel, burst, deferred, links, monitors, monitored_by, mailbox>>

LinkPair(a, b) ==
    links' = [links EXCEPT ![a] = @ \cup {b}, ![b] = @ \cup {a}]

\* The number of the reference _monitor_local gives to a's next monitor.
NextRef(a) == <<a, Cardinality({r \in Refs : Watcher(r) = a /\ monitors[r] # NoPid})>>

AddMonitor(a, t) ==
    /\ NextRef(a) \in Refs
    /\ monitors' = [monitors EXCEPT ![NextRef(a)] = t]
    /\ monitored_by' = [monitored_by EXCEPT ![t] = @ \cup {NextRef(a)}]

SpawnLink(a, p) ==
    /\ Runs(a)
    /\ a \in table
    /\ NewProcess(p)
    /\ LinkPair(a, p)
    /\ UNCHANGED <<cancel, burst, deferred, monitors, monitored_by, mailbox>>

SpawnMonitor(a, p) ==
    /\ Runs(a)
    /\ a \in table
    /\ NewProcess(p)
    /\ AddMonitor(a, p)
    /\ UNCHANGED <<cancel, burst, deferred, links, mailbox>>

\* The first step of the task: run_process starts.
Start(p) ==
    /\ Outside
    /\ task[p] = "created" /\ p \notin cancel
    /\ task' = [task EXCEPT ![p] = "running"]
    /\ UNCHANGED <<table, cancel, burst, deferred, links, monitors, monitored_by,
                   names, mailbox>>

\* A task cancelled before its first step never enters run_process, so nothing
\* handles its exit and nothing removes it from the table.
StopUnstarted(p) ==
    /\ Outside
    /\ task[p] = "created" /\ p \in cancel
    /\ task' = [task EXCEPT ![p] = "done"]
    /\ cancel' = cancel \ {p}
    /\ UNCHANGED <<table, burst, deferred, links, monitors, monitored_by, names, mailbox>>

\* A self-cancelled process reaches a suspension point.
Suspend(p) ==
    /\ burst = p
    /\ burst' = NoPid
    /\ UNCHANGED <<table, task, cancel, deferred, links, monitors, monitored_by,
                   names, mailbox>>

-----------------------------------------------------------------------------
(* The end of a process: run_process's finally block.                      *)

IsNormalExit(reason) == reason \in {NORMAL, SHUTDOWN}

\* The processes p's abnormal end propagates to through self.exit(linked).
ExitSignalled(p, reason) ==
    LET targets == (links[p] \cap table) \ Trapping
    IN IF IsNormalExit(reason) \/ targets = {} THEN {} ELSE Cascade(targets)

\* (EXIT, p, reason) to the linked processes that trap.
TrapSignalled(t, p, reason) ==
    IF ~IsNormalExit(reason) /\ t \in (links[p] \cap table) \cap Trapping \cap WithMailbox
      THEN {EXIT(p, reason)} ELSE {}

\* Fault: the peers of p keep their half of the link.
ForgetKeepsPeerLinks(p, V) ==
    /\ table' = table \ {p}
    /\ links' = [LinksWithout(V) EXCEPT ![p] = {}]
    /\ monitors' = [r \in Refs |->
                      IF Watcher(r) = p THEN NoPid ELSE MonitorsWithout(V \cup {p})[r]]
    /\ monitored_by' = MonitoredByWithout(V \cup {p})
    /\ names' = [n \in Names |->
                   IF SpawnName[p] = n /\ names[n] = p THEN NoPid ELSE NamesWithout(V)[n]]

\* _cleanup_process drops p from the table, with all the object p held.
Forget(p, V) ==
    /\ table' = table \ {p}
    /\ links' = LinksWithout(V \cup {p})
    /\ monitors' = [r \in Refs |->
                      IF Watcher(r) = p THEN NoPid ELSE MonitorsWithout(V \cup {p})[r]]
    /\ monitored_by' = MonitoredByWithout(V \cup {p})
    /\ names' = [n \in Names |->
                   IF SpawnName[p] = n /\ names[n] = p THEN NoPid ELSE NamesWithout(V)[n]]

\* _handle_process_exit followed by _cleanup_process.  A process that is no
\* longer in the table (killed, and its deferred clean-up ran first) just ends.
Finish(p, reason) ==
    LET V == IF p \in table THEN ExitSignalled(p, reason) ELSE {}
    IN /\ task' = [task EXCEPT ![p] = "done"]
       /\ cancel' = CancelAll(V) \ {p}
       /\ burst' = NoPid
       /\ IF p \in table
            THEN /\ Forget(p, V)
                 /\ mailbox' = [q \in Pids |->
                       IF q = p THEN {}
                       ELSE mailbox[q] \cup ExitsTo(q, V, reason)
                                       \cup TrapSignalled(q, p, reason)
                                       \cup DownsTo(q, V, 4, reason)
                                       \cup DownsTo(q, {p} \ V, 5, reason)]
            ELSE UNCHANGED <<table, links, monitors, monitored_by, names, mailbox>>
       /\ UNCHANGED deferred

Return(p) == Runs(p) /\ Finish(p, NORMAL)
Crash(p) == Runs(p) /\ Finish(p, CRASH)

\* Fault: the body swallows CancelledError and goes on.
UnwindSwallowed(p) ==
    /\ Outside
    /\ task[p] = "running" /\ p \in cancel
    /\ cancel' = cancel \ {p}
    /\ UNCHANGED <<table, task, burst, deferred, links, monitors, monitored_by,
                   names, mailbox>>

\* CancelledError is delivered: Process.run ends with SHUTDOWN whatever reason
\* the exit signal carried.
Unwind(p) ==
    /\ Outside
    /\ task[p] = "running" /\ p \in cancel
    /\ Finish(p, SHUTDOWN)

\* The call_soon callback of exit(p, KILLED).
DeferredCleanup(p) ==
    /\ Outside
    /\ p \in deferred
    /\ deferred' = deferred \ {p}
    /\ IF p \in table
         THEN /\ Forget(p, {})
              /\ mailbox' = [mailbox EXCEPT ![p] = {}]
         ELSE UNCHANGED <<table, links, monitors, monitored_by, names, mailbox>>
    /\ UNCHANGED <<task, cancel, burst>>

-----------------------------------------------------------------------------
(* Exit signals.                                                           *)

NotifyExit(V, reason, extra) ==
    /\ links' = LinksWithout(V)
    /\ monitors' = MonitorsWithout(V)
    /\ monitored_by' = MonitoredByWithout(V)
    /\ names' = NamesWithout(V)
    /\ mailbox' = [q \in Pids |-> mailbox[q] \cup extra[q]
                                     \cup ExitsTo(q, V, reason)
                                     \cup DownsTo(q, V, 4, reason)]

NoMessage == [q \in Pids |-> {}]

\* Fault: the task is left running while its clean-up is scheduled.
ExitKilledUncancelled(a, q) ==
    LET V == Cascade({q})
    IN /\ cancel' = CancelAll(V \ {q})
       /\ deferred' = deferred \cup {q}
       /\ NotifyExit(V, KILLED, NoMessage)

ExitKilled(a, q) ==
    LET V == Cascade({q})
    IN /\ cancel' = CancelAll(V)
       /\ deferred' = deferred \cup {q}
       /\ NotifyExit(V, KILLED, NoMessage)

\* A trapping target gets a message and lives on, but unless the reason is a
\* graceful one its links and watchers are told that it is gone.
ExitTrapped(a, q, reason) ==
    LET V == IF reason \in {SHUTDOWN, SUPERVISOR_SHUTDOWN} THEN {} ELSE Cascade({q})
    IN /\ cancel' = CancelAll(V \ {q})
       /\ NotifyExit(V, reason, [NoMessage EXCEPT ![q] = {EXIT(a, reason)}])
       /\ UNCHANGED deferred

ExitCancelled(a, q, reason) ==
    LET V == IF reason \in {SHUTDOWN, SUPERVISOR_SHUTDOWN} THEN {} ELSE Cascade({q})
    IN /\ cancel' = CancelAll(V \cup {q})
       /\ NotifyExit(V, reason, NoMessage)
       /\ UNCHANGED deferred

\* exit(q, reason), called by process a or from outside.
Exit(a, q, reason) ==
    /\ Caller(a)
    /\ q \in table
    /\ \/ reason = KILLED /\ ExitKilled(a, q)
       \/ reason # KILLED /\ Traps(q) /\ ExitTrapped(a, q, reason)
       \/ reason # KILLED /\ ~Traps(q) /\ ExitCancelled(a, q, reason)
    /\ KeepLoop(a, cancel')
    /\ UNCHANGED <<table, task>>

\* shutdown(): cancel and notify every process, then clear table and registry.
Shutdown ==
    /\ Outside
    /\ table # {}
    /\ cancel' = CancelAll(table)
    /\ table' = {}
    /\ links' = [p \in Pids |-> {}]
    /\ monitors' = [r \in Refs |-> NoPid]
    /\ monitored_by' = [p \in Pids |-> {}]
    /\ names' = [n \in Names |-> NoPid]
    /\ mailbox' = [p \in Pids |-> {}]
    /\ UNCHANGED <<task, burst, deferred>>

-----------------------------------------------------------------------------
(* Links and monitors.                                                     *)

Link(a, b) ==
    /\ Runs(a)
    /\ {a, b} \subseteq table
    /\ LinkPair(a, b)
    /\ UNCHANGED <<table, task, cancel, burst, deferred, monitors, monitored_by,
                   names, mailbox>>

Unlink(a, b) ==
    /\ Runs(a)
    /\ links' = [links EXCEPT ![a] = @ \ {b}, ![b] = @ \ {a}]
    /\ UNCHANGED <<table, task, cancel, burst, deferred, monitors, monitored_by,
                   names, mailbox>>

Monitor(a, t) ==
    /\ Runs(a)
    /\ {a, t} \subseteq table
    /\ AddMonitor(a, t)
    /\ UNCHANGED <<table, task, cancel, burst, deferred, links, names, mailbox>>

\* The flush branch looks for mailbox._queue; the attribute is mailbox.queue.
MailboxHasInnerQueue == FALSE

Flushed(a, ref) == {m \in mailbox[a] : m.tag = "DOWN" => m.ref # ref}

Demonitor(a, ref, flush) ==
    /\ Runs(a)
    /\ a \in table /\ Watcher(ref) = a /\ monitors[ref] # NoPid
    /\ monitors' = [monitors EXCEPT ![ref] = NoPid]
    /\ monitored_by' = [monitored_by EXCEPT ![monitors[ref]] = @ \ {ref}]
    /\ mailbox' = IF flush /\ MailboxHasInnerQueue
                    THEN [mailbox EXCEPT ![a] = Flushed(a, ref)] ELSE mailbox
    /\ UNCHANGED <<table, task, cancel, burst, deferred, links, names>>

-----------------------------------------------------------------------------
(* Messages and names.                                                     *)

Send(a, q) ==
    /\ Caller(a)
    /\ q \in table \cap WithMailbox
    /\ mailbox' = [mailbox EXCEPT ![q] = @ \cup {USER}]
    /\ UNCHANGED <<table, task, cancel, burst, deferred, links, monitors,
                   monitored_by, names>>

Receive(a) ==
    /\ Runs(a)
    /\ a \in table
    /\ \E m \in mailbox[a] : mailbox' = [mailbox EXCEPT ![a] = @ \ {m}]
    /\ UNCHANGED <<table, task, cancel, burst, deferred, links, monitors,
                   monitored_by, names>>

\* Fault: the caller is registered without asking whether it is a process.
RegisterCaller(a, n, p) ==
    /\ Caller(a)
    /\ names[n] = NoPid
    /\ names' = [names EXCEPT ![n] = a]
    /\ UNCHANGED <<table, task, cancel, burst, deferred, links, monitors,
                   monitored_by, mailbox>>

\* register(n, p): nothing asks whether p is alive.
Register(a, n, p) ==
    /\ Caller(a)
    /\ names[n] = NoPid
    /\ task[p] # "absent"
    /\ names' = [names EXCEPT ![n] = p]
    /\ UNCHANGED <<table, task, cancel, burst, deferred, links, monitors,
                   monitored_by, mailbox>>

Unregister(a, n) ==
    /\ Caller(a)
    /\ names' = [names EXCEPT ![n] = NoPid]
    /\ UNCHANGED <<table, task, cancel, burst, deferred, links, monitors,
                   monitored_by, mailbox>>

\* whereis(n) and whereis_name(pid) drop an entry they find dead; send(n) does
\* the former before it sends.
Whereis(a, n) ==
    /\ Caller(a)
    /\ names[n] \notin table \cup {NoPid}
    /\ names' = [names EXCEPT ![n] = NoPid]
    /\ UNCHANGED <<table, task, cancel, burst, deferred, links, monitors,
                   monitored_by, mailbox>>

-----------------------------------------------------------------------------
Body(a) ==
    \/ \E p \in Pids : SpawnLink(a, p) \/ SpawnMonitor(a, p)
    \/ \E b \in Pids : Link(a, b) \/ Unlink(a, b) \/ Monitor(a, b)
    \/ \E ref \in Refs, flush \in BOOLEAN : Demonitor(a, ref, flush)
    \/ Receive(a)

Call(a) ==
    \/ \E p \in Pids : Spawn(a, p)
    \/ \E q \in Pids, reason \in ExitReasons : Exit(a, q, reason)
    \/ \E q \in Pids : Send(a, q)
    \/ \E n \in Names, p \in Pids : Register(a, n, p)
    \/ \E n \in Names : Unregister(a, n) \/ Whereis(a, n)

EventLoop(p) ==
    Start(p) \/ StopUnstarted(p) \/ Suspend(p) \/ Unwind(p) \/ DeferredCleanup(p)

Next ==
    \/ \E a \in Pids : Body(a) \/ Return(a) \/ Crash(a)
    \/ \E a \in Pids \cup {System} : Call(a)
    \/ \E p \in Pids : EventLoop(p)
    \/ Shutdown

(***************************************************************************)
(* Fairness: the event loop runs every task it has scheduled and every     *)
(* call_soon callback.  Nothing is assumed of what process bodies do,      *)
(* except that a self-cancelled one suspends or ends.                      *)
(***************************************************************************)
Fairness == \A p \in Pids : WF_vars(EventLoop(p))

SafetySpec == Init /\ [][Next]_vars
Spec == SafetySpec /\ Fairness

-----------------------------------------------------------------------------
(* Invariants.                                                             *)

\* The type of every variable.
TypeOK ==
    /\ table \subseteq Pids
    /\ task \in [Pids -> TaskStates]
    /\ cancel \subseteq Pids
    /\ burst \in Pids \cup {NoPid}
    /\ deferred \subseteq Pids
    /\ links \in [Pids -> SUBSET Pids]
    /\ monitors \in [Refs -> Pids \cup {NoPid}]
    /\ monitored_by \in [Pids -> SUBSET Refs]
    /\ names \in [Names -> Pids \cup {NoPid}]
    /\ mailbox \in [Pids -> SUBSET Messages]

\* "link creates symmetric links": whatever sequence of links, unlinks, exit
\* signals, crashes and clean-ups ran, a process is linked exactly to those in
\* the table that are linked to it.  Both ends are edited separately in
\* _link_local, _unlink_local, _notify_exit and _cleanup_process; a half link
\* would let one of two linked processes survive the other.
LinksMutual ==
    \A p, q \in Pids :
        q \in links[p] => /\ p \in links[q]
                          /\ p \in table

\* Each monitor a process holds is backed by its target: the target is still in
\* the table and knows the reference, so that its end will be reported.  Broken
\* if any of the paths that forget a process left a watcher's entry behind, or
\* if a reused reference detached a monitor from its target.
MonitorsBacked ==
    \A ref \in Refs :
        monitors[ref] # NoPid =>
            /\ Watcher(ref) \in table
            /\ monitors[ref] \in table
            /\ ref \in monitored_by[monitors[ref]]

\* A task that still runs or may start belongs to a process of the table, unless
\* its cancellation is on its way: no process outlives its entry unnoticed.
LiveTasksKnown ==
    \A p \in Pids :
        task[p] \in {"created", "running"} /\ p \notin table => p \in cancel

-----------------------------------------------------------------------------
(* Action properties.                                                      *)

\* Only exit(p, KILLED) or shutdown() stops a process that traps exits; the end
\* of a linked process, or any other exit signal, never does.
TrapExitsProtects ==
    [][\A p \in cancel' \ cancel :
          Traps(p) => Shutdown \/ \E a \in Pids \cup {System} : Exit(a, p, KILLED)]_vars

\* A process that ends by itself, or unwinds after a cancellation, is reported to
\* everyone who monitors it, in the step that removes it.  (A process that only
\* the deferred clean-up removes is not.)
FinishReported ==
    [][\A p \in table \ table', ref \in Refs :
          /\ task[p] = "running" /\ task'[p] = "done"
          /\ monitors[ref] = p /\ Watcher(ref) # p /\ Watcher(ref) \in WithMailbox
          => \E m \in mailbox'[Watcher(ref)] :
                 m.tag = "DOWN" /\ m.ref = ref /\ m.pid = p]_vars

-----------------------------------------------------------------------------
(* The promise: ExitSignals.                                               *)

Stopping == cancel \cup {p \in Pids : task[p] = "done"}
Watches == {w \in Refs \X Pids : w[1] \in monitored_by[w[2]]}
Bonds == {b \in Pids \X Pids : b[2] \in links[b[1]]}
DownsWaiting ==
    {w \in Refs \X Pids : \E m \in mailbox[Watcher(w[1])] :
        m.tag = "DOWN" /\ m.ref = w[1] /\ m.pid = w[2]}
ExitsWaiting ==
    {e \in Pids \X (Pids \cup {System}) : \E m \in mailbox[e[1]] :
        m.tag = "EXIT" /\ m.from = e[2]}

Signals == INSTANCE ExitSignals WITH
    Protected <- Trapping, Hearing <- WithMailbox,
    known <- table, doomed <- Stopping, killed <- deferred,
    watches <- Watches, bonds <- Bonds,
    reports <- DownsWaiting, exits <- ExitsWaiting

\* The runtime keeps the promise of ExitSignals: through any cascade over the links,
\* with clean-ups still to come and references that are used again, each watcher of a
\* process that goes down is told in that step, each linked process that traps exits
\* is told of a failure and every other one fails too; only a process that was killed
\* is removed without a word; and nobody hears of what did not happen.
KeepsSignals == Signals!Spec

-----------------------------------------------------------------------------
(* Liveness.                                                               *)

\* A process that was running when it was told to stop leaves the table.
CancelledLeaves ==
    \A p \in Pids : (task[p] = "running" /\ p \in cancel) ~> p \notin table

=============================================================================
