---------------------------- MODULE SpamScheduler ----------------------------
(***************************************************************************)
(* The SPAM scheduler (spam/core.py, scheduler.py, runtime.py, data.py):   *)
(* one scheduler per core with a ready queue, slices of processes, work    *)
(* stealing and manual migration.  All schedulers and slices are tasks of  *)
(* one event loop: a turn of a scheduler's loop runs up to its sleep, a    *)
(* slice up to an await of a handler.  A load of n stands for n / 5.       *)
(***************************************************************************)
EXTENDS Naturals, Sequences, SequencesExt, FiniteSets, FiniteSetsExt

CONSTANTS
    Cores,
    Pids,            \* the processes spawned
    Calls, Casts,    \* the messages sent to them, each once
    Impatient,       \* the calls with a timeout
    Outcomes,        \* what handlers do: "done", "later" (NoReply), "stop",
                     \* "raise" (out of a worker's or supervisor's handler)
    steal_threshold, yield_check_interval,
    MaxSlices        \* bound: slices at one time

ASSUME SpamAssumption ==
    {steal_threshold, yield_check_interval, MaxSlices} \subseteq Nat

VARIABLES
    initialized,      \* of the runtime
    table,            \* process_table
    state,            \* of each process; "none" before it is spawned
    message_queue, current_core,
    active_processes, ready_queue,  \* of each core
    slices,           \* the tasks that run a slice of a process: core, progress
    call,             \* how each message stands; an answer is a call's only
    moved             \* history: the processes that ever changed core

vars == <<initialized, table, state, message_queue, current_core,
          active_processes, ready_queue, slices, call, moved>>

Load(c) == 3 * Len(ready_queue[c]) + 2 * Cardinality(active_processes[c])

Init ==
    /\ initialized = FALSE /\ table = {} /\ moved = {}
    /\ slices = [p \in Pids |-> <<>>]
    /\ state = [p \in Pids |-> "none"]
    /\ message_queue = [p \in Pids |-> <<>>]
    /\ current_core = [p \in Pids |-> 0]
    /\ active_processes = [c \in Cores |-> {}]
    /\ ready_queue = [c \in Cores |-> <<>>]
    /\ call = [m \in Calls \union Casts |-> "unsent"]

Initialize ==
    /\ ~initialized /\ table = {}
    /\ initialized' = TRUE
    /\ UNCHANGED <<table, state, message_queue, current_core, active_processes,
                   ready_queue, slices, call, moved>>

-----------------------------------------------------------------------------
AddTo(c, p) ==
    /\ active_processes' = [active_processes EXCEPT ![c] = @ \union {p}]
    /\ ready_queue' = [ready_queue EXCEPT ![c] = Append(@, p)]
    /\ current_core' = [current_core EXCEPT ![p] = c]
    /\ state' = [state EXCEPT ![p] = "ready"]

\* _select_core_for_process: the least loaded, save for a small random term.
LeastLoaded == {c \in Cores : \A d \in Cores : Load(c) <= Load(d)}

Spawn(p) ==
    /\ initialized /\ state[p] = "none"
    /\ table' = table \union {p}
    /\ \E c \in LeastLoaded : AddTo(c, p)
    /\ UNCHANGED <<initialized, message_queue, slices, call, moved>>

\* remove_process, then unregister; a slice of p that runs goes on.
Terminate(p) ==
    /\ initialized /\ p \in table
    /\ LET c == current_core[p]
       IN /\ active_processes' = [active_processes EXCEPT ![c] = @ \ {p}]
          /\ ready_queue' = [ready_queue EXCEPT ![c] = RemoveFirst(@, p)]
    /\ state' = [state EXCEPT ![p] = "terminated"]
    /\ table' = table \ {p}
    /\ UNCHANGED <<initialized, message_queue, current_core, slices, call, moved>>

\* migrate_process: removed from its core, which marks it terminated, and
\* added to the other.  As a bound, only a process that never moved.
Migrate(p, c) ==
    /\ p \in table \ moved /\ current_core[p] # c
    /\ LET old == current_core[p]
       IN /\ active_processes' = [active_processes EXCEPT
                 ![old] = @ \ {p}, ![c] = @ \union {p}]
          /\ ready_queue' = [ready_queue EXCEPT
                 ![old] = RemoveFirst(@, p), ![c] = Append(@, p)]
    /\ current_core' = [current_core EXCEPT ![p] = c]
    /\ state' = [state EXCEPT ![p] = "ready"]
    /\ moved' = moved \union {p}
    /\ UNCHANGED <<initialized, table, message_queue, slices, call>>

\* Mutant: a process that is woken is left out of the queue.
WakeUnqueued(p) ==
    /\ state' = [state EXCEPT ![p] = IF @ = "waiting" THEN "ready" ELSE @]
    /\ UNCHANGED ready_queue
\* What send_message does after it has queued the message.
Wake(p) ==
    LET c == current_core[p]
    IN IF state[p] # "waiting" THEN UNCHANGED <<state, ready_queue>>
       ELSE /\ state' = [state EXCEPT ![p] = "ready"]
            /\ ready_queue' = IF p \in ToSet(ready_queue[c]) THEN ready_queue
                              ELSE [ready_queue EXCEPT ![c] = Append(@, p)]

Send(p, m) ==
    /\ initialized /\ p \in table
    /\ call[m] = "unsent"
    /\ message_queue' = [message_queue EXCEPT ![p] = Append(@, m)]
    /\ call' = [call EXCEPT ![m] = IF m \in Calls THEN "waiting" ELSE "sent"]
    /\ Wake(p)
    /\ UNCHANGED <<initialized, table, current_core, active_processes, slices,
                   moved>>

\* call_process: its streams are closed when the timeout strikes.
CallTimeout(m) ==
    /\ m \in Impatient /\ call[m] = "waiting"
    /\ call' = [call EXCEPT ![m] = "timed_out"]
    /\ UNCHANGED <<initialized, table, state, message_queue, current_core,
                   active_processes, ready_queue, slices, moved>>

-----------------------------------------------------------------------------
Slice(c) == [core |-> c, at |-> "created", handled |-> 0]

\* The places of p in a queue.
Places(queue, p) == {i \in DOMAIN queue : queue[i] = p}

\* _get_next_process, until the queue is empty: how often it gives p.
Dispatched(c, p) ==
    IF p \in active_processes[c] /\ state[p] = "ready"
    THEN Cardinality(Places(ready_queue[c], p)) ELSE 0
WithSlices(c, n) == [p \in Pids |-> slices[p] \o [k \in 1 .. n[p] |-> Slice(c)]]

\* can_be_stolen, of the processes in the victim's queue; whether it was
\* active lately is left to chance.
Stealable(v) == {i \in DOMAIN ready_queue[v] :
                    /\ ready_queue[v][i] \in active_processes[v]
                    /\ state[ready_queue[v][i]] \in {"ready", "waiting"}}
Victims(c) == {v \in Cores \ {c} :
                  Load(v) > 2 * Cardinality(active_processes[c]) + 5 * steal_threshold}

\* Mutant: the victim keeps what was stolen from it.
TakenKept(v, c, p) == [active_processes EXCEPT ![c] = @ \union {p}]
Taken(v, c, p) ==
    [active_processes EXCEPT ![v] = @ \ {p}, ![c] = @ \union {p}]

\* A turn of run_scheduler_loop: every ready process in the queue is given a
\* slice.  Then the core may steal, if its load is below 1; what it stole is
\* given a slice at once and, being put in the queue as well, a second one.
DispatchOnly(c) ==
    /\ slices' = WithSlices(c, [p \in Pids |-> Dispatched(c, p)])
    /\ ready_queue' = [ready_queue EXCEPT ![c] = <<>>]
    /\ UNCHANGED <<state, current_core, active_processes, moved>>
DispatchAndSteal(c) ==
    /\ 2 * Cardinality(active_processes[c]) < 5
    /\ \E v \in Victims(c) : \E last \in Stealable(v) :
          LET p == ready_queue[v][last]
          IN /\ \A i \in Stealable(v) : i <= last
             /\ ready_queue' = [ready_queue EXCEPT
                    ![c] = <<>>, ![v] = RemoveFirst(@, p)]
             /\ active_processes' = Taken(v, c, p)
             /\ current_core' = [current_core EXCEPT ![p] = c]
             /\ state' = [state EXCEPT ![p] = "ready"]
             /\ moved' = moved \union {p}
             /\ slices' = WithSlices(c, [q \in Pids |->
                              Dispatched(c, q) + IF q = p THEN 2 ELSE 0])
CoreLoop(c) ==
    /\ initialized
    /\ DispatchOnly(c) \/ DispatchAndSteal(c)
    /\ Cardinality(UNION {{p} \X DOMAIN slices'[p] : p \in Pids}) <= MaxSlices
    /\ UNCHANGED <<initialized, table, message_queue, call>>

-----------------------------------------------------------------------------
\* Mutant: a process that yields always waits.
YieldWaiting(p, c) ==
    /\ state' = [state EXCEPT ![p] = "waiting"]
    /\ UNCHANGED ready_queue
\* _handle_voluntary_yield, which overrides whatever state the process is in.
Yield(p, c) ==
    IF message_queue'[p] # <<>>
    THEN /\ state' = [state EXCEPT ![p] = "ready"]
         /\ ready_queue' = [ready_queue EXCEPT ![c] = Append(@, p)]
    ELSE /\ state' = [state EXCEPT ![p] = "waiting"]
         /\ UNCHANGED ready_queue

\* _run_process_messages goes on: the next message, or the end of the slice.
\* now is the state of the process at this point.
ShouldYield(c) ==
    /\ Load(c) > 15
    /\ \E d \in Cores : 2 * Load(d) < 5
GoesOn(p, i, now, handled) ==
    LET c == slices[p][i].core
    IN IF message_queue[p] = <<>> \/ handled >= yield_check_interval \/ ShouldYield(c)
       THEN /\ UNCHANGED message_queue
            /\ Yield(p, c)
            /\ slices' = [slices EXCEPT ![p] = RemoveAt(@, i)]
       ELSE /\ message_queue' = [message_queue EXCEPT ![p] = Tail(@)]
            /\ state' = [state EXCEPT ![p] = now]
            /\ slices' = [slices EXCEPT ![p][i] =
                             [core |-> c, at |-> Head(message_queue[p]), handled |-> handled]]
            /\ UNCHANGED ready_queue

Begin(p, i) ==
    /\ slices[p][i].at = "created"
    /\ GoesOn(p, i, "running", 0)
    /\ UNCHANGED <<initialized, table, current_core, active_processes, call, moved>>

Answered(m, outcome) ==
    IF call[m] = "waiting" /\ outcome # "later"
    THEN [call EXCEPT ![m] = "answered"] ELSE call

\* A handler returns.  Answering a caller that has gone raises, and an
\* exception ends the message loop; a stop is only noted in the state.
HandlerEnds(p, i, outcome) ==
    LET s == slices[p][i]
        m == s.at
    IN /\ m # "created"
       /\ call' = Answered(m, outcome)
       /\ IF outcome = "raise" \/ (call[m] = "timed_out" /\ outcome # "later")
          THEN /\ UNCHANGED message_queue
               /\ Yield(p, s.core)
               /\ slices' = [slices EXCEPT ![p] = RemoveAt(@, i)]
          ELSE GoesOn(p, i, IF outcome = "stop" THEN "terminated" ELSE state[p],
                      s.handled + 1)
       /\ UNCHANGED <<initialized, table, current_core, active_processes, moved>>

\* The time slice ends while a handler waits: the message is gone.
Preempt(p, i) ==
    LET s == slices[p][i]
    IN /\ s.at # "created"
       /\ slices' = [slices EXCEPT ![p] = RemoveAt(@, i)]
       /\ IF state[p] = "running"
          THEN /\ state' = [state EXCEPT ![p] = "ready"]
               /\ ready_queue' = [ready_queue EXCEPT ![s.core] = Append(@, p)]
          ELSE UNCHANGED <<state, ready_queue>>
       /\ UNCHANGED <<initialized, table, message_queue, current_core,
                      active_processes, call, moved>>

\* SPAMRuntime.shutdown: processes are marked, loops end, slices go on.
Shutdown ==
    /\ initialized
    /\ initialized' = FALSE
    /\ state' = [p \in Pids |-> IF \E c \in Cores : p \in active_processes[c]
                                THEN "terminated" ELSE state[p]]
    /\ UNCHANGED <<table, message_queue, current_core, active_processes,
                   ready_queue, slices, call, moved>>

Next == \/ Initialize \/ Shutdown
        \/ \E p \in Pids : Spawn(p) \/ Terminate(p)
        \/ \E p \in Pids, c \in Cores : Migrate(p, c)
        \/ \E p \in Pids, m \in Calls \union Casts : Send(p, m)
        \/ \E m \in Calls : CallTimeout(m)
        \/ \E c \in Cores : CoreLoop(c)
        \/ \E p \in Pids : \E i \in DOMAIN slices[p] :
              Begin(p, i) \/ Preempt(p, i) \/ \E o \in Outcomes : HandlerEnds(p, i, o)

Spec == Init /\ [][Next]_vars

-----------------------------------------------------------------------------
\* Through spawns, thefts, migrations and terminations, each process that the
\* runtime knows is on exactly one core, the one it believes to be on, and no
\* core keeps one that is gone (_perform_steal, core.py).
PlacedOnce ==
    /\ \A p \in table, c \in Cores :
          p \in active_processes[c] <=> c = current_core[p]
    /\ UNION {active_processes[c] : c \in Cores} \subseteq table

\* No wake-up is lost between a slice that finds its queue empty and a message
\* that arrives, even with two slices of one process under way.
NoLostWakeup ==
    \A p \in Pids : state[p] = "waiting" => message_queue[p] = <<>>

\* A process that never changed core has at most one slice or place in a
\* queue, and while it is ready it has one: it neither runs twice at a time
\* nor starves.  (A stolen or migrated process may do both.)
ScheduledOnce ==
    \A p \in table \ moved :
        LET turns == Len(slices[p]) + Cardinality(Places(ready_queue[current_core[p]], p))
        IN turns <= 1 /\ (state[p] = "ready" => turns = 1)

\* A process has one core; as long as that stays the same it has one turn on it; and it
\* gets that turn whenever a message waits.
TurnsKept == PlacedOnce /\ ScheduledOnce /\ NoLostWakeup
==============================================================================
