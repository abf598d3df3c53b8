----------------------------- MODULE Supervisor -----------------------------
(***************************************************************************)
(* A static supervisor (supervisor/core.py) and its children, with as much *)
(* of the process core as the supervisor can observe: its monitor          *)
(* references, the cancellation of a child, and the EXIT and DOWN tuples   *)
(* in its mailbox.                                                         *)
(*                                                                         *)
(* The supervisor suspends only where it receives: in its loop, and in the *)
(* start_link handshake of a child.  Each step below lies between two      *)
(* receives; those that follow each other without a receive commute with   *)
(* the children's steps between them.                                      *)
(***************************************************************************)
EXTENDS Naturals, FiniteSets, Sequences

CONSTANTS
    N,             \* number of children, in start order 1 .. N
    Setups,        \* the options and children it may be started with
    ExitSignals,   \* reasons with which others call exit() on a child
    MaxStarts,     \* bound: instances of one child
    None

Children == 1 .. N
Kinds == {"gen_server", "task"}

NORMAL == "normal"
SHUTDOWN == "shutdown"
CRASH == "crash"
EndReasons == {NORMAL, SHUTDOWN, CRASH}

ASSUME SupervisorAssumption ==
    /\ N \in Nat \ {0}
    /\ Setups \subseteq
          [strategy : {"one_for_one", "one_for_all", "rest_for_one"},
           max_restarts : Nat,
           window_passes : BOOLEAN,     \* max_seconds may pass between two restarts
           kind : [Children -> Kinds],  \* behaviour of each child
           faults : SUBSET {"slow", "error", "early_crash"}]  \* of a child's start
    /\ ExitSignals \subseteq {SHUTDOWN, CRASH}
    /\ MaxStarts \in Nat \ {0}

Instances == Children \X (1 .. MaxStarts)
Refs == 0 .. N * MaxStarts
ASSUME NoneAssumption == None \notin Instances /\ None \notin Refs

INIT_OK(i) == [tag |-> "INIT_OK", inst |-> i]
INIT_ERROR(i) == [tag |-> "INIT_ERROR", inst |-> i]
DOWN(ref, reason) == [tag |-> "DOWN", ref |-> ref, reason |-> reason]
NOTICE == [tag |-> "NOTICE"]     \* an EXIT tuple or a DOWN tuple of four fields
STOP == [tag |-> "STOP"]         \* the atom SHUTDOWN

Messages ==
    {INIT_OK(i) : i \in Instances} \cup {INIT_ERROR(i) : i \in Instances}
      \cup {DOWN(r, reason) : r \in Refs, reason \in EndReasons} \cup {NOTICE, STOP}

VARIABLES
    setup,      \* the member of Setups this supervisor was started with
    sup,        \* the supervisor: starting, serving, or how it ended
    mailbox,    \* of the supervisor
    refs,       \* the references in Process.monitors of the supervisor
    pid, ref,   \* _ChildState.pid and monitor_ref
    todo,       \* children the supervisor has yet to start
    awaiting,   \* the instance whose init reply it waits for
    buffered,   \* gen_server.start_link's buffered_messages
    recent,     \* len(intensity_times)
    task,       \* each instance: absent, init, up, or the reason it ended with
    cancelled,  \* instances whose cancellation is not delivered yet
    linked,     \* instances linked to the supervisor
    watched     \* Process.monitored_by: the supervisor's reference, or None

supVars == <<sup, pid, ref, todo, awaiting, buffered, recent>>
vars == <<setup, supVars, mailbox, refs, task, cancelled, linked, watched>>

strategy == setup.strategy
MaxRestarts == setup.max_restarts
Running == sup \in {"starting", "serving"}
IsAlive(i) == i # None /\ task[i] \in {"init", "up"}

Init ==
    /\ setup \in Setups
    /\ sup = "starting"
    /\ mailbox = <<>>
    /\ refs = {}
    /\ pid = [c \in Children |-> None]
    /\ ref = [c \in Children |-> None]
    /\ todo = [c \in Children |-> c]
    /\ awaiting = None
    /\ buffered = <<>>
    /\ recent = 0
    /\ task = [i \in Instances |-> "absent"]
    /\ cancelled = {}
    /\ linked = {}
    /\ watched = [i \in Instances |-> None]

-----------------------------------------------------------------------------
(* Children.                                                               *)

Tell(msgs) == mailbox' = IF Running THEN mailbox \o msgs ELSE mailbox

\* The end of an instance as the supervisor hears of it, after the words it
\* sent itself: EXIT over the link if abnormal, then DOWN to the watcher.
End(i, reason, words) ==
    /\ task' = [task EXCEPT ![i] = reason]
    /\ cancelled' = cancelled \ {i}
    /\ linked' = linked \ {i}
    /\ watched' = [watched EXCEPT ![i] = None]
    /\ refs' = refs \ {watched[i]}
    /\ Tell(words \o (IF i \in linked /\ reason = CRASH THEN <<NOTICE>> ELSE <<>>)
                  \o (IF watched[i] # None THEN <<DOWN(watched[i], reason)>> ELSE <<>>))
    /\ UNCHANGED supVars

InitOk(i) ==
    /\ task[i] = "init" /\ i \notin cancelled
    /\ task' = [task EXCEPT ![i] = "up"]
    /\ Tell(<<INIT_OK(i)>>)
    /\ UNCHANGED <<supVars, refs, cancelled, linked, watched>>

\* init raises: the loop reports it and returns.
InitError(i) ==
    /\ "error" \in setup.faults
    /\ task[i] = "init" /\ i \notin cancelled
    /\ End(i, NORMAL, <<INIT_ERROR(i)>>)

Crash(i) ==
    /\ task[i] = "up" /\ i \notin cancelled
    /\ watched[i] # None \/ "early_crash" \in setup.faults
    /\ End(i, CRASH, <<>>)

\* A generic server ends by an exception only.
Return(i) ==
    /\ task[i] = "up" /\ i \notin cancelled
    /\ setup.kind[i[1]] # "gen_server"
    /\ watched[i] # None \/ "early_crash" \in setup.faults
    /\ End(i, NORMAL, <<>>)

Unwind(i) ==
    /\ i \in cancelled
    /\ End(i, SHUTDOWN, <<>>)

CancelSet(S) == cancelled \cup {i \in S : IsAlive(i)}

\* exit(pid, reason) called by somebody else.  An abnormal reason removes links
\* and monitors at once and tells the supervisor with messages it does not read.
ExitChild(i, reason) ==
    /\ IsAlive(i)
    /\ cancelled' = CancelSet({i})
    /\ IF reason = SHUTDOWN
         THEN UNCHANGED <<mailbox, refs, linked, watched>>
         ELSE /\ linked' = linked \ {i}
              /\ watched' = [watched EXCEPT ![i] = None]
              /\ refs' = refs \ {watched[i]}
              /\ Tell((IF i \in linked THEN <<NOTICE>> ELSE <<>>)
                        \o (IF watched[i] # None THEN <<NOTICE>> ELSE <<>>))
    /\ UNCHANGED <<supVars, task>>

-----------------------------------------------------------------------------
(* Starting children.                                                      *)

\* The supervisor's process is gone: what it held is forgotten.
Gone(how) ==
    /\ sup' = how
    /\ mailbox' = <<>>
    /\ refs' = {}
    /\ pid' = [c \in Children |-> None]
    /\ ref' = [c \in Children |-> None]
    /\ todo' = <<>>
    /\ awaiting' = None
    /\ buffered' = <<>>
    /\ recent' = 0
    /\ linked' = {}
    /\ watched' = [i \in Instances |-> None]
    /\ UNCHANGED task

\* Fault: the loop returns without telling the children.
StopChildrenSkipped(how) == Gone(how) /\ UNCHANGED cancelled

\* _shutdown_children, then the loop returns.
StopChildren(how) ==
    /\ cancelled' = CancelSet({pid[c] : c \in Children} \ {None})
    /\ Gone(how)

Started(c) == Cardinality({k \in 1 .. MaxStarts : task[<<c, k>>] # "absent"})

\* start_link up to its first receive.
Launch(c) ==
    /\ Started(c) < MaxStarts
    /\ LET i == <<c, Started(c) + 1>>
       IN /\ task' = [task EXCEPT ![i] = "init"]
          /\ linked' = linked \cup {i}
          /\ awaiting' = i
    /\ pid' = [pid EXCEPT ![c] = None]
    /\ ref' = [ref EXCEPT ![c] = None]
    /\ UNCHANGED <<sup, mailbox, refs, todo, buffered, cancelled, watched>>

\* Fault: the limit is the number of restarts that is already too many.
ExceedsAtLimit(count) == count >= MaxRestarts

\* _record_restart.
Exceeds(count) == count > MaxRestarts

StartNext ==
    /\ Running /\ awaiting = None /\ todo # <<>>
    /\ \/ /\ sup = "starting"
          /\ Launch(Head(todo))
          /\ UNCHANGED recent
       \/ /\ sup = "serving"
          /\ \E kept \in IF setup.window_passes THEN 0 .. recent ELSE {recent} :
                IF Exceeds(kept + 1)
                  THEN StopChildren("gave_up")
                  ELSE Launch(Head(todo)) /\ recent' = kept + 1

\* An exception in a start: in the supervisor's own init it is reported and the
\* process returns; in the loop it is swallowed.
Abort(rest) ==
    IF sup = "starting"
      THEN Gone("failed") /\ UNCHANGED cancelled
      ELSE /\ todo' = <<>>
           /\ awaiting' = None
           /\ buffered' = <<>>
           /\ mailbox' = rest
           /\ UNCHANGED <<sup, refs, pid, ref, recent, task, cancelled, linked, watched>>

\* Fault: the reference on record is the number of the reference before.
AdoptOldRef(i, rest) ==
    LET r == Cardinality(refs)
    IN /\ refs' = refs \cup {r}
       /\ watched' = [watched EXCEPT ![i] = r]
       /\ pid' = [pid EXCEPT ![i[1]] = i]
       /\ ref' = [ref EXCEPT ![i[1]] = IF r = 0 THEN 0 ELSE r - 1]
       /\ todo' = Tail(todo)
       /\ awaiting' = None
       /\ buffered' = <<>>
       /\ mailbox' = rest
       /\ sup' = IF sup = "starting" /\ Tail(todo) # <<>> THEN "starting" ELSE "serving"
       /\ UNCHANGED <<recent, task, cancelled, linked>>

\* monitor(pid), and on to the next child.
Adopt(i, rest) ==
    LET r == Cardinality(refs)
    IN /\ refs' = refs \cup {r}
       /\ watched' = [watched EXCEPT ![i] = r]
       /\ pid' = [pid EXCEPT ![i[1]] = i]
       /\ ref' = [ref EXCEPT ![i[1]] = r]
       /\ todo' = Tail(todo)
       /\ awaiting' = None
       /\ buffered' = <<>>
       /\ mailbox' = rest
       /\ sup' = IF sup = "starting" /\ Tail(todo) # <<>> THEN "starting" ELSE "serving"
       /\ UNCHANGED <<recent, task, cancelled, linked>>

Buffers(i) == setup.kind[i[1]] = "gen_server"
\* Fault: the buffered messages are not put back.
ReinjectedNot == Tail(mailbox)
Reinjected == Tail(mailbox) \o buffered

InitReply(m) == m.tag \in {"INIT_OK", "INIT_ERROR"}

\* One message received while waiting for the reply of a new child.
Handshake ==
    /\ awaiting # None /\ mailbox # <<>>
    /\ LET m == Head(mailbox)
       IN \/ /\ m = INIT_OK(awaiting)
             /\ IF IsAlive(awaiting) THEN Adopt(awaiting, Reinjected) ELSE Abort(Reinjected)
          \/ /\ m # INIT_OK(awaiting)
             /\ ~Buffers(awaiting) \/ (InitReply(m) /\ Buffers(m.inst))
             /\ Abort(Reinjected)
          \/ /\ Buffers(awaiting)
             /\ ~(InitReply(m) /\ Buffers(m.inst))
             /\ buffered' = Append(buffered, m)
             /\ mailbox' = Tail(mailbox)
             /\ UNCHANGED <<sup, refs, pid, ref, todo, awaiting, recent, task, cancelled,
                            linked, watched>>

\* Five seconds without a message.
Timeout ==
    /\ awaiting # None /\ mailbox = <<>>
    /\ task[awaiting] = "init" => "slow" \in setup.faults \/ awaiting \in cancelled
    /\ Abort(buffered)

-----------------------------------------------------------------------------
(* The loop.                                                               *)

Least(S) == CHOOSE x \in S : \A y \in S : x <= y

\* Fault: the children are forgotten before they are told to exit.
StopVictimsForgotten(from) ==
    /\ pid' = [c \in Children |-> IF c >= from THEN None ELSE pid[c]]
    /\ ref' = [c \in Children |-> IF c >= from THEN None ELSE ref[c]]
    /\ UNCHANGED cancelled

\* Children from..N are told to exit and marked down.
StopVictims(from) ==
    /\ cancelled' = CancelSet({pid[c] : c \in from .. N} \ {None})
    /\ pid' = [c \in Children |-> IF c >= from THEN None ELSE pid[c]]
    /\ ref' = [c \in Children |-> IF c >= from THEN None ELSE ref[c]]

\* Fault: only the dead child is marked down before the others are restarted.
HandleChildExitAlone(dead) ==
    LET from == IF strategy = "one_for_all" THEN 1 ELSE dead
    IN /\ todo' = [k \in 1 .. N - from + 1 |-> from + k - 1]
       /\ pid' = [pid EXCEPT ![dead] = None]
       /\ ref' = [ref EXCEPT ![dead] = None]
       /\ UNCHANGED cancelled

HandleChildExit(dead) ==
    LET from == IF strategy = "one_for_all" THEN 1 ELSE dead
    IN IF strategy = "one_for_one"
         THEN todo' = <<dead>> /\ UNCHANGED <<cancelled, pid, ref>>
         ELSE /\ StopVictims(from)
              /\ todo' = [k \in 1 .. N - from + 1 |-> from + k - 1]

Owners(r) == {c \in Children : ref[c] = r}

\* A DOWN of five fields for a current child that did not end gracefully.
Heeded(m) ==
    m.tag = "DOWN" /\ m.reason # SHUTDOWN /\ Owners(m.ref) # {}

Receive ==
    /\ sup = "serving" /\ awaiting = None /\ todo = <<>> /\ mailbox # <<>>
    /\ LET m == Head(mailbox)
       IN \/ m = STOP /\ StopChildren("stopped")
          \/ /\ Heeded(m)
             /\ HandleChildExit(Least(Owners(m.ref)))
             /\ mailbox' = Tail(mailbox)
             /\ UNCHANGED <<sup, refs, awaiting, buffered, recent, task, linked, watched>>
          \/ /\ m # STOP /\ ~Heeded(m)
             /\ mailbox' = Tail(mailbox)
             /\ UNCHANGED <<supVars, refs, task, cancelled, linked, watched>>

\* Somebody sends the supervisor the atom SHUTDOWN.
RequestStop ==
    /\ Running
    /\ \A k \in DOMAIN (mailbox \o buffered) : (mailbox \o buffered)[k] # STOP
    /\ mailbox' = Append(mailbox, STOP)
    /\ UNCHANGED <<supVars, refs, task, cancelled, linked, watched>>

\* exit(supervisor, KILLED): its links cascade.
Kill ==
    /\ Running
    /\ cancelled' = CancelSet(linked)
    /\ Gone("killed")

-----------------------------------------------------------------------------
Step == (StartNext \/ Handshake \/ Timeout \/ Receive) /\ UNCHANGED setup
Child(i) == (InitOk(i) \/ InitError(i) \/ Unwind(i)) /\ UNCHANGED setup
Fail(i) == (Crash(i) \/ Return(i)) /\ UNCHANGED setup
Signal(i, reason) == ExitChild(i, reason) /\ UNCHANGED setup
EndSupervisor == (RequestStop \/ Kill) /\ UNCHANGED setup

Next ==
    \/ Step
    \/ \E i \in Instances : Child(i) \/ Fail(i)
    \/ \E i \in Instances, reason \in ExitSignals : Signal(i, reason)
    \/ EndSupervisor

(***************************************************************************)
(* Fairness: the event loop runs the supervisor when it has a message or a *)
(* timeout, delivers cancellations, and a child's init comes to an end.    *)
(* Nothing makes a child fail or anyone request a shutdown.                *)
(***************************************************************************)
Fairness == WF_vars(Step) /\ \A i \in Instances : WF_vars(Child(i))

SafetySpec == Init /\ [][Next]_vars
Spec == SafetySpec /\ Fairness

-----------------------------------------------------------------------------
(* Invariants.                                                             *)

Live(i) == i # None /\ task[i] \in {"init", "up"} /\ i \notin cancelled

\* However many children crash at once and whatever stale DOWN arrives after a
\* restart, a child never runs twice.  (one_for_all and rest_for_one over servers
\* that answer in time: under one_for_one a reused reference can restart a child
\* that still runs, and the start of a task or of a slow server may be given up
\* and repeated while its first instance lives.)
AtMostOneLive ==
    strategy # "one_for_one" =>
      \A c \in Children, j, k \in 1 .. MaxStarts :
          Live(<<c, j>>) /\ Live(<<c, k>>) => j = k

\* Whatever failed, timed out or arrived late while it was started, a live child
\* the supervisor counts as its own is linked to it and monitored under the
\* reference it has on record: the child's crash will be heard.
ChildrenHeard ==
    \A c \in Children :
        Live(pid[c]) => pid[c] \in linked /\ watched[pid[c]] = ref[c]

\* When the supervisor has stopped, given up or been killed, every child has
\* been told to stop, those of an unfinished restart included.  (Not under
\* one_for_one, where restarting the wrong child loses it, nor where the start of
\* a task or of a slow server is given up.)
NoOrphans ==
    sup \in {"stopped", "gave_up", "killed"} /\ strategy # "one_for_one" =>
        \A i \in Instances : ~Live(i)

\* "Max restart intensity enforced": the supervisor gives up only when more than
\* max_restarts instances ended by themselves, although a reused reference can
\* make it blame the wrong child.  (one_for_one only: the others charge a restart
\* for each child.)
GivesUpJustified ==
    sup = "gave_up" /\ strategy = "one_for_one" =>
        Cardinality({i \in Instances : task[i] \in {NORMAL, CRASH}}) > MaxRestarts

-----------------------------------------------------------------------------
(* Action properties.                                                      *)

Launches(c, k) == awaiting' = <<c, k>> /\ awaiting' # awaiting

\* rest_for_one and one_for_all: when a child is started, nothing that is started
\* after it still runs on its predecessor.
DependantsDownFirst ==
    [][\A c \in Children, k \in 1 .. MaxStarts :
          Launches(c, k) /\ strategy # "one_for_one" =>
            \A i \in Instances : i[1] > c => ~Live(i)]_vars

\* "one_for_one: only crashed child restarts" (src/docs/TEST_STRATEGY.md:91): no
\* restart begins for a child that still runs.  The code does not keep it, since a
\* restarted child may share its monitor reference with another.
OnlyCrashedRestarts ==
    [][\A c \in Children, k \in 1 .. MaxStarts :
          Launches(c, k) /\ sup = "serving" /\ strategy = "one_for_one" =>
            \A j \in 1 .. k - 1 : ~Live(<<c, j>>)]_vars

-----------------------------------------------------------------------------
(* Liveness.                                                               *)

Replaced(i) == \E k \in i[2] + 1 .. MaxStarts : task[<<i[1], k>>] # "absent"

\* A child that crashed is started again, or the supervisor ends.
CrashHealed ==
    \A i \in Instances :
        (Running /\ task[i] = CRASH) ~> (Replaced(i) \/ ~Running)

StopRequested == \E k \in DOMAIN mailbox : mailbox[k] = STOP

\* A shutdown request that arrives during a handshake is not lost.
StopHeeded == StopRequested ~> ~Running

\* No message is lost while children are started: neither the news of a crash nor
\* a request to stop.
NothingMissed == CrashHealed /\ StopHeeded

=============================================================================
