------------------------- MODULE DynamicSupervisor --------------------------
(***************************************************************************)
(* A dynamic supervisor (dynamic_supervisor/core.py): static children, the *)
(* children clients add and terminate at run time, restart types, restart  *)
(* strategies, and terminations that are answered when the child has ended.*)
(*                                                                         *)
(* As in Supervisor, each step lies between two receives.  A child's       *)
(* start_link receives on the supervisor's own mailbox, so requests, DOWNs *)
(* and late words of other children arrive in the middle of a start, and a *)
(* start may be given up while the child lives.                            *)
(***************************************************************************)
EXTENDS Naturals, FiniteSets, SequencesExt

CONSTANTS
    Static,        \* start_order of the static children, a sequence
    Dynamic,       \* ids that clients may add
    Setups,        \* the options, children and surroundings it may be started with
    RestartTypes,  \* child_spec.restart of the children that clients add
    StaticType,    \* and of the static ones
    MaxRestarts,
    WindowPasses,  \* whether max_seconds may pass between two failures
    Clients,
    MaxStarts,     \* bound: instances of one child
    None

StaticIds == ToSet(Static)
Children == StaticIds \cup Dynamic
Kinds == {"gen_server", "task"}
Instances == Children \X (1 .. MaxStarts)
Refs == 0 .. Cardinality(Instances)

NORMAL == "normal"
SHUTDOWN == "shutdown"
CRASH == "crash"
EndReasons == {NORMAL, SHUTDOWN, CRASH}

ASSUME DynamicSupervisorAssumption ==
    /\ Static \in Seq(StaticIds) /\ IsInjective(Static)
    /\ StaticIds \cap Dynamic = {} /\ IsFiniteSet(Dynamic)
    /\ Setups \subseteq
          [strategy : {"one_for_one", "one_for_all", "rest_for_one"},
           kind : [Children -> Kinds],  \* behaviour of each child
           \* what can happen to the start of a child ("slow", "error" for servers),
           \* and whether a client's five seconds may pass
           faults : SUBSET {"slow", "error", "early_crash", "late"},
           failures : Nat,              \* bound: instances that end by themselves
           requests : Nat]              \* bound: requests of all clients
    /\ RestartTypes \cup {StaticType} \subseteq {"permanent", "transient", "temporary"}
    /\ MaxRestarts \in Nat /\ WindowPasses \in BOOLEAN
    /\ MaxStarts \in Nat
    /\ None \notin Instances \cup Refs \cup Clients

ADD_CHILD(c, type, from) == [tag |-> "ADD_CHILD", child |-> c, restart |-> type, from |-> from]
TERMINATE_CHILD(c, from) == [tag |-> "TERMINATE_CHILD", child |-> c, from |-> from]
QUERY(from) == [tag |-> "QUERY", from |-> from]   \* list, which, count, status
INIT_OK(i) == [tag |-> "INIT_OK", inst |-> i]
INIT_ERROR(i) == [tag |-> "INIT_ERROR", inst |-> i]
DOWN(r, reason) == [tag |-> "DOWN", ref |-> r, reason |-> reason]
NOTICE == [tag |-> "NOTICE"]      \* an EXIT tuple or a DOWN tuple of four fields
STOP == [tag |-> "STOP"]          \* the atom SHUTDOWN

Requests ==
    {ADD_CHILD(c, type, a) : c \in Children, type \in RestartTypes, a \in Clients}
      \cup {TERMINATE_CHILD(c, a) : c \in Children, a \in Clients} \cup {QUERY(a) : a \in Clients}
Messages ==
    Requests \cup {INIT_OK(i) : i \in Instances} \cup {INIT_ERROR(i) : i \in Instances}
      \cup {DOWN(r, reason) : r \in Refs, reason \in EndReasons} \cup {NOTICE, STOP}

VARIABLES
    setup,                 \* the member of Setups this supervisor was started with
    sup,                   \* starting, serving, or how it ended
    mailbox, refs,         \* of the supervisor: messages, and references in Process.monitors
    known, restart,        \* keys of state.children, and spec.restart (StaticType if unknown)
    dynamic_children,
    pid, ref, failures,    \* _ChildState.pid, monitor_ref, len(failure_times)
    pending_terminations,  \* of each child: the client that waits, or None
    todo,                  \* children the handler that is running has yet to start
    adding,                \* the client that asked for the start, or None
    awaiting,              \* the instance whose init reply the supervisor waits for
    buffered,              \* gen_server.start_link's buffered_messages
    task, cancelled,       \* each instance: absent, init, up, killed or its reason
    watched,               \* the supervisor's reference on it, or None
    asked, inbox,          \* of each client: its open request, and the replies it has not read
    count,                 \* requests made
    given_up,              \* history: the instances that lived when their start raised
    confused               \* history: a reference was given out that still meant another child

tableVars == <<known, restart, dynamic_children>>
startVars == <<todo, adding, awaiting, buffered>>
supVars == <<sup, tableVars, startVars, pid, ref, failures, pending_terminations, given_up,
             confused>>
instVars == <<task, cancelled, watched>>
clientVars == <<asked, inbox, count>>
vars == <<setup, supVars, mailbox, refs, instVars, clientVars>>

strategy == setup.strategy
Running == sup \in {"starting", "serving"}
IsAlive(i) == i # None /\ task[i] \in {"init", "up"}
Order == Static \o dynamic_children

Init ==
    /\ setup \in Setups
    /\ sup = IF Static = <<>> THEN "serving" ELSE "starting"
    /\ mailbox = <<>> /\ refs = {}
    /\ restart = [c \in Children |-> StaticType]
    /\ known = StaticIds /\ dynamic_children = <<>>
    /\ pid = [c \in Children |-> None] /\ ref = [c \in Children |-> None]
    /\ failures = [c \in Children |-> 0]
    /\ pending_terminations = [c \in Children |-> None]
    /\ todo = Static /\ adding = None /\ awaiting = None /\ buffered = <<>>
    /\ task = [i \in Instances |-> "absent"]
    /\ cancelled = {}
    /\ watched = [i \in Instances |-> None]
    /\ asked = [a \in Clients |-> None] /\ inbox = [a \in Clients |-> <<>>]
    /\ count = 0
    /\ given_up = {} /\ confused = FALSE

-----------------------------------------------------------------------------
(* Children, linked to the supervisor from their spawn on.                 *)

Tell(msgs) == mailbox' = IF Running THEN mailbox \o msgs ELSE mailbox

\* The end of an instance, after the words it sent itself: EXIT over the link if
\* abnormal, then DOWN if the supervisor watches.
End(i, reason, words) ==
    /\ task' = [task EXCEPT ![i] = reason]
    /\ cancelled' = cancelled \ {i}
    /\ watched' = [watched EXCEPT ![i] = None]
    /\ refs' = refs \ {watched[i]}
    /\ Tell(words \o (IF reason = CRASH THEN <<NOTICE>> ELSE <<>>)
                  \o (IF watched[i] # None THEN <<DOWN(watched[i], reason)>> ELSE <<>>))
    /\ UNCHANGED <<supVars, clientVars>>

\* A task says so at once, a server when its init is done.
InitOk(i) ==
    /\ task[i] = "init"
    /\ task' = [task EXCEPT ![i] = "up"]
    /\ Tell(<<INIT_OK(i)>>)
    /\ UNCHANGED <<supVars, refs, cancelled, watched, clientVars>>

InitError(i) ==
    /\ "error" \in setup.faults /\ setup.kind[i[1]] = "gen_server"
    /\ task[i] = "init"
    /\ End(i, NORMAL, <<INIT_ERROR(i)>>)

\* A generic server ends by an exception only.
Fail(i) ==
    /\ task[i] = "up" /\ i \notin cancelled /\ Running
    /\ watched[i] # None \/ i \in given_up \/ "early_crash" \in setup.faults
    /\ Cardinality({j \in Instances : task[j] \in {NORMAL, CRASH}}) < setup.failures
    /\ \E reason \in {CRASH} \cup (IF setup.kind[i[1]] = "task" THEN {NORMAL} ELSE {}) :
          End(i, reason, <<>>)

Unwind(i) == i \in cancelled /\ End(i, SHUTDOWN, <<>>)

-----------------------------------------------------------------------------
(* Starting children, one message of the handshake at a time.              *)

Reply(a, answer) == inbox' = [inbox EXCEPT ![a] = Append(@, answer)]
NoReply == UNCHANGED inbox

\* The supervisor's process is gone: what it held is forgotten.
Gone(how) ==
    /\ sup' = how
    /\ mailbox' = <<>> /\ refs' = {}
    /\ watched' = [i \in Instances |-> None]
    /\ todo' = <<>> /\ adding' = None /\ awaiting' = None /\ buffered' = <<>>
    /\ UNCHANGED <<tableVars, pid, ref, failures, confused, task>>

Told(S) == cancelled \cup {i \in S : IsAlive(i)}

\* Fault: only static children are told.
StopChildrenStatic(how) == cancelled' = Told({pid[c] : c \in StaticIds}) /\ Gone(how)
\* _shutdown_children, then the loop returns.
StopChildren(how) == cancelled' = Told({pid[c] : c \in known}) /\ Gone(how)

\* Names of c that no instance has had yet: which is next is of no account.
Fresh(c) == {k \in 1 .. MaxStarts : task[<<c, k>>] = "absent"}

\* start_link up to its first receive.
StartNext ==
    /\ Running /\ awaiting = None /\ todo # <<>>
    /\ LET c == Head(todo)
           i == <<c, CHOOSE k \in Fresh(c) : TRUE>>
       IN /\ Fresh(c) # {}
          /\ task' = [task EXCEPT ![i] = "init"]
          /\ awaiting' = i
    /\ UNCHANGED <<sup, tableVars, todo, adding, buffered, pid, ref, failures, given_up, confused,
                   pending_terminations, mailbox, refs, cancelled, watched, clientVars>>

\* The handler of the message is done.
Resume(rest) ==
    /\ todo' = <<>> /\ adding' = None /\ awaiting' = None /\ buffered' = <<>>
    /\ mailbox' = rest
    /\ UNCHANGED <<sup, pid, ref, failures, confused, refs, task, cancelled, watched>>

\* The entry made before the start is removed from both tables.
ForgetAdded(c) ==
    /\ known' = known \ {c}
    /\ dynamic_children' = RemoveFirst(dynamic_children, c)
    /\ restart' = [restart EXCEPT ![c] = StaticType]

\* An exception leaves _start_child: the init reports it and returns, an add
\* answers it, a restart gives up on RuntimeError, and the loop swallows any other.
Raise(error, rest) ==
    /\ given_up' = given_up \cup {i \in {awaiting} : IsAlive(i)}
    /\ UNCHANGED <<pending_terminations, asked, count>>
    /\ \/ sup = "starting" /\ Gone("failed") /\ UNCHANGED cancelled /\ NoReply
       \/ adding # None /\ ForgetAdded(awaiting[1]) /\ Reply(adding, "error") /\ Resume(rest)
       \/ /\ sup = "serving" /\ adding = None /\ NoReply
          /\ \/ error = "RuntimeError" /\ StopChildren("gave_up")
             \/ error # "RuntimeError" /\ Resume(rest) /\ UNCHANGED tableVars

\* Does the reference mean another child, on record or in a message?
Ambiguous(c, r, msgs) ==
    \/ \E d \in known \ {c} : ref[d] = r
    \/ \E k \in DOMAIN msgs : msgs[k].tag = "DOWN" /\ msgs[k].ref = r

\* monitor(pid), and on to the next child.
Adopt(i, rest) ==
    LET c == i[1]
        r == Cardinality(refs)
    IN /\ refs' = refs \cup {r} /\ watched' = [watched EXCEPT ![i] = r]
       /\ pid' = [pid EXCEPT ![c] = i] /\ ref' = [ref EXCEPT ![c] = r]
       /\ confused' = (confused \/ Ambiguous(c, r, rest))
       /\ todo' = Tail(todo) /\ adding' = None /\ awaiting' = None /\ buffered' = <<>>
       /\ mailbox' = rest
       /\ sup' = IF sup = "starting" /\ Tail(todo) # <<>> THEN "starting" ELSE "serving"
       /\ IF adding # None THEN Reply(adding, "ok") ELSE NoReply
       /\ UNCHANGED <<tableVars, failures, pending_terminations, given_up, task, cancelled, asked,
                      count>>

Server(i) == setup.kind[i[1]] = "gen_server"
ServerWord(m) == m.tag \in {"INIT_OK", "INIT_ERROR"} /\ Server(m.inst)
Reinjected == Tail(mailbox) \o buffered

\* One message received while waiting for a new child: a task's start takes only
\* the child's word, a server's keeps what is no server's word for later.
Handshake ==
    /\ awaiting # None /\ mailbox # <<>>
    /\ LET m == Head(mailbox)
       IN \/ m = INIT_OK(awaiting) /\ IsAlive(awaiting) /\ Adopt(awaiting, Reinjected)
          \/ /\ m = INIT_OK(awaiting) /\ ~IsAlive(awaiting)
             /\ Raise("ProcessNotFoundError", Reinjected)
          \/ /\ m # INIT_OK(awaiting)
             /\ ~Server(awaiting) \/ ServerWord(m)
             /\ Raise("RuntimeError", Reinjected)
          \/ /\ Server(awaiting) /\ ~ServerWord(m)
             /\ buffered' = Append(buffered, m)
             /\ mailbox' = Tail(mailbox)
             /\ UNCHANGED <<sup, tableVars, todo, adding, awaiting, pid, ref, failures, confused,
                            given_up, pending_terminations, refs, instVars, clientVars>>

\* Five seconds without a message.
Timeout ==
    /\ awaiting # None /\ mailbox = <<>>
    /\ task[awaiting] = "init" /\ Server(awaiting) /\ "slow" \in setup.faults
    /\ Raise("TimeoutError", buffered)

-----------------------------------------------------------------------------
(* The handlers of the loop.                                               *)

\* The child is not restarted: a dynamic child is forgotten, a static one kept.
Drop(c) ==
    /\ known' = known \ ({c} \cap Dynamic)
    /\ dynamic_children' = RemoveFirst(dynamic_children, c)
    /\ pid' = [pid EXCEPT ![c] = None] /\ ref' = [ref EXCEPT ![c] = None]
    /\ restart' = [restart EXCEPT ![c] = StaticType]
    /\ failures' = IF c \in Dynamic THEN [failures EXCEPT ![c] = 0] ELSE failures
    /\ mailbox' = Tail(mailbox)
    /\ UNCHANGED <<sup, startVars, confused, refs, instVars>>

From(c) == SubSeq(Order, CHOOSE k \in DOMAIN Order : Order[k] = c, Len(Order))

\* The children that are killed and those that are then started, in order.
Killable(c) ==
    CASE strategy = "one_for_one" -> {}
      [] strategy = "one_for_all" -> known \ {c}
      [] OTHER -> ToSet(From(c)) \ {c}
Restarted(c) ==
    CASE strategy = "one_for_one" -> <<c>>
      [] strategy = "one_for_all" -> Order
      [] OTHER -> From(c)

\* exit(pid, KILLED) of each in S: links, monitors and the process go at once, and
\* EXIT and a DOWN of four fields tell the supervisor.
Kill(S) ==
    /\ task' = [i \in Instances |-> IF i \in S THEN "killed" ELSE task[i]]
    /\ cancelled' = cancelled \ S
    /\ watched' = [i \in Instances |-> IF i \in S THEN None ELSE watched[i]]
    /\ refs' = refs \ {watched[i] : i \in S}
    /\ mailbox' = Tail(mailbox) \o [k \in 1 .. 2 * Cardinality(S) |-> NOTICE]

\* What is on record stays there until the new instance has been started.
Restart(c, kept) ==
    /\ Kill({i \in {pid[d] : d \in Killable(c)} : IsAlive(i)})
    /\ todo' = Restarted(c)
    /\ failures' = [failures EXCEPT ![c] = kept + 1]
    /\ UNCHANGED <<sup, tableVars, adding, awaiting, buffered, pid, ref, confused>>

KeepsDown(c, reason) ==
    \/ reason = SHUTDOWN
    \/ restart[c] = "transient" /\ reason = NORMAL
    \/ restart[c] = "temporary"

HandleChildExit(c, reason) ==
    \/ KeepsDown(c, reason) /\ Drop(c)
    \/ /\ ~KeepsDown(c, reason)
       /\ \E kept \in IF WindowPasses THEN 0 .. failures[c] ELSE {failures[c]} :
             \/ kept + 1 > MaxRestarts /\ StopChildren("gave_up")
             \/ kept + 1 <= MaxRestarts /\ Restart(c, kept)

Owners(r) == {c \in known : ref[c] = r}
\* state.children keeps the order of insertion: static children come first.
FirstOwner(r) == Order[CHOOSE k \in DOMAIN Order :
                         Order[k] \in Owners(r) /\ \A j \in 1 .. k - 1 : Order[j] \notin Owners(r)]

\* Fault: any DOWN answers every termination.
AnsweredAll(c) ==
    /\ pending_terminations' = [d \in Children |-> None]
    /\ inbox' = [a \in Clients |-> IF \E d \in Children : pending_terminations[d] = a
                                     THEN Append(inbox[a], "terminated") ELSE inbox[a]]
\* Fault: the requester is taken off the list, and nothing is sent.
AnsweredSilently(c) ==
    pending_terminations' = [pending_terminations EXCEPT ![c] = None] /\ NoReply
Answered(c) ==
    /\ pending_terminations' = [pending_terminations EXCEPT ![c] = None]
    /\ IF pending_terminations[c] # None THEN Reply(pending_terminations[c], "terminated")
                                         ELSE NoReply

\* The loop goes on to its next message.
Ignore == mailbox' = Tail(mailbox) /\ UNCHANGED <<sup, startVars, pid, ref, failures, confused,
                                                  refs, task, watched>>

HandleDown(m) ==
    IF Owners(m.ref) = {}
      THEN Ignore /\ UNCHANGED <<tableVars, pending_terminations, cancelled, inbox>>
      ELSE LET c == FirstOwner(m.ref)
           IN Answered(c) /\ HandleChildExit(c, m.reason)

AddChild(m) ==
    LET c == m.child
    IN /\ mailbox' = Tail(mailbox)
       /\ UNCHANGED <<sup, awaiting, buffered, pid, ref, failures, confused, refs, instVars,
                      pending_terminations>>
       /\ \/ /\ c \in known
             /\ Reply(m.from, "error")
             /\ UNCHANGED <<tableVars, todo, adding>>
          \/ /\ c \notin known
             /\ known' = known \cup {c}
             /\ restart' = [restart EXCEPT ![c] = m.restart]
             /\ dynamic_children' = Append(dynamic_children, c)
             /\ todo' = <<c>> /\ adding' = m.from
             /\ NoReply

TerminateChild(m) ==
    LET c == m.child
    IN /\ Ignore /\ UNCHANGED tableVars
       /\ \/ /\ c \notin known \/ c \in StaticIds \/ ~IsAlive(pid[c])
             /\ Reply(m.from, IF c \in known THEN "ok" ELSE "error")
             /\ UNCHANGED <<cancelled, pending_terminations>>
          \/ /\ c \in known \cap Dynamic /\ IsAlive(pid[c])
             /\ cancelled' = Told({pid[c]})
             /\ pending_terminations' = [pending_terminations EXCEPT ![c] = m.from]
             /\ NoReply

Query(m) ==
    /\ Ignore /\ UNCHANGED <<tableVars, pending_terminations, cancelled>>
    /\ Reply(m.from, "children")

\* EXIT, a DOWN of four fields, and the word of a child that was given up.
Unread(m) ==
    /\ m.tag \in {"NOTICE", "INIT_OK", "INIT_ERROR"}
    /\ Ignore /\ UNCHANGED <<tableVars, pending_terminations, cancelled, inbox>>

Receive ==
    /\ sup = "serving" /\ awaiting = None /\ todo = <<>> /\ mailbox # <<>>
    /\ LET m == Head(mailbox)
       IN \/ m.tag = "DOWN" /\ HandleDown(m)
          \/ m.tag = "ADD_CHILD" /\ AddChild(m)
          \/ m.tag = "TERMINATE_CHILD" /\ TerminateChild(m)
          \/ m.tag = "QUERY" /\ Query(m)
          \/ Unread(m)
          \/ m = STOP /\ StopChildren("stopped") /\ UNCHANGED <<inbox, pending_terminations>>
    /\ UNCHANGED <<given_up, asked, count>>

-----------------------------------------------------------------------------
(* Clients.  A reply carries no sign of the request it answers.            *)

Ask(a, m) ==
    /\ Running /\ asked[a] = None
    /\ count < setup.requests
    /\ count' = count + 1
    /\ asked' = [asked EXCEPT ![a] = m]
    /\ mailbox' = Append(mailbox, m)
    /\ UNCHANGED <<supVars, refs, instVars, inbox>>

TakeReply(a) ==
    /\ asked[a] # None /\ inbox[a] # <<>>
    /\ inbox' = [inbox EXCEPT ![a] = Tail(@)]
    /\ asked' = [asked EXCEPT ![a] = None]
    /\ UNCHANGED <<supVars, mailbox, refs, instVars, count>>

\* receive(timeout=5.0) raises: a reply that comes later stays in the mailbox.
StopWaiting(a) ==
    /\ "late" \in setup.faults
    /\ asked[a] # None /\ inbox[a] = <<>>
    /\ asked' = [asked EXCEPT ![a] = None]
    /\ UNCHANGED <<supVars, mailbox, refs, instVars, inbox, count>>

RequestStop ==
    /\ Running
    /\ \A k \in DOMAIN (mailbox \o buffered) : (mailbox \o buffered)[k] # STOP
    /\ mailbox' = Append(mailbox, STOP)
    /\ UNCHANGED <<supVars, refs, instVars, clientVars>>

-----------------------------------------------------------------------------
MayAsk(a) ==
    {ADD_CHILD(c, type, a) : c \in Dynamic, type \in RestartTypes}
      \cup {TERMINATE_CHILD(c, a) : c \in Dynamic} \cup {QUERY(a)}

Step == (StartNext \/ Handshake \/ Timeout \/ Receive) /\ UNCHANGED setup
Child(i) == (InitOk(i) \/ InitError(i) \/ Unwind(i)) /\ UNCHANGED setup
Client(a) == (TakeReply(a) \/ StopWaiting(a) \/ \E m \in MayAsk(a) : Ask(a, m)) /\ UNCHANGED setup

Next ==
    \/ Step
    \/ \E i \in Instances : Child(i) \/ (Fail(i) /\ UNCHANGED setup)
    \/ \E a \in Clients : Client(a)
    \/ RequestStop /\ UNCHANGED setup

(***************************************************************************)
(* Fairness: the event loop runs the supervisor when it has a message or a *)
(* timeout, delivers cancellations, and a child's init comes to an end.    *)
(* Clients need not read their replies.                                    *)
(***************************************************************************)
Fairness == WF_vars(Step) /\ \A i \in Instances : WF_vars(Child(i))

Spec == Init /\ [][Next]_vars /\ Fairness
-----------------------------------------------------------------------------
Live(i) == IsAlive(i) /\ i \notin cancelled

\* The two tables of children agree: dynamic_children lists without repetition
\* exactly the known children that are not static, whatever start, restart or
\* termination failed half way; every variable keeps its type.
TablesAgree ==
    /\ mailbox \in Seq(Messages) /\ buffered \in Seq(Messages) /\ refs \subseteq Refs
    /\ StaticIds \subseteq known /\ known \subseteq Children
    /\ ToSet(dynamic_children) = known \ StaticIds /\ IsInjective(dynamic_children)
    /\ pid \in [Children -> Instances \cup {None}] /\ ref \in [Children -> Refs \cup {None}]
    /\ restart \in [Children -> RestartTypes \cup {StaticType}]
    /\ failures \in [Children -> 0 .. MaxRestarts]
    /\ pending_terminations \in [Children -> Clients \cup {None}]
    /\ todo \in Seq(known) /\ adding \in Clients \cup {None}
    /\ awaiting \in Instances \cup {None} /\ given_up \subseteq Instances
    /\ cancelled \subseteq Instances /\ watched \in [Instances -> Refs \cup {None}]

\* While references are not confused, a child that runs is the one being started,
\* the one on record for its id, under the reference its DOWN will carry, or one
\* whose start was given up: whatever failed, timed out or arrived in the middle of
\* a start or a restart, none else runs twice, unheard or forgotten.
NoStrays ==
    ~confused /\ Running =>
        \A i \in Instances : IsAlive(i) =>
            \/ i = awaiting \/ i \in given_up
            \/ i[1] \in known /\ pid[i[1]] = i /\ watched[i] = ref[i[1]] /\ ref[i[1]] # None

\* When the supervisor has stopped or given up, every child has been told to exit,
\* the dynamic ones and those of an unfinished restart included, but those whose
\* start was given up.
NoOrphans ==
    ~confused /\ sup \in {"stopped", "gave_up"} => \A i \in Instances : Live(i) => i \in given_up

\* No start is given up on a living child but that of a task, whose handshake takes
\* no other message, and where a server may be slow to start.
GivenUpSeldom == \A i \in given_up : Server(i) => "slow" \in setup.faults

\* Every instance is accounted for: the tables agree, what runs is on record or was
\* given up, for which there was a reason, and nothing else outlives the supervisor.
ChildrenAccounted == TablesAgree /\ NoStrays /\ NoOrphans /\ GivenUpSeldom

\* While references are not confused, "terminated" is said only of a child whose
\* instance on record has ended, under every strategy.
TerminationsHonest ==
    [][\A c \in Children :
          pending_terminations[c] # None /\ pending_terminations'[c] = None /\ ~confused
          => pid[c] # None /\ task[pid[c]] \in EndReasons]_vars

\* A client whose termination was accepted is answered, unless another client asks
\* for the same one before the child has ended: only the last to ask is.  (Or the
\* supervisor ends.  Servers under one_for_one and clear references only: another
\* strategy may kill the child without a DOWN the loop reads, and the start of a
\* task loses what it reads.)
TerminationsAnswered ==
    /\ [][\A c \in Dynamic, a \in Clients :
            pending_terminations[c] = a /\ pending_terminations'[c] # a =>
              \/ inbox'[a] = Append(inbox[a], "terminated")
              \/ pending_terminations'[c] \in Clients /\ IsAlive(pid[c])]_vars
    /\ \A c \in Dynamic, a \in Clients :
          (pending_terminations[c] = a /\ strategy = "one_for_one"
             /\ \A d \in Children : setup.kind[d] = "gen_server")
          ~> (pending_terminations[c] # a \/ ~Running \/ confused)
=============================================================================
