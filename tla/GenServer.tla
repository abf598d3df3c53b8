----------------------------- MODULE GenServer ------------------------------
(***************************************************************************)
(* Calls to generic servers (gen_server/core.py): the caller's receive     *)
(* loop, the server's loop and its handlers, monitors, timeouts, deferred  *)
(* replies, nested calls, and the bridge for callers outside a process.    *)
(*                                                                         *)
(* A process suspends only where it receives, so the code between two      *)
(* receives is one step.  A caller holds one monitor at a time and the     *)
(* process core numbers references by how many there are: the reference is *)
(* the same for every call and a DOWN is told by its arity and its pid.    *)
(***************************************************************************)
EXTENDS Naturals, FiniteSets, Sequences

CONSTANTS
    Clients,    \* processes that call, one call after the other
    Bridges,    \* calls made from outside any process
    Servers,    \* registered names
    Patient,    \* callers that give no timeout
    Outcomes,   \* what a handler may do
    Uses,       \* <<s, t>>: a handle_call of s may call t before it replies
    CastTo,     \* servers that are sent casts
    Exits,      \* how others may exit a server: "loud" or "quiet"
    MaxStarts,  \* bound: instances of each server
    MaxCalls,   \* bound: calls of each process
    None

Instances == UNION {{s} \X (1 .. MaxStarts[s]) : s \in Servers}
Procs == Clients \cup Bridges \cup Instances
Ids == UNION {{p} \X (1 .. MaxCalls[p]) : p \in Procs}

ASSUME GenServerAssumption ==
    /\ MaxStarts \in [Servers -> Nat \ {0}] /\ MaxCalls \in [Procs -> Nat]
    /\ \A b \in Bridges : MaxCalls[b] = 1
    /\ Clients \cap Bridges = {} /\ (Clients \cup Bridges) \cap Instances = {}
    /\ Patient \subseteq Procs
    /\ Outcomes \subseteq {"reply", "noreply", "stop", "crash"}
    /\ Uses \subseteq Servers \X Servers /\ CastTo \subseteq Servers
    /\ Exits \subseteq {"loud", "quiet"}
    /\ None \notin Procs \cup Ids

VARIABLES
    life,       \* of each instance: absent, up, doomed (cancelled), ended
    name,       \* the name registry
    mailbox,
    status, to, \* of each call: how it stands and the instance it was sent to
    watching,   \* the instance a caller monitors, or None
    handling,   \* the call whose handler waits for a nested call, or None
    owed,       \* calls answered NoReply, to be replied to later
    executed,   \* history: calls handed to handle_call
    future      \* of each bridge: none, pending, set, cancelled

vars == <<life, name, mailbox, status, to, watching, handling, owed, executed, future>>

CALL(id) == [tag |-> "CALL", id |-> id]
CAST == [tag |-> "CAST"]
REPLY(id, value) == [tag |-> "REPLY", id |-> id, value |-> value]
DOWN(arity, i) == [tag |-> "DOWN", arity |-> arity, inst |-> i]

Messages ==
    {CALL(id) : id \in Ids} \cup {CAST}
      \cup {REPLY(id, v) : id \in Ids, v \in {"value", "exited"}}
      \cup {DOWN(arity, i) : arity \in {4, 5}, i \in Instances}

Waiting(p) == \E n \in 1 .. MaxCalls[p] : status[<<p, n>>] = "waiting"
Current(p) == <<p, CHOOSE n \in 1 .. MaxCalls[p] : status[<<p, n>>] = "waiting">>
NextId(p) == <<p, Cardinality({n \in 1 .. MaxCalls[p] : status[<<p, n>>] # "unused"}) + 1>>

\* Processes in the table: a message to any other is dropped.
Present(p) ==
    \/ p \in Clients
    \/ p \in Bridges /\ Waiting(p)
    \/ p \in Instances /\ life[p] \in {"up", "doomed"}

Init ==
    /\ life = [i \in Instances |-> IF i[2] = 1 THEN "up" ELSE "absent"]
    /\ name = [s \in Servers |-> <<s, 1>>]
    /\ mailbox = [p \in Procs |-> <<>>]
    /\ status = [id \in Ids |-> "unused"]
    /\ to = [id \in Ids |-> None]
    /\ watching = [p \in Procs |-> None]
    /\ handling = [i \in Instances |-> None]
    /\ owed = {}
    /\ executed = {}
    /\ future = [b \in Bridges |-> "none"]

-----------------------------------------------------------------------------
(* Messages and the end of a server.                                       *)

Took(p) == [mailbox EXCEPT ![p] = Tail(@)]
Sent(box, q, m) == IF Present(q) THEN [box EXCEPT ![q] = Append(@, m)] ELSE box

\* Those who monitor instance i get its DOWN.
Told(arity, i, box) ==
    [q \in Procs |-> IF watching[q] = i /\ Present(q) THEN Append(box[q], DOWN(arity, i))
                                                      ELSE box[q]]

\* Instance i's task ends by itself: five-field DOWNs to those who monitor it.
Ended(i, box) ==
    /\ life' = [life EXCEPT ![i] = "ended"]
    /\ name' = [s \in Servers |-> IF name[s] = i THEN None ELSE name[s]]
    /\ mailbox' = [Told(5, i, box) EXCEPT ![i] = <<>>]
    /\ watching' = [q \in Procs |-> IF q = i \/ watching[q] = i THEN None ELSE watching[q]]
    /\ handling' = [handling EXCEPT ![i] = None]

\* exit(pid, reason) with an abnormal reason tells the watchers at once, with
\* four fields, and takes the name from whoever holds it; with SHUTDOWN it only
\* cancels.
Exit(i, how) ==
    /\ life[i] \in {"up", "doomed"}
    /\ life' = [life EXCEPT ![i] = "doomed"]
    /\ IF how = "quiet"
         THEN UNCHANGED <<name, mailbox, watching>>
         ELSE /\ name' = [name EXCEPT ![i[1]] = None]
              /\ mailbox' = Told(4, i, mailbox)
              /\ watching' = [q \in Procs |-> IF watching[q] = i THEN None ELSE watching[q]]
    /\ UNCHANGED <<status, to, handling, owed, executed, future>>

\* CancelledError reaches the instance where it receives, inside a nested call
\* or in its loop.
Unwind(i) ==
    /\ life[i] = "doomed"
    /\ Ended(i, mailbox)
    /\ status' = [id \in Ids |-> IF id[1] = i /\ status[id] = "waiting" THEN "abandoned"
                                                                         ELSE status[id]]
    /\ UNCHANGED <<to, owed, executed, future>>

\* Somebody, such as a supervisor, starts the server again.
Restart(s) ==
    /\ name[s] = None
    /\ \E k \in 2 .. MaxStarts[s] :
          /\ life[<<s, k>>] = "absent" /\ life[<<s, k - 1>>] # "absent"
          /\ life' = [life EXCEPT ![<<s, k>>] = "up"]
          /\ name' = [name EXCEPT ![s] = <<s, k>>]
    /\ UNCHANGED <<mailbox, status, to, watching, handling, owed, executed, future>>

-----------------------------------------------------------------------------
(* The caller.                                                             *)

\* _call_from_process up to its first receive.
Request(p, s, box) ==
    LET id == NextId(p)
    IN /\ id \in Ids
       /\ name[s] # None
       /\ status' = [status EXCEPT ![id] = "waiting"]
       /\ to' = [to EXCEPT ![id] = name[s]]
       /\ watching' = [watching EXCEPT ![p] = name[s]]
       /\ mailbox' = Sent(box, name[s], CALL(id))

Call(c, s) ==
    /\ ~Waiting(c)
    /\ Request(c, s, mailbox)
    /\ UNCHANGED <<life, name, handling, owed, executed, future>>

\* Fault: the monitor outlives the call.
ReleasedNot(p) == watching
Released(p) == [watching EXCEPT ![p] = None]

\* The call of p is over: demonitor, then p goes on to its next receive.
\* A handler that called replies to its own caller, or fails with the exception.
Conclude(p, outcome, box) ==
    /\ status' = [status EXCEPT ![Current(p)] = outcome]
    /\ \/ /\ p \in Clients
          /\ watching' = Released(p)
          /\ mailbox' = box
          /\ UNCHANGED <<life, name, handling, future>>
       \/ /\ p \in Bridges
          /\ watching' = Released(p)
          /\ mailbox' = [box EXCEPT ![p] = <<>>]
          /\ future' = [future EXCEPT ![p] = IF @ = "pending" THEN "set" ELSE @]
          /\ UNCHANGED <<life, name, handling>>
       \/ /\ p \in Instances
          /\ watching' = Released(p)
          /\ mailbox' = Sent(box, handling[p][1], REPLY(handling[p], "value"))
          /\ handling' = [handling EXCEPT ![p] = None]
          /\ UNCHANGED <<life, name, future>>
       \/ /\ p \in Instances /\ outcome # "replied"
          /\ Ended(p, box)
          /\ UNCHANGED future
    /\ UNCHANGED <<to, owed, executed>>

Receives(p) == Waiting(p) /\ (p \in Instances => life[p] = "up")

\* Fault: any reply will do.
OwnReplyAny(m, id) == m.tag = "REPLY"
OwnReply(m, id) == m.tag = "REPLY" /\ m.id = id

\* Fault: only a DOWN of five fields is recognised.
OwnDownLong(m, id) == m = DOWN(5, to[id])

\* A DOWN of five fields is not recognised.
OwnDown(m, id) == m = DOWN(4, to[id])

\* One turn of the receive loop: every other message is thrown away.
Await(p) ==
    /\ Receives(p) /\ mailbox[p] # <<>>
    /\ LET m == Head(mailbox[p])
           id == Current(p)
       IN \/ /\ OwnReply(m, id)
             /\ Conclude(p, IF m.value = "value" THEN "replied" ELSE "exited", Took(p))
          \/ /\ OwnDown(m, id)
             /\ Conclude(p, "exited", Took(p))
          \/ /\ ~OwnReply(m, id) /\ ~OwnDown(m, id)
             /\ mailbox' = Took(p)
             /\ UNCHANGED <<life, name, status, to, watching, handling, owed, executed, future>>

\* Fault: a call whose monitor is gone relies on a DOWN.
ExpireWatched(p) ==
    /\ p \notin Patient
    /\ Receives(p) /\ watching[p] # None
    /\ Conclude(p, "timed_out", mailbox)

Expire(p) ==
    /\ p \notin Patient
    /\ Receives(p)
    /\ Conclude(p, "timed_out", mailbox)

-----------------------------------------------------------------------------
(* Callers outside any process.                                            *)

CallOutside(b) ==
    /\ future[b] = "none"
    /\ future' = [future EXCEPT ![b] = "pending"]
    /\ UNCHANGED <<life, name, mailbox, status, to, watching, handling, owed, executed>>

\* Fault: an exception of the bridge is not passed on.
BridgeStartSilent(b, s) ==
    /\ future[b] # "none" /\ status[<<b, 1>>] = "unused"
    /\ \/ Request(b, s, mailbox) /\ UNCHANGED future
       \/ /\ name[s] = None
          /\ status' = [status EXCEPT ![<<b, 1>>] = "refused"]
          /\ UNCHANGED <<to, watching, mailbox, future>>
    /\ UNCHANGED <<life, name, handling, owed, executed>>

\* The bridge process runs; a server that is not found is an exception.
BridgeStart(b, s) ==
    /\ future[b] # "none" /\ status[<<b, 1>>] = "unused"
    /\ \/ Request(b, s, mailbox) /\ UNCHANGED future
       \/ /\ name[s] = None
          /\ status' = [status EXCEPT ![<<b, 1>>] = "refused"]
          /\ future' = [future EXCEPT ![b] = IF @ = "pending" THEN "set" ELSE @]
          /\ UNCHANGED <<to, watching, mailbox>>
    /\ UNCHANGED <<life, name, handling, owed, executed>>

\* wait_for gives up and cancels the future; the bridge goes on.
OuterTimeout(b) ==
    /\ b \notin Patient
    /\ future[b] = "pending"
    /\ future' = [future EXCEPT ![b] = "cancelled"]
    /\ UNCHANGED <<life, name, mailbox, status, to, watching, handling, owed, executed>>

\* exit(pid, reason), or the shutdown of the runtime, cancels the bridge before its
\* first step or while it waits.  CancelledError is no Exception: the monitor goes,
\* the future stays as it is.
BridgeCancelled(b) ==
    /\ future[b] # "none" /\ status[<<b, 1>>] \in {"unused", "waiting"}
    /\ status' = [status EXCEPT ![<<b, 1>>] = IF @ = "waiting" THEN "abandoned" ELSE "cancelled"]
    /\ watching' = Released(b)
    /\ mailbox' = [mailbox EXCEPT ![b] = <<>>]
    /\ UNCHANGED <<life, name, to, handling, owed, executed, future>>

-----------------------------------------------------------------------------
(* The server.                                                             *)

AtLoop(i) == life[i] = "up" /\ handling[i] = None /\ mailbox[i] # <<>>

HandleCall(i) ==
    /\ AtLoop(i) /\ Head(mailbox[i]).tag = "CALL"
    /\ LET id == Head(mailbox[i]).id
           answered(value) == Sent(Took(i), id[1], REPLY(id, value))
       IN /\ executed' = executed \cup {id}
          /\ \/ /\ "reply" \in Outcomes
                /\ mailbox' = answered("value")
                /\ UNCHANGED <<life, name, status, to, watching, handling, owed>>
             \/ /\ "noreply" \in Outcomes
                /\ mailbox' = Took(i)
                /\ owed' = owed \cup {id}
                /\ UNCHANGED <<life, name, status, to, watching, handling>>
             \/ /\ "stop" \in Outcomes
                /\ Ended(i, answered("exited"))
                /\ UNCHANGED <<status, to, owed>>
             \/ /\ "crash" \in Outcomes
                /\ Ended(i, Took(i))
                /\ UNCHANGED <<status, to, owed>>
             \/ /\ \E s \in Servers : <<i[1], s>> \in Uses /\ Request(i, s, Took(i))
                /\ handling' = [handling EXCEPT ![i] = id]
                /\ UNCHANGED <<life, name, owed>>
    /\ UNCHANGED future

\* handle_cast, and handle_info with late replies and DOWNs.
HandleOther(i) ==
    /\ AtLoop(i) /\ Head(mailbox[i]).tag # "CALL"
    /\ \/ /\ mailbox' = Took(i)
          /\ UNCHANGED <<life, name, watching, handling>>
       \/ /\ Outcomes \cap {"stop", "crash"} # {}
          /\ Ended(i, Took(i))
    /\ UNCHANGED <<status, to, owed, executed, future>>

\* reply(from_, response) for a call that was answered NoReply.
ReplyLater(id) ==
    /\ id \in owed
    /\ owed' = owed \ {id}
    /\ mailbox' = Sent(mailbox, id[1], REPLY(id, "value"))
    /\ UNCHANGED <<life, name, status, to, watching, handling, executed, future>>

\* Bound: one cast at a time in a mailbox.
Cast(s) ==
    /\ s \in CastTo /\ name[s] # None
    /\ \A k \in DOMAIN mailbox[name[s]] : mailbox[name[s]][k] # CAST
    /\ mailbox' = Sent(mailbox, name[s], CAST)
    /\ UNCHANGED <<life, name, status, to, watching, handling, owed, executed, future>>

-----------------------------------------------------------------------------
Run(p) == Await(p) \/ Expire(p)
Serve(i) == HandleCall(i) \/ HandleOther(i) \/ Unwind(i)
Bridge(b) == \E s \in Servers : BridgeStart(b, s)

Next ==
    \/ \E c \in Clients, s \in Servers : Call(c, s)
    \/ \E p \in Procs : Run(p)
    \/ \E i \in Instances : Serve(i)
    \/ \E i \in Instances, how \in Exits : Exit(i, how)
    \/ \E s \in Servers : Restart(s) \/ Cast(s)
    \/ \E b \in Bridges : CallOutside(b) \/ Bridge(b) \/ OuterTimeout(b) \/ BridgeCancelled(b)
    \/ \E id \in Ids : ReplyLater(id)

(***************************************************************************)
(* Fairness: the event loop runs processes that have a message or a timer  *)
(* and delivers cancellations, and handlers return.  Nobody has to call,   *)
(* exit, restart, cancel a bridge or send a deferred reply.                *)
(***************************************************************************)
Fairness ==
    /\ \A p \in Procs : WF_vars(Run(p))
    /\ \A i \in Instances : WF_vars(Serve(i))
    /\ \A b \in Bridges : WF_vars(Bridge(b) \/ OuterTimeout(b))

SafetySpec == Init /\ [][Next]_vars
Spec == SafetySpec /\ Fairness

-----------------------------------------------------------------------------
(* Invariants.                                                             *)

Stopped == {i \in Instances : life[i] \in {"doomed", "ended"}}
Promise == INSTANCE RequestReply WITH stopped <- Stopped

\* A caller monitors a server exactly while it waits for it and the server lives:
\* no end of a call, by reply, exit, timeout, cancellation or crash of a nested
\* caller, leaves a monitor behind, and none is lost while it is needed.
MonitorsMatchCalls ==
    \A p \in Procs :
        /\ watching[p] # None => Waiting(p) /\ to[Current(p)] = watching[p]
        /\ Waiting(p) /\ life[to[Current(p)]] = "up" => watching[p] = to[Current(p)]

\* However the call of a bridge ends, by its reply, the server's exit, a name that
\* is not registered or its own timeout, and whether or not the caller outside has
\* given up by then, the caller's future is settled.  Only a bridge that was itself
\* cancelled leaves it pending: a caller without a timeout then waits for ever.
BridgesSettle ==
    \A b \in Bridges :
        future[b] = "pending" =>
            status[<<b, 1>>] \in {"unused", "waiting", "abandoned", "cancelled"}

-----------------------------------------------------------------------------
(* Refinement and liveness.                                                *)

\* Every outcome is the call's own: a late reply to a call that timed out is not
\* taken for the reply to the next one, and a DOWN of a previous instance does
\* not end a call to its successor although both carry the same reference.
KeepsPromise == Promise!Spec

\* A call with a timeout ends, whatever becomes of its server and its monitor, and a
\* caller outside any process that gave one gets out of it, even if its bridge was
\* cancelled and never settles the future.
TimedCallsEnd ==
    /\ \A id \in Ids :
          (status[id] = "waiting" /\ id[1] \notin Patient) ~> status[id] # "waiting"
    /\ \A b \in Bridges \ Patient : future[b] = "pending" ~> future[b] # "pending"

\* The exit of the server by exit(pid, reason), and a reply of its own, end a call
\* without a timeout, wherever they stand among the other messages.
NewsEndsCall ==
    \A id \in Ids :
        (/\ status[id] = "waiting"
         /\ \E k \in DOMAIN mailbox[id[1]] :
               \/ mailbox[id[1]][k] = DOWN(4, to[id])
               \/ mailbox[id[1]][k] = REPLY(id, "value"))
          ~> status[id] # "waiting"
=============================================================================
