-------------------------------- MODULE Nodes --------------------------------
(***************************************************************************)
(* Nodes of the asyncio backend, each an operating-system process of its   *)
(* own: their connections (node.py, connection.py: handshake, registration,*)
(* receive loops), the control messages that cross them, and the remote    *)
(* half of links, monitors and process exits (backend.py).  The local half *)
(* is ProcessRuntime; of the local effects of an exit only those that send *)
(* control messages are here.  What crosses a connection is a frame of its *)
(* kind: digests stand for the cookie and the challenge they are made of.  *)
(* Left out, for nothing reads them: _remote_links_reverse, the watcher's  *)
(* own entries of _remote_monitors_reverse, flags and creations.           *)
(***************************************************************************)
EXTENDS Naturals, Sequences, SequencesExt, FiniteSets

CONSTANTS
    Node,      \* names of nodes
    Procs,     \* processes, all spawned before the first step
    Home,      \* the node of each
    Trapping,  \* those that trap exits
    Linkers,   \* those that link, monitor and undo it; the others send
    Starts,    \* ways to start them: their cookies, who got into EPMD
    MaxOps,    \* bound: operations of each process
    MaxConns,  \* bound: connections ever opened
    MaxFaults  \* bound: failed lookups and broken connections

Sides == {"client", "server"}

\* A process is not a receive loop, which is named by its connection and side.
ASSUME NodesAssumption ==
    /\ Home \in [Procs -> Node] /\ Linkers \subseteq Procs
    /\ MaxOps \in [Procs -> Nat] /\ MaxConns \in Nat /\ MaxFaults \in Nat
    /\ Procs \intersect ((1 .. MaxConns) \X Sides) = {}

VARIABLES
    cookie, published,
    conns,             \* every connection opened: its two ends, what each
                       \* awaits, the frames on their way to it, and for whom
    connections,       \* AsyncIONode.connections: the one each node sends on
    status,            \* of each process: "live", "ending" (its exit handler
                       \* is under way), "stuck" (the handler raised) or "gone"
    cancelled,         \* processes whose task was cancelled
    todo,              \* messages a task has yet to send, for want of a connection
    remote_links, remote_monitors, monitored_by, inbox,
    ops, faults,
    raised             \* history: an operation of the runtime raised

vars == <<cookie, published, conns, connections, status, cancelled, todo, remote_links,
          remote_monitors, monitored_by, inbox, ops, faults, raised>>
tables   == <<remote_links, remote_monitors, monitored_by>>

Other(s) == IF s = "client" THEN "server" ELSE "client"
Tasks == Procs \union ((1 .. MaxConns) \X Sides)  \* processes, receive loops

Init ==
    /\ \E start \in Starts : cookie = start.cookie /\ published = start.published
    /\ conns = <<>> /\ connections = [n \in Node |-> [m \in Node |-> 0]]
    /\ status = [p \in Procs |-> "live"] /\ cancelled = {}
    /\ todo = [t \in Tasks |-> <<>>]
    /\ remote_links = [p \in Procs |-> {}]
    /\ remote_monitors = [p \in Procs |-> {}]
    /\ monitored_by = [p \in Procs |-> {}] /\ inbox = [p \in Procs |-> {}]
    /\ ops = [p \in Procs |-> 0] /\ faults = 0 /\ raised = FALSE

Alive(p) == status[p] # "gone"     \* still in _processes

-----------------------------------------------------------------------------
\* Frames.  A control message has its kind, who it is from and to, and what
\* the kind carries: the reference of a monitor, the reason of an end.
Message(kind, from, to, ref, reason) ==
    [kind |-> kind, from |-> from, to |-> to, ref |-> ref, reason |-> reason]

NoRef == <<"none", 0>>
LinkMessage(from, to)         == Message("link", from, to, NoRef, "none")
UnlinkMessage(from, to)       == Message("unlink", from, to, NoRef, "none")
ExitMessage(from, to, reason) == Message("exit", from, to, NoRef, reason)
MonitorMessage(from, to, ref) == Message("monitor", from, to, ref, "none")
DemonitorMessage(from, to, ref) == Message("demonitor", from, to, ref, "none")
MonitorExitMessage(from, to, ref, reason) == Message("down", from, to, ref, reason)
SendMessage(from, to)         == Message("send", from, to, NoRef, "none")
RegSendMessage(from, to)      == Message("reg_send", from, to, NoRef, "none")

\* The reference a DEMONITOR or a DOWN is sent with is made of the hash of the
\* string of the one it is about: another reference.
Exact(k) == <<"exact", k>>
Hashed(ref) == <<"hash", ref[2]>>

Digest(n, challenge) == [cookie |-> cookie[n], challenge |-> challenge]

-----------------------------------------------------------------------------
\* Sending: send_control_message and the connection's send_message.
Side(c, n) == IF c.node["client"] = n THEN "client" ELSE "server"

Connected(c, s) == c.at[s] = "up" /\ (c.open \/ c.wire[s] # <<>>)

Dest(m) == Home[m.to]

\* An exception cannot be encoded: encode raises before anything is written.
Encodable(m) == m.reason # "exception"

Sendable(cs, reg, n, m) ==
    LET i == reg[n][Dest(m)]
    IN i # 0 /\ Connected(cs[i], Side(cs[i], n)) /\ Encodable(m)

Put(c, s, frames) ==
    IF c.open THEN [c EXCEPT !.wire[s] = @ \o frames] ELSE c

\* Those of ms, in order, that node n sends over connection i.
Addressed(ms, reg, n, i) ==
    LET S == {k \in DOMAIN ms : reg[n][Dest(ms[k])] = i}
    IN [j \in 1 .. Cardinality(S) |->
           ms[CHOOSE k \in S : Cardinality({l \in S : l <= k}) = j]]

\* The connections after a task of node n has sent what it can of ms.
Sent(cs, reg, n, ms) ==
    [i \in DOMAIN cs |->
        Put(cs[i], Other(Side(cs[i], n)), Addressed(ms, reg, n, i))]

Stop(cs, reg, n, ms) == SelectInSeq(ms, LAMBDA m : ~Sendable(cs, reg, n, m))

NewConnection(n, m, t) ==
    [node |-> [client |-> n, server |-> m],
     at   |-> [client |-> "status", server |-> "name"],
     wire |-> [client |-> <<>>, server |-> <<[kind |-> "name", node |-> n]>>],
     open |-> TRUE, owner |-> t]

\* A lookup answers None whatever went wrong, be it that the node could not
\* register when it started and runs on unknown to others.
Unknown(m) == m \notin published
Unreachable(m) == Unknown(m) \/ faults < MaxFaults

\* Task t of node n sends ms, over the connections cs registered in reg.  What
\* is sent on a registered connection does not suspend the task; where there
\* is none it looks the node up and opens one.  An error reaches the caller,
\* the message handler, or the exit handler of an ending process: that one
\* skips the rest of the exit, and the process stays in the table.
Emit(t, n, cs, reg, ms, ending) ==
    LET k    == Stop(cs, reg, n, ms)
        now  == Sent(cs, reg, n, IF k = 0 THEN ms ELSE SubSeq(ms, 1, k - 1))
        Fails(spent) ==
            /\ conns' = now /\ todo' = [todo EXCEPT ![t] = <<>>]
            /\ status' = IF ending THEN [status EXCEPT ![t] = "stuck"] ELSE status
            /\ raised' = TRUE /\ faults' = faults + spent
    IN \/ /\ k = 0
          /\ conns' = now /\ todo' = [todo EXCEPT ![t] = <<>>]
          /\ status' = IF ending THEN [status EXCEPT ![t] = "gone"] ELSE status
          /\ UNCHANGED <<faults, raised>>
       \/ k # 0 /\ reg[n][Dest(ms[k])] # 0 /\ Fails(0)
       \/ /\ k # 0 /\ reg[n][Dest(ms[k])] = 0
             /\ ~Unknown(Dest(ms[k])) /\ Len(cs) < MaxConns
          /\ conns' = Append(now, NewConnection(n, Dest(ms[k]), t))
          /\ todo' = [todo EXCEPT ![t] = SubSeq(ms, k, Len(ms))]
          /\ status' = IF ending THEN [status EXCEPT ![t] = "ending"] ELSE status
          /\ UNCHANGED <<faults, raised>>
       \/ /\ k # 0 /\ reg[n][Dest(ms[k])] = 0 /\ Unreachable(Dest(ms[k]))
          /\ Fails(IF Unknown(Dest(ms[k])) THEN 0 ELSE 1)

-----------------------------------------------------------------------------
\* Operations of a process on a process of another node.
Operation(p, m) ==
    /\ status[p] = "live" /\ p \notin cancelled
    /\ todo[p] = <<>> /\ ops[p] < MaxOps[p]
    /\ ops' = [ops EXCEPT ![p] = @ + 1]
    /\ Emit(p, Home[p], conns, connections, <<m>>, FALSE)
    /\ UNCHANGED <<cookie, published, connections, cancelled, monitored_by, inbox>>

Link(p, q) ==
    /\ remote_links' = [remote_links EXCEPT ![p] = @ \union {q}]
    /\ Operation(p, LinkMessage(p, q)) /\ UNCHANGED remote_monitors

\* A fault: the local half of an unlink is forgotten.
UnlinkThere(p, q) ==
    /\ UNCHANGED remote_links
    /\ Operation(p, UnlinkMessage(p, q)) /\ UNCHANGED remote_monitors

Unlink(p, q) ==
    /\ remote_links' = [remote_links EXCEPT ![p] = @ \ {q}]
    /\ Operation(p, UnlinkMessage(p, q)) /\ UNCHANGED remote_monitors

Monitor(p, q) ==
    LET ref == Exact(ops[p] + 1)
    IN /\ remote_monitors' =
            [remote_monitors EXCEPT ![p] = @ \union {[ref |-> ref, pid |-> q]}]
       /\ Operation(p, MonitorMessage(p, q, ref)) /\ UNCHANGED remote_links

Demonitor(p, mon) ==
    /\ mon \in remote_monitors[p]
    /\ remote_monitors' = [remote_monitors EXCEPT ![p] = @ \ {mon}]
    /\ Operation(p, DemonitorMessage(p, mon.pid, Hashed(mon.ref)))
    /\ UNCHANGED remote_links

\* To a pid, or to a name that the other node resolves when it arrives.
Send(p, q) ==
    /\ \/ Operation(p, SendMessage(p, q))
       \/ Operation(p, RegSendMessage(p, q))
    /\ UNCHANGED <<remote_links, remote_monitors>>

\* A connection its task no longer waits for: nothing closes its socket.
Abandoned(cs, p) ==
    [i \in DOMAIN cs |->
        IF cs[i].owner = p /\ cs[i].at["client"] # "up"
        THEN [cs[i] EXCEPT !.at["client"] = "closed"] ELSE cs[i]]

\* A process ends: it returns, its function raises, or it was cancelled, be it
\* while it waits for a connection.  Its links are told of an exception only,
\* its monitors of every end.
ExitMessages(p, reason) ==
    SetToSeq({ExitMessage(p, q, reason) :
                q \in IF reason = "exception" THEN remote_links[p] ELSE {}})
    \o SetToSeq({MonitorExitMessage(p, m.pid, Hashed(m.ref), reason) :
                m \in monitored_by[p]})

End(p, reason) ==
    /\ status[p] = "live"
    /\ IF p \in cancelled THEN reason = "shutdown"
       ELSE reason \in {"normal", "exception"} /\ todo[p] = <<>>
    /\ Emit(p, Home[p], Abandoned(conns, p), connections,
            ExitMessages(p, reason), TRUE)
    /\ monitored_by' = IF status'[p] = "gone"
                       THEN [monitored_by EXCEPT ![p] = {}] ELSE monitored_by
    /\ UNCHANGED <<cookie, published, connections, cancelled, remote_links,
                   remote_monitors, inbox, ops>>

-----------------------------------------------------------------------------
\* The handshake.  A step takes a frame, or finds the connection closed.
Ready(i, s) == conns[i].wire[s] # <<>>
Frame(i, s) == Head(conns[i].wire[s])
Taken(i, s) == [conns EXCEPT ![i].wire[s] = Tail(@)]
Closed(i, s) == ~conns[i].open /\ conns[i].wire[s] = <<>>

Closing(cs, i, s) == [cs EXCEPT ![i].open = FALSE, ![i].wire[s] = <<>>,
                                ![i].at[s] = "closed"]
Register(i, s) ==
    [connections EXCEPT ![conns[i].node[s]][conns[i].node[Other(s)]] = i]

Kept == UNCHANGED <<cookie, published, cancelled, remote_links, remote_monitors, inbox, ops>>
Aside == UNCHANGED <<status, monitored_by, todo, faults, raised>>

ServerNamed(i) ==
    /\ conns[i].at["server"] = "name" /\ Ready(i, "server")
    /\ conns' = [Taken(i, "server") EXCEPT ![i] =
                    [Put(@, "client", <<[kind |-> "status"], [kind |-> "challenge"]>>)
                        EXCEPT !.at["server"] = "reply"]]
    /\ UNCHANGED connections /\ Kept /\ Aside

\* A fault: the digest of a reply is not looked at.
ServerTrusts(i) ==
    /\ conns[i].at["server"] = "reply" /\ Ready(i, "server")
    /\ LET cs == Taken(i, "server")
       IN IF TRUE
          THEN /\ conns' = [cs EXCEPT ![i] =
                    [Put(@, "client",
                        <<[kind |-> "ack",
                           digest |-> Digest(conns[i].node["server"], "client")]>>)
                        EXCEPT !.at["server"] = "up"]]
               /\ connections' = Register(i, "server")
          ELSE conns' = Closing(cs, i, "server") /\ UNCHANGED connections
    /\ Kept /\ Aside

ServerChecks(i) ==
    /\ conns[i].at["server"] = "reply" /\ Ready(i, "server")
    /\ LET cs == Taken(i, "server")
       IN IF Frame(i, "server").digest = Digest(conns[i].node["server"], "server")
          THEN /\ conns' = [cs EXCEPT ![i] =
                    [Put(@, "client",
                        <<[kind |-> "ack",
                           digest |-> Digest(conns[i].node["server"], "client")]>>)
                        EXCEPT !.at["server"] = "up"]]
               /\ connections' = Register(i, "server")
          ELSE conns' = Closing(cs, i, "server") /\ UNCHANGED connections
    /\ Kept /\ Aside

ServerLost(i) ==
    /\ conns[i].at["server"] \in {"name", "reply"} /\ Closed(i, "server")
    /\ conns' = Closing(conns, i, "server")
    /\ UNCHANGED connections /\ Kept /\ Aside

ClientGoesOn(i) ==
    /\ conns[i].at["client"] = "status" /\ Ready(i, "client")
    /\ conns' = [Taken(i, "client") EXCEPT ![i].at["client"] = "challenge"]
    /\ UNCHANGED connections /\ Kept /\ Aside

ClientReplies(i) ==
    /\ conns[i].at["client"] = "challenge" /\ Ready(i, "client")
    /\ conns' = [Taken(i, "client") EXCEPT ![i] =
                    [Put(@, "server",
                        <<[kind |-> "reply",
                           digest |-> Digest(conns[i].node["client"], "server")]>>)
                        EXCEPT !.at["client"] = "ack"]]
    /\ UNCHANGED connections /\ Kept /\ Aside

Settle == monitored_by' = [p \in Procs |->
            IF status'[p] = "gone" /\ status[p] # "gone" THEN {} ELSE monitored_by[p]]

\* A fault: a task that had to connect forgets what it had to send.
ClientForgets(i) ==
    LET t == conns[i].owner
        n == conns[i].node["client"]
    IN /\ conns[i].at["client"] = "ack" /\ Ready(i, "client")
       /\ Frame(i, "client").digest = Digest(n, "client")
       /\ connections' = Register(i, "client")
       /\ Emit(t, n, [Taken(i, "client") EXCEPT ![i].at["client"] = "up"],
               connections', <<>>, t \in Procs /\ status[t] = "ending")
       /\ Settle /\ Kept

\* The task that opened the connection goes on at once with what it has to send.
ClientChecks(i) ==
    LET t == conns[i].owner
        n == conns[i].node["client"]
    IN /\ conns[i].at["client"] = "ack" /\ Ready(i, "client")
       /\ Frame(i, "client").digest = Digest(n, "client")
       /\ connections' = Register(i, "client")
       /\ Emit(t, n, [Taken(i, "client") EXCEPT ![i].at["client"] = "up"],
               connections', todo[t], t \in Procs /\ status[t] = "ending")
       /\ Settle /\ Kept

\* An error: the socket is left as it is.
ClientFails(i) ==
    LET t == conns[i].owner
    IN /\ conns[i].at["client"] \in {"status", "challenge", "ack"}
       /\ \/ Closed(i, "client")
          \/ /\ conns[i].at["client"] = "ack" /\ Ready(i, "client")
             /\ Frame(i, "client").digest # Digest(conns[i].node["client"], "client")
       /\ conns' = [conns EXCEPT ![i].at["client"] = "closed"]
       /\ raised' = TRUE /\ todo' = [todo EXCEPT ![t] = <<>>]
       /\ status' = IF t \in Procs /\ status[t] = "ending"
                    THEN [status EXCEPT ![t] = "stuck"] ELSE status
       /\ UNCHANGED <<connections, monitored_by, faults>> /\ Kept

-----------------------------------------------------------------------------
\* A receive loop: _receive_loop, the message handler and _handle_control.
Track(cs) ==     \* a message that only changes this node's tables
    /\ conns' = cs
    /\ UNCHANGED <<connections, status, cancelled, todo, faults, raised>>

Answer(t, n, cs, m) ==
    /\ Emit(t, n, cs, connections, <<m>>, FALSE)
    /\ UNCHANGED <<connections, cancelled, inbox>> /\ UNCHANGED tables

LinkIncoming(t, n, cs, m) ==
    IF Alive(m.to)
    THEN /\ remote_links' = [remote_links EXCEPT ![m.to] = @ \union {m.from}]
         /\ UNCHANGED <<remote_monitors, monitored_by, inbox>> /\ Track(cs)
    ELSE Answer(t, n, cs, ExitMessage(m.to, m.from, "noproc"))

UnlinkIncoming(cs, m) ==
    /\ remote_links' = [remote_links EXCEPT ![m.to] = @ \ {m.from}]
    /\ UNCHANGED <<remote_monitors, monitored_by, inbox>> /\ Track(cs)

MonitorIncoming(t, n, cs, m) ==
    IF Alive(m.to)
    THEN /\ monitored_by' = [monitored_by EXCEPT ![m.to] =
                                @ \union {[ref |-> m.ref, pid |-> m.from]}]
         /\ UNCHANGED <<remote_links, remote_monitors, inbox>> /\ Track(cs)
    ELSE Answer(t, n, cs, MonitorExitMessage(m.to, m.from, m.ref, "noproc"))

DemonitorIncoming(cs, m) ==
    /\ monitored_by' = [monitored_by EXCEPT ![m.to] = {x \in @ : x.ref # m.ref}]
    /\ UNCHANGED <<remote_links, remote_monitors, inbox>> /\ Track(cs)

\* Of what is delivered the signals are kept in sight.
Delivered(cs, m) ==
    /\ inbox' = IF Alive(m.to) /\ m.kind \in {"exit", "down"}
                THEN [inbox EXCEPT ![m.to] = @ \union {m}] ELSE inbox
    /\ UNCHANGED tables /\ Track(cs)

\* exit(): the task is cancelled; an exit handler that waits for a connection
\* is abandoned half-way.
ExitIncoming(cs, m) ==
    IF ~Alive(m.to) \/ m.to \in Trapping THEN Delivered(cs, m)
    ELSE /\ cancelled' = cancelled \union {m.to}
         /\ IF status[m.to] = "ending"
            THEN /\ status' = [status EXCEPT ![m.to] = "stuck"]
                 /\ todo' = [todo EXCEPT ![m.to] = <<>>]
                 /\ conns' = Abandoned(cs, m.to)
            ELSE conns' = cs /\ UNCHANGED <<status, todo>>
         /\ UNCHANGED <<connections, inbox, faults, raised>> /\ UNCHANGED tables

MonitorExitIncoming(cs, m) == Delivered(cs, m)

Handle(t, n, cs, m) ==
    \/ m.kind = "link"      /\ LinkIncoming(t, n, cs, m)
    \/ m.kind = "unlink"    /\ UnlinkIncoming(cs, m)
    \/ m.kind = "exit"      /\ ExitIncoming(cs, m)
    \/ m.kind = "monitor"   /\ MonitorIncoming(t, n, cs, m)
    \/ m.kind = "demonitor" /\ DemonitorIncoming(cs, m)
    \/ m.kind = "down"      /\ MonitorExitIncoming(cs, m)
    \/ m.kind \in {"send", "reg_send"} /\ Delivered(cs, m)

ReceiveControl(i, s) ==
    /\ conns[i].at[s] = "up" /\ todo[<<i, s>>] = <<>> /\ Ready(i, s)
    /\ Handle(<<i, s>>, conns[i].node[s], Taken(i, s), Frame(i, s))
    /\ UNCHANGED <<cookie, published, ops>>

\* A fault: the entry of a connection that ended stays.
LoopEndsKept(i, s) ==
    /\ conns[i].at[s] = "up" /\ todo[<<i, s>>] = <<>> /\ Closed(i, s)
    /\ conns' = Closing(conns, i, s)
    /\ UNCHANGED connections /\ Kept /\ Aside

\* The loop ends: the entry for its node goes, whichever connection it holds.
LoopEnds(i, s) ==
    /\ conns[i].at[s] = "up" /\ todo[<<i, s>>] = <<>> /\ Closed(i, s)
    /\ conns' = Closing(conns, i, s)
    /\ connections' =
        [connections EXCEPT ![conns[i].node[s]][conns[i].node[Other(s)]] = 0]
    /\ Kept /\ Aside

\* The network: the connection breaks, and what is under way may be lost.
Break(i) ==
    /\ conns[i].open /\ faults < MaxFaults /\ faults' = faults + 1
    /\ \E k \in 0 .. Len(conns[i].wire["client"]),
          l \in 0 .. Len(conns[i].wire["server"]) :
         conns' = [conns EXCEPT ![i].open = FALSE,
                    ![i].wire = [client |-> SubSeq(@["client"], 1, k),
                                 server |-> SubSeq(@["server"], 1, l)]]
    /\ UNCHANGED <<connections, status, monitored_by, todo, raised>> /\ Kept

-----------------------------------------------------------------------------
Remote(p, q) == Home[p] # Home[q]

Calls ==
    \E p, q \in Procs :
        /\ Remote(p, q)
        /\ \/ p \notin Linkers /\ Send(p, q)
           \/ p \in Linkers /\ (Link(p, q) \/ Unlink(p, q) \/ Monitor(p, q))
Demonitors == \E p \in Procs : \E mon \in remote_monitors[p] : Demonitor(p, mon)
Ends == \E p \in Procs, reason \in {"normal", "shutdown", "exception"} :
            End(p, reason)

Handshake(i) == ServerNamed(i) \/ ServerChecks(i) \/ ServerLost(i)
                \/ ClientGoesOn(i) \/ ClientReplies(i) \/ ClientChecks(i)
                \/ ClientFails(i)
Loop(i) == \E s \in Sides : ReceiveControl(i, s) \/ LoopEnds(i, s)

Next ==
    \/ Calls \/ Demonitors \/ Ends
    \/ \E i \in DOMAIN conns : Handshake(i) \/ Loop(i) \/ Break(i)

\* Tasks run when they can: what a connection holds is read.
Spec == Init /\ [][Next]_vars
        /\ WF_vars(\E i \in DOMAIN conns : Handshake(i) \/ Loop(i))

-----------------------------------------------------------------------------
\* send_message writes to whatever connections holds: a registered connection
\* always has its receive loop, so that its end is noticed and it is replaced.
RegisteredServed ==
    \A n, m \in Node : connections[n][m] # 0 =>
        LET c == conns[connections[n][m]]
        IN c.at[Side(c, n)] = "up" /\ c.node[Other(Side(c, n))] = m

\* No control message crosses between nodes with different cookies, whichever
\* end opened the connection.
CookiesAgree ==
    \A i \in DOMAIN conns : \A s \in Sides :
        conns[i].at[s] = "up"
            => cookie[conns[i].node["client"]] = cookie[conns[i].node["server"]]

\* Two live processes of two nodes agree that they are linked, when only one of
\* them links and unlinks, every call went well, one connection served them and
\* nothing is under way.  (Otherwise a LINK and an UNLINK may cross or overtake.)
Quiet ==
    /\ \A t \in Tasks : todo[t] = <<>>
    /\ \A i \in DOMAIN conns, s \in Sides : conns[i].wire[s] = <<>>

LinksAgree ==
    Quiet /\ Len(conns) <= 1 /\ faults = 0 /\ ~raised =>
        \A p \in Linkers, q \in Procs \ Linkers :
            Remote(p, q) /\ status[p] = "live" /\ status[q] = "live"
                => (q \in remote_links[p] <=> p \in remote_links[q])

\* A remote monitor is answered: when its target is gone a DOWN from it reaches
\* the watcher, whether the MONITOR came before or after the end.  (The DOWN of
\* an end carries another reference than the one monitor() returned.)
Fine(p) == status[p] = "live" /\ ~raised /\ faults = 0
Watching(p, q, ref) == [ref |-> ref, pid |-> q] \in remote_monitors[p]
DownsArrive ==
    \A p \in Linkers : \A q \in Procs, k \in 1 .. MaxOps[p] :
        Watching(p, q, Exact(k)) /\ status[q] = "gone" /\ Fine(p)
            ~> \/ ~Fine(p) \/ ~Watching(p, q, Exact(k))
               \/ \E m \in inbox[p] : m.kind = "down" /\ m.from = q
                                      /\ m.ref \in {Exact(k), Hashed(Exact(k))}
=============================================================================
