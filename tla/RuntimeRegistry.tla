--------------------------- MODULE RuntimeRegistry --------------------------
(***************************************************************************)
(* The backend in use (runtime/registry.py) and the functions that look it *)
(* up at each call (process/api.py, inet/tcp.py, inet/udp.py).             *)
(*                                                                         *)
(* Users are tasks of one event loop; registry functions do not suspend,   *)
(* so each is one step.  A call of the process API looks the backend up    *)
(* once and then suspends in the backend's own operation.                  *)
(***************************************************************************)
EXTENDS Naturals, Sequences, FiniteSets

CONSTANTS
    Users,
    Backends,
    Subscribers,   \* modules that cache the backend and asked to be told of changes
    MaxContexts,   \* bound: with_runtime blocks open at once
    NoBackend

VARIABLES
    current,       \* _current_backend
    blocks,        \* open with_runtime blocks, innermost last: user, backend, previous
    cached,        \* the backend each subscriber has cached
    collected,     \* subscribers whose callback the weak set has lost
    failed,        \* subscribers whose callback raised at the last change
    request,       \* each user: the backend that serves the API call it is in
    beneath        \* history: the backends in use when the open blocks were entered

registryVars == <<current, blocks, cached, collected, failed, request, beneath>>

NoCall == NoBackend

RegistryInit ==
    /\ current = NoBackend
    /\ blocks = <<>>
    /\ cached = [m \in Subscribers |-> NoBackend]
    /\ collected = {} /\ failed = {}
    /\ request = [u \in Users |-> NoCall]
    /\ beneath = <<>>

Told(raising) ==
    [m \in Subscribers |-> IF m \in collected \cup raising THEN cached[m] ELSE NoBackend]

\* Fault: the first exception ends the round, with all still to be told.
NotifyUntilRaise ==
    \E raising \in SUBSET (Subscribers \ collected) :
        /\ failed' = raising
        /\ cached' = IF raising = {} THEN Told({}) ELSE cached

\* _notify_change_listeners: the callbacks that are left drop their caches, and one
\* that raises is passed over.
Notify ==
    \E raising \in SUBSET (Subscribers \ collected) :
        /\ failed' = raising
        /\ cached' = Told(raising)

SetRuntime(b) == current' = b /\ Notify

\* reset_runtime tells nobody when there was nothing to reset.
ResetRuntime ==
    /\ current' = NoBackend
    /\ IF current = NoBackend THEN UNCHANGED <<cached, failed>> ELSE Notify

\* use_runtime, set_runtime and reset_runtime outside any block.
Install ==
    /\ blocks = <<>>
    /\ \/ \E b \in Backends : SetRuntime(b)
       \/ ResetRuntime
    /\ UNCHANGED <<blocks, collected, request, beneath>>

\* Fault: the backend is remembered after it was replaced.
PreviousLate(b) == b
Previous(b) == current

\* __enter__
Enter(u) ==
    /\ Len(blocks) < MaxContexts /\ request[u] = NoCall
    /\ \E b \in Backends :
          /\ blocks' = Append(blocks, [user |-> u, backend |-> b, previous |-> Previous(b)])
          /\ SetRuntime(b)
    /\ beneath' = Append(beneath, current)
    /\ UNCHANGED <<collected, request>>

\* __exit__, of blocks that are left in the reverse order of entry.
Exit(u) ==
    /\ blocks # <<>> /\ request[u] = NoCall
    /\ LET block == blocks[Len(blocks)]
       IN /\ block.user = u
          /\ IF block.previous = NoBackend THEN ResetRuntime ELSE SetRuntime(block.previous)
    /\ blocks' = SubSeq(blocks, 1, Len(blocks) - 1)
    /\ beneath' = SubSeq(beneath, 1, Len(beneath) - 1)
    /\ UNCHANGED <<collected, request>>

\* A subscriber keeps what get_runtime returned.
Cache(m) ==
    /\ cached' = [cached EXCEPT ![m] = current]
    /\ UNCHANGED <<current, blocks, collected, failed, request, beneath>>

\* add_change_listener keeps callbacks in a WeakSet: one that nobody else refers to,
\* such as a bound method or a closure, is collected and no longer told.
Collect(m) ==
    /\ collected' = collected \cup {m}
    /\ UNCHANGED <<current, blocks, cached, failed, request, beneath>>

-----------------------------------------------------------------------------
(* Calls.  Without a backend the asynchronous operations raise and the     *)
(* queries answer None, False or an empty list; no backend has the         *)
(* operations the socket functions ask for.                                *)

SpawnOps == {"spawn", "spawn_link", "spawn_monitor"}
MessageOps == {"send", "receive", "send_after", "sleep", "cancel_timer", "read_timer"}
NameOps == {"register", "unregister"}
SignalOps == {"link", "unlink", "monitor", "demonitor", "exit"}
Queries == {"self", "whereis", "whereis_name", "is_alive", "processes", "registered"}
StreamOps == {"tcp_connect", "tcp_listen", "tcp_accept", "tcp_send", "tcp_recv", "tcp_close",
              "tcp_shutdown", "tcp_peername", "tcp_sockname", "tcp_setopts", "tcp_getopts",
              "tcp_controlling_process"}
DatagramOps == {"udp_open", "udp_send", "udp_recv", "udp_close", "udp_setopts", "udp_getopts",
                "udp_sockname"}
Operations == SpawnOps \cup MessageOps \cup NameOps \cup SignalOps \cup Queries
              \cup StreamOps \cup DatagramOps

Outcome(op) ==
    IF op \in StreamOps \cup DatagramOps THEN "AttributeError"
    ELSE IF current # NoBackend THEN "served"
    ELSE IF op \in Queries THEN "nothing" ELSE "RuntimeError"

Call(u) ==
    /\ request[u] = NoCall
    /\ \E op \in Operations :
          request' = [request EXCEPT ![u] = IF Outcome(op) = "served" THEN current ELSE NoCall]
    /\ UNCHANGED <<current, blocks, cached, collected, failed, beneath>>

Return(u) ==
    /\ request[u] # NoCall
    /\ request' = [request EXCEPT ![u] = NoCall]
    /\ UNCHANGED <<current, blocks, cached, collected, failed, beneath>>

RegistryNext ==
    \/ Install
    \/ \E u \in Users : Enter(u) \/ Exit(u) \/ Call(u) \/ Return(u)
    \/ \E m \in Subscribers : Cache(m) \/ Collect(m)

RegistrySpec == RegistryInit /\ [][RegistryNext]_registryVars

-----------------------------------------------------------------------------
(* Properties.                                                             *)

\* "Automatically restores the previous backend when exiting the context": when
\* blocks are left in reverse order, the end of each brings back what was in use
\* beneath it, whoever opened and left blocks meanwhile.
ExitRestores ==
    [][Len(blocks') < Len(blocks) => current' = beneath[Len(beneath)]]_registryVars

\* A subscriber does not go on using a backend that is no longer current, whichever
\* other callbacks raise, unless its own has raised or was collected.
CachesFresh ==
    \A m \in Subscribers \ (collected \cup failed) : cached[m] \in {NoBackend, current}

\* The backend in use is the one beneath, for whoever cached one as well.
BackendsRestored == ExitRestores /\ [][CachesFresh']_registryVars
=============================================================================
