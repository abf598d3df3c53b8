---------------------------- MODULE RequestReply ----------------------------
(***************************************************************************)
(* What gen_server.call promises its callers: a call returns a reply only  *)
(* if its own request was handled, reports the server's exit only if that  *)
(* server is on its way out, and has one outcome.                          *)
(***************************************************************************)
CONSTANTS Ids, Instances, None

VARIABLES
    status,     \* of each call
    to,         \* the server instance a call was sent to
    executed,   \* calls handed to handle_call
    stopped     \* instances that have been told to exit or have ended

vars == <<status, to, executed, stopped>>

Statuses == {"unused", "waiting", "replied", "exited", "timed_out", "abandoned", "refused", "cancelled"}

TypeOK ==
    /\ status \in [Ids -> Statuses]
    /\ to \in [Ids -> Instances \cup {None}]
    /\ executed \subseteq Ids
    /\ stopped \subseteq Instances

Init ==
    /\ status = [id \in Ids |-> "unused"]
    /\ to = [id \in Ids |-> None]
    /\ executed = {}
    /\ stopped = {}

\* One step may end a server in the middle of a call of its own, so each call
\* and each server moves by its own rule.
Moves(id) ==
    \/ UNCHANGED <<status[id], to[id]>>
    \/ status[id] = "unused" /\ status'[id] = "waiting" /\ to'[id] \in Instances
    \/ status[id] = "unused" /\ status'[id] \in {"refused", "cancelled"} /\ UNCHANGED to[id]
    \/ /\ status[id] = "waiting" /\ UNCHANGED to[id]
       /\ \/ status'[id] = "replied" /\ id \in executed
          \/ status'[id] = "exited" /\ to[id] \in stopped
          \/ status'[id] \in {"timed_out", "abandoned"}

\* A server handles only requests that were sent to it, while nothing has stopped it.
Executes(id) == to[id] \in Instances \ stopped

Next ==
    /\ DOMAIN status' = Ids /\ DOMAIN to' = Ids
    /\ \A id \in Ids : Moves(id)
    /\ executed \subseteq executed' /\ \A id \in executed' \ executed : Executes(id)
    /\ stopped \subseteq stopped' /\ stopped' \subseteq Instances

Spec == Init /\ [][Next]_vars
=============================================================================
