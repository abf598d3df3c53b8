------------------------------ MODULE Sockets -------------------------------
(***************************************************************************)
(* One TCP connection of the asyncio backend (tcp.py): accept, the reader  *)
(* tasks of active mode, recv in passive mode, and close.                  *)
(*                                                                         *)
(* A step lasts until the task suspends: in StreamReader.read, in the      *)
(* accept queue, or where a call awaits the reader task it cancelled.      *)
(* Received bytes are numbered; a read takes at most ReadSize of them.     *)
(* The stream reader is external: it holds the bytes that arrived, and at  *)
(* most one task that waits for more.                                      *)
(***************************************************************************)
EXTENDS Naturals, FiniteSets, Sequences

CONSTANTS
    Callers,     \* tasks that call the functions of the module
    Owners,      \* processes that may control the socket
    ReadSize,    \* SocketOptions.buffer_size
    MaxBytes,    \* bound: bytes the peer sends
    MaxReaders,  \* bound: reader tasks over the life of the socket
    Nobody

Tasks == 1 .. MaxReaders

ASSUME SocketsAssumption ==
    /\ ReadSize \in Nat /\ MaxBytes \in Nat /\ MaxReaders \in Nat
    /\ Callers \cap Tasks = {} /\ Nobody \notin Callers \cup Tasks

VARIABLES
    phase,       \* the connection: absent, queued for accept, open or closed
    sent, eof,   \* what the peer has sent; whether the stream has ended
    buffer,      \* StreamReader._buffer
    waiter,      \* StreamReader._waiter: the reader task or caller that waits
    reader,      \* each reader task: absent, new, waiting, woken, done
    target,      \* controlling_pid of each reader task
    cancelling,  \* reader tasks whose cancellation is not delivered
    registered,  \* _active_readers[id(socket)], or 0
    pending,     \* each caller: idle, or the call it is in and what it awaits
    heard,       \* history: who received which byte or end of stream
    owner,       \* history: who the calls that returned have left in control
    overlapped   \* history: a call was made during another

socketVars == <<phase, sent, eof, buffer, waiter, reader, target, cancelling,
                registered, pending, heard, owner, overlapped>>

Idle == [op |-> "idle"]
CLOSED == 0              \* TCP_CLOSED
ERROR == MaxBytes + 1    \* TCP_ERROR

SocketsInit ==
    /\ phase = "absent"
    /\ sent = 0 /\ eof = FALSE
    /\ buffer = <<>>
    /\ waiter = Nobody
    /\ reader = [r \in Tasks |-> "absent"]
    /\ target = [r \in Tasks |-> Nobody]
    /\ cancelling = {}
    /\ registered = 0
    /\ pending = [c \in Callers |-> Idle]
    /\ heard = <<>>
    /\ owner = Nobody
    /\ overlapped = FALSE

Running(r) == r # 0 /\ reader[r] \in {"new", "waiting", "woken"}
Hears(who, things) == heard' = heard \o [k \in DOMAIN things |-> <<who, things[k]>>]

-----------------------------------------------------------------------------
(* The peer.                                                               *)

\* The listening server's callback puts the connection into the queue.
Connect ==
    /\ phase = "absent"
    /\ phase' = "queued"
    /\ UNCHANGED <<sent, eof, buffer, waiter, reader, target, cancelling, registered,
                   pending, heard, owner>>

\* feed_data and feed_eof wake the task that waits.
WakeWaiter ==
    /\ waiter' = Nobody
    /\ reader' = [r \in Tasks |-> IF waiter = r THEN "woken" ELSE reader[r]]
    /\ pending' = [c \in Callers |-> IF waiter = c THEN [op |-> "recv", at |-> "woken"]
                                                ELSE pending[c]]

Arrive ==
    /\ phase \in {"queued", "open"} /\ ~eof /\ sent < MaxBytes
    /\ sent' = sent + 1
    /\ buffer' = Append(buffer, sent + 1)
    /\ WakeWaiter
    /\ UNCHANGED <<phase, eof, target, cancelling, registered, heard, owner>>

\* The peer closes, shutdown(socket, 'read') ends the stream, or the transport
\* that close() closed is lost.
EndOfStream ==
    /\ phase # "absent" /\ ~eof
    /\ eof' = TRUE
    /\ WakeWaiter
    /\ UNCHANGED <<phase, sent, buffer, target, cancelling, registered, heard, owner>>

-----------------------------------------------------------------------------
(* _active_reader_loop.                                                    *)

Least(a, b) == IF a < b THEN a ELSE b
Drop(n) == SubSeq(buffer, n + 1, Len(buffer))

\* The finally clause: the entry goes, whatever task it names.
Unregister == registered' = 0

\* From a read that returns to the next that waits, or to the end.  send() does
\* not suspend, so a reader with bytes at hand passes all of them on.
Reads(r) ==
    /\ IF eof \/ (reader[r] = "woken" /\ buffer = <<>>)
         THEN /\ Hears(target[r], buffer \o <<CLOSED>>)
              /\ reader' = [reader EXCEPT ![r] = "done"]
              /\ Unregister
              /\ UNCHANGED waiter
         ELSE IF waiter # Nobody
         THEN /\ Hears(target[r], buffer \o <<ERROR>>)
              /\ reader' = [reader EXCEPT ![r] = "done"]
              /\ Unregister
              /\ UNCHANGED waiter
         ELSE /\ Hears(target[r], buffer)
              /\ reader' = [reader EXCEPT ![r] = "waiting"]
              /\ waiter' = r
              /\ UNCHANGED registered
    /\ buffer' = <<>>

ActiveReaderLoop(r) ==
    /\ reader[r] \in {"new", "woken"} /\ r \notin cancelling
    /\ Reads(r)
    /\ UNCHANGED <<phase, sent, eof, target, cancelling, pending, owner>>

\* Fault: the bytes a reader was woken for go with it.
KeptTooFew(r) == IF reader[r] = "woken" THEN <<>> ELSE buffer

\* A cancelled reader takes nothing from the stream.
Kept(r) == buffer

\* The cancellation reaches the task: before its first step nothing of it runs.
ReaderCancelled(r) ==
    /\ r \in cancelling /\ Running(r)
    /\ reader' = [reader EXCEPT ![r] = "done"]
    /\ cancelling' = cancelling \ {r}
    /\ waiter' = IF waiter = r THEN Nobody ELSE waiter
    /\ IF reader[r] = "new" THEN UNCHANGED registered ELSE Unregister
    /\ buffer' = Kept(r)
    /\ UNCHANGED <<phase, sent, eof, target, pending, heard, owner>>

-----------------------------------------------------------------------------
(* Calls.                                                                  *)

NextTask == Cardinality({r \in Tasks : reader[r] # "absent"}) + 1

StartReader(p) ==
    /\ NextTask \in Tasks
    /\ reader' = [reader EXCEPT ![NextTask] = "new"]
    /\ target' = [target EXCEPT ![NextTask] = p]
    /\ registered' = NextTask

\* What a call does once the reader it found has ended.
Effect(op, p) ==
    CASE op = "active" ->
            StartReader(p) /\ owner' = p /\ UNCHANGED phase
      [] op = "passive" ->
            /\ registered' = 0 /\ owner' = Nobody
            /\ UNCHANGED <<phase, reader, target>>
      [] op = "close" ->
            /\ phase' = "closed" /\ owner' = Nobody
            /\ UNCHANGED <<reader, target, registered>>

\* controlling_process acts only on a socket it finds in active mode.
Controls(op) == op = "control"
EffectOn(op, p, found) ==
    IF Controls(op)
      THEN IF found THEN Effect("active", p)
                    ELSE UNCHANGED <<phase, reader, target, registered, owner>>
      ELSE Effect(op, p)

\* Fault: the cancelled reader is not awaited.
AwaitsNothing(r) == FALSE
Awaits(r) == Running(r)

\* set_active_mode, controlling_process and close up to the await.
BeginCall(c, op, p) ==
    /\ phase = "open" /\ pending[c] = Idle
    /\ LET found == Running(registered)
       IN /\ cancelling' = IF found THEN cancelling \cup {registered} ELSE cancelling
          /\ IF Awaits(registered)
               THEN /\ pending' = [pending EXCEPT ![c] =
                                   [op |-> op, pid |-> p, task |-> registered]]
                    /\ UNCHANGED <<phase, reader, target, registered, owner>>
               ELSE EffectOn(op, p, found) /\ UNCHANGED pending
    /\ UNCHANGED <<sent, eof, buffer, waiter, heard>>

\* The rest of it.
Finish(c) ==
    /\ pending[c].op \in {"active", "passive", "control", "close"}
    /\ reader[pending[c].task] = "done"
    /\ EffectOn(pending[c].op, pending[c].pid, TRUE)
    /\ pending' = [pending EXCEPT ![c] = Idle]
    /\ UNCHANGED <<sent, eof, buffer, waiter, cancelling, heard>>

Accept(c) ==
    \/ /\ phase \in {"absent", "queued"} /\ pending[c] = Idle
       /\ pending' = [pending EXCEPT ![c] = [op |-> "accept"]]
       /\ UNCHANGED phase
    \/ /\ pending[c].op = "accept" /\ phase = "queued"
       /\ pending' = [pending EXCEPT ![c] = Idle]
       /\ phase' = "open"
    \/ /\ pending[c].op = "accept"       \* the timeout
       /\ pending' = [pending EXCEPT ![c] = Idle]
       /\ UNCHANGED phase

\* recv takes what is there and otherwise waits; at the end it gets nothing.
Recv(c) ==
    \/ /\ phase = "open" /\ pending[c] = Idle /\ ~Running(registered)
       /\ waiter = Nobody /\ buffer = <<>> /\ ~eof
       /\ waiter' = c
       /\ pending' = [pending EXCEPT ![c] = [op |-> "recv", at |-> "waiting"]]
       /\ UNCHANGED <<buffer, heard>>
    \/ /\ \/ phase = "open" /\ pending[c] = Idle /\ ~Running(registered) /\ buffer # <<>>
          \/ pending[c] = [op |-> "recv", at |-> "woken"]
       /\ LET n == Least(ReadSize, Len(buffer))
          IN /\ Hears(c, SubSeq(buffer, 1, n))
             /\ buffer' = Drop(n)
       /\ pending' = [pending EXCEPT ![c] = Idle]
       /\ UNCHANGED waiter
    \/ /\ pending[c].op = "recv"         \* the timeout
       /\ pending' = [pending EXCEPT ![c] = Idle]
       /\ waiter' = IF waiter = c THEN Nobody ELSE waiter
       /\ UNCHANGED <<buffer, heard>>

CallStep(c) ==
    \/ \E p \in Owners, op \in {"active", "control"} : BeginCall(c, op, p)
    \/ \E op \in {"passive", "close"} : BeginCall(c, op, Nobody)
    \/ Finish(c)
    \/ /\ Accept(c)
       /\ UNCHANGED <<sent, eof, buffer, waiter, reader, target, cancelling, registered,
                      heard, owner>>
    \/ /\ Recv(c)
       /\ UNCHANGED <<phase, sent, eof, reader, target, cancelling, registered, owner>>

Overlap(c) == pending[c] = Idle /\ \E d \in Callers : pending[d] # Idle

SocketsNext ==
    \/ /\ \/ Connect \/ Arrive \/ EndOfStream
          \/ \E r \in Tasks : ActiveReaderLoop(r) \/ ReaderCancelled(r)
       /\ UNCHANGED overlapped
    \/ \E c \in Callers : CallStep(c) /\ overlapped' = (overlapped \/ Overlap(c))

SocketsSpec == SocketsInit /\ [][SocketsNext]_socketVars

-----------------------------------------------------------------------------
(* Properties.                                                             *)

\* Where bytes were heard, as opposed to an end or an error.
HeardBytes == {k \in DOMAIN heard : heard[k][2] \in 1 .. MaxBytes}

\* Switching between active and passive mode, handing the socket over, timeouts,
\* cancelled readers and calls that overlap lose no byte of the stream, repeat none and
\* change no order: what was heard and what is buffered is what the peer sent.
StreamKept ==
    LET taken == sent - Len(buffer)
    IN /\ buffer = [k \in 1 .. Len(buffer) |-> taken + k]
       /\ {heard[k][2] : k \in HeardBytes} = 1 .. taken
       /\ \A j, k \in HeardBytes : j < k => heard[j][2] < heard[k][2]

\* Once set_active_mode, controlling_process or close has returned, and where no two
\* calls overlapped, only the process it left in control hears from the socket, and
\* nobody after a switch to passive mode: no reader survives unknown to the registry.
OnlyOwnerHears ==
    [][~ overlapped' =>
        \A k \in DOMAIN heard' \ DOMAIN heard : heard'[k][1] \in {owner} \cup Callers]_socketVars

\* The owner is served: every byte once and in order, and to nobody else.
OwnerServed == [][StreamKept']_socketVars /\ OnlyOwnerHears
=============================================================================
