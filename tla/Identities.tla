----------------------------- MODULE Identities -----------------------------
(***************************************************************************)
(* What gives out identities: the atom table (atom/table.py), which        *)
(* threads use at once, and the pid allocators of a backend (pid.py).      *)
(*                                                                         *)
(* A thread's step is one access to the table that others can see; the     *)
(* interpreter makes each dictionary access atomic.  The allocator's lock  *)
(* covers code that never suspends, so allocate() is one step.             *)
(***************************************************************************)
EXTENDS Naturals, Sequences, FiniteSets

CONSTANTS
    Threads,
    AtomNames,
    NodeNames,      \* names set_node_name may give this node
    LocalNode,      \* the name before it has one: "otpylib@localhost"
    MaxId,          \* PidAllocator.MAX_ID, scaled down
    MaxSerial,      \* PidAllocator.MAX_SERIAL, scaled down
    MaxPids,        \* bound: pids allocated
    NoThread

ASSUME IdentitiesAssumption ==
    /\ NoThread \notin Threads
    /\ LocalNode \notin NodeNames
    /\ MaxId \in Nat \ {0} /\ MaxSerial \in Nat

VARIABLES
    byName,     \* AtomTable._atoms: name to number, a partial function
    byId,       \* AtomTable._by_id: number to name
    counter,    \* AtomTable._counter
    holder,     \* who holds _creation_lock
    wants,      \* each thread: the names it still has to look up, and where it is
    handed,     \* history: atoms handed out, as <<name, number>>
    node,       \* the allocator in use: node_atom and creation
    nextId, nextSerial,
    issued      \* history: the pids allocated, in order

atomVars == <<byName, byId, counter, holder, wants, handed>>
pidVars == <<node, nextId, nextSerial, issued>>
identityVars == <<atomVars, pidVars>>

AtRest == [at |-> "rest"]

IdentitiesInit ==
    /\ byName = <<>> /\ byId = <<>>
    /\ counter = 0
    /\ holder = NoThread
    /\ wants = [t \in Threads |-> AtRest]
    /\ handed = {}
    /\ node = [name |-> LocalNode, creation |-> 1]
    /\ nextId = 1 /\ nextSerial = 0
    /\ issued = <<>>

-----------------------------------------------------------------------------
(* The atom table.                                                         *)

Known(n) == n \in DOMAIN byName
With(f, x, y) == [z \in DOMAIN f \cup {x} |-> IF z = x THEN y ELSE f[z]]
HandOut(n) == handed' = handed \cup {<<n, byName[n]>>}

\* ensure(name) is called, or ensure_many(names) with several.
Ensure(t) ==
    /\ wants[t] = AtRest
    /\ \E ns \in {<<n>> : n \in AtomNames} \cup (AtomNames \X AtomNames) :
          wants' = [wants EXCEPT ![t] = [at |-> "fast", names |-> ns, missing |-> <<>>]]
    /\ UNCHANGED <<byName, byId, counter, holder, handed>>

\* The lockless pass: a name that is there is handed out, others wait.
LookUp(t) ==
    /\ wants[t].at = "fast" /\ wants[t].names # <<>>
    /\ LET n == Head(wants[t].names)
           rest == [wants[t] EXCEPT !.names = Tail(@)]
       IN IF Known(n)
            THEN HandOut(n) /\ wants' = [wants EXCEPT ![t] = rest]
            ELSE /\ wants' = [wants EXCEPT ![t] =
                                 [rest EXCEPT !.missing = Append(@, n)]]
                 /\ UNCHANGED handed
    /\ UNCHANGED <<byName, byId, counter, holder>>

\* The lock is taken for what is missing, or the call is over.
Lock(t) ==
    /\ wants[t].at = "fast" /\ wants[t].names = <<>>
    /\ IF wants[t].missing = <<>>
         THEN wants' = [wants EXCEPT ![t] = AtRest] /\ UNCHANGED holder
         ELSE /\ holder = NoThread
              /\ holder' = t
              /\ wants' = [wants EXCEPT ![t] =
                              [at |-> "locked", missing |-> wants[t].missing]]
    /\ UNCHANGED <<byName, byId, counter, handed>>

\* Fault: the table is not looked at again under the lock.
CheckedOnce(n) == FALSE
DoubleCheck(n) == Known(n)

\* Under the lock: the second look, then _by_id, then _atoms and the counter.
Create(t) ==
    /\ wants[t].at = "locked" /\ wants[t].missing # <<>>
    /\ LET n == Head(wants[t].missing)
       IN IF DoubleCheck(n)
            THEN /\ HandOut(n)
                 /\ wants' = [wants EXCEPT ![t].missing = Tail(@)]
                 /\ UNCHANGED byId
            ELSE /\ byId' = With(byId, counter, n)
                 /\ wants' = [wants EXCEPT ![t].at = "writes"]
                 /\ UNCHANGED handed
    /\ UNCHANGED <<byName, counter, holder>>

Publish(t) ==
    /\ wants[t].at = "writes"
    /\ LET n == Head(wants[t].missing)
       IN /\ byName' = With(byName, n, counter)
          /\ handed' = handed \cup {<<n, counter>>}
    /\ counter' = counter + 1
    /\ wants' = [wants EXCEPT ![t] = [at |-> "locked", missing |-> Tail(wants[t].missing)]]
    /\ UNCHANGED <<byId, holder>>

Unlock(t) ==
    /\ wants[t].at = "locked" /\ wants[t].missing = <<>>
    /\ holder' = NoThread
    /\ wants' = [wants EXCEPT ![t] = AtRest]
    /\ UNCHANGED <<byName, byId, counter, handed>>

AtomStep(t) == Ensure(t) \/ LookUp(t) \/ Lock(t) \/ Create(t) \/ Publish(t) \/ Unlock(t)

-----------------------------------------------------------------------------
(* Pids.                                                                   *)

ThisPid == [node |-> node, id |-> nextId, serial |-> nextSerial]

\* Fault: the identifier wraps and the serial number stays.
SameSerial(serial) == serial
NextSerial(serial) == IF serial = MaxSerial THEN 0 ELSE serial + 1

Allocate ==
    /\ Len(issued) < MaxPids
    /\ issued' = Append(issued, ThisPid)
    /\ IF nextId = MaxId
         THEN nextId' = 1 /\ nextSerial' = NextSerial(nextSerial)
         ELSE nextId' = nextId + 1 /\ UNCHANGED nextSerial
    /\ UNCHANGED node

\* The distribution layer names the node: another allocator, from the start.
SetNodeName ==
    /\ node.name = LocalNode
    /\ \E name \in NodeNames, creation \in {1, 2} :
          node' = [name |-> name, creation |-> creation]
    /\ nextId' = 1 /\ nextSerial' = 0
    /\ UNCHANGED issued

IdentitiesNext ==
    \/ (\E t \in Threads : AtomStep(t)) /\ UNCHANGED pidVars
    \/ (Allocate \/ SetNodeName) /\ UNCHANGED atomVars

IdentitiesSpec == IdentitiesInit /\ [][IdentitiesNext]_identityVars

-----------------------------------------------------------------------------
(* Properties.                                                             *)

\* Atoms compare by number.  Whatever threads ask for them at once, by ensure or
\* ensure_many, two atoms handed out are equal exactly when their names are, and
\* each can be found again under its number.
AtomsAgree ==
    /\ \A a, b \in handed : a[1] = b[1] <=> a[2] = b[2]
    /\ \A a \in handed : a[2] \in DOMAIN byId /\ byId[a[2]] = a[1]

\* Two pids that fewer allocations than one cycle of both counters lie between
\* differ, across a wrap of the identifier and across the node's renaming.
PidsDistinct ==
    \A j, k \in DOMAIN issued :
        j < k /\ k - j < MaxId * (MaxSerial + 1) => issued[j] # issued[k]

\* An atom and a pid each stand for one thing.
OneMeaning == AtomsAgree /\ PidsDistinct
=============================================================================
