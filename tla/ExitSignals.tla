----------------------------- MODULE ExitSignals -----------------------------
(***************************************************************************)
(* What a runtime promises about the ends of processes.  Who watches a     *)
(* process is told once when it goes down, and nobody is told of a process *)
(* that goes on, unless it traps exits.  A failure spreads along links up  *)
(* to the processes that trap exits, and these are told.  Only a kill and  *)
(* the shutdown of the runtime end a process without a word.               *)
(***************************************************************************)
CONSTANTS
    Pids, Refs,
    Watcher(_),   \* whose reference it is
    Protected,        \* processes that trap exits
    Hearing,        \* processes with a mailbox
    System        \* the sender of a signal that no process sends

VARIABLES
    known,     \* processes that can be linked and watched
    doomed,    \* processes that were told to stop, or have ended
    killed,    \* those that will be removed without a word
    watches,   \* <<ref, target>>
    bonds,     \* links, as pairs in both directions
    reports,   \* <<ref, target>> of the DOWN messages that wait in mailboxes
    exits      \* <<receiver, sender>> of the EXIT messages that wait

vars == <<known, doomed, killed, watches, bonds, reports, exits>>

Init ==
    /\ known = {} /\ doomed = {} /\ killed = {}
    /\ watches = {} /\ bonds = {}
    /\ reports = {} /\ exits = {}

-----------------------------------------------------------------------------
Both(a, b) == {<<a, b>>, <<b, a>>}

\* A new process, at once linked to others (B) or watched (W).
Join(p, B, W) ==
    /\ p \notin known \cup doomed
    /\ known' = known \cup {p}
    /\ bonds' = bonds \cup B
    /\ watches' = watches \cup W
    /\ UNCHANGED <<doomed, killed, reports, exits>>

Spawn(p) == Join(p, {}, {})
SpawnLink(a, p) == a \in known /\ Join(p, Both(a, p), {})
SpawnMonitor(ref, p) == Watcher(ref) \in known /\ Join(p, {}, {<<ref, p>>})

Relations(B, W) ==
    /\ UNCHANGED <<known, doomed, killed, reports, exits>>
    /\ bonds' = B /\ watches' = W

Link(a, b) == {a, b} \subseteq known /\ Relations(bonds \cup Both(a, b), watches)
Unlink(a, b) == Relations(bonds \ Both(a, b), watches)
Monitor(ref, t) ==
    {Watcher(ref), t} \subseteq known /\ Relations(bonds, watches \cup {<<ref, t>>})
Demonitor(ref, t) == Relations(bonds, watches \ {<<ref, t>>})

ReadDown(r) ==
    /\ reports' = reports \ {r}
    /\ UNCHANGED <<known, doomed, killed, watches, bonds, exits>>

ReadExit(e) ==
    /\ exits' = exits \ {e}
    /\ UNCHANGED <<known, doomed, killed, watches, bonds, reports>>

-----------------------------------------------------------------------------
(* Ends.                                                                   *)

\* What those who watch the processes in D hear, and those linked to them.
Reports(D) == {w \in watches : w[2] \in D /\ Watcher(w[1]) \in known \cap Hearing}
Exits(D) == {b \in bonds : b[2] \in D /\ b[1] \in Protected \cap Hearing}

\* The processes in D are reported down to who watches them, those in F have failed
\* and say so to who is linked to them, and those in out leave.  extra: other EXITs.
Severed(D, F, out, extra) ==
    /\ known' = known \ out
    /\ watches' = {w \in watches : w[2] \notin D \cup out}
    /\ bonds' = {b \in bonds : b[1] \notin D \cup out /\ b[2] \notin D \cup out}
    /\ reports' = {r \in reports \cup Reports(D) : Watcher(r[1]) \notin out}
    /\ exits' = {e \in exits \cup extra \cup Exits(F) : e[1] \notin out}

\* The processes that fail together: nobody linked to one of them is passed over
\* who does not trap exits.
Failures == {F \in SUBSET known : \A b \in bonds : b[1] \in F => b[2] \in F \cup Protected}

\* p returns, or stops as it was told to.
End(p) ==
    /\ p \in known
    /\ doomed' = doomed \cup {p}
    /\ Severed({p}, {}, {p}, {})
    /\ UNCHANGED killed

\* p fails, and with it those in F.
Fail(p, F) ==
    /\ doomed' = doomed \cup F
    /\ Severed(F, F, {p}, {})
    /\ UNCHANGED killed

\* Someone stops q with a reason that spreads to F.
Stop(q, F) ==
    /\ doomed' = doomed \cup F
    /\ killed' \in {killed, killed \cup {q}}
    /\ Severed(F, F, {}, {})

\* Someone sends such a signal to q, which traps exits: it is reported down and its
\* links fail, but q goes on.
Disown(a, q, F) ==
    /\ q \in Protected \cap Hearing
    /\ doomed' = doomed \cup (F \ {q})
    /\ Severed(F, F, {}, {<<q, a>>})
    /\ UNCHANGED killed

\* Someone asks q to stop: nobody else is concerned, now.
Ask(q) ==
    /\ q \in known
    /\ doomed' = doomed \cup {q}
    /\ UNCHANGED <<known, killed, watches, bonds, reports, exits>>

Tell(a, q) ==
    /\ q \in known \cap Protected \cap Hearing
    /\ UNCHANGED <<known, doomed, killed, watches, bonds, reports>>
    /\ exits' = exits \cup {<<q, a>>}

\* What is left of a killed process is removed.
Remove(p) ==
    /\ p \in killed
    /\ killed' = killed \ {p}
    /\ Severed({}, {}, {p}, {})
    /\ UNCHANGED doomed

Shutdown ==
    /\ doomed' = doomed \cup known
    /\ Severed({}, {}, known, {})
    /\ UNCHANGED killed

-----------------------------------------------------------------------------
Next ==
    \/ \E p \in Pids : Spawn(p) \/ End(p) \/ Ask(p) \/ Remove(p)
    \/ \E a, b \in Pids : SpawnLink(a, b) \/ Link(a, b) \/ Unlink(a, b)
    \/ \E ref \in Refs, t \in Pids : SpawnMonitor(ref, t) \/ Monitor(ref, t) \/ Demonitor(ref, t)
    \/ (\E r \in reports : ReadDown(r)) \/ (\E e \in exits : ReadExit(e))
    \/ \E a \in Pids \cup {System}, q \in Pids : Tell(a, q)
    \/ \E F \in Failures : \E p \in F :
          Fail(p, F) \/ Stop(p, F) \/ \E a \in Pids \cup {System} : Disown(a, p, F)
    \/ Shutdown

Spec == Init /\ [][Next]_vars

-----------------------------------------------------------------------------
\* Nobody is told of the end of a process that goes on, unless it traps exits; and
\* whoever is watched is there, so that its end will be told.
TruthTold ==
    /\ \A r \in reports : r[2] \in doomed \cup (Protected \cap Hearing)
    /\ \A w \in watches : w[2] \in known
=============================================================================
