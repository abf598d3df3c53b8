------------------------ MODULE ProcessRuntimeProofs ------------------------
(***************************************************************************)
(* What ProcessRuntime and ExitWalk guarantee for every set of processes,  *)
(* names, references and exit reasons.                                     *)
(***************************************************************************)
EXTENDS ExitWalk, SequenceTheorems, TLAPS

(***************************************************************************)
(* The strengthening of the safety invariants: a process that was never    *)
(* spawned is in no table, and whoever awaits a deferred clean-up has been *)
(* cancelled.                                                              *)
(***************************************************************************)
AbsentUnknown ==
    \A p \in Pids : task[p] = "absent" => p \notin table /\ p \notin deferred

DeferredCancelled ==
    \A p \in deferred : task[p] \in {"created", "running"} => p \in cancel

IInv ==
    /\ TypeOK
    /\ LinksMutual
    /\ MonitorsBacked
    /\ LiveTasksKnown
    /\ AbsentUnknown
    /\ DeferredCancelled

-----------------------------------------------------------------------------
(* The operators of the propagation.                                       *)

LEMMA CascadeInTable == ASSUME NEW roots PROVE Cascade(roots) \subseteq table
  BY DEF Cascade

\* Whoever is visited passes the signal on to each linked process that does not
\* trap exits.
LEMMA CascadeClosed ==
  ASSUME NEW roots, NEW v \in Cascade(roots), NEW n \in table,
         n \in links[v], ~Traps(n)
  PROVE  n \in Cascade(roots)
  BY DEF Cascade

LEMMA CascadeHasRoots ==
  ASSUME NEW roots, NEW q \in roots \cap table
  PROVE  q \in Cascade(roots)
  BY DEF Cascade

\* No trapping process is visited, except as a root.
LEMMA CascadeAvoidsTraps ==
  ASSUME NEW roots, roots \subseteq table, NEW q \in Cascade(roots), q \notin roots
  PROVE  ~Traps(q)
<1> DEFINE S == {p \in table : p \in roots \/ ~Traps(p)}
<1>1. S \in SUBSET table /\ roots \subseteq S
  OBVIOUS
<1>2. \A v \in S, n \in table : (n \in links[v] /\ ~Traps(n)) => n \in S
  OBVIOUS
<1>3. q \in S
  BY <1>1, <1>2 DEF Cascade
<1> QED BY <1>3

LEMMA SignalledInTable ==
  ASSUME NEW p, NEW reason PROVE ExitSignalled(p, reason) \subseteq table
  BY CascadeInTable DEF ExitSignalled

LEMMA RefsWatched == ASSUME NEW ref \in Refs PROVE Watcher(ref) \in Pids
  BY DEF Refs, Watcher

\* What is sent are messages.
LEMMA ExitIsMessage ==
  ASSUME NEW f \in Pids \cup {System}, NEW r \in Reasons
  PROVE  EXIT(f, r) \in Messages
  BY DEF Messages

LEMMA ExitsTyped ==
  ASSUME NEW V \in SUBSET Pids, NEW reason \in Reasons, NEW t
  PROVE  ExitsTo(t, V, reason) \subseteq Messages
  BY ExitIsMessage DEF ExitsTo

LEMMA DownsTyped ==
  ASSUME NEW V \in SUBSET Pids, NEW reason \in Reasons, NEW w, NEW a \in {4, 5}
  PROVE  DownsTo(w, V, a, reason) \subseteq Messages
<1> SUFFICES ASSUME NEW m \in DownsTo(w, V, a, reason) PROVE m \in Messages
  OBVIOUS
<1>1. PICK d \in Refs \X V : m = DOWN(a, d[1], d[2], reason)
  BY DEF DownsTo
<1>2. d[1] \in Refs /\ d[2] \in Pids
  BY <1>1
<1> QED BY <1>1, <1>2 DEF Messages

LEMMA CancelAllTyped ==
  ASSUME TypeOK, NEW P \in SUBSET Pids
  PROVE  CancelAll(P) \subseteq Pids
  BY DEF TypeOK, CancelAll

\* The relations stay well typed, mutual and backed when the processes in V are
\* severed from them: what _notify_exit does.
LEMMA NotifyKeeps ==
  ASSUME TypeOK, LinksMutual, MonitorsBacked,
         NEW V \in SUBSET Pids, NEW reason \in Reasons,
         NEW extra \in [Pids -> SUBSET Messages],
         NotifyExit(V, reason, extra), UNCHANGED table
  PROVE  /\ links' \in [Pids -> SUBSET Pids]
         /\ monitors' \in [Refs -> Pids \cup {NoPid}]
         /\ monitored_by' \in [Pids -> SUBSET Refs]
         /\ names' \in [Names -> Pids \cup {NoPid}]
         /\ mailbox' \in [Pids -> SUBSET Messages]
         /\ LinksMutual'
         /\ MonitorsBacked'
<1>1. links' \in [Pids -> SUBSET Pids]
  BY DEF NotifyExit, TypeOK, LinksWithout
<1>2. monitors' \in [Refs -> Pids \cup {NoPid}]
  BY DEF NotifyExit, TypeOK, MonitorsWithout
<1>3. monitored_by' \in [Pids -> SUBSET Refs]
  BY DEF NotifyExit, TypeOK, MonitoredByWithout
<1>4. names' \in [Names -> Pids \cup {NoPid}]
  BY DEF NotifyExit, TypeOK, NamesWithout
<1>5. mailbox' \in [Pids -> SUBSET Messages]
  <2>1. \A q \in Pids : ExitsTo(q, V, reason) \subseteq Messages
    BY ExitsTyped
  <2>2. \A q \in Pids : DownsTo(q, V, 4, reason) \subseteq Messages
    BY DownsTyped
  <2> QED BY <2>1, <2>2 DEF NotifyExit, TypeOK
<1>6. LinksMutual'
  BY DEF NotifyExit, TypeOK, LinksWithout, LinksMutual
<1>7. MonitorsBacked'
  <2> SUFFICES ASSUME NEW ref \in Refs, monitors'[ref] # NoPid
               PROVE  /\ Watcher(ref) \in table
                      /\ monitors'[ref] \in table
                      /\ ref \in monitored_by'[monitors'[ref]]
    BY DEF MonitorsBacked
  <2>1. monitors'[ref] = monitors[ref] /\ \A v \in V : ref \notin monitored_by[v]
    BY DEF NotifyExit, MonitorsWithout
  <2>2. monitors[ref] \notin V
    BY <2>1 DEF MonitorsBacked
  <2> QED BY <2>1, <2>2 DEF MonitorsBacked, NotifyExit, MonitoredByWithout, TypeOK
<1> QED BY <1>1, <1>2, <1>3, <1>4, <1>5, <1>6, <1>7

\* So do they when p is forgotten: what _cleanup_process does.
LEMMA ForgetKeeps ==
  ASSUME TypeOK, LinksMutual, MonitorsBacked,
         NEW p \in Pids, NEW V \in SUBSET Pids, Forget(p, V)
  PROVE  /\ table' \subseteq Pids
         /\ links' \in [Pids -> SUBSET Pids]
         /\ monitors' \in [Refs -> Pids \cup {NoPid}]
         /\ monitored_by' \in [Pids -> SUBSET Refs]
         /\ names' \in [Names -> Pids \cup {NoPid}]
         /\ LinksMutual'
         /\ MonitorsBacked'
<1>1. table' \subseteq Pids
  BY DEF Forget, TypeOK
<1>2. links' \in [Pids -> SUBSET Pids]
  BY DEF Forget, TypeOK, LinksWithout
<1>3. monitors' \in [Refs -> Pids \cup {NoPid}]
  BY DEF Forget, TypeOK, MonitorsWithout
<1>4. monitored_by' \in [Pids -> SUBSET Refs]
  BY DEF Forget, TypeOK, MonitoredByWithout
<1>5. names' \in [Names -> Pids \cup {NoPid}]
  BY DEF Forget, TypeOK, NamesWithout
<1>6. LinksMutual'
  BY DEF Forget, TypeOK, LinksWithout, LinksMutual
<1>7. MonitorsBacked'
  <2> SUFFICES ASSUME NEW ref \in Refs, monitors'[ref] # NoPid
               PROVE  /\ Watcher(ref) \in table'
                      /\ monitors'[ref] \in table'
                      /\ ref \in monitored_by'[monitors'[ref]]
    BY DEF MonitorsBacked
  <2>1. /\ Watcher(ref) # p
        /\ monitors'[ref] = monitors[ref]
        /\ \A v \in V \cup {p} : ref \notin monitored_by[v]
    BY DEF Forget, MonitorsWithout
  <2>2. monitors[ref] \notin V \cup {p}
    BY <2>1 DEF MonitorsBacked
  <2> QED BY <2>1, <2>2 DEF MonitorsBacked, Forget, MonitoredByWithout, TypeOK
<1> QED BY <1>1, <1>2, <1>3, <1>4, <1>5, <1>6, <1>7

-----------------------------------------------------------------------------
(* Each action preserves IInv.                                             *)

LEMMA ReasonsIn == {NORMAL, SHUTDOWN, SUPERVISOR_SHUTDOWN, KILLED, CRASH} = Reasons
  BY DEF Reasons

LEMMA FinishKeeps ==
  ASSUME IInv, NEW p \in Pids, NEW reason \in Reasons,
         task[p] = "running", Finish(p, reason)
  PROVE  IInv'
<1> DEFINE V == IF p \in table THEN ExitSignalled(p, reason) ELSE {}
<1> USE DEF IInv
<1>1. V \in SUBSET table /\ V \in SUBSET Pids /\ V \cup {p} \in SUBSET Pids
  BY SignalledInTable DEF TypeOK
<1>2. /\ task' = [task EXCEPT ![p] = "done"]
      /\ cancel' = CancelAll(V) \ {p}
      /\ burst' = NoPid
      /\ deferred' = deferred
  BY DEF Finish
<1>3. CASE p \in table
  <2>1. Forget(p, V)
    BY <1>3 DEF Finish
  <2>2. /\ table' \subseteq Pids
        /\ links' \in [Pids -> SUBSET Pids]
        /\ monitors' \in [Refs -> Pids \cup {NoPid}]
        /\ monitored_by' \in [Pids -> SUBSET Refs]
        /\ names' \in [Names -> Pids \cup {NoPid}]
        /\ LinksMutual'
        /\ MonitorsBacked'
    BY <1>1, <2>1, ForgetKeeps
  <2>3. table' = table \ {p}
    BY <2>1 DEF Forget
  <2>4. mailbox' \in [Pids -> SUBSET Messages]
    <3>1. \A q \in Pids : /\ ExitsTo(q, V, reason) \subseteq Messages
                          /\ DownsTo(q, V, 4, reason) \subseteq Messages
                          /\ DownsTo(q, {p} \ V, 5, reason) \subseteq Messages
      BY <1>1, ExitsTyped, DownsTyped
    <3>2. \A q \in Pids : TrapSignalled(q, p, reason) \subseteq Messages
      BY ExitIsMessage DEF TrapSignalled
    <3>3. mailbox' = [q \in Pids |->
                       IF q = p THEN {}
                       ELSE mailbox[q] \cup ExitsTo(q, V, reason)
                                       \cup TrapSignalled(q, p, reason)
                                       \cup DownsTo(q, V, 4, reason)
                                       \cup DownsTo(q, {p} \ V, 5, reason)]
      BY <1>3 DEF Finish
    <3> QED BY <3>1, <3>2, <3>3 DEF TypeOK
  <2>5. TypeOK'
    BY <1>1, <1>2, <2>2, <2>4, CancelAllTyped DEF TypeOK, TaskStates
  <2>6. LiveTasksKnown' /\ AbsentUnknown' /\ DeferredCancelled'
    BY <1>2, <2>3 DEF TypeOK, LiveTasksKnown, AbsentUnknown, DeferredCancelled, CancelAll
  <2> QED BY <2>2, <2>5, <2>6
<1>4. CASE p \notin table
  <2>1. UNCHANGED <<table, links, monitors, monitored_by, names, mailbox>>
    BY <1>4 DEF Finish
  <2>2. TypeOK'
    BY <1>1, <1>2, <2>1, CancelAllTyped DEF TypeOK, TaskStates
  <2>3. LinksMutual' /\ MonitorsBacked'
    BY <2>1 DEF LinksMutual, MonitorsBacked
  <2>4. LiveTasksKnown' /\ AbsentUnknown' /\ DeferredCancelled'
    BY <1>2, <2>1 DEF TypeOK, LiveTasksKnown, AbsentUnknown, DeferredCancelled, CancelAll
  <2> QED BY <2>2, <2>3, <2>4
<1> QED BY <1>3, <1>4

LEMMA DeferredCleanupKeeps ==
  ASSUME IInv, NEW p \in Pids, DeferredCleanup(p) PROVE IInv'
<1> USE DEF IInv
<1>1. /\ deferred' = deferred \ {p}
      /\ p \in deferred
      /\ UNCHANGED <<task, cancel, burst>>
  BY DEF DeferredCleanup
<1>2. CASE p \in table
  <2>1. Forget(p, {}) /\ mailbox' = [mailbox EXCEPT ![p] = {}]
    BY <1>2 DEF DeferredCleanup
  <2>2. /\ table' \subseteq Pids
        /\ links' \in [Pids -> SUBSET Pids]
        /\ monitors' \in [Refs -> Pids \cup {NoPid}]
        /\ monitored_by' \in [Pids -> SUBSET Refs]
        /\ names' \in [Names -> Pids \cup {NoPid}]
        /\ LinksMutual'
        /\ MonitorsBacked'
    BY <2>1, ForgetKeeps
  <2>3. TypeOK'
    BY <1>1, <2>1, <2>2 DEF TypeOK
  <2>4. LiveTasksKnown' /\ AbsentUnknown' /\ DeferredCancelled'
    BY <1>1, <2>1
    DEF Forget, TypeOK, LiveTasksKnown, AbsentUnknown, DeferredCancelled
  <2> QED BY <2>2, <2>3, <2>4
<1>3. CASE p \notin table
  <2>1. UNCHANGED <<table, links, monitors, monitored_by, names, mailbox>>
    BY <1>3 DEF DeferredCleanup
  <2> QED BY <1>1, <2>1
      DEF TypeOK, LinksMutual, MonitorsBacked, LiveTasksKnown, AbsentUnknown,
          DeferredCancelled
<1> QED BY <1>2, <1>3

LEMMA ExitKeeps ==
  ASSUME IInv, NEW a \in Pids \cup {System}, NEW q \in Pids, NEW reason \in ExitReasons,
         Exit(a, q, reason)
  PROVE  IInv'
<1> USE DEF IInv
<1> DEFINE Graceful == reason \in {SHUTDOWN, SUPERVISOR_SHUTDOWN}
           V == IF reason # KILLED /\ Graceful THEN {} ELSE Cascade({q})
<1>1. /\ q \in table
      /\ UNCHANGED <<table, task>>
      /\ burst' \in Pids \cup {NoPid}
      /\ reason \in Reasons
  <2>1. cancel' \subseteq Pids
    BY CancelAllTyped, CascadeInTable
    DEF Exit, ExitKilled, ExitTrapped, ExitCancelled, TypeOK, CancelAll
  <2> QED BY <2>1, ConstantsAssumption DEF Exit, KeepLoop
<1>2. V \in SUBSET Pids
  BY CascadeInTable DEF TypeOK
<1>3. \E extra \in [Pids -> SUBSET Messages] : NotifyExit(V, reason, extra)
  <2>1. NoMessage \in [Pids -> SUBSET Messages]
    BY DEF NoMessage
  <2>2. [NoMessage EXCEPT ![q] = {EXIT(a, reason)}] \in [Pids -> SUBSET Messages]
    BY <1>1, <2>1, ExitIsMessage
  <2>3. \/ NotifyExit(V, reason, NoMessage)
        \/ NotifyExit(V, reason, [NoMessage EXCEPT ![q] = {EXIT(a, reason)}])
    BY DEF Exit, ExitKilled, ExitTrapped, ExitCancelled
  <2> QED BY <2>1, <2>2, <2>3
<1>4. /\ links' \in [Pids -> SUBSET Pids]
      /\ monitors' \in [Refs -> Pids \cup {NoPid}]
      /\ monitored_by' \in [Pids -> SUBSET Refs]
      /\ names' \in [Names -> Pids \cup {NoPid}]
      /\ mailbox' \in [Pids -> SUBSET Messages]
      /\ LinksMutual'
      /\ MonitorsBacked'
  BY <1>1, <1>2, <1>3, NotifyKeeps
<1>5. /\ cancel \subseteq cancel'
      /\ cancel' \subseteq Pids
  BY CascadeInTable
  DEF Exit, ExitKilled, ExitTrapped, ExitCancelled, CancelAll, TypeOK
<1>6. /\ deferred' \subseteq deferred \cup {q}
      /\ q \in deferred' \ deferred /\ task[q] \in {"created", "running"} => q \in cancel'
  BY <1>1, CascadeHasRoots DEF Exit, ExitKilled, ExitTrapped, ExitCancelled, CancelAll
<1>7. TypeOK'
  BY <1>1, <1>4, <1>5, <1>6 DEF TypeOK
<1>8. LiveTasksKnown' /\ AbsentUnknown' /\ DeferredCancelled'
  BY <1>1, <1>5, <1>6 DEF TypeOK, LiveTasksKnown, AbsentUnknown, DeferredCancelled
<1> QED BY <1>4, <1>7, <1>8

LEMMA ShutdownKeeps == ASSUME IInv, Shutdown PROVE IInv'
<1> USE DEF IInv
<1>1. TypeOK'
  BY CancelAllTyped DEF Shutdown, TypeOK, CancelAll
<1>2. LinksMutual' /\ MonitorsBacked'
  BY DEF Shutdown, LinksMutual, MonitorsBacked
<1>3. LiveTasksKnown' /\ AbsentUnknown' /\ DeferredCancelled'
  BY DEF Shutdown, TypeOK, LiveTasksKnown, AbsentUnknown, DeferredCancelled, CancelAll
<1> QED BY <1>1, <1>2, <1>3

\* Linking two processes of the table, and giving a's next reference to t.
LEMMA LinkPairKeeps ==
  ASSUME TypeOK, LinksMutual, NEW a \in Pids, NEW b \in Pids, LinkPair(a, b),
         table \cup {a, b} \subseteq table'
  PROVE  links' \in [Pids -> SUBSET Pids] /\ LinksMutual'
  BY DEF LinkPair, TypeOK, LinksMutual

LEMMA AddMonitorKeeps ==
  ASSUME TypeOK, MonitorsBacked, NEW a \in Pids, NEW t \in Pids, AddMonitor(a, t),
         table \cup {a, t} \subseteq table'
  PROVE  /\ monitors' \in [Refs -> Pids \cup {NoPid}]
         /\ monitored_by' \in [Pids -> SUBSET Refs]
         /\ MonitorsBacked'
<1>1. NextRef(a) \in Refs /\ Watcher(NextRef(a)) = a
  BY DEF AddMonitor, NextRef, Watcher
<1>2. /\ monitors' \in [Refs -> Pids \cup {NoPid}]
      /\ monitored_by' \in [Pids -> SUBSET Refs]
  BY <1>1 DEF AddMonitor, TypeOK
<1>3. MonitorsBacked'
  <2> SUFFICES ASSUME NEW ref \in Refs, monitors'[ref] # NoPid
               PROVE  /\ Watcher(ref) \in table'
                      /\ monitors'[ref] \in table'
                      /\ ref \in monitored_by'[monitors'[ref]]
    BY DEF MonitorsBacked
  <2>1. CASE ref = NextRef(a)
    BY <1>1, <2>1 DEF AddMonitor, TypeOK
  <2>2. CASE ref # NextRef(a)
    <3>1. monitors'[ref] = monitors[ref]
      BY <1>1, <2>2 DEF AddMonitor, TypeOK
    <3> QED BY <1>1, <3>1 DEF MonitorsBacked, AddMonitor, TypeOK
  <2> QED BY <2>1, <2>2
<1> QED BY <1>2, <1>3

LEMMA NewProcessKeeps ==
  ASSUME IInv, NEW p \in Pids, NewProcess(p), UNCHANGED <<cancel, deferred>>
  PROVE  /\ table' \subseteq Pids
         /\ task' \in [Pids -> TaskStates]
         /\ names' \in [Names -> Pids \cup {NoPid}]
         /\ LiveTasksKnown'
         /\ AbsentUnknown'
         /\ DeferredCancelled'
  BY DEF NewProcess, IInv, TypeOK, TaskStates, LiveTasksKnown, AbsentUnknown,
         DeferredCancelled

LEMMA SpawnKeeps ==
  ASSUME IInv, NEW a \in Pids \cup {System}, NEW p \in Pids,
         Spawn(a, p) \/ (a \in Pids /\ (SpawnLink(a, p) \/ SpawnMonitor(a, p)))
  PROVE  IInv'
<1> USE DEF IInv
<1>1. /\ table' \subseteq Pids
      /\ task' \in [Pids -> TaskStates]
      /\ names' \in [Names -> Pids \cup {NoPid}]
      /\ LiveTasksKnown'
      /\ AbsentUnknown'
      /\ DeferredCancelled'
  BY NewProcessKeeps DEF Spawn, SpawnLink, SpawnMonitor
<1>2. UNCHANGED <<cancel, burst, deferred, mailbox>> /\ table' = table \cup {p}
  BY DEF Spawn, SpawnLink, SpawnMonitor, NewProcess
<1>3. CASE Spawn(a, p)
  BY <1>1, <1>2, <1>3 DEF Spawn, TypeOK, LinksMutual, MonitorsBacked
<1>4. CASE a \in Pids /\ SpawnLink(a, p)
  <2>1. links' \in [Pids -> SUBSET Pids] /\ LinksMutual'
    BY <1>2, <1>4, LinkPairKeeps DEF SpawnLink
  <2> QED BY <1>1, <1>2, <1>4, <2>1 DEF SpawnLink, TypeOK, MonitorsBacked
<1>5. CASE a \in Pids /\ SpawnMonitor(a, p)
  <2>1. /\ monitors' \in [Refs -> Pids \cup {NoPid}]
        /\ monitored_by' \in [Pids -> SUBSET Refs]
        /\ MonitorsBacked'
    BY <1>2, <1>5, AddMonitorKeeps DEF SpawnMonitor
  <2> QED BY <1>1, <1>2, <1>5, <2>1 DEF SpawnMonitor, TypeOK, LinksMutual
<1> QED BY <1>3, <1>4, <1>5

LEMMA RelationKeeps ==
  ASSUME IInv, NEW a \in Pids, NEW b \in Pids,
         Link(a, b) \/ Unlink(a, b) \/ Monitor(a, b)
  PROVE  IInv'
<1> USE DEF IInv
<1>1. UNCHANGED <<table, task, cancel, burst, deferred, names>>
  BY DEF Link, Unlink, Monitor
<1>2. LiveTasksKnown' /\ AbsentUnknown' /\ DeferredCancelled'
  BY <1>1 DEF LiveTasksKnown, AbsentUnknown, DeferredCancelled
<1>3. CASE Link(a, b)
  <2>1. links' \in [Pids -> SUBSET Pids] /\ LinksMutual'
    BY <1>1, <1>3, LinkPairKeeps DEF Link
  <2> QED BY <1>1, <1>2, <1>3, <2>1 DEF Link, TypeOK, MonitorsBacked
<1>4. CASE Unlink(a, b)
  <2>1. links' \in [Pids -> SUBSET Pids] /\ LinksMutual'
    BY <1>1, <1>4 DEF Unlink, TypeOK, LinksMutual
  <2> QED BY <1>1, <1>2, <1>4, <2>1 DEF Unlink, TypeOK, MonitorsBacked
<1>5. CASE Monitor(a, b)
  <2>1. /\ monitors' \in [Refs -> Pids \cup {NoPid}]
        /\ monitored_by' \in [Pids -> SUBSET Refs]
        /\ MonitorsBacked'
    BY <1>1, <1>5, AddMonitorKeeps DEF Monitor
  <2> QED BY <1>1, <1>2, <1>5, <2>1 DEF Monitor, TypeOK, LinksMutual
<1> QED BY <1>3, <1>4, <1>5

LEMMA DemonitorKeeps ==
  ASSUME IInv, NEW a \in Pids, NEW ref \in Refs, NEW flush \in BOOLEAN,
         Demonitor(a, ref, flush)
  PROVE  IInv'
<1> USE DEF IInv
<1>1. /\ monitors' = [monitors EXCEPT ![ref] = NoPid]
      /\ monitored_by' = [monitored_by EXCEPT ![monitors[ref]] = @ \ {ref}]
      /\ UNCHANGED <<table, task, cancel, burst, deferred, links, names, mailbox>>
  BY DEF Demonitor, MailboxHasInnerQueue
<1>2. TypeOK'
  BY <1>1 DEF TypeOK
<1>3. MonitorsBacked'
  BY <1>1 DEF TypeOK, MonitorsBacked
<1>4. LinksMutual' /\ LiveTasksKnown' /\ AbsentUnknown' /\ DeferredCancelled'
  BY <1>1 DEF LinksMutual, LiveTasksKnown, AbsentUnknown, DeferredCancelled
<1> QED BY <1>2, <1>3, <1>4

LEMMA MessageKeeps ==
  ASSUME IInv, NEW a \in Pids \cup {System}, NEW q \in Pids,
         Send(a, q) \/ (a \in Pids /\ Receive(a))
  PROVE  IInv'
<1> USE DEF IInv
<1>1. UNCHANGED <<table, task, cancel, burst, deferred, links, monitors,
                  monitored_by, names>>
  BY DEF Send, Receive
<1>2. mailbox' \in [Pids -> SUBSET Messages]
  <2>1. USER \in Messages
    BY DEF Messages
  <2> QED BY <2>1 DEF Send, Receive, TypeOK
<1> QED BY <1>1, <1>2
    DEF TypeOK, LinksMutual, MonitorsBacked, LiveTasksKnown, AbsentUnknown,
        DeferredCancelled

LEMMA RegistryKeeps ==
  ASSUME IInv, NEW a, NEW n \in Names,
         (\E p \in Pids : Register(a, n, p)) \/ Unregister(a, n) \/ Whereis(a, n)
  PROVE  IInv'
<1> USE DEF IInv
<1>1. UNCHANGED <<table, task, cancel, burst, deferred, links, monitors,
                  monitored_by, mailbox>>
  BY DEF Register, Unregister, Whereis
<1>2. names' \in [Names -> Pids \cup {NoPid}]
  BY DEF Register, Unregister, Whereis, TypeOK
<1> QED BY <1>1, <1>2
    DEF TypeOK, LinksMutual, MonitorsBacked, LiveTasksKnown, AbsentUnknown,
        DeferredCancelled

LEMMA TaskKeeps ==
  ASSUME IInv, NEW p \in Pids, Start(p) \/ StopUnstarted(p) \/ Suspend(p)
  PROVE  IInv'
<1> USE DEF IInv
<1>1. UNCHANGED <<table, deferred, links, monitors, monitored_by, names, mailbox>>
  BY DEF Start, StopUnstarted, Suspend
<1>2. TypeOK'
  BY <1>1 DEF Start, StopUnstarted, Suspend, TypeOK, TaskStates
<1>3. LiveTasksKnown' /\ AbsentUnknown' /\ DeferredCancelled'
  BY DEF Start, StopUnstarted, Suspend, TypeOK, LiveTasksKnown, AbsentUnknown,
         DeferredCancelled
<1> QED BY <1>1, <1>2, <1>3 DEF LinksMutual, MonitorsBacked

-----------------------------------------------------------------------------
LEMMA Initially == Init => IInv
<1> SUFFICES ASSUME Init PROVE IInv
  OBVIOUS
<1>1. TypeOK
  BY DEF Init, TypeOK, TaskStates
<1> QED BY <1>1 DEF Init, IInv, LinksMutual, MonitorsBacked, LiveTasksKnown,
                    AbsentUnknown, DeferredCancelled

LEMMA Inductive == IInv /\ [Next]_vars => IInv'
<1> SUFFICES ASSUME IInv, [Next]_vars PROVE IInv'
  OBVIOUS
<1>1. ASSUME NEW a \in Pids, Body(a) PROVE IInv'
  <2>1. ASSUME NEW p \in Pids, SpawnLink(a, p) \/ SpawnMonitor(a, p) PROVE IInv'
    BY <2>1, SpawnKeeps
  <2>2. ASSUME Receive(a) PROVE IInv'
    BY <2>2, MessageKeeps
  <2> QED BY <1>1, <2>1, <2>2, RelationKeeps, DemonitorKeeps DEF Body
<1>2. ASSUME NEW a \in Pids, Return(a) \/ Crash(a) PROVE IInv'
  BY <1>2, ReasonsIn, FinishKeeps DEF Return, Crash, Runs
<1>3. ASSUME NEW a \in Pids \cup {System}, Call(a) PROVE IInv'
  BY <1>3, SpawnKeeps, ExitKeeps, MessageKeeps, RegistryKeeps DEF Call
<1>4. ASSUME NEW p \in Pids, EventLoop(p) PROVE IInv'
  BY <1>4, ReasonsIn, TaskKeeps, FinishKeeps, DeferredCleanupKeeps DEF EventLoop, Unwind
<1>5. CASE UNCHANGED vars
  BY <1>5 DEF vars, IInv, TypeOK, LinksMutual, MonitorsBacked, LiveTasksKnown,
              AbsentUnknown, DeferredCancelled
<1> QED BY <1>1, <1>2, <1>3, <1>4, <1>5, ShutdownKeeps DEF Next

LEMMA Invariance == SafetySpec => []IInv
<1> QED BY Initially, Inductive, PTL DEF SafetySpec

\* Every variable keeps its type.
THEOREM TypeCorrect == SafetySpec => []TypeOK
<1>1. IInv => TypeOK
  BY DEF IInv
<1> QED BY <1>1, Invariance, PTL

\* Links are symmetric and never lead out of the process table, however links,
\* unlinks, exit signals, crashes and clean-ups interleave.
THEOREM LinksAlwaysMutual == SafetySpec => []LinksMutual
<1>1. IInv => LinksMutual
  BY DEF IInv
<1> QED BY <1>1, Invariance, PTL

\* Each monitor a process holds is backed by a target that is in the table and
\* knows the reference, although references are reused.
THEOREM MonitorsAlwaysBacked == SafetySpec => []MonitorsBacked
<1>1. IInv => MonitorsBacked
  BY DEF IInv
<1> QED BY <1>1, Invariance, PTL

\* No task outlives its entry in the process table unless it is being cancelled.
THEOREM LiveTasksAlwaysKnown == SafetySpec => []LiveTasksKnown
<1>1. IInv => LiveTasksKnown
  BY DEF IInv
<1> QED BY <1>1, Invariance, PTL

-----------------------------------------------------------------------------
(* What a step may never do.                                               *)

\* A process that ends is reported to each of its watchers, in the step that
\* removes it: as a signalled process if its own end came back to it through a
\* linked one, and by _handle_process_exit otherwise.
LEMMA FinishReports ==
  ASSUME IInv, NEW q \in Pids, NEW reason, Finish(q, reason),
         NEW p \in table \ table', NEW ref \in Refs,
         monitors[ref] = p, Watcher(ref) # p, Watcher(ref) \in WithMailbox
  PROVE  \E m \in mailbox'[Watcher(ref)] : m.tag = "DOWN" /\ m.ref = ref /\ m.pid = p
<1> DEFINE V == ExitSignalled(p, reason)
           w == Watcher(ref)
<1>1. q = p /\ p \in Pids /\ w \in Pids
  BY RefsWatched DEF Finish, Forget, IInv, TypeOK
<1>2. w \in table /\ ref \in monitored_by[p]
  BY <1>1, ConstantsAssumption DEF IInv, MonitorsBacked
<1>3. mailbox'[w] = mailbox[w] \cup ExitsTo(w, V, reason)
                                \cup TrapSignalled(w, p, reason)
                                \cup DownsTo(w, V, 4, reason)
                                \cup DownsTo(w, {p} \ V, 5, reason)
  BY <1>1 DEF Finish
<1>4. \A W, a : p \in W => DOWN(a, ref, p, reason) \in DownsTo(w, W, a, reason)
  <2> SUFFICES ASSUME NEW W, NEW a, p \in W
               PROVE  DOWN(a, ref, p, reason) \in DownsTo(w, W, a, reason)
    OBVIOUS
  <2>1. <<ref, p>> \in {e \in Refs \X W : Watcher(e[1]) = w /\ e[1] \in monitored_by[e[2]]}
    BY <1>2
  <2> QED BY <1>2, <2>1 DEF DownsTo
<1>5. \E a \in {4, 5} : DOWN(a, ref, p, reason) \in mailbox'[w]
  BY <1>3, <1>4
<1>6. \A a : /\ DOWN(a, ref, p, reason).tag = "DOWN"
             /\ DOWN(a, ref, p, reason).ref = ref
             /\ DOWN(a, ref, p, reason).pid = p
  BY DEF DOWN
<1> QED BY <1>5, <1>6

\* Only the steps of p's own task end it.
LEMMA EndsByFinish ==
  ASSUME IInv, Next, NEW p \in table, task[p] = "running", task'[p] = "done"
  PROVE  \E q \in Pids, reason \in Reasons : Finish(q, reason)
<1>1. ASSUME NEW a \in Pids, Body(a) PROVE FALSE
  BY <1>1 DEF Body, SpawnLink, SpawnMonitor, NewProcess, Link, Unlink, Monitor,
              Demonitor, Receive, IInv, TypeOK
<1>2. ASSUME NEW a \in Pids \cup {System}, Call(a) PROVE FALSE
  BY <1>2 DEF Call, Spawn, NewProcess, Exit, Send, Register, Unregister, Whereis,
              IInv, TypeOK
<1>3. ASSUME NEW a \in Pids, Return(a) \/ Crash(a) \/ Unwind(a)
      PROVE  \E q \in Pids, reason \in Reasons : Finish(q, reason)
  BY <1>3, ReasonsIn DEF Return, Crash, Unwind
<1>4. ASSUME NEW q \in Pids, Start(q) \/ StopUnstarted(q) \/ Suspend(q) \/ DeferredCleanup(q)
      PROVE  FALSE
  BY <1>4 DEF Start, StopUnstarted, Suspend, DeferredCleanup, IInv, TypeOK
<1>5. ASSUME Shutdown PROVE FALSE
  BY <1>5 DEF Shutdown
<1> QED BY <1>1, <1>2, <1>3, <1>4, <1>5 DEF Next, EventLoop

\* No process ends without its watchers being told, for any links, monitors,
\* reused references and signals in flight.
THEOREM EveryFinishReported == SafetySpec => FinishReported
<1> DEFINE Reported ==
      \A p \in table \ table', ref \in Refs :
          /\ task[p] = "running" /\ task'[p] = "done"
          /\ monitors[ref] = p /\ Watcher(ref) # p /\ Watcher(ref) \in WithMailbox
          => \E m \in mailbox'[Watcher(ref)] :
                 m.tag = "DOWN" /\ m.ref = ref /\ m.pid = p
<1>1. IInv /\ [Next]_vars => [Reported]_vars
  <2> SUFFICES ASSUME IInv, Next PROVE Reported
    OBVIOUS
  <2> SUFFICES ASSUME NEW p \in table \ table', NEW ref \in Refs,
                      task[p] = "running" /\ task'[p] = "done",
                      monitors[ref] = p, Watcher(ref) # p, Watcher(ref) \in WithMailbox
               PROVE  \E m \in mailbox'[Watcher(ref)] :
                         m.tag = "DOWN" /\ m.ref = ref /\ m.pid = p
    OBVIOUS
  <2>1. PICK q \in Pids, reason \in Reasons : Finish(q, reason)
    BY EndsByFinish
  <2> QED BY <2>1, FinishReports
<1> QED BY <1>1, Invariance, PTL DEF SafetySpec, FinishReported

LEMMA FinishSparesTraps ==
  ASSUME IInv, NEW q \in Pids, NEW reason, Finish(q, reason),
         NEW p \in cancel' \ cancel
  PROVE  ~Traps(p)
<1> DEFINE targets == (links[q] \cap table) \ Trapping
<1>1. p \in ExitSignalled(q, reason)
  BY DEF Finish, CancelAll
<1>2. p \in Cascade(targets)
  BY <1>1 DEF ExitSignalled
<1>3. CASE p \in targets
  BY <1>3 DEF Traps
<1>4. CASE p \notin targets
  BY <1>2, <1>4, CascadeAvoidsTraps
<1> QED BY <1>3, <1>4

LEMMA ExitSparesTraps ==
  ASSUME IInv, NEW a \in Pids \cup {System}, NEW q \in Pids, NEW reason,
         Exit(a, q, reason), NEW p \in cancel' \ cancel, Traps(p)
  PROVE  p = q /\ reason = KILLED
<1>1. q \in table
  BY DEF Exit
<1>2. \A x \in Cascade({q}) : Traps(x) => x = q
  BY <1>1, CascadeAvoidsTraps
<1> QED BY <1>2 DEF Exit, ExitKilled, ExitTrapped, ExitCancelled, CancelAll

\* Whatever is linked to it ends, a process that traps exits is stopped by
\* exit(pid, KILLED) or by shutdown() and by nothing else.
THEOREM TrapExitsAlwaysProtects == SafetySpec => TrapExitsProtects
<1> DEFINE Protects ==
      \A p \in cancel' \ cancel :
          Traps(p) => Shutdown \/ \E a \in Pids \cup {System} : Exit(a, p, KILLED)
<1>1. IInv /\ [Next]_vars => [Protects]_vars
  <2> SUFFICES ASSUME IInv, Next, NEW p \in cancel' \ cancel, Traps(p)
               PROVE  Shutdown \/ \E a \in Pids \cup {System} : Exit(a, p, KILLED)
    OBVIOUS
  <2>1. ASSUME NEW a \in Pids, Body(a) PROVE FALSE
    BY <2>1 DEF Body, SpawnLink, SpawnMonitor, Link, Unlink, Monitor, Demonitor, Receive
  <2>2. ASSUME NEW a \in Pids, Return(a) \/ Crash(a) \/ Unwind(a) PROVE FALSE
    BY <2>2, FinishSparesTraps DEF Return, Crash, Unwind
  <2>3. ASSUME NEW a \in Pids \cup {System}, NEW q \in Pids, NEW reason \in ExitReasons,
               Exit(a, q, reason)
        PROVE  Exit(a, p, KILLED)
    BY <2>3, ExitSparesTraps
  <2>4. ASSUME NEW a \in Pids \cup {System}, Call(a)
        PROVE  Exit(a, p, KILLED)
    BY <2>3, <2>4 DEF Call, Spawn, Send, Register, Unregister, Whereis
  <2>5. ASSUME NEW q \in Pids, Start(q) \/ StopUnstarted(q) \/ Suspend(q) \/ DeferredCleanup(q)
        PROVE  FALSE
    BY <2>5 DEF Start, StopUnstarted, Suspend, DeferredCleanup
  <2> QED BY <2>1, <2>2, <2>4, <2>5 DEF Next, EventLoop
<1> QED BY <1>1, Invariance, PTL DEF SafetySpec, TrapExitsProtects
-----------------------------------------------------------------------------
(* The promise of ExitSignals.                                             *)

\* What only the refinement needs: nothing waits for a process outside the table
\* and nobody watches one; and only what has a task is cancelled.
NothingLeft ==
    \A p \in Pids : p \notin table => mailbox[p] = {} /\ monitored_by[p] = {}

CancelledLive == \A p \in cancel : task[p] \in {"created", "running"}

SInv == IInv /\ NothingLeft /\ CancelledLive

\* Messages are sent to processes of the table only.
LEMMA SentToKnown ==
  ASSUME NEW t, t \notin table, NEW V, NEW a, NEW reason, NEW p
  PROVE  /\ ExitsTo(t, V, reason) = {}
         /\ TrapSignalled(t, p, reason) = {}
         /\ DownsTo(t, V, a, reason) = {}
  BY DEF ExitsTo, TrapSignalled, DownsTo

LEMMA FinishLeavesNothing ==
  ASSUME SInv, NEW p \in Pids, NEW reason, task[p] = "running", Finish(p, reason)
  PROVE  NothingLeft' /\ CancelledLive'
<1> DEFINE V == IF p \in table THEN ExitSignalled(p, reason) ELSE {}
<1> USE DEF SInv, IInv, TypeOK
<1>1. V \subseteq Pids
  BY SignalledInTable
<1>2. CancelledLive'
  BY <1>1 DEF Finish, CancelledLive, CancelAll
<1>3. CASE p \in table
  <2>1. /\ table' = table \ {p}
        /\ monitored_by' = MonitoredByWithout(V \cup {p})
    BY <1>3 DEF Finish, Forget
  <2>2. \A q \in Pids : q \notin table' => monitored_by'[q] = {}
    BY <2>1 DEF MonitoredByWithout, NothingLeft
  <2>3. ASSUME NEW q \in Pids, q \notin table' PROVE mailbox'[q] = {}
    <3>1. CASE q = p
      BY <1>3, <3>1 DEF Finish
    <3>2. CASE q # p
      <4>1. q \notin table
        BY <2>1, <2>3, <3>2
      <4>2. mailbox[q] = {}
        BY <4>1 DEF NothingLeft
      <4>3. mailbox'[q] = mailbox[q] \cup ExitsTo(q, V, reason)
                                      \cup TrapSignalled(q, p, reason)
                                      \cup DownsTo(q, V, 4, reason)
                                      \cup DownsTo(q, {p} \ V, 5, reason)
        BY <1>3, <3>2 DEF Finish
      <4> QED BY <4>1, <4>2, <4>3, SentToKnown
    <3> QED BY <3>1, <3>2
  <2> QED BY <1>2, <2>2, <2>3 DEF NothingLeft
<1>4. CASE p \notin table
  BY <1>2, <1>4 DEF Finish, NothingLeft
<1> QED BY <1>3, <1>4

LEMMA ExitLeavesNothing ==
  ASSUME SInv, NEW a \in Pids \cup {System}, NEW q \in Pids, NEW reason \in ExitReasons,
         Exit(a, q, reason)
  PROVE  NothingLeft' /\ CancelledLive'
<1> USE DEF SInv, IInv, TypeOK
<1>1. CancelledLive'
  BY DEF Exit, ExitKilled, ExitTrapped, ExitCancelled, CancelledLive, CancelAll
<1>2. PICK V, extra : /\ NotifyExit(V, reason, extra)
                      /\ \A p \in Pids \ table : extra[p] = {}
  <2>1. \A p \in Pids : NoMessage[p] = {}
    BY DEF NoMessage
  <2>2. q \in table /\ \A p \in Pids \ {q} : [NoMessage EXCEPT ![q] = {EXIT(a, reason)}][p] = {}
    BY <2>1 DEF Exit, NoMessage
  <2>3. CASE reason = KILLED
    BY <2>1, <2>3 DEF Exit, ExitKilled
  <2>4. CASE reason # KILLED
    BY <2>1, <2>2, <2>4 DEF Exit, ExitTrapped, ExitCancelled
  <2> QED BY <2>3, <2>4
<1>3. ASSUME NEW p \in Pids, p \notin table PROVE mailbox'[p] = {} /\ monitored_by'[p] = {}
  <2>1. mailbox'[p] = mailbox[p] \cup extra[p] \cup ExitsTo(p, V, reason)
                                  \cup DownsTo(p, V, 4, reason)
    BY <1>2 DEF NotifyExit
  <2>2. mailbox'[p] = {}
    BY <1>2, <1>3, <2>1, SentToKnown DEF NothingLeft
  <2> QED BY <1>2, <1>3, <2>2 DEF NotifyExit, MonitoredByWithout, NothingLeft
<1> QED BY <1>1, <1>3 DEF NothingLeft, Exit

LEMMA OthersLeaveNothing ==
  ASSUME SInv,
         \/ \E a \in Pids : Body(a)
         \/ \E p \in Pids : \/ Start(p) \/ StopUnstarted(p) \/ Suspend(p)
                            \/ DeferredCleanup(p)
         \/ Shutdown
         \/ \E a \in Pids \cup {System}, p \in Pids : Spawn(a, p) \/ Send(a, p)
         \/ \E a \in Pids \cup {System}, n \in Names :
              (\E p \in Pids : Register(a, n, p)) \/ Unregister(a, n) \/ Whereis(a, n)
  PROVE  NothingLeft' /\ CancelledLive'
<1> USE DEF SInv, IInv, TypeOK, NothingLeft, CancelledLive
<1>1. ASSUME NEW a \in Pids \cup {System}, NEW p \in Pids, Spawn(a, p) \/ Send(a, p)
      PROVE  NothingLeft' /\ CancelledLive'
  BY <1>1 DEF Spawn, Send, NewProcess
<1>2. ASSUME NEW a \in Pids, NEW p \in Pids, SpawnLink(a, p)
      PROVE  NothingLeft' /\ CancelledLive'
  BY <1>2 DEF SpawnLink, NewProcess
<1>3. ASSUME NEW a \in Pids, NEW p \in Pids, SpawnMonitor(a, p)
      PROVE  NothingLeft' /\ CancelledLive'
  BY <1>3 DEF SpawnMonitor, NewProcess, AddMonitor
<1>4. ASSUME NEW a \in Pids, NEW b \in Pids, Link(a, b) \/ Unlink(a, b) \/ Monitor(a, b)
      PROVE  NothingLeft' /\ CancelledLive'
  BY <1>4 DEF Link, Unlink, Monitor, AddMonitor
<1>5. ASSUME NEW a \in Pids, NEW ref \in Refs, NEW flush \in BOOLEAN, Demonitor(a, ref, flush)
      PROVE  NothingLeft' /\ CancelledLive'
  BY <1>5 DEF Demonitor, MailboxHasInnerQueue
<1>6. ASSUME NEW a \in Pids, Receive(a) PROVE NothingLeft' /\ CancelledLive'
  BY <1>6 DEF Receive
<1>7. ASSUME NEW p \in Pids, Start(p) \/ StopUnstarted(p) \/ Suspend(p)
      PROVE  NothingLeft' /\ CancelledLive'
  BY <1>7 DEF Start, StopUnstarted, Suspend
<1>8. ASSUME NEW p \in Pids, DeferredCleanup(p) PROVE NothingLeft' /\ CancelledLive'
  BY <1>8 DEF DeferredCleanup, Forget, MonitoredByWithout
<1>9. ASSUME Shutdown PROVE NothingLeft' /\ CancelledLive'
  BY <1>9 DEF Shutdown, CancelAll
<1>10. ASSUME NEW a \in Pids \cup {System}, NEW n \in Names,
              (\E p \in Pids : Register(a, n, p)) \/ Unregister(a, n) \/ Whereis(a, n)
       PROVE  NothingLeft' /\ CancelledLive'
  BY <1>10 DEF Register, Unregister, Whereis
<1> QED BY <1>1, <1>2, <1>3, <1>4, <1>5, <1>6, <1>7, <1>8, <1>9, <1>10 DEF Body

LEMMA NothingLeftInductive == SInv /\ [Next]_vars => SInv'
<1> SUFFICES ASSUME SInv, [Next]_vars PROVE SInv'
  OBVIOUS
<1>1. IInv'
  BY Inductive DEF SInv
<1>2. NothingLeft' /\ CancelledLive'
  <2>1. ASSUME NEW p \in Pids, Return(p) \/ Crash(p) \/ Unwind(p)
        PROVE  NothingLeft' /\ CancelledLive'
    BY <2>1, FinishLeavesNothing DEF Return, Crash, Unwind, Runs
  <2>2. CASE UNCHANGED vars
    BY <2>2 DEF vars, SInv, NothingLeft, CancelledLive
  <2> QED BY <2>1, <2>2, ExitLeavesNothing, OthersLeaveNothing DEF Next, Call, EventLoop
<1> QED BY <1>1, <1>2 DEF SInv

LEMMA NothingLeftInvariance == SafetySpec => []SInv
<1>1. Init => SInv
  BY Initially DEF Init, SInv, NothingLeft, CancelledLive
<1> QED BY <1>1, NothingLeftInductive, PTL DEF SafetySpec

-----------------------------------------------------------------------------
(* What is sent and severed, in the terms of the promise.                  *)

\* The DOWNs in a set of messages, and the EXITs.
HasDown(M, ref, t) == \E m \in M : m.tag = "DOWN" /\ m.ref = ref /\ m.pid = t
HasExit(M, from) == \E m \in M : m.tag = "EXIT" /\ m.from = from

LEMMA UnionsHaveDown ==
  ASSUME NEW A, NEW B, NEW C, NEW D, NEW E, NEW ref, NEW t
  PROVE  HasDown(A \cup B \cup C \cup D \cup E, ref, t)
           <=> \/ HasDown(A, ref, t) \/ HasDown(B, ref, t) \/ HasDown(C, ref, t)
               \/ HasDown(D, ref, t) \/ HasDown(E, ref, t)
  BY DEF HasDown

LEMMA UnionsHaveExit ==
  ASSUME NEW A, NEW B, NEW C, NEW D, NEW E, NEW from
  PROVE  HasExit(A \cup B \cup C \cup D \cup E, from)
           <=> \/ HasExit(A, from) \/ HasExit(B, from) \/ HasExit(C, from)
               \/ HasExit(D, from) \/ HasExit(E, from)
  BY DEF HasExit

LEMMA ExitFields ==
  ASSUME NEW from, NEW reason
  PROVE  EXIT(from, reason).tag = "EXIT" /\ EXIT(from, reason).from = from
  BY DEF EXIT

LEMMA DownFields ==
  ASSUME NEW a, NEW ref, NEW t, NEW reason
  PROVE  /\ DOWN(a, ref, t, reason).tag = "DOWN"
         /\ DOWN(a, ref, t, reason).ref = ref
         /\ DOWN(a, ref, t, reason).pid = t
  BY DEF DOWN

\* Ends of watched processes are told in DOWNs only, those of linked ones in EXITs.
LEMMA OfOneKind ==
  ASSUME NEW t, NEW V, NEW a, NEW reason, NEW p, NEW ref, NEW q
  PROVE  /\ ~ HasExit(DownsTo(t, V, a, reason), q)
         /\ ~ HasDown(ExitsTo(t, V, reason), ref, q)
         /\ ~ HasDown(TrapSignalled(t, p, reason), ref, q)
<1>1. ~ HasExit(DownsTo(t, V, a, reason), q)
  BY DownFields DEF HasExit, DownsTo
<1>2. ~ HasDown(ExitsTo(t, V, reason), ref, q)
  BY ExitFields DEF HasDown, ExitsTo
<1>3. ~ HasDown(TrapSignalled(t, p, reason), ref, q)
  BY ExitFields DEF HasDown, TrapSignalled
<1> QED BY <1>1, <1>2, <1>3

\* DownsTo tells exactly who watches.
LEMMA DownsToTells ==
  ASSUME NEW V \in SUBSET Pids, NEW a, NEW reason, NEW w \in Refs \X Pids
  PROVE  HasDown(DownsTo(Watcher(w[1]), V, a, reason), w[1], w[2])
            <=> w \in Signals!Reports(V)
<1>1. ASSUME HasDown(DownsTo(Watcher(w[1]), V, a, reason), w[1], w[2])
      PROVE  w \in Signals!Reports(V)
  <2>1. PICK m \in DownsTo(Watcher(w[1]), V, a, reason) : m.ref = w[1] /\ m.pid = w[2]
    BY <1>1 DEF HasDown
  <2>2. Watcher(w[1]) \in table \cap WithMailbox
    BY <2>1 DEF DownsTo
  <2>3. PICK d \in Refs \X V : d[1] \in monitored_by[d[2]] /\ m = DOWN(a, d[1], d[2], reason)
    BY <2>1, <2>2 DEF DownsTo
  <2>4. d[1] = w[1] /\ d[2] = w[2]
    BY <2>1, <2>3, DownFields
  <2> QED BY <2>2, <2>3, <2>4 DEF Signals!Reports, Watches
<1>2. ASSUME w \in Signals!Reports(V)
      PROVE  HasDown(DownsTo(Watcher(w[1]), V, a, reason), w[1], w[2])
  <2>1. /\ w[1] \in monitored_by[w[2]] /\ w[2] \in V
        /\ Watcher(w[1]) \in table \cap WithMailbox
    BY <1>2 DEF Signals!Reports, Watches
  <2>2. <<w[1], w[2]>> \in
           {e \in Refs \X V : Watcher(e[1]) = Watcher(w[1]) /\ e[1] \in monitored_by[e[2]]}
    BY <2>1
  <2>3. DOWN(a, w[1], w[2], reason) \in DownsTo(Watcher(w[1]), V, a, reason)
    BY <2>1, <2>2 DEF DownsTo
  <2> QED BY <2>3, DownFields DEF HasDown
<1> QED BY <1>1, <1>2

\* ExitsTo tells exactly the linked processes that trap exits.
LEMMA ExitsToTells ==
  ASSUME SInv, NEW V \in SUBSET Pids, NEW reason, NEW e \in Pids \X (Pids \cup {System})
  PROVE  HasExit(ExitsTo(e[1], V, reason), e[2]) <=> e \in Signals!Exits(V)
<1> USE DEF SInv, IInv, TypeOK
<1>1. ASSUME HasExit(ExitsTo(e[1], V, reason), e[2]) PROVE e \in Signals!Exits(V)
  <2>1. PICK m \in ExitsTo(e[1], V, reason) : m.from = e[2]
    BY <1>1 DEF HasExit
  <2>2. e[1] \in table /\ Traps(e[1])
    BY <2>1 DEF ExitsTo
  <2>3. PICK v \in V : e[1] \in links[v] /\ m = EXIT(v, reason)
    BY <2>1, <2>2 DEF ExitsTo
  <2>4. e[2] = v
    BY <2>1, <2>3, ExitFields
  <2>5. v \in links[e[1]]
    BY <2>3 DEF LinksMutual
  <2> QED BY <2>2, <2>4, <2>5 DEF Signals!Exits, Bonds, Traps
<1>2. ASSUME e \in Signals!Exits(V) PROVE HasExit(ExitsTo(e[1], V, reason), e[2])
  <2>1. /\ e[2] \in links[e[1]] /\ e[2] \in V /\ e[1] \in Pids
        /\ Traps(e[1])
    BY <1>2 DEF Signals!Exits, Bonds, Traps
  <2>2. e[1] \in links[e[2]] /\ e[1] \in table
    BY <2>1 DEF LinksMutual
  <2>3. EXIT(e[2], reason) \in ExitsTo(e[1], V, reason)
    BY <2>1, <2>2 DEF ExitsTo
  <2> QED BY <2>3, ExitFields DEF HasExit
<1> QED BY <1>1, <1>2

\* TrapSignalled tells those linked to p itself, when its end is not a normal one.
LEMMA TrapSignalledTells ==
  ASSUME SInv, NEW p \in Pids, NEW reason, NEW e \in Pids \X (Pids \cup {System})
  PROVE  HasExit(TrapSignalled(e[1], p, reason), e[2])
            <=> ~ IsNormalExit(reason) /\ e \in Signals!Exits({p})
<1> USE DEF SInv, IInv, TypeOK
<1>1. e \in Signals!Exits({p}) <=> /\ e[2] = p
                                   /\ e[1] \in (links[p] \cap table) \cap Trapping \cap WithMailbox
  BY DEF Signals!Exits, Bonds, LinksMutual
<1>2. CASE /\ ~ IsNormalExit(reason)
           /\ e[1] \in (links[p] \cap table) \cap Trapping \cap WithMailbox
  <2>1. TrapSignalled(e[1], p, reason) = {EXIT(p, reason)}
    BY <1>2 DEF TrapSignalled
  <2>2. HasExit(TrapSignalled(e[1], p, reason), e[2]) <=> e[2] = p
    BY <2>1, ExitFields DEF HasExit
  <2> QED BY <1>1, <1>2, <2>2
<1>3. CASE ~ (/\ ~ IsNormalExit(reason)
              /\ e[1] \in (links[p] \cap table) \cap Trapping \cap WithMailbox)
  <2>1. TrapSignalled(e[1], p, reason) = {}
    BY <1>3 DEF TrapSignalled
  <2> QED BY <1>1, <1>3, <2>1 DEF HasExit
<1> QED BY <1>2, <1>3

\* Waiting messages in these terms.
LEMMA Waiting ==
  /\ \A w : w \in DownsWaiting <=> w \in Refs \X Pids /\ HasDown(mailbox[Watcher(w[1])], w[1], w[2])
  /\ \A e : e \in ExitsWaiting <=> e \in Pids \X (Pids \cup {System}) /\ HasExit(mailbox[e[1]], e[2])
  BY DEF DownsWaiting, ExitsWaiting, HasDown, HasExit

LEMMA WaitingNext ==
  /\ \A w : w \in DownsWaiting' <=> w \in Refs \X Pids /\ HasDown(mailbox'[Watcher(w[1])], w[1], w[2])
  /\ \A e : e \in ExitsWaiting' <=> e \in Pids \X (Pids \cup {System}) /\ HasExit(mailbox'[e[1]], e[2])
  BY DEF DownsWaiting, ExitsWaiting, HasDown, HasExit

LEMMA PairsTyped ==
  /\ \A w \in Refs \X Pids : w[1] \in Refs /\ w[2] \in Pids /\ Watcher(w[1]) \in Pids
  /\ \A e \in Pids \X (Pids \cup {System}) : e[1] \in Pids
  BY RefsWatched

\* _notify_exit reports and severs the processes in V.
LEMMA NotifySevers ==
  ASSUME SInv, NEW V \in SUBSET table, NEW reason, NEW extra, NEW X,
         NotifyExit(V, reason, extra), UNCHANGED table,
         \A q \in Pids : \A ref, t : ~ HasDown(extra[q], ref, t),
         \A e \in Pids \X (Pids \cup {System}) : HasExit(extra[e[1]], e[2]) <=> e \in X,
         X \subseteq Pids \X (Pids \cup {System})
  PROVE  Signals!Severed(V, V, {}, X)
<1> USE DEF SInv, IInv, TypeOK
<1>1. V \in SUBSET Pids
  OBVIOUS
<1>2. Watches' = {w \in Watches : w[2] \notin V \cup {}}
  BY DEF NotifyExit, MonitoredByWithout, Watches
<1>3. Bonds' = {b \in Bonds : b[1] \notin V \cup {} /\ b[2] \notin V \cup {}}
  BY DEF NotifyExit, LinksWithout, Bonds
<1>4. \A q \in Pids : mailbox'[q] = mailbox[q] \cup extra[q] \cup ExitsTo(q, V, reason)
                                               \cup DownsTo(q, V, 4, reason)
  BY DEF NotifyExit
<1>5. DownsWaiting' = {r \in DownsWaiting \cup Signals!Reports(V) : Watcher(r[1]) \notin {}}
  <2>1. ASSUME NEW w \in Refs \X Pids
        PROVE  w \in DownsWaiting' <=> w \in DownsWaiting \/ w \in Signals!Reports(V)
    <3>1. Watcher(w[1]) \in Pids
      BY PairsTyped
    <3>2. HasDown(mailbox'[Watcher(w[1])], w[1], w[2])
            <=> \/ HasDown(mailbox[Watcher(w[1])], w[1], w[2])
                \/ HasDown(DownsTo(Watcher(w[1]), V, 4, reason), w[1], w[2])
      <4> DEFINE M == mailbox[Watcher(w[1])]
                 B == extra[Watcher(w[1])]
                 C == ExitsTo(Watcher(w[1]), V, reason)
                 E == DownsTo(Watcher(w[1]), V, 4, reason)
      <4>1. mailbox'[Watcher(w[1])] = M \cup B \cup C \cup E
        BY <1>4, <3>1
      <4>2. ~ HasDown(B, w[1], w[2]) /\ ~ HasDown(C, w[1], w[2])
        BY <3>1, OfOneKind
      <4> HIDE DEF M, B, C, E
      <4>3. HasDown(M \cup B \cup C \cup E \cup E, w[1], w[2])
              <=> HasDown(M, w[1], w[2]) \/ HasDown(E, w[1], w[2])
        BY <4>2, UnionsHaveDown
      <4>4. M \cup B \cup C \cup E \cup E = M \cup B \cup C \cup E
        OBVIOUS
      <4> QED BY <4>1, <4>3, <4>4 DEF M, E
    <3> QED BY <1>1, <3>2, DownsToTells, Waiting, WaitingNext
  <2>2. Signals!Reports(V) \subseteq Refs \X Pids
    BY DEF Signals!Reports, Watches
  <2> QED BY <2>1, <2>2, Waiting, WaitingNext
<1>6. ExitsWaiting' = {e \in ExitsWaiting \cup X \cup Signals!Exits(V) : e[1] \notin {}}
  <2>1. ASSUME NEW e \in Pids \X (Pids \cup {System})
        PROVE  e \in ExitsWaiting' <=> e \in ExitsWaiting \/ e \in X \/ e \in Signals!Exits(V)
    <3>1. e[1] \in Pids
      BY PairsTyped
    <3>2. HasExit(mailbox'[e[1]], e[2])
            <=> \/ HasExit(mailbox[e[1]], e[2])
                \/ HasExit(extra[e[1]], e[2])
                \/ HasExit(ExitsTo(e[1], V, reason), e[2])
      <4> DEFINE M == mailbox[e[1]]
                 B == extra[e[1]]
                 C == ExitsTo(e[1], V, reason)
                 E == DownsTo(e[1], V, 4, reason)
      <4>1. mailbox'[e[1]] = M \cup B \cup C \cup E
        BY <1>4, <3>1
      <4>2. ~ HasExit(E, e[2])
        BY OfOneKind
      <4> HIDE DEF M, B, C, E
      <4>3. HasExit(M \cup B \cup C \cup E \cup E, e[2])
              <=> HasExit(M, e[2]) \/ HasExit(B, e[2]) \/ HasExit(C, e[2])
        BY <4>2, UnionsHaveExit
      <4>4. M \cup B \cup C \cup E \cup E = M \cup B \cup C \cup E
        OBVIOUS
      <4> QED BY <4>1, <4>3, <4>4 DEF M, B, C
    <3> QED BY <1>1, <3>2, ExitsToTells, Waiting, WaitingNext
  <2>2. Signals!Exits(V) \subseteq Pids \X (Pids \cup {System})
    BY DEF Signals!Exits, Bonds
  <2> QED BY <2>1, <2>2, Waiting, WaitingNext
<1> QED BY <1>2, <1>3, <1>5, <1>6 DEF Signals!Severed

\* The end of p's own task reports p and what fails with it, and drops p.
LEMMA FinishSevers ==
  ASSUME SInv, NEW p \in table, NEW reason, task[p] = "running", Finish(p, reason)
  PROVE  LET D == ExitSignalled(p, reason) \cup {p}
         IN  Signals!Severed(D, IF IsNormalExit(reason) THEN {} ELSE D, {p}, {})
<1> DEFINE V == ExitSignalled(p, reason)
           D == V \cup {p}
           F == IF IsNormalExit(reason) THEN {} ELSE D
<1> USE DEF SInv, IInv, TypeOK
<1>1. V \in SUBSET Pids /\ D \in SUBSET Pids /\ {p} \ V \in SUBSET Pids /\ p \in Pids
  BY SignalledInTable
<1>0. IsNormalExit(reason) => V = {}
  BY DEF ExitSignalled
<1>2. /\ Forget(p, V)
      /\ mailbox' = [q \in Pids |->
             IF q = p THEN {}
             ELSE mailbox[q] \cup ExitsTo(q, V, reason)
                             \cup TrapSignalled(q, p, reason)
                             \cup DownsTo(q, V, 4, reason)
                             \cup DownsTo(q, {p} \ V, 5, reason)]
  BY DEF Finish
<1> HIDE DEF V
<1>3. table' = table \ {p}
  BY <1>2 DEF Forget
<1>4. Watches' = {w \in Watches : w[2] \notin D \cup {p}}
  BY <1>1, <1>2 DEF Forget, MonitoredByWithout, Watches
<1>5. Bonds' = {b \in Bonds : b[1] \notin D \cup {p} /\ b[2] \notin D \cup {p}}
  BY <1>1, <1>2 DEF Forget, LinksWithout, Bonds
<1>6. \A q \in Pids : mailbox'[q] = IF q = p THEN {}
             ELSE mailbox[q] \cup ExitsTo(q, V, reason)
                             \cup TrapSignalled(q, p, reason)
                             \cup DownsTo(q, V, 4, reason)
                             \cup DownsTo(q, {p} \ V, 5, reason)
  BY <1>2
<1>7. DownsWaiting' = {r \in DownsWaiting \cup Signals!Reports(D) : Watcher(r[1]) \notin {p}}
  <2>1. ASSUME NEW w \in Refs \X Pids
        PROVE  w \in DownsWaiting' <=> /\ w \in DownsWaiting \/ w \in Signals!Reports(D)
                                       /\ Watcher(w[1]) # p
    <3> DEFINE q == Watcher(w[1])
    <3>1. q \in Pids
      BY PairsTyped
    <3>2. CASE q = p
      BY <1>6, <3>1, <3>2, WaitingNext DEF HasDown
    <3>3. CASE q # p
      <4> DEFINE Down(M) == HasDown(M, w[1], w[2])
      <4>1. PICK A, B, E1, E2 : /\ A = DownsTo(q, V, 4, reason)
                                /\ B = DownsTo(q, {p} \ V, 5, reason)
                                /\ E1 = ExitsTo(q, V, reason)
                                /\ E2 = TrapSignalled(q, p, reason)
        OBVIOUS
      <4>2. mailbox'[q] = mailbox[q] \cup E1 \cup E2 \cup A \cup B
        BY <1>6, <3>1, <3>3, <4>1
      <4>3. ~ Down(E1) /\ ~ Down(E2)
        BY <4>1, OfOneKind
      <4>4. Down(A) <=> w \in Signals!Reports(V)
        BY <1>1, <4>1, DownsToTells
      <4>5. Down(B) <=> w \in Signals!Reports({p} \ V)
        BY <1>1, <4>1, DownsToTells
      <4>6. Down(mailbox'[q]) <=> Down(mailbox[q]) \/ Down(A) \/ Down(B)
        <5>1. Down(mailbox[q] \cup E1 \cup E2 \cup A \cup B)
                <=> Down(mailbox[q]) \/ Down(E1) \/ Down(E2) \/ Down(A) \/ Down(B)
          BY DEF HasDown
        <5> QED BY <4>2, <4>3, <5>1
      <4>7. w \in Signals!Reports(D)
              <=> w \in Signals!Reports(V) \/ w \in Signals!Reports({p} \ V)
        BY DEF Signals!Reports
      <4> HIDE DEF Down
      <4>8. /\ Down(mailbox'[q]) <=> w \in DownsWaiting'
            /\ Down(mailbox[q]) <=> w \in DownsWaiting
        BY Waiting, WaitingNext DEF Down
      <4> QED BY <3>3, <4>4, <4>5, <4>6, <4>7, <4>8
    <3> QED BY <3>2, <3>3
  <2>2. Signals!Reports(D) \subseteq Refs \X Pids
    BY DEF Signals!Reports, Watches
  <2> QED BY <2>1, <2>2, Waiting, WaitingNext
<1>8. ExitsWaiting' = {e \in ExitsWaiting \cup {} \cup Signals!Exits(F) : e[1] \notin {p}}
  <2>1. ASSUME NEW e \in Pids \X (Pids \cup {System})
        PROVE  e \in ExitsWaiting' <=> /\ e \in ExitsWaiting \/ e \in Signals!Exits(F)
                                       /\ e[1] # p
    <3> DEFINE q == e[1]
    <3>1. q \in Pids
      BY PairsTyped
    <3>2. CASE q = p
      BY <1>6, <3>1, <3>2, WaitingNext DEF HasExit
    <3>3. CASE q # p
      <4> DEFINE Out(M) == HasExit(M, e[2])
      <4>1. PICK A, B, E1, E2 : /\ A = DownsTo(q, V, 4, reason)
                                /\ B = DownsTo(q, {p} \ V, 5, reason)
                                /\ E1 = ExitsTo(q, V, reason)
                                /\ E2 = TrapSignalled(q, p, reason)
        OBVIOUS
      <4>2. mailbox'[q] = mailbox[q] \cup E1 \cup E2 \cup A \cup B
        BY <1>6, <3>1, <3>3, <4>1
      <4>3. ~ Out(A) /\ ~ Out(B)
        BY <4>1, OfOneKind
      <4>4. Out(E1) <=> e \in Signals!Exits(V)
        BY <1>1, <4>1, ExitsToTells
      <4>5. Out(E2) <=> ~ IsNormalExit(reason) /\ e \in Signals!Exits({p})
        BY <1>1, <4>1, TrapSignalledTells
      <4>6. Out(mailbox'[q]) <=> Out(mailbox[q]) \/ Out(E1) \/ Out(E2)
        <5>1. Out(mailbox[q] \cup E1 \cup E2 \cup A \cup B)
                <=> Out(mailbox[q]) \/ Out(E1) \/ Out(E2) \/ Out(A) \/ Out(B)
          BY UnionsHaveExit
        <5> QED BY <4>2, <4>3, <5>1
      <4>7. e \in Signals!Exits(F)
              <=> e \in Signals!Exits(V) \/ (~ IsNormalExit(reason) /\ e \in Signals!Exits({p}))
        BY <1>0 DEF Signals!Exits
      <4> HIDE DEF Out
      <4>8. /\ Out(mailbox'[q]) <=> e \in ExitsWaiting'
            /\ Out(mailbox[q]) <=> e \in ExitsWaiting
        BY Waiting, WaitingNext DEF Out
      <4> QED BY <3>3, <4>4, <4>5, <4>6, <4>7, <4>8
    <3> QED BY <3>2, <3>3
  <2>2. Signals!Exits(F) \subseteq Pids \X (Pids \cup {System})
    BY DEF Signals!Exits, Bonds
  <2> QED BY <2>1, <2>2, Waiting, WaitingNext
<1>9. Signals!Severed(D, F, {p}, {})
  BY <1>3, <1>4, <1>5, <1>7, <1>8 DEF Signals!Severed
<1> QED BY <1>9 DEF V

-----------------------------------------------------------------------------
(* Every step of ProcessRuntime is one of ExitSignals, or a stuttering one. *)

\* Who is cancelled among the processes of the table is on its way out.
LEMMA CancelledStop ==
  ASSUME SInv, NEW P \in SUBSET table
  PROVE  CancelAll(P) \cup {q \in Pids : task[q] = "done"} = Stopping \cup P
<1>1. \A q \in P : q \in Pids /\ task[q] \in {"created", "running", "done"}
  BY DEF SInv, IInv, TypeOK, AbsentUnknown, TaskStates
<1> QED BY <1>1 DEF CancelAll, Stopping

\* A cascade is a set of processes that fail together.
LEMMA CascadeFails ==
  ASSUME SInv, NEW roots PROVE Cascade(roots) \in Signals!Failures
<1> USE DEF SInv, IInv, TypeOK
<1>1. Cascade(roots) \in SUBSET table
  BY CascadeInTable
<1>2. ASSUME NEW b \in Bonds, b[1] \in Cascade(roots)
      PROVE  b[2] \in Cascade(roots) \cup Trapping
  <2>1. b[2] \in links[b[1]] /\ b[2] \in table
    BY DEF Bonds, LinksMutual
  <2> QED BY <1>2, <2>1, CascadeClosed DEF Traps
<1> QED BY <1>1, <1>2 DEF Signals!Failures

\* So are a process that ends abnormally and those it takes along.
LEMMA CrashFails ==
  ASSUME SInv, NEW p \in table, NEW reason, ~ IsNormalExit(reason)
  PROVE  ExitSignalled(p, reason) \cup {p} \in Signals!Failures
<1> USE DEF SInv, IInv, TypeOK
<1> DEFINE V == ExitSignalled(p, reason)
           targets == (links[p] \cap table) \ Trapping
<1>1. V \cup {p} \in SUBSET table
  BY SignalledInTable
<1>2. V = IF targets = {} THEN {} ELSE Cascade(targets)
  BY DEF ExitSignalled
<1>3. targets \subseteq V
  BY <1>2, CascadeHasRoots
<1> HIDE DEF V
<1>4. ASSUME NEW b \in Bonds, b[1] \in V \cup {p} PROVE b[2] \in V \cup {p} \cup Trapping
  <2>1. b[2] \in links[b[1]] /\ b[2] \in table
    BY DEF Bonds, LinksMutual
  <2>2. CASE b[1] = p
    BY <1>3, <2>1, <2>2
  <2>3. CASE b[1] \in V
    <3>1. V = Cascade(targets)
      BY <1>2, <2>3
    <3>2. Traps(b[2]) \/ b[2] \in Cascade(targets)
      BY <2>1, <2>3, <3>1, CascadeClosed
    <3> QED BY <3>1, <3>2 DEF Traps
  <2> QED BY <1>4, <2>2, <2>3
<1>5. V \cup {p} \in Signals!Failures
  BY <1>1, <1>4 DEF Signals!Failures
<1> QED BY <1>5 DEF V

\* The end of a process: it ends alone, or it fails with others.
LEMMA FinishMaps ==
  ASSUME SInv, NEW p \in Pids, NEW reason, task[p] = "running", Finish(p, reason)
  PROVE  [Signals!Next]_(Signals!vars)
<1> USE DEF SInv, IInv, TypeOK
<1>1. CASE p \notin table
  <2>1. UNCHANGED <<table, deferred, links, monitored_by, mailbox>>
    BY <1>1 DEF Finish
  <2>2. Stopping' = Stopping
    BY <1>1 DEF Finish, LiveTasksKnown, Stopping, CancelAll
  <2> QED BY <2>1, <2>2 DEF Signals!vars, Watches, Bonds, DownsWaiting, ExitsWaiting
<1>2. CASE p \in table
  <2> DEFINE V == ExitSignalled(p, reason)
             D == V \cup {p}
             F == IF IsNormalExit(reason) THEN {} ELSE D
  <2>1. V \in SUBSET table
    BY SignalledInTable
  <2>2. Signals!Severed(D, F, {p}, {})
    BY <1>2, FinishSevers
  <2>3. cancel' = CancelAll(V) \ {p} /\ task' = [task EXCEPT ![p] = "done"] /\ deferred' = deferred
    BY <1>2 DEF Finish
  <2> HIDE DEF V
  <2>4. Stopping' = CancelAll(V) \cup {q \in Pids : task[q] = "done"} \cup {p}
    BY <2>3 DEF Stopping
  <2>5. Stopping' = Stopping \cup D
    BY <2>1, <2>4, CancelledStop
  <2>6. CASE IsNormalExit(reason)
    <3>1. V = {}
      BY <2>6 DEF V, ExitSignalled
    <3>2. Signals!End(p)
      BY <1>2, <2>2, <2>3, <2>5, <2>6, <3>1 DEF Signals!End
    <3> QED BY <3>2 DEF Signals!Next
  <2>7. CASE ~ IsNormalExit(reason)
    <3>1. D \in Signals!Failures
      BY <1>2, <2>7, CrashFails DEF V
    <3>2. Signals!Fail(p, D)
      BY <2>2, <2>3, <2>5, <2>7 DEF Signals!Fail
    <3>3. p \in D
      OBVIOUS
    <3> HIDE DEF D
    <3> QED BY <3>1, <3>2, <3>3 DEF Signals!Next
  <2> QED BY <2>6, <2>7
<1> QED BY <1>1, <1>2

\* The deferred clean-up removes what was killed without a word.
LEMMA RemovalMaps ==
  ASSUME SInv, NEW p \in Pids, DeferredCleanup(p)
  PROVE  Signals!Remove(p)
<1> USE DEF SInv, IInv, TypeOK
<1>1. /\ p \in deferred /\ deferred' = deferred \ {p}
      /\ table' = table \ {p}
      /\ Stopping' = Stopping
  BY DEF DeferredCleanup, Forget, Stopping
<1>2. CASE p \in table
  <2>1. /\ links' = LinksWithout({p}) /\ monitored_by' = MonitoredByWithout({p})
        /\ mailbox' = [mailbox EXCEPT ![p] = {}]
    BY <1>2 DEF DeferredCleanup, Forget
  <2>2. Watches' = {w \in Watches : w[2] # p}
    BY <2>1 DEF Watches, MonitoredByWithout
  <2>3. Bonds' = {b \in Bonds : b[1] # p /\ b[2] # p}
    BY <2>1 DEF Bonds, LinksWithout
  <2>4. \A q \in Pids : mailbox'[q] = IF q = p THEN {} ELSE mailbox[q]
    BY <2>1
  <2>5. DownsWaiting' = {w \in DownsWaiting : Watcher(w[1]) # p}
    BY <2>4, RefsWatched DEF DownsWaiting
  <2>6. ExitsWaiting' = {e \in ExitsWaiting : e[1] # p}
    BY <2>4 DEF ExitsWaiting
  <2> QED BY <1>1, <2>2, <2>3, <2>5, <2>6 DEF Signals!Remove, Signals!Severed, Signals!Reports,
                                              Signals!Exits
<1>3. CASE p \notin table
  <2>1. UNCHANGED <<links, monitored_by, mailbox>>
    BY <1>3 DEF DeferredCleanup
  <2>2. Watches' = Watches /\ Bonds' = Bonds /\ DownsWaiting' = DownsWaiting
        /\ ExitsWaiting' = ExitsWaiting
    BY <2>1 DEF Watches, Bonds, DownsWaiting, ExitsWaiting
  <2>3. \A w \in Watches : w[2] # p
    BY <1>3 DEF Watches, NothingLeft
  <2>4. \A b \in Bonds : b[1] # p /\ b[2] # p
    BY <1>3 DEF Bonds, LinksMutual
  <2>5. \A w \in DownsWaiting : Watcher(w[1]) # p
    BY <1>3 DEF DownsWaiting, NothingLeft
  <2>6. \A e \in ExitsWaiting : e[1] # p
    BY <1>3 DEF ExitsWaiting, NothingLeft
  <2> QED BY <1>1, <2>2, <2>3, <2>4, <2>5, <2>6 DEF Signals!Remove, Signals!Severed,
                                                    Signals!Reports, Signals!Exits
<1> QED BY <1>2, <1>3

LEMMA ShutdownMaps ==
  ASSUME SInv, Shutdown PROVE Signals!Shutdown
<1> USE DEF SInv, IInv, TypeOK
<1>1. /\ table' = {} /\ deferred' = deferred /\ task' = task /\ cancel' = CancelAll(table)
      /\ links' = [p \in Pids |-> {}] /\ monitored_by' = [p \in Pids |-> {}]
      /\ mailbox' = [p \in Pids |-> {}]
  BY DEF Shutdown
<1>2. Stopping' = Stopping \cup table
  BY <1>1, CancelledStop DEF Stopping
<1>3. Watches' = {} /\ Bonds' = {}
  BY <1>1 DEF Watches, Bonds
<1>4. DownsWaiting' = {}
  BY <1>1, RefsWatched DEF DownsWaiting
<1>5. ExitsWaiting' = {}
  BY <1>1 DEF ExitsWaiting
<1>6. \A w \in Watches : w[2] \in table
  BY DEF Watches, NothingLeft
<1>7. \A b \in Bonds : b[1] \in table
  BY DEF Bonds, LinksMutual
<1>8. \A w \in DownsWaiting : Watcher(w[1]) \in table
  BY RefsWatched DEF DownsWaiting, NothingLeft
<1>9. \A e \in ExitsWaiting : e[1] \in table
  BY DEF ExitsWaiting, NothingLeft
<1> QED BY <1>1, <1>2, <1>3, <1>4, <1>5, <1>6, <1>7, <1>8, <1>9
        DEF Signals!Shutdown, Signals!Severed, Signals!Reports, Signals!Exits

\* An exit signal: the target and what fails with it are severed, or it is only told.
LEMMA ExitMaps ==
  ASSUME SInv, NEW a \in Pids \cup {System}, NEW q \in Pids, NEW reason \in ExitReasons,
         Exit(a, q, reason)
  PROVE  [Signals!Next]_(Signals!vars)
<1> USE DEF SInv, IInv, TypeOK
<1> DEFINE F == Cascade({q})
           graceful == reason \in {SHUTDOWN, SUPERVISOR_SHUTDOWN}
           to == [NoMessage EXCEPT ![q] = {EXIT(a, reason)}]
<1>1. q \in table /\ table' = table /\ task' = task
  BY DEF Exit
<1>2. F \in Signals!Failures /\ q \in F /\ F \in SUBSET table
  BY <1>1, CascadeFails, CascadeHasRoots, CascadeInTable
<1>3. \A r \in Pids : \A ref, t : ~ HasDown(NoMessage[r], ref, t) /\ ~ HasDown(to[r], ref, t)
  BY ExitFields DEF HasDown, NoMessage
<1>4. \A e \in Pids \X (Pids \cup {System}) : HasExit(NoMessage[e[1]], e[2]) <=> e \in {}
  BY DEF HasExit, NoMessage
<1>5. \A e \in Pids \X (Pids \cup {System}) : HasExit(to[e[1]], e[2]) <=> e \in {<<q, a>>}
  <2> SUFFICES ASSUME NEW e \in Pids \X (Pids \cup {System})
               PROVE  HasExit(to[e[1]], e[2]) <=> e[1] = q /\ e[2] = a
    <3>1. \A e \in Pids \X (Pids \cup {System}) : e \in {<<q, a>>} <=> e[1] = q /\ e[2] = a
      OBVIOUS
    <3> HIDE DEF to
    <3> QED BY <3>1
  <2>1. CASE e[1] = q
    <3>1. to[e[1]] = {EXIT(a, reason)}
      BY <2>1 DEF NoMessage
    <3> QED BY <2>1, <3>1, ExitFields DEF HasExit
  <2>2. CASE e[1] # q
    <3>1. to[e[1]] = {}
      BY <2>2 DEF NoMessage
    <3> QED BY <2>2, <3>1 DEF HasExit
  <2> QED BY <2>1, <2>2
<1>6. {<<q, a>>} \subseteq Pids \X (Pids \cup {System})
  OBVIOUS
<1> HIDE DEF F, to
<1>7. ASSUME NEW V \in SUBSET table, NotifyExit(V, reason, NoMessage)
      PROVE  Signals!Severed(V, V, {}, {})
  BY <1>1, <1>3, <1>4, <1>7, NotifySevers
<1>8. ASSUME NEW V \in SUBSET table, NotifyExit(V, reason, to)
      PROVE  Signals!Severed(V, V, {}, {<<q, a>>})
  BY <1>1, <1>3, <1>5, <1>6, <1>8, NotifySevers
<1>9. ASSUME NEW P \in SUBSET table, cancel' = CancelAll(P)
      PROVE  Stopping' = Stopping \cup P
  BY <1>1, <1>9, CancelledStop DEF Stopping
<1>10. CASE reason = KILLED
  <2>1. /\ cancel' = CancelAll(F) /\ deferred' = deferred \cup {q}
        /\ NotifyExit(F, reason, NoMessage)
    BY <1>10 DEF Exit, ExitKilled, F
  <2>2. Signals!Stop(q, F)
    BY <1>2, <1>7, <1>9, <2>1 DEF Signals!Stop
  <2> QED BY <1>2, <2>2 DEF Signals!Next
<1>11. CASE reason # KILLED /\ Traps(q) /\ ~ graceful
  <2>1. /\ cancel' = CancelAll(F \ {q}) /\ deferred' = deferred
        /\ NotifyExit(F, reason, to)
    BY <1>11 DEF Exit, ExitTrapped, F, to
  <2>2. Signals!Severed(F, F, {}, {<<q, a>>})
    BY <1>2, <1>8, <2>1
  <2>3. Stopping' = Stopping \cup (F \ {q})
    BY <1>2, <1>9, <2>1
  <2>4. Signals!Disown(a, q, F)
    BY <1>11, <2>1, <2>2, <2>3 DEF Signals!Disown, Traps
  <2> QED BY <1>2, <2>4 DEF Signals!Next
<1>12. CASE reason # KILLED /\ Traps(q) /\ graceful
  <2>1. /\ cancel' = CancelAll({} \ {q}) /\ deferred' = deferred
        /\ NotifyExit({}, reason, to)
    BY <1>12 DEF Exit, ExitTrapped, to
  <2>2. Signals!Severed({}, {}, {}, {<<q, a>>})
    BY <1>8, <2>1
  <2>3. Stopping' = Stopping
    BY <1>9, <2>1
  <2>4. Signals!Tell(a, q)
    BY <1>1, <1>12, <2>1, <2>2, <2>3
       DEF Signals!Tell, Signals!Severed, Signals!Reports, Signals!Exits, Traps
  <2> QED BY <2>4 DEF Signals!Next
<1>13. CASE reason # KILLED /\ ~ Traps(q) /\ ~ graceful
  <2>1. /\ cancel' = CancelAll(F \cup {q}) /\ deferred' = deferred
        /\ NotifyExit(F, reason, NoMessage)
    BY <1>13 DEF Exit, ExitCancelled, F
  <2>2. F \cup {q} = F
    BY <1>2
  <2>3. Signals!Stop(q, F)
    BY <1>2, <1>7, <1>9, <2>1, <2>2 DEF Signals!Stop
  <2> QED BY <1>2, <2>3 DEF Signals!Next
<1>14. CASE reason # KILLED /\ ~ Traps(q) /\ graceful
  <2>1. /\ cancel' = CancelAll({} \cup {q}) /\ deferred' = deferred
        /\ NotifyExit({}, reason, NoMessage)
    BY <1>14 DEF Exit, ExitCancelled
  <2>2. Signals!Severed({}, {}, {}, {})
    BY <1>7, <2>1
  <2>3. Stopping' = Stopping \cup {q}
    BY <1>1, <1>9, <2>1
  <2>4. Signals!Ask(q)
    BY <1>1, <2>1, <2>2, <2>3 DEF Signals!Ask, Signals!Severed, Signals!Reports, Signals!Exits
  <2> QED BY <2>4 DEF Signals!Next
<1> QED BY <1>10, <1>11, <1>12, <1>13, <1>14

\* New processes and their first relations.
LEMMA SpawnMaps ==
  ASSUME SInv, NEW a \in Pids \cup {System}, NEW p \in Pids,
         Spawn(a, p) \/ (a \in Pids /\ (SpawnLink(a, p) \/ SpawnMonitor(a, p)))
  PROVE  Signals!Next
<1> USE DEF SInv, IInv, TypeOK
<1>1. task[p] = "absent" /\ table' = table \cup {p} /\ task' = [task EXCEPT ![p] = "created"]
  BY DEF Spawn, SpawnLink, SpawnMonitor, NewProcess
<1>2. UNCHANGED <<cancel, deferred, mailbox>>
  BY DEF Spawn, SpawnLink, SpawnMonitor
<1>3. p \notin table \cup Stopping
  BY <1>1 DEF AbsentUnknown, CancelledLive, Stopping
<1>4. Stopping' = Stopping
  BY <1>1, <1>2 DEF Stopping
<1>5. DownsWaiting' = DownsWaiting /\ ExitsWaiting' = ExitsWaiting
  BY <1>2 DEF DownsWaiting, ExitsWaiting
<1>6. CASE Spawn(a, p)
  <2>1. Watches' = Watches /\ Bonds' = Bonds
    BY <1>6 DEF Spawn, Watches, Bonds
  <2>2. Signals!Spawn(p)
    BY <1>1, <1>2, <1>3, <1>4, <1>5, <2>1 DEF Signals!Spawn, Signals!Join
  <2> QED BY <2>2 DEF Signals!Next
<1>7. CASE a \in Pids /\ SpawnLink(a, p)
  <2>1. a \in table /\ a # p
    BY <1>3, <1>7 DEF SpawnLink
  <2>2. Watches' = Watches
    BY <1>7 DEF SpawnLink, Watches
  <2>3. Bonds' = Bonds \cup Signals!Both(a, p)
    BY <1>7 DEF SpawnLink, LinkPair, Bonds, Signals!Both
  <2>4. Signals!SpawnLink(a, p)
    BY <1>1, <1>2, <1>3, <1>4, <1>5, <2>1, <2>2, <2>3 DEF Signals!SpawnLink, Signals!Join
  <2> QED BY <1>7, <2>4 DEF Signals!Next
<1>8. CASE a \in Pids /\ SpawnMonitor(a, p)
  <2>1. a \in table /\ NextRef(a) \in Refs /\ Watcher(NextRef(a)) = a
    BY <1>8 DEF SpawnMonitor, AddMonitor, NextRef, Watcher
  <2>2. Bonds' = Bonds
    BY <1>8 DEF SpawnMonitor, Bonds
  <2>3. Watches' = Watches \cup {<<NextRef(a), p>>}
    <3>1. monitored_by' = [monitored_by EXCEPT ![p] = @ \cup {NextRef(a)}]
      BY <1>8 DEF SpawnMonitor, AddMonitor
    <3> QED BY <2>1, <3>1 DEF Watches
  <2>4. Signals!SpawnMonitor(NextRef(a), p)
    BY <1>1, <1>2, <1>3, <1>4, <1>5, <2>1, <2>2, <2>3 DEF Signals!SpawnMonitor, Signals!Join
  <2> QED BY <2>1, <2>4 DEF Signals!Next
<1> QED BY <1>6, <1>7, <1>8

\* Links and monitors.
LEMMA RelationMaps ==
  ASSUME SInv, NEW a \in Pids, NEW b \in Pids, Link(a, b) \/ Unlink(a, b) \/ Monitor(a, b)
  PROVE  Signals!Next
<1> USE DEF SInv, IInv, TypeOK
<1>1. UNCHANGED <<table, task, cancel, deferred, mailbox>>
  BY DEF Link, Unlink, Monitor
<1>2. UNCHANGED <<table, Stopping, deferred, DownsWaiting, ExitsWaiting>>
  BY <1>1 DEF Stopping, DownsWaiting, ExitsWaiting
<1>3. CASE Link(a, b)
  <2>1. Watches' = Watches /\ Bonds' = Bonds \cup Signals!Both(a, b)
    BY <1>3 DEF Link, LinkPair, Watches, Bonds, Signals!Both
  <2>2. Signals!Link(a, b)
    BY <1>2, <1>3, <2>1 DEF Link, Signals!Link, Signals!Relations
  <2> QED BY <2>2 DEF Signals!Next
<1>4. CASE Unlink(a, b)
  <2>1. Watches' = Watches /\ Bonds' = Bonds \ Signals!Both(a, b)
    BY <1>4 DEF Unlink, Watches, Bonds, Signals!Both
  <2>2. Signals!Unlink(a, b)
    BY <1>2, <2>1 DEF Signals!Unlink, Signals!Relations
  <2> QED BY <2>2 DEF Signals!Next
<1>5. CASE Monitor(a, b)
  <2>1. {a, b} \subseteq table /\ NextRef(a) \in Refs /\ Watcher(NextRef(a)) = a
    BY <1>5 DEF Monitor, AddMonitor, NextRef, Watcher
  <2>2. monitored_by' = [monitored_by EXCEPT ![b] = @ \cup {NextRef(a)}] /\ links' = links
    BY <1>5 DEF Monitor, AddMonitor
  <2>3. Bonds' = Bonds
    BY <2>2 DEF Bonds
  <2>4. Watches' = Watches \cup {<<NextRef(a), b>>}
    BY <2>1, <2>2 DEF Watches
  <2>5. Signals!Monitor(NextRef(a), b)
    BY <1>2, <2>1, <2>3, <2>4 DEF Signals!Monitor, Signals!Relations
  <2> QED BY <2>1, <2>5 DEF Signals!Next
<1> QED BY <1>3, <1>4, <1>5

LEMMA DemonitorMaps ==
  ASSUME SInv, NEW a \in Pids, NEW ref \in Refs, NEW flush \in BOOLEAN, Demonitor(a, ref, flush)
  PROVE  Signals!Next
<1> USE DEF SInv, IInv, TypeOK
<1>1. UNCHANGED <<table, task, cancel, deferred, mailbox, links>>
  BY DEF Demonitor, MailboxHasInnerQueue
<1>2. UNCHANGED <<table, Stopping, deferred, DownsWaiting, ExitsWaiting, Bonds>>
  BY <1>1 DEF Stopping, DownsWaiting, ExitsWaiting, Bonds
<1>3. PICK t \in Pids : t = monitors[ref]
  BY DEF Demonitor
<1>4. monitored_by' = [monitored_by EXCEPT ![t] = @ \ {ref}]
  BY <1>3 DEF Demonitor
<1>5. Watches' = Watches \ {<<ref, t>>}
  BY <1>4 DEF Watches
<1>6. Signals!Demonitor(ref, t)
  BY <1>2, <1>5 DEF Signals!Demonitor, Signals!Relations
<1> QED BY <1>6 DEF Signals!Next

\* A message is read: the news it carries was read, unless a second copy of it waits.
LEMMA ReceiveMaps ==
  ASSUME SInv, NEW a \in Pids, Receive(a)
  PROVE  [Signals!Next]_(Signals!vars)
<1> USE DEF SInv, IInv, TypeOK
<1>1. PICK m \in mailbox[a] : mailbox' = [mailbox EXCEPT ![a] = @ \ {m}]
  BY DEF Receive
<1>2. UNCHANGED <<table, task, cancel, deferred, links, monitored_by>>
  BY DEF Receive
<1>3. UNCHANGED <<table, Stopping, deferred, Watches, Bonds>>
  BY <1>2 DEF Stopping, Watches, Bonds
<1>4. \A q \in Pids : mailbox'[q] = IF q = a THEN mailbox[q] \ {m} ELSE mailbox[q]
  BY <1>1
<1>5. DownsWaiting' \subseteq DownsWaiting /\ ExitsWaiting' \subseteq ExitsWaiting
  BY <1>4, RefsWatched DEF DownsWaiting, ExitsWaiting
<1>6. \A w \in DownsWaiting \ DownsWaiting' : m.tag = "DOWN" /\ m.ref = w[1] /\ m.pid = w[2]
  BY <1>4, RefsWatched DEF DownsWaiting
<1>7. \A e \in ExitsWaiting \ ExitsWaiting' : m.tag = "EXIT" /\ e[1] = a /\ m.from = e[2]
  BY <1>4 DEF ExitsWaiting
<1>8. CASE \E w \in DownsWaiting : w \notin DownsWaiting'
  <2>1. PICK w \in DownsWaiting : w \notin DownsWaiting'
    BY <1>8
  <2>2. m.tag = "DOWN" /\ m.ref = w[1] /\ m.pid = w[2]
    BY <1>6, <2>1
  <2>3. ExitsWaiting' = ExitsWaiting
    BY <1>5, <1>7, <2>2
  <2>4. \A v \in DownsWaiting \ DownsWaiting' : v = w
    <3> SUFFICES ASSUME NEW v \in DownsWaiting, v \notin DownsWaiting' PROVE v = w
      OBVIOUS
    <3>1. v[1] = w[1] /\ v[2] = w[2]
      BY <1>6, <2>2
    <3> QED BY <3>1 DEF DownsWaiting
  <2>5. DownsWaiting' = DownsWaiting \ {w}
    BY <1>5, <2>1, <2>4
  <2>6. Signals!ReadDown(w)
    BY <1>3, <2>3, <2>5 DEF Signals!ReadDown
  <2> QED BY <2>6 DEF Signals!Next
<1>9. CASE \E e \in ExitsWaiting : e \notin ExitsWaiting'
  <2>1. PICK e \in ExitsWaiting : e \notin ExitsWaiting'
    BY <1>9
  <2>2. m.tag = "EXIT" /\ e[1] = a /\ m.from = e[2]
    BY <1>7, <2>1
  <2>3. DownsWaiting' = DownsWaiting
    BY <1>5, <1>6, <2>2
  <2>4. \A v \in ExitsWaiting \ ExitsWaiting' : v = e
    <3> SUFFICES ASSUME NEW v \in ExitsWaiting, v \notin ExitsWaiting' PROVE v = e
      OBVIOUS
    <3>1. v[1] = e[1] /\ v[2] = e[2]
      BY <1>7, <2>2
    <3> QED BY <3>1 DEF ExitsWaiting
  <2>5. ExitsWaiting' = ExitsWaiting \ {e}
    BY <1>5, <2>1, <2>4
  <2>6. Signals!ReadExit(e)
    BY <1>3, <2>3, <2>5 DEF Signals!ReadExit
  <2> QED BY <2>6 DEF Signals!Next
<1>10. CASE /\ \A w \in DownsWaiting : w \in DownsWaiting'
            /\ \A e \in ExitsWaiting : e \in ExitsWaiting'
  <2>1. DownsWaiting' = DownsWaiting /\ ExitsWaiting' = ExitsWaiting
    BY <1>5, <1>10
  <2> QED BY <1>3, <2>1 DEF Signals!vars
<1> QED BY <1>8, <1>9, <1>10

\* What neither starts, relates nor ends processes does not concern the promise.
LEMMA OthersStutter ==
  ASSUME SInv,
         \/ \E p \in Pids : Start(p) \/ StopUnstarted(p) \/ Suspend(p)
         \/ \E a \in Pids \cup {System}, q \in Pids : Send(a, q)
         \/ \E a \in Pids \cup {System}, n \in Names :
              (\E p \in Pids : Register(a, n, p)) \/ Unregister(a, n) \/ Whereis(a, n)
         \/ UNCHANGED vars
  PROVE  UNCHANGED Signals!vars
<1> USE DEF SInv, IInv, TypeOK
<1>1. UNCHANGED <<table, deferred, links, monitored_by>>
  BY DEF Start, StopUnstarted, Suspend, Send, Register, Unregister, Whereis, vars
<1>2. Watches' = Watches /\ Bonds' = Bonds
  BY <1>1 DEF Watches, Bonds
<1>3. Stopping' = Stopping
  <2>1. ASSUME NEW p \in Pids, Start(p) PROVE Stopping' = Stopping
    BY <2>1 DEF Start, Stopping
  <2>2. ASSUME NEW p \in Pids, StopUnstarted(p) PROVE Stopping' = Stopping
    BY <2>2 DEF StopUnstarted, Stopping
  <2> QED BY <2>1, <2>2 DEF Suspend, Send, Register, Unregister, Whereis, vars, Stopping
<1>4. \A q \in Pids : mailbox'[q] = mailbox[q] \/ mailbox'[q] = mailbox[q] \cup {USER}
  BY DEF Start, StopUnstarted, Suspend, Send, Register, Unregister, Whereis, vars
<1>5. USER.tag = "USER"
  BY DEF USER
<1>6. DownsWaiting' = DownsWaiting
  BY <1>4, <1>5, RefsWatched DEF DownsWaiting
<1>7. ExitsWaiting' = ExitsWaiting
  BY <1>4, <1>5 DEF ExitsWaiting
<1> QED BY <1>1, <1>2, <1>3, <1>6, <1>7 DEF Signals!vars

LEMMA StepMaps == SInv /\ [Next]_vars => [Signals!Next]_(Signals!vars)
<1> SUFFICES ASSUME SInv, [Next]_vars PROVE [Signals!Next]_(Signals!vars)
  OBVIOUS
<1>1. ASSUME NEW a \in Pids, Body(a) PROVE [Signals!Next]_(Signals!vars)
  BY <1>1, SpawnMaps, RelationMaps, DemonitorMaps, ReceiveMaps DEF Body
<1>2. ASSUME NEW p \in Pids, Return(p) \/ Crash(p) \/ Unwind(p)
      PROVE  [Signals!Next]_(Signals!vars)
  BY <1>2, FinishMaps DEF Return, Crash, Unwind, Runs
<1>3. ASSUME NEW a \in Pids \cup {System}, Call(a) PROVE [Signals!Next]_(Signals!vars)
  BY <1>3, SpawnMaps, ExitMaps, OthersStutter DEF Call
<1>4. ASSUME NEW p \in Pids, EventLoop(p) PROVE [Signals!Next]_(Signals!vars)
  <2>1. CASE DeferredCleanup(p)
    <3>1. Signals!Remove(p)
      BY <2>1, RemovalMaps
    <3> QED BY <3>1 DEF Signals!Next
  <2> QED BY <1>2, <1>4, <2>1, OthersStutter DEF EventLoop
<1>5. CASE Shutdown
  BY <1>5, ShutdownMaps DEF Signals!Next
<1>6. CASE UNCHANGED vars
  BY <1>6, OthersStutter
<1> QED BY <1>1, <1>2, <1>3, <1>4, <1>5, <1>6 DEF Next

\* The runtime keeps the promise of ExitSignals, for every set of processes, names,
\* references and exit reasons: a process that goes down is reported to each of its
\* watchers, and a failure spreads over the links up to the processes that trap exits.
THEOREM SignalsKept == SafetySpec => KeepsSignals
<1>1. Init => Signals!Init
  <2> SUFFICES ASSUME Init PROVE Signals!Init
    OBVIOUS
  <2>1. Stopping = {} /\ Watches = {} /\ Bonds = {}
    BY DEF Init, Stopping, Watches, Bonds
  <2>2. DownsWaiting = {} /\ ExitsWaiting = {}
    BY RefsWatched DEF Init, DownsWaiting, ExitsWaiting
  <2> QED BY <2>1, <2>2 DEF Init, Signals!Init
<1> QED BY <1>1, NothingLeftInvariance, StepMaps, PTL DEF SafetySpec, KeepsSignals, Signals!Spec

\* What is reported in a step has gone down in it, or traps exits.
LEMMA SeveranceTells ==
  ASSUME Signals!TruthTold, NEW D, NEW F, NEW out, NEW extra,
         Signals!Severed(D, F, out, extra),
         Stopping \subseteq Stopping',
         D \subseteq Stopping' \cup (Trapping \cap WithMailbox)
  PROVE  Signals!TruthTold'
  BY DEF Signals!TruthTold, Signals!Severed, Signals!Reports

LEMMA TruthKept == Signals!TruthTold /\ [Signals!Next]_(Signals!vars) => Signals!TruthTold'
<1> SUFFICES ASSUME Signals!TruthTold, [Signals!Next]_(Signals!vars) PROVE Signals!TruthTold'
  OBVIOUS
<1>1. ASSUME NEW p, Signals!End(p) PROVE Signals!TruthTold'
  BY <1>1, SeveranceTells DEF Signals!End
<1>2. ASSUME NEW p, NEW F, Signals!Fail(p, F) \/ Signals!Stop(p, F) PROVE Signals!TruthTold'
  BY <1>2, SeveranceTells DEF Signals!Fail, Signals!Stop
<1>3. ASSUME NEW a, NEW q, NEW F, Signals!Disown(a, q, F) PROVE Signals!TruthTold'
  BY <1>3, SeveranceTells DEF Signals!Disown
<1>4. ASSUME NEW p, Signals!Remove(p) PROVE Signals!TruthTold'
  BY <1>4, SeveranceTells DEF Signals!Remove
<1>5. CASE Signals!Shutdown
  BY <1>5, SeveranceTells DEF Signals!Shutdown
<1>6. ASSUME NEW p, NEW B, NEW W, Signals!Join(p, B, W), \A w \in W : w[2] \in table'
      PROVE  Signals!TruthTold'
  BY <1>6 DEF Signals!Join, Signals!TruthTold
<1>7. ASSUME NEW a, NEW b, Signals!Spawn(b) \/ Signals!SpawnLink(a, b) \/ Signals!SpawnMonitor(a, b)
      PROVE  Signals!TruthTold'
  <2>1. table' = table \cup {b}
    BY <1>7 DEF Signals!Spawn, Signals!SpawnLink, Signals!SpawnMonitor, Signals!Join
  <2>2. \A w \in {<<a, b>>} : w[2] \in table'
    BY <2>1
  <2> QED BY <1>6, <1>7, <2>2 DEF Signals!Spawn, Signals!SpawnLink, Signals!SpawnMonitor
<1>8. ASSUME NEW B, NEW W, Signals!Relations(B, W), \A w \in W : w[2] \in table
      PROVE  Signals!TruthTold'
  BY <1>8 DEF Signals!Relations, Signals!TruthTold
<1>9. ASSUME NEW a, NEW b, Signals!Link(a, b) \/ Signals!Unlink(a, b) PROVE Signals!TruthTold'
  BY <1>8, <1>9 DEF Signals!Link, Signals!Unlink, Signals!TruthTold
<1>10. ASSUME NEW ref, NEW t, Signals!Monitor(ref, t) \/ Signals!Demonitor(ref, t)
       PROVE  Signals!TruthTold'
  <2>1. CASE Signals!Monitor(ref, t)
    <3>1. \A w \in Watches \cup {<<ref, t>>} : w[2] \in table
      BY <2>1 DEF Signals!Monitor, Signals!TruthTold
    <3> QED BY <1>8, <2>1, <3>1 DEF Signals!Monitor
  <2>2. CASE Signals!Demonitor(ref, t)
    <3>1. \A w \in Watches \ {<<ref, t>>} : w[2] \in table
      BY DEF Signals!TruthTold
    <3> QED BY <1>8, <2>2, <3>1 DEF Signals!Demonitor
  <2> QED BY <1>10, <2>1, <2>2
<1>11. ASSUME NEW r, \/ Signals!ReadDown(r) \/ Signals!ReadExit(r) \/ Signals!Ask(r)
       PROVE  Signals!TruthTold'
  BY <1>11 DEF Signals!ReadDown, Signals!ReadExit, Signals!Ask, Signals!TruthTold
<1>12. ASSUME NEW a, NEW q, Signals!Tell(a, q) PROVE Signals!TruthTold'
  BY <1>12 DEF Signals!Tell, Signals!TruthTold
<1>13. CASE UNCHANGED Signals!vars
  BY <1>13 DEF Signals!vars, Signals!TruthTold
<1> QED BY <1>1, <1>2, <1>3, <1>4, <1>5, <1>7, <1>9, <1>10, <1>11, <1>12, <1>13 DEF Signals!Next

\* A DOWN that waits in a mailbox is about a process that was told to stop or has ended,
\* or about one that traps exits, which goes on although it was reported down: the
\* notification of a failure never reports a healthy process that does not trap exits.
\* And whoever is watched is in the table.
THEOREM TruthAlwaysTold == SafetySpec => []Signals!TruthTold
<1>1. Signals!Init => Signals!TruthTold
  BY DEF Signals!Init, Signals!TruthTold
<1> QED BY <1>1, TruthKept, SignalsKept, PTL DEF KeepsSignals, Signals!Spec

-----------------------------------------------------------------------------
(* ExitWalk: the recursion of _notify_exit.                                *)

(***************************************************************************)
(* The invariant of a walk.  Reached are the processes it has called on.   *)
(* Whoever is linked to one of them is still to be looked at by its call,  *)
(* has been reached, or traps exits and has been told: this survives the   *)
(* links being taken apart, because each call copied the links that were   *)
(* left when it began, and those that were missing lead to severed ones.   *)
(***************************************************************************)
Calls == {stack[i].pid : i \in 1..Len(stack)}
Reached == severed \cup Calls
Frame == [pid : table, todo : SUBSET Pids]

WalkTyped ==
    /\ first \subseteq table
    /\ todo \subseteq first
    /\ stack \in Seq(Frame)
    /\ severed \subseteq table
    /\ visited \subseteq Reached
    /\ sent \in [Pids -> SUBSET Messages]
    /\ why \in Reasons
    /\ \A i \in 1..Len(stack) : stack[i].todo \subseteq links[stack[i].pid]

\* A process that traps exits is called on only if the whole walk starts from it.
TrapsLast ==
    /\ \A q \in first : Traps(q) => first = {q}
    /\ \A q \in severed : Traps(q) => stack = <<>> /\ todo = {}
    /\ \A i \in 1..Len(stack) : Traps(stack[i].pid) => i = Len(stack) /\ todo = {}

Taken == left = [links |-> LinksWithout(severed), monitors |-> MonitorsWithout(severed),
                 monitored_by |-> MonitoredByWithout(severed), names |-> NamesWithout(severed)]

ReachedOnly == Reached \subseteq Cascade(first) /\ first \ todo \subseteq Reached

Pending(v, n) == \E i \in 1..Len(stack) : stack[i].pid = v /\ n \in stack[i].todo

Covered ==
    \A v \in Reached : \A n \in links[v] \cap table :
        \/ Pending(v, n)
        \/ ~Traps(n) /\ n \in Reached
        \/ Traps(n) /\ EXIT(v, why) \in sent[n]

ToldOnly ==
    \A q \in Pids :
        /\ sent[q] \subseteq ExitsTo(q, Reached, why) \cup DownsTo(q, severed, 4, why)
        /\ DownsTo(q, severed, 4, why) \subseteq sent[q]

StoppedOnly == stopped = {v \in Reached : ~Traps(v)}

WalkInv ==
    /\ WalkTyped /\ TrapsLast /\ Taken /\ ReachedOnly /\ Covered /\ ToldOnly /\ StoppedOnly

WInv ==
    /\ IInv
    /\ first = {} => todo = {} /\ stack = <<>>
    /\ first # {} => WalkInv

LEMMA BeginEstablishes ==
  ASSUME IInv, NEW roots \in SUBSET table, NEW reason \in Reasons, Begin(roots, reason),
         \A q \in roots : Traps(q) => roots = {q}, UNCHANGED vars
  PROVE  WalkInv'
<1> USE DEF Begin, vars
<1>1. stack' = <<>> /\ Calls' = {} /\ Reached' = {}
  BY DEF Calls, Reached
<1>2. WalkTyped'
  BY <1>1 DEF WalkTyped, NoMessage
<1>3. TrapsLast'
  BY <1>1 DEF TrapsLast, Traps
<1>4. Taken'
  <2>1. LinksWithout({}) = links /\ MonitorsWithout({}) = monitors
    BY DEF LinksWithout, MonitorsWithout, IInv, TypeOK
  <2>2. MonitoredByWithout({}) = monitored_by /\ NamesWithout({}) = names
    BY DEF MonitoredByWithout, NamesWithout, IInv, TypeOK
  <2>3. /\ LinksWithout(severed)' = LinksWithout({})
        /\ MonitorsWithout(severed)' = MonitorsWithout({})
        /\ MonitoredByWithout(severed)' = MonitoredByWithout({})
        /\ NamesWithout(severed)' = NamesWithout({})
    BY DEF LinksWithout, MonitorsWithout, MonitoredByWithout, NamesWithout
  <2> QED BY <2>1, <2>2, <2>3 DEF Taken, Relations
<1>5. ReachedOnly' /\ Covered' /\ StoppedOnly'
  BY <1>1 DEF ReachedOnly, Covered, StoppedOnly
<1>6. ToldOnly'
  <2> SUFFICES ASSUME NEW q \in Pids
               PROVE  DownsTo(q, {}, 4, reason) = {}
    BY DEF ToldOnly, DownsTo, NoMessage
  <2> QED BY DEF DownsTo
<1> QED BY <1>2, <1>3, <1>4, <1>5, <1>6 DEF WalkInv

\* The innermost call, and what the stack becomes.
LEMMA StackFacts ==
  ASSUME stack \in Seq(Frame), stack # <<>>
  PROVE  /\ Len(stack) \in Nat \ {0} /\ 1 \in 1..Len(stack)
         /\ Head(stack) = stack[1] /\ stack[1] \in Frame
         /\ \A n : /\ LookedAt(n) \in Seq(Frame) /\ Len(LookedAt(n)) = Len(stack)
                   /\ LookedAt(n) # <<>>
                   /\ LookedAt(n)[1] = [pid |-> stack[1].pid, todo |-> stack[1].todo \ {n}]
                   /\ \A i \in 2..Len(stack) : LookedAt(n)[i] = stack[i]
                   /\ \A i \in 1..Len(stack) : LookedAt(n)[i].pid = stack[i].pid
         /\ Tail(stack) \in Seq(Frame) /\ Len(Tail(stack)) = Len(stack) - 1
         /\ \A i \in 1..Len(stack) - 1 : Tail(stack)[i] = stack[i + 1]
<1>1. Len(stack) \in Nat \ {0} /\ 1 \in 1..Len(stack) /\ Head(stack) = stack[1]
  OBVIOUS
<1>2. stack[1] \in Frame
  BY <1>1
<1>3. ASSUME NEW n
      PROVE  /\ LookedAt(n) \in Seq(Frame) /\ Len(LookedAt(n)) = Len(stack)
             /\ LookedAt(n) # <<>>
             /\ LookedAt(n)[1] = [pid |-> stack[1].pid, todo |-> stack[1].todo \ {n}]
             /\ \A i \in 2..Len(stack) : LookedAt(n)[i] = stack[i]
             /\ \A i \in 1..Len(stack) : LookedAt(n)[i].pid = stack[i].pid
  <2> DEFINE f == [pid |-> stack[1].pid, todo |-> stack[1].todo \ {n}]
  <2>1. f \in Frame
    BY <1>2 DEF Frame
  <2>2. LookedAt(n) = [stack EXCEPT ![1] = f]
    BY DEF LookedAt
  <2> HIDE DEF f
  <2>3. LookedAt(n) \in Seq(Frame) /\ Len(LookedAt(n)) = Len(stack)
    BY <1>1, <2>1, <2>2
  <2>4. LookedAt(n)[1] = f /\ \A i \in 2..Len(stack) : LookedAt(n)[i] = stack[i]
    BY <1>1, <2>2
  <2>5. f.pid = stack[1].pid
    BY DEF f
  <2>6. \A i \in 1..Len(stack) : LookedAt(n)[i].pid = stack[i].pid
    BY <1>1, <2>4, <2>5
  <2> QED BY <1>1, <2>3, <2>4, <2>6 DEF f
<1>4. Tail(stack) \in Seq(Frame) /\ Len(Tail(stack)) = Len(stack) - 1
  OBVIOUS
<1>5. \A i \in 1..Len(stack) - 1 : Tail(stack)[i] = stack[i + 1]
  OBVIOUS
<1> QED BY <1>1, <1>2, <1>3, <1>4, <1>5

\* Once n has been looked at, only the innermost call has one process less to look at.
LEMMA LookedAtFacts ==
  ASSUME stack \in Seq(Frame), stack # <<>>, NEW n, NEW t, t = LookedAt(n)
  PROVE  /\ t \in Seq(Frame) /\ Len(t) = Len(stack) /\ Len(stack) \in Nat \ {0} /\ t # <<>>
         /\ \A i \in 1..Len(stack) :
               /\ t[i].pid = stack[i].pid
               /\ t[i].todo \subseteq stack[i].todo
               /\ \A m \in stack[i].todo : m \in t[i].todo \/ (i = 1 /\ m = n)
<1>1. /\ t \in Seq(Frame) /\ Len(t) = Len(stack) /\ Len(stack) \in Nat \ {0} /\ t # <<>>
      /\ t[1] = [pid |-> stack[1].pid, todo |-> stack[1].todo \ {n}]
      /\ \A i \in 2..Len(stack) : t[i] = stack[i]
  BY StackFacts
<1>2. \A i \in 1..Len(stack) : i = 1 \/ i \in 2..Len(stack)
  BY <1>1
<1>3. t[1].pid = stack[1].pid /\ t[1].todo = stack[1].todo \ {n}
  BY <1>1
<1> QED BY <1>1, <1>2, <1>3

\* A linked process that is not in the table, or traps exits and is told.
LEMMA LookKeeps ==
  ASSUME IInv, WalkInv, NEW n \in Pids, stack # <<>>, n \in Head(stack).todo,
         Skip(n) \/ Tell(n), UNCHANGED <<vars, first, why, todo, severed, left>>
  PROVE  WalkInv'
<1> USE DEF vars
<1> DEFINE v == stack[1].pid
<1>1. stack \in Seq(Frame)
  BY DEF WalkInv, WalkTyped
<1>2. stack' = LookedAt(n) /\ UNCHANGED <<visited, stopped>>
  BY DEF Skip, Tell
<1>3. /\ stack' \in Seq(Frame) /\ stack' # <<>>
      /\ Len(stack') = Len(stack) /\ Len(stack) \in Nat \ {0}
      /\ \A i \in 1..Len(stack) :
            /\ stack'[i].pid = stack[i].pid
            /\ stack'[i].todo \subseteq stack[i].todo
            /\ \A m \in stack[i].todo : m \in stack'[i].todo \/ (i = 1 /\ m = n)
  BY <1>1, <1>2, LookedAtFacts
<1>4. Calls' = Calls /\ Reached' = Reached
  BY <1>3 DEF Calls, Reached
<1>5. /\ v \in Calls /\ v \in Reached /\ v \in table
      /\ n \in stack[1].todo /\ Head(stack).pid = v /\ n \in links[v]
  BY <1>1, StackFacts DEF Calls, Reached, Frame, WalkInv, WalkTyped
<1>7. \A u, m : Pending(u, m) => Pending(u, m)' \/ (u = v /\ m = n)
  BY <1>3 DEF Pending
<1>8. \A q \in Pids : /\ sent[q] \subseteq sent'[q] /\ sent'[q] \subseteq Messages
                      /\ \A m \in sent'[q] \ sent[q] : q = n /\ n \in table /\ Traps(n)
                                                        /\ m = EXIT(v, why)
  <2>1. CASE Skip(n)
    BY <2>1 DEF Skip, WalkInv, WalkTyped
  <2>2. CASE Tell(n)
    <3>1. EXIT(v, why) \in Messages
      BY <1>5, ExitIsMessage DEF WalkInv, WalkTyped, IInv, TypeOK
    <3>2. sent' = [sent EXCEPT ![n] = @ \cup {EXIT(v, why)}] /\ n \in table /\ Traps(n)
      BY <1>5, <2>2 DEF Tell
    <3> QED BY <3>1, <3>2 DEF WalkInv, WalkTyped
  <2> QED BY <2>1, <2>2
<1>9. n \in table => Traps(n) /\ EXIT(v, why) \in sent'[n]
  BY <1>5 DEF Skip, Tell, WalkInv, WalkTyped
<1>10. WalkTyped'
  <2>1. stack' \in Seq(Frame')
    BY <1>3 DEF Frame
  <2>2. sent' \in [Pids -> SUBSET Messages]
    BY <1>8 DEF Skip, Tell, WalkInv, WalkTyped
  <2>3. \A i \in 1..Len(stack') : stack'[i].todo \subseteq links[stack'[i].pid]
    BY <1>3 DEF WalkInv, WalkTyped
  <2> QED BY <1>2, <1>4, <2>1, <2>2, <2>3 DEF WalkInv, WalkTyped
<1>11. TrapsLast'
  BY <1>3, <1>1, StackFacts DEF WalkInv, TrapsLast, Traps
<1>12. Taken' /\ ReachedOnly' /\ StoppedOnly'
  BY <1>2, <1>4 DEF WalkInv, Taken, ReachedOnly, StoppedOnly, LinksWithout, MonitorsWithout,
                    MonitoredByWithout, NamesWithout, Cascade, Traps
<1>13. Covered'
  <2> SUFFICES ASSUME NEW u \in Reached, NEW m \in links[u] \cap table
               PROVE  \/ Pending(u, m)'
                      \/ ~Traps(m) /\ m \in Reached
                      \/ Traps(m) /\ EXIT(u, why) \in sent'[m]
    BY <1>4 DEF Covered, Traps
  <2>1. \/ Pending(u, m)
        \/ ~Traps(m) /\ m \in Reached
        \/ Traps(m) /\ EXIT(u, why) \in sent[m]
    BY DEF WalkInv, Covered
  <2>2. sent[m] \subseteq sent'[m]
    BY <1>8 DEF IInv, TypeOK
  <2> QED BY <1>7, <1>9, <2>1, <2>2
<1>14. ToldOnly'
  <2>1. \A q, m : n = q /\ m = EXIT(v, why) /\ n \in table /\ Traps(n) => m \in ExitsTo(q, Reached, why)
    BY <1>5 DEF ExitsTo
  <2> SUFFICES ASSUME NEW q \in Pids
               PROVE  /\ sent'[q] \subseteq ExitsTo(q, Reached, why) \cup DownsTo(q, severed, 4, why)
                      /\ DownsTo(q, severed, 4, why) \subseteq sent'[q]
    BY <1>4 DEF ToldOnly, ExitsTo, DownsTo, Traps
  <2> QED BY <1>8, <2>1 DEF WalkInv, ToldOnly
<1> QED BY <1>10, <1>11, <1>12, <1>13, <1>14 DEF WalkInv

\* A call on n copies the links that are left: the missing ones lead to severed
\* processes, none of which traps exits.
LEMMA CallCopies ==
  ASSUME IInv, WalkInv, NEW n \in table, \A q \in severed : ~Traps(q)
  PROVE  /\ CallOn(n) \in Frame
         /\ CallOn(n).pid = n /\ CallOn(n).todo \subseteq links[n]
         /\ \A m \in links[n] \cap table :
               m \in CallOn(n).todo \/ n \in severed \/ (m \in severed /\ ~Traps(m))
<1>1. CallOn(n) = [pid |-> n, todo |-> IF n \in severed THEN {} ELSE links[n] \ severed]
  BY DEF CallOn, WalkInv, Taken, LinksWithout, IInv, TypeOK
<1>2. links[n] \in SUBSET Pids
  BY DEF IInv, TypeOK
<1> QED BY <1>1, <1>2 DEF Frame

\* A linked process that has been visited in this recursion is only cancelled.
LEMMA RevisitKeeps ==
  ASSUME IInv, WalkInv, NEW n \in Pids, stack # <<>>, n \in Head(stack).todo,
         Follow(n), n \in visited, UNCHANGED <<vars, first, why, todo, severed, left>>
  PROVE  WalkInv'
<1> USE DEF vars
<1>1. /\ stack \in Seq(Frame) /\ stack' = LookedAt(n) /\ n \in table /\ ~Traps(n)
      /\ n \in Reached /\ sent' = sent /\ stopped' = stopped \cup {n}
      /\ visited' = visited
  BY DEF Follow, WalkInv, WalkTyped
<1>2. /\ stack' \in Seq(Frame) /\ stack' # <<>>
      /\ Len(stack') = Len(stack) /\ Len(stack) \in Nat \ {0}
      /\ \A i \in 1..Len(stack) :
            /\ stack'[i].pid = stack[i].pid
            /\ stack'[i].todo \subseteq stack[i].todo
            /\ \A m \in stack[i].todo : m \in stack'[i].todo \/ (i = 1 /\ m = n)
  BY <1>1, LookedAtFacts
<1>3. Calls' = Calls /\ Reached' = Reached
  BY <1>2 DEF Calls, Reached
<1>5. \A u, m : Pending(u, m) => Pending(u, m)' \/ m = n
  BY <1>2 DEF Pending
<1>6. WalkTyped'
  <2>1. stack' \in Seq(Frame')
    BY <1>2 DEF Frame
  <2>2. \A i \in 1..Len(stack') : stack'[i].todo \subseteq links[stack'[i].pid]
    BY <1>2 DEF WalkInv, WalkTyped
  <2> QED BY <1>1, <1>3, <2>1, <2>2 DEF WalkInv, WalkTyped
<1>7. TrapsLast'
  BY <1>1, <1>2, StackFacts DEF WalkInv, TrapsLast, Traps
<1>8. Taken' /\ ReachedOnly' /\ StoppedOnly'
  BY <1>1, <1>3 DEF WalkInv, Taken, ReachedOnly, StoppedOnly, LinksWithout, MonitorsWithout,
                    MonitoredByWithout, NamesWithout, Cascade, Traps
<1>9. Covered' /\ ToldOnly'
  BY <1>1, <1>3, <1>5 DEF WalkInv, Covered, ToldOnly, ExitsTo, DownsTo, Traps
<1> QED BY <1>6, <1>7, <1>8, <1>9 DEF WalkInv

\* The call on a process the walk has come to: over the link that is looked at, or
\* as the next of those it starts from.
LEMMA CallKeeps ==
  ASSUME IInv, WalkInv, NEW n \in table, NEW s \in Seq(Frame),
         stack' = <<CallOn(n)>> \o s,
         \A i \in 1..Len(s) : s[i].pid = stack[i].pid /\ s[i].todo \subseteq stack[i].todo,
         Len(s) = Len(stack),
         \A i \in 1..Len(s) : \A m \in stack[i].todo : m \in s[i].todo \/ m = n,
         n \in Cascade(first),
         Traps(n) => s = <<>> /\ todo' = {} /\ first = {n},
         \A q \in severed : ~Traps(q),
         \A i \in 1..Len(stack) : Traps(stack[i].pid) => todo' = {} /\ i = Len(stack),
         todo' \subseteq todo, todo \ {n} \subseteq todo',
         visited' \subseteq visited \cup {n},
         stopped' = IF Traps(n) THEN stopped ELSE stopped \cup {n},
         UNCHANGED <<vars, first, why, severed, left, sent>>
  PROVE  WalkInv'
<1> USE DEF vars
<1> DEFINE c == CallOn(n)
<1>1. /\ c \in Frame /\ c.pid = n /\ c.todo \subseteq links[n]
      /\ \A m \in links[n] \cap table :
            m \in c.todo \/ n \in severed \/ (m \in severed /\ ~Traps(m))
  BY CallCopies
<1> HIDE DEF c
<1>2. stack' = <<c>> \o s
  BY DEF c
<1>3. /\ stack' \in Seq(Frame) /\ Len(stack') = Len(s) + 1 /\ stack'[1] = c
      /\ \A i \in 1..Len(s) : stack'[i + 1] = s[i]
      /\ \A i \in 2..Len(stack') : i - 1 \in 1..Len(s) /\ stack'[i] = s[i - 1]
      /\ Len(s) \in Nat /\ Len(stack) = Len(s)
  BY <1>1, <1>2
<1>4. Calls' = Calls \cup {n}
  <2>1. ASSUME NEW x \in Calls' PROVE x \in Calls \cup {n}
    <3>1. PICK j \in 1..Len(stack') : x = stack'[j].pid
      BY <2>1 DEF Calls
    <3>2. CASE j = 1
      BY <1>1, <1>3, <3>1, <3>2
    <3>3. CASE j # 1
      <4>1. j \in 2..Len(stack')
        BY <1>3, <3>3
      <4>2. j - 1 \in 1..Len(s) /\ stack'[j] = s[j - 1]
        BY <1>3, <4>1
      <4>3. j - 1 \in 1..Len(stack) /\ x = stack[j - 1].pid
        BY <3>1, <4>2
      <4> QED BY <4>3 DEF Calls
    <3> QED BY <3>2, <3>3
  <2>2. ASSUME NEW x \in Calls PROVE x \in Calls'
    <3>1. PICK i \in 1..Len(stack) : x = stack[i].pid
      BY <2>2 DEF Calls
    <3>2. i \in 1..Len(s) /\ stack'[i + 1] = s[i] /\ s[i].pid = stack[i].pid
      BY <1>3
    <3>3. i + 1 \in 1..Len(stack') /\ x = stack'[i + 1].pid
      BY <1>3, <3>1, <3>2
    <3> QED BY <3>3 DEF Calls
  <2>3. n \in Calls'
    <3>1. 1 \in 1..Len(stack') /\ stack'[1].pid = n
      BY <1>1, <1>3
    <3> QED BY <3>1 DEF Calls
  <2> QED BY <2>1, <2>2, <2>3
<1>5. Reached' = Reached \cup {n}
  BY <1>4 DEF Reached
<1>6. \A u, m : Pending(u, m) => Pending(u, m)' \/ m = n
  <2> SUFFICES ASSUME NEW u, NEW m, Pending(u, m), m # n PROVE Pending(u, m)'
    OBVIOUS
  <2> PICK i \in 1..Len(stack) : stack[i].pid = u /\ m \in stack[i].todo
    BY DEF Pending
  <2>1. i \in 1..Len(s) /\ stack'[i + 1] = s[i] /\ s[i].pid = u /\ m \in s[i].todo
    BY <1>3
  <2>2. stack'[i + 1].pid = u /\ m \in stack'[i + 1].todo /\ i + 1 \in 1..Len(stack')
    BY <1>3, <2>1
  <2> QED BY <2>2 DEF Pending
<1>7. \A m \in c.todo : Pending(n, m)'
  <2>1. 1 \in 1..Len(stack')
    BY <1>3
  <2> QED BY <1>1, <1>3, <2>1 DEF Pending
<1>8. WalkTyped'
  <2>1. stack' \in Seq(Frame')
    BY <1>3 DEF Frame
  <2>2. ASSUME NEW i \in 1..Len(stack')
        PROVE  stack'[i].todo \subseteq links[stack'[i].pid]
    <3>1. CASE i = 1
      BY <1>1, <1>3, <3>1
    <3>2. CASE i # 1
      <4>1. i \in 2..Len(stack')
        BY <1>3, <3>2
      <4>2. i - 1 \in 1..Len(s) /\ stack'[i] = s[i - 1]
        BY <1>3, <4>1
      <4>3. /\ i - 1 \in 1..Len(stack) /\ s[i - 1].pid = stack[i - 1].pid
            /\ s[i - 1].todo \subseteq stack[i - 1].todo
        BY <1>3, <4>2
      <4>4. stack[i - 1].todo \subseteq links[stack[i - 1].pid]
        BY <4>3 DEF WalkInv, WalkTyped
      <4> QED BY <4>2, <4>3, <4>4
    <3> QED BY <3>1, <3>2
  <2> QED BY <1>5, <2>1, <2>2 DEF WalkInv, WalkTyped
<1>9. TrapsLast'
  <2>1. ASSUME NEW i \in 1..Len(stack'), Traps(stack'[i].pid)
        PROVE  i = Len(stack') /\ todo' = {}
    <3>1. CASE i = 1
      <4>1. Traps(n)
        BY <1>1, <1>3, <2>1, <3>1
      <4> QED BY <1>3, <3>1, <4>1
    <3>2. CASE i # 1
      <4>1. i \in 2..Len(stack')
        BY <1>3, <3>2
      <4>2. i - 1 \in 1..Len(stack) /\ stack'[i].pid = stack[i - 1].pid
        BY <1>3, <4>1
      <4> QED BY <1>3, <2>1, <4>2
    <3> QED BY <3>1, <3>2
  <2> QED BY <2>1 DEF WalkInv, TrapsLast, Traps
<1>10. Taken'
  BY DEF WalkInv, Taken, LinksWithout, MonitorsWithout, MonitoredByWithout, NamesWithout
<1>11. ReachedOnly'
  BY <1>5 DEF WalkInv, ReachedOnly, Cascade, Traps
<1>12. StoppedOnly'
  BY <1>5 DEF WalkInv, StoppedOnly, Traps
<1>13. Covered'
  <2> SUFFICES ASSUME NEW u \in Reached \cup {n}, NEW m \in links[u] \cap table
               PROVE  \/ Pending(u, m)'
                      \/ ~Traps(m) /\ m \in Reached \cup {n}
                      \/ Traps(m) /\ EXIT(u, why) \in sent[m]
    BY <1>5 DEF Covered, Traps
  <2>1. CASE u \in Reached
    <3>1. CASE Traps(n)
      \* n is the only process the walk starts from, and this is its beginning.
      <4>1. s = <<>> /\ Len(s) = 0
        BY <3>1
      <4>2. \A a, b : ~Pending(a, b)
        BY <1>3, <4>1 DEF Pending
      <4> QED BY <2>1, <4>2 DEF WalkInv, Covered
    <3>2. CASE ~Traps(n)
      BY <1>6, <2>1, <3>2 DEF WalkInv, Covered
    <3> QED BY <3>1, <3>2
  <2>2. CASE u = n /\ n \notin Reached
    <3>1. m \in c.todo \/ (m \in severed /\ ~Traps(m))
      BY <1>1, <2>2 DEF Reached
    <3> QED BY <1>7, <2>2, <3>1 DEF Reached
  <2> QED BY <2>1, <2>2
<1>14. ToldOnly'
  <2>1. \A q : ExitsTo(q, Reached, why) \subseteq ExitsTo(q, Reached \cup {n}, why)
    BY DEF ExitsTo
  <2> SUFFICES ASSUME NEW q \in Pids
               PROVE  /\ sent[q] \subseteq ExitsTo(q, Reached \cup {n}, why) \cup DownsTo(q, severed, 4, why)
                      /\ DownsTo(q, severed, 4, why) \subseteq sent[q]
    BY <1>5 DEF ToldOnly, ExitsTo, DownsTo, Traps
  <2> QED BY <2>1 DEF WalkInv, ToldOnly
<1> QED BY <1>8, <1>9, <1>10, <1>11, <1>12, <1>13, <1>14 DEF WalkInv

\* What Sever makes of the relations is what they are without one process more.
LEMMA SeverTakes ==
  ASSUME IInv, Taken, severed \subseteq table, NEW v \in table
  PROVE  /\ [p \in Pids |-> IF p = v THEN {}
                ELSE IF p \in left.links[v] \cap table THEN left.links[p] \ {v}
                     ELSE left.links[p]] = LinksWithout(severed \cup {v})
         /\ [r \in Refs |-> IF r \in left.monitored_by[v] /\ Watcher(r) \in table
                THEN NoPid ELSE left.monitors[r]] = MonitorsWithout(severed \cup {v})
         /\ [left.monitored_by EXCEPT ![v] = {}] = MonitoredByWithout(severed \cup {v})
         /\ [n \in Names |-> IF SpawnName[v] = n THEN NoPid ELSE left.names[n]]
               = NamesWithout(severed \cup {v})
<1>1. /\ left.links = LinksWithout(severed) /\ left.monitors = MonitorsWithout(severed)
      /\ left.monitored_by = MonitoredByWithout(severed) /\ left.names = NamesWithout(severed)
  BY DEF Taken
<1>2. v \in Pids /\ table \subseteq Pids
  BY DEF IInv, TypeOK
<1>3. ASSUME NEW p \in Pids
      PROVE  (IF p = v THEN {}
              ELSE IF p \in left.links[v] \cap table THEN left.links[p] \ {v}
                   ELSE left.links[p]) = LinksWithout(severed \cup {v})[p]
  <2>1. v \in links[p] => p \in links[v] /\ p \in table
    BY <1>2 DEF IInv, LinksMutual
  <2> QED BY <1>1, <1>2, <2>1 DEF LinksWithout
<1>4. ASSUME NEW r \in Refs
      PROVE  (IF r \in left.monitored_by[v] /\ Watcher(r) \in table THEN NoPid
              ELSE left.monitors[r]) = MonitorsWithout(severed \cup {v})[r]
  <2>1. monitors[r] # NoPid => Watcher(r) \in table
    BY DEF IInv, MonitorsBacked
  <2>2. left.monitored_by[v] = IF v \in severed THEN {} ELSE monitored_by[v]
    BY <1>1, <1>2 DEF MonitoredByWithout
  <2>3. left.monitors[r] = IF \E u \in severed : r \in monitored_by[u] THEN NoPid ELSE monitors[r]
    BY <1>1 DEF MonitorsWithout
  <2> QED BY <2>1, <2>2, <2>3 DEF MonitorsWithout
<1>5. [left.monitored_by EXCEPT ![v] = {}] = MonitoredByWithout(severed \cup {v})
  BY <1>1, <1>2 DEF MonitoredByWithout
<1>6. ASSUME NEW n \in Names
      PROVE  (IF SpawnName[v] = n THEN NoPid ELSE left.names[n]) = NamesWithout(severed \cup {v})[n]
  BY <1>1 DEF NamesWithout
<1>7. /\ LinksWithout(severed \cup {v}) = [p \in Pids |-> LinksWithout(severed \cup {v})[p]]
      /\ MonitorsWithout(severed \cup {v}) = [r \in Refs |-> MonitorsWithout(severed \cup {v})[r]]
      /\ NamesWithout(severed \cup {v}) = [n \in Names |-> NamesWithout(severed \cup {v})[n]]
  BY DEF LinksWithout, MonitorsWithout, NamesWithout
<1> QED BY <1>3, <1>4, <1>5, <1>6, <1>7

LEMMA SeverKeeps ==
  ASSUME IInv, WalkInv, Sever, UNCHANGED vars
  PROVE  WalkInv'
<1> USE DEF vars
<1> DEFINE v == stack[1].pid
<1>1. /\ stack \in Seq(Frame) /\ stack # <<>> /\ stack' = Tail(stack)
      /\ Head(stack) = stack[1] /\ stack[1].todo = {}
      /\ severed' = severed \cup {v} /\ v \in table /\ v \in Pids
      /\ UNCHANGED <<first, why, todo, visited, stopped>>
  BY StackFacts DEF Sever, WalkInv, WalkTyped, Frame, IInv, TypeOK
<1>2. /\ Len(stack) \in Nat \ {0} /\ stack' \in Seq(Frame) /\ Len(stack') = Len(stack) - 1
      /\ \A i \in 1..Len(stack') : stack'[i] = stack[i + 1] /\ i + 1 \in 1..Len(stack)
      /\ \A i \in 1..Len(stack) : i = 1 \/ (i - 1 \in 1..Len(stack') /\ stack'[i - 1] = stack[i])
      /\ 1 \in 1..Len(stack)
  <2>1. /\ Len(stack) \in Nat \ {0} /\ stack' \in Seq(Frame) /\ Len(stack') = Len(stack) - 1
        /\ \A i \in 1..Len(stack) - 1 : stack'[i] = stack[i + 1]
    BY <1>1, StackFacts
  <2> QED BY <2>1
<1>3. Calls = Calls' \cup {v} /\ Reached' = Reached
  <2>1. Calls' \subseteq Calls
    BY <1>2 DEF Calls
  <2>2. Calls \subseteq Calls' \cup {v}
    BY <1>2 DEF Calls
  <2>3. v \in Calls
    BY <1>2 DEF Calls
  <2> QED BY <1>1, <2>1, <2>2, <2>3 DEF Reached
<1>4. \A u, m : Pending(u, m) => Pending(u, m)'
  <2> SUFFICES ASSUME NEW u, NEW m, NEW i \in 1..Len(stack),
                      stack[i].pid = u, m \in stack[i].todo
               PROVE  Pending(u, m)'
    BY DEF Pending
  <2>1. i - 1 \in 1..Len(stack') /\ stack'[i - 1] = stack[i]
    BY <1>1, <1>2
  <2> QED BY <2>1 DEF Pending
<1>5. left' = [links |-> LinksWithout(severed'), monitors |-> MonitorsWithout(severed'),
               monitored_by |-> MonitoredByWithout(severed'), names |-> NamesWithout(severed')]
  BY <1>1, SeverTakes DEF Sever, WalkInv, WalkTyped
<1>6. sent' = [w \in Pids |-> sent[w] \cup DownsOf(v, w)]
  BY <1>1 DEF Sever
<1>7. \A w : DownsTo(w, severed', 4, why) = DownsTo(w, severed, 4, why) \cup DownsOf(v, w)
  <2> SUFFICES ASSUME NEW w
               PROVE  DownsTo(w, severed', 4, why) = DownsTo(w, severed, 4, why) \cup DownsOf(v, w)
    OBVIOUS
  <2>1. CASE w \notin table \cap WithMailbox
    BY <2>1 DEF DownsTo, DownsOf
  <2>2. CASE w \in table \cap WithMailbox
    <3> DEFINE Pairs(D) == {e \in Refs \X D : Watcher(e[1]) = w /\ e[1] \in monitored_by[e[2]]}
               Of == {r \in left.monitored_by[v] : Watcher(r) = w}
    <3>1. left.monitored_by[v] = IF v \in severed THEN {} ELSE monitored_by[v]
      BY <1>1 DEF WalkInv, Taken, MonitoredByWithout
    <3>2. monitored_by[v] \subseteq Refs
      BY <1>1 DEF IInv, TypeOK
    <3>3. \A e : e \in Pairs(severed') <=> e \in Pairs(severed) \/ (e \in Refs \X {v} /\ e[1] \in monitored_by[v] /\ Watcher(e[1]) = w)
      BY <1>1
    <3>4. \A e \in Pairs(severed') : e \in Pairs(severed) \/ (e[1] \in Of /\ e[2] = v)
      BY <3>1, <3>3
    <3>5. \A r \in Of : <<r, v>> \in Pairs(severed')
      BY <1>1, <3>1, <3>2, <3>3
    <3>6. Pairs(severed) \subseteq Pairs(severed')
      BY <1>1
    <3>7. /\ DownsTo(w, severed', 4, why) = {DOWN(4, e[1], e[2], why) : e \in Pairs(severed')}
          /\ DownsTo(w, severed, 4, why) = {DOWN(4, e[1], e[2], why) : e \in Pairs(severed)}
      BY <2>2 DEF DownsTo
    <3>8. DownsOf(v, w) = {DOWN(4, r, v, why) : r \in Of}
      BY <2>2 DEF DownsOf
    <3>9. \A r : DOWN(4, r, v, why) = DOWN(4, <<r, v>>[1], <<r, v>>[2], why)
      OBVIOUS
    <3> HIDE DEF Pairs, Of
    <3>10. ASSUME NEW d \in DownsTo(w, severed', 4, why)
           PROVE  d \in DownsTo(w, severed, 4, why) \cup DownsOf(v, w)
      <4>1. PICK e \in Pairs(severed') : d = DOWN(4, e[1], e[2], why)
        BY <3>7, <3>10
      <4> QED BY <3>4, <3>7, <3>8, <4>1
    <3>11. DownsTo(w, severed, 4, why) \subseteq DownsTo(w, severed', 4, why)
      BY <3>6, <3>7
    <3>12. ASSUME NEW d \in DownsOf(v, w) PROVE d \in DownsTo(w, severed', 4, why)
      <4>1. PICK r \in Of : d = DOWN(4, r, v, why)
        BY <3>8, <3>12
      <4> QED BY <3>5, <3>7, <3>9, <4>1
    <3> QED BY <3>10, <3>11, <3>12
  <2> QED BY <2>1, <2>2
<1>8. WalkTyped'
  <2>1. stack' \in Seq(Frame')
    BY <1>2 DEF Frame
  <2>2. \A i \in 1..Len(stack') : stack'[i].todo \subseteq links[stack'[i].pid]
    BY <1>2 DEF WalkInv, WalkTyped
  <2>3. \A w \in Pids : DownsOf(v, w) \subseteq Messages
    <3>1. severed' \in SUBSET Pids /\ why \in Reasons
      BY <1>1 DEF WalkInv, WalkTyped, IInv, TypeOK
    <3>2. \A w : DownsTo(w, severed', 4, why) \subseteq Messages
      BY <3>1, DownsTyped
    <3> QED BY <1>7, <3>2
  <2>4. sent' \in [Pids -> SUBSET Messages]
    BY <1>6, <2>3 DEF WalkInv, WalkTyped
  <2> QED BY <1>1, <1>3, <2>1, <2>2, <2>4 DEF WalkInv, WalkTyped
<1>9. TrapsLast'
  <2>1. \A i \in 1..Len(stack') : Traps(stack'[i].pid) => i = Len(stack') /\ todo = {}
    BY <1>2 DEF WalkInv, TrapsLast
  <2>2. Traps(v) => stack' = <<>> /\ todo = {}
    <3> HAVE Traps(v)
    <3>1. 1 = Len(stack) /\ todo = {}
      BY <1>2 DEF WalkInv, TrapsLast
    <3>2. stack' \in Seq(Frame) /\ Len(stack') = 0
      <4>1. stack' \in Seq(Frame) /\ Len(stack') = Len(stack) - 1
        BY <1>2
      <4> QED BY <3>1, <4>1
    <3>3. \A t \in Seq(Frame) : Len(t) = 0 => t = <<>>
      BY EmptySeq
    <3> QED BY <3>1, <3>2, <3>3
  <2>3. \A q \in severed : ~Traps(q)
    BY <1>1 DEF WalkInv, TrapsLast
  <2> QED BY <1>1, <2>1, <2>2, <2>3 DEF WalkInv, TrapsLast, Traps
<1>10. Taken'
  BY <1>5 DEF Taken, LinksWithout, MonitorsWithout, MonitoredByWithout, NamesWithout
<1>11. ReachedOnly' /\ StoppedOnly'
  BY <1>1, <1>3 DEF WalkInv, ReachedOnly, StoppedOnly, Cascade, Traps
<1>12. Covered'
  <2> SUFFICES ASSUME NEW u \in Reached, NEW m \in links[u] \cap table
               PROVE  \/ Pending(u, m)'
                      \/ ~Traps(m) /\ m \in Reached
                      \/ Traps(m) /\ EXIT(u, why) \in sent'[m]
    BY <1>1, <1>3 DEF Covered, Traps
  <2>1. sent[m] \subseteq sent'[m]
    BY <1>6 DEF IInv, TypeOK
  <2> QED BY <1>4, <2>1 DEF WalkInv, Covered
<1>13. ToldOnly'
  <2> SUFFICES ASSUME NEW q \in Pids
               PROVE  /\ sent'[q] \subseteq ExitsTo(q, Reached, why) \cup DownsTo(q, severed', 4, why)
                      /\ DownsTo(q, severed', 4, why) \subseteq sent'[q]
    BY <1>1, <1>3 DEF ToldOnly, ExitsTo, DownsTo, Traps
  <2> QED BY <1>6, <1>7 DEF WalkInv, ToldOnly
<1> QED BY <1>8, <1>9, <1>10, <1>11, <1>12, <1>13 DEF WalkInv

LEMMA NextRootKeeps ==
  ASSUME IInv, WalkInv, NEW r \in Pids, NextRoot(r), UNCHANGED vars
  PROVE  WalkInv'
<1>1. stack = <<>> /\ Len(stack) = 0 /\ r \in todo /\ r \in first /\ r \in table
  BY DEF NextRoot, WalkInv, WalkTyped
<1>2. stack' = <<CallOn(r)>> \o <<>>
  BY DEF NextRoot, CallOn
<1>3. r \in Cascade(first)
  BY <1>1, CascadeHasRoots
<1>4. Traps(r) => todo' = {} /\ first = {r}
  BY <1>1 DEF NextRoot, WalkInv, WalkTyped, TrapsLast
<1>5. \A q \in severed : ~Traps(q)
  BY <1>1 DEF WalkInv, TrapsLast
<1>6. todo' = todo \ {r} /\ visited' = {r}
  BY DEF NextRoot
<1>7. stopped' = IF Traps(r) THEN stopped ELSE stopped \cup {r}
  BY DEF NextRoot
<1>8. UNCHANGED <<first, why, severed, left, sent>>
  BY DEF NextRoot
<1> DEFINE s == <<>>
<1>9. s \in Seq(Frame) /\ s = <<>> /\ stack' = <<CallOn(r)>> \o s
  BY <1>2
<1>10. Len(s) = Len(stack) /\ 1..Len(s) = {} /\ 1..Len(stack) = {}
  BY <1>1
<1> HIDE DEF s
<1>11. /\ \A i \in 1..Len(s) : s[i].pid = stack[i].pid /\ s[i].todo \subseteq stack[i].todo
       /\ \A i \in 1..Len(s) : \A m \in stack[i].todo : m \in s[i].todo \/ m = r
       /\ \A i \in 1..Len(stack) : Traps(stack[i].pid) => todo' = {} /\ i = Len(stack)
  BY <1>10
<1>12. todo' \subseteq todo /\ todo \ {r} \subseteq todo' /\ visited' \subseteq visited \cup {r}
  BY <1>6
<1> QED BY <1>1, <1>3, <1>4, <1>5, <1>7, <1>8, <1>9, <1>10, <1>11, <1>12, CallKeeps

LEMMA LookAtKeeps ==
  ASSUME IInv, WalkInv, NEW n \in Pids, LookAt(n), UNCHANGED vars
  PROVE  WalkInv'
<1>1. stack # <<>> /\ n \in Head(stack).todo /\ UNCHANGED <<first, why, todo, severed, left>>
  BY DEF LookAt
<1>2. CASE Skip(n) \/ Tell(n)
  BY <1>1, <1>2, LookKeeps
<1>3. CASE Follow(n) /\ n \in visited
  BY <1>1, <1>3, RevisitKeeps
<1>4. CASE Follow(n) /\ n \notin visited
  <2> DEFINE s == LookedAt(n)
  <2>1. stack \in Seq(Frame)
    BY DEF WalkInv, WalkTyped
  <2>2. /\ stack' = <<CallOn(n)>> \o s /\ n \in table /\ ~Traps(n)
        /\ visited' = visited \cup {n} /\ stopped' = stopped \cup {n} /\ sent' = sent
    BY <1>4 DEF Follow
  <2>3. /\ s \in Seq(Frame) /\ Len(s) = Len(stack) /\ Len(stack) \in Nat \ {0}
        /\ s[1] = [pid |-> stack[1].pid, todo |-> stack[1].todo \ {n}]
        /\ \A i \in 2..Len(stack) : s[i] = stack[i]
    BY <1>1, <2>1, StackFacts
  <2>4. \A i \in 1..Len(s) : /\ s[i].pid = stack[i].pid /\ s[i].todo \subseteq stack[i].todo
                             /\ \A m \in stack[i].todo : m \in s[i].todo \/ m = n
    <3> HIDE DEF s
    <3>1. \A i \in 1..Len(s) : i = 1 \/ i \in 2..Len(stack)
      BY <2>3
    <3> QED BY <2>3, <3>1
  <2>5. n \in Cascade(first)
    <3> DEFINE v == stack[1].pid
    <3>1. v \in Reached /\ n \in links[v]
      BY <1>1, <2>1, StackFacts DEF Reached, Calls, WalkInv, WalkTyped
    <3>2. v \in Cascade(first)
      BY <3>1 DEF WalkInv, ReachedOnly
    <3> QED BY <2>2, <3>1, <3>2, CascadeClosed
  <2>6. \A q \in severed : ~Traps(q)
    BY <1>1 DEF WalkInv, TrapsLast
  <2>7. \A i \in 1..Len(stack) : Traps(stack[i].pid) => todo' = {} /\ i = Len(stack)
    BY <1>1 DEF WalkInv, TrapsLast
  <2> HIDE DEF s
  <2> QED BY <1>1, <2>2, <2>3, <2>4, <2>5, <2>6, <2>7, CallKeeps
<1> QED BY <1>2, <1>3, <1>4 DEF LookAt

\* A walk that is over has severed exactly the cascade, because what it has reached
\* is closed under the links to processes that do not trap exits.
LEMMA DoneIsCascade ==
  ASSUME IInv, WalkInv, WalkDone PROVE WalkIsCascade
<1>1. stack = <<>> /\ Len(stack) = 0 /\ todo = {}
  BY DEF WalkDone
<1>2. Calls = {} /\ Reached = severed
  BY <1>1 DEF Calls, Reached
<1>3. \A v, n : ~Pending(v, n)
  BY <1>1 DEF Pending
<1>4. severed \subseteq Cascade(first) /\ first \subseteq severed /\ severed \subseteq table
  BY <1>1, <1>2 DEF WalkInv, ReachedOnly, WalkTyped
<1>5. \A v \in severed, n \in table : (n \in links[v] /\ ~Traps(n)) => n \in severed
  BY <1>2, <1>3 DEF WalkInv, Covered
<1>6. Cascade(first) \subseteq severed
  <2> SUFFICES ASSUME NEW q \in Cascade(first) PROVE q \in severed
    OBVIOUS
  <2>1. severed \in SUBSET table
    BY <1>4
  <2> QED BY <1>4, <1>5, <2>1 DEF Cascade
<1>7. severed = Cascade(first)
  BY <1>4, <1>6
<1>8. stopped = {v \in severed : ~Traps(v)}
  BY <1>2 DEF WalkInv, StoppedOnly
<1>9. left = [links |-> LinksWithout(severed), monitors |-> MonitorsWithout(severed),
              monitored_by |-> MonitoredByWithout(severed), names |-> NamesWithout(severed)]
  BY DEF WalkInv, Taken
<1>10. ASSUME NEW q \in Pids
       PROVE  sent[q] = ExitsTo(q, severed, why) \cup DownsTo(q, severed, 4, why)
  <2>1. ExitsTo(q, severed, why) \subseteq sent[q]
    <3> SUFFICES ASSUME NEW m \in ExitsTo(q, severed, why) PROVE m \in sent[q]
      OBVIOUS
    <3>1. PICK v \in severed : q \in links[v] /\ m = EXIT(v, why)
      BY DEF ExitsTo
    <3>2. q \in table /\ Traps(q)
      BY DEF ExitsTo
    <3> QED BY <1>2, <1>3, <3>1, <3>2 DEF WalkInv, Covered
  <2> QED BY <1>2, <2>1 DEF WalkInv, ToldOnly
<1> HIDE DEF WalkDone
<1> QED BY <1>7, <1>8, <1>9, <1>10 DEF WalkIsCascade

LEMMA WalkInductive == WInv /\ [WalkNext]_<<vars, walkVars>> => WInv'
<1> SUFFICES ASSUME WInv, [WalkNext]_<<vars, walkVars>> PROVE WInv'
  OBVIOUS
<1>1. IInv
  BY DEF WInv
<1>2. ASSUME first = {}, Next, UNCHANGED walkVars PROVE WInv'
  <2>1. IInv'
    BY <1>1, <1>2, Inductive
  <2>2. first' = {} /\ UNCHANGED <<todo, stack>> /\ todo = {} /\ stack = <<>>
    BY <1>2 DEF walkVars, WInv
  <2> QED BY <2>1, <2>2 DEF WInv
<1>3. ASSUME UNCHANGED vars PROVE IInv'
  BY <1>1, <1>3, Inductive
<1>4. ASSUME NEW q \in Pids, NEW reason \in ExitReasons, BeginExit(q, reason), UNCHANGED vars
      PROVE  WInv'
  <2>1. {q} \in SUBSET table /\ reason \in Reasons /\ \A p \in {q} : Traps(p) => {q} = {p}
    BY <1>4, ConstantsAssumption DEF BeginExit
  <2> DEFINE roots == {q}
  <2>2. Begin(roots, reason)
    BY <1>4 DEF BeginExit
  <2> HIDE DEF roots
  <2>3. WalkInv'
    BY <1>1, <1>4, <2>1, <2>2, BeginEstablishes DEF roots
  <2>4. first' # {}
    BY <2>2 DEF Begin
  <2> QED BY <1>3, <1>4, <2>3, <2>4 DEF WInv
<1>5. ASSUME NEW p \in Pids, BeginCrash(p), UNCHANGED vars PROVE WInv'
  <2> DEFINE roots == (links[p] \cap table) \ Trapping
  <2>1. roots \in SUBSET table /\ CRASH \in Reasons /\ \A q \in roots : ~Traps(q)
    BY DEF Traps, Reasons
  <2>2. Begin(roots, CRASH)
    BY <1>5 DEF BeginCrash
  <2> HIDE DEF roots
  <2>3. WalkInv'
    BY <1>1, <1>5, <2>1, <2>2, BeginEstablishes
  <2>4. first' # {}
    BY <2>2 DEF Begin
  <2> QED BY <1>3, <1>5, <2>3, <2>4 DEF WInv
<1>6. ASSUME NEW r \in Pids, NextRoot(r), UNCHANGED vars PROVE WInv'
  <2>1. first # {} /\ first' = first /\ WalkInv
    BY <1>6 DEF NextRoot, WInv
  <2>2. WalkInv'
    BY <1>1, <1>6, <2>1, NextRootKeeps
  <2> QED BY <1>3, <1>6, <2>1, <2>2 DEF WInv
<1>7. ASSUME NEW n \in Pids, LookAt(n), UNCHANGED vars PROVE WInv'
  <2>1. first # {} /\ first' = first /\ WalkInv
    BY <1>7 DEF LookAt, WInv
  <2>2. WalkInv'
    BY <1>1, <1>7, <2>1, LookAtKeeps
  <2> QED BY <1>3, <1>7, <2>1, <2>2 DEF WInv
<1>8. ASSUME Sever, UNCHANGED vars PROVE WInv'
  <2>1. first # {} /\ first' = first /\ WalkInv
    BY <1>8 DEF Sever, WInv
  <2>2. WalkInv'
    BY <1>1, <1>8, <2>1, SeverKeeps
  <2> QED BY <1>3, <1>8, <2>1, <2>2 DEF WInv
<1>9. CASE UNCHANGED <<vars, walkVars>>
  <2>1. /\ IInv' /\ UNCHANGED vars
        /\ UNCHANGED <<first, why, todo, visited, stack, severed, left, stopped, sent>>
    BY <1>3, <1>9 DEF walkVars
  <2>2. WalkInv => WalkInv'
    <3>1. Calls' = Calls /\ Reached' = Reached /\ Frame' = Frame
      BY <2>1 DEF Calls, Reached, Frame, vars
    <3>2. UNCHANGED <<table, links, monitors, monitored_by, names>>
      BY <2>1 DEF vars
    <3>3. /\ WalkTyped => WalkTyped'
          /\ TrapsLast => TrapsLast'
          /\ StoppedOnly => StoppedOnly'
      BY <2>1, <3>1, <3>2 DEF WalkTyped, TrapsLast, StoppedOnly, Traps
    <3>4. Taken => Taken'
      BY <2>1, <3>2 DEF Taken, LinksWithout, MonitorsWithout, MonitoredByWithout, NamesWithout
    <3>5. ReachedOnly => ReachedOnly'
      BY <2>1, <3>1, <3>2 DEF ReachedOnly, Cascade, Traps
    <3>6. Covered => Covered'
      BY <2>1, <3>1, <3>2 DEF Covered, Pending, Traps
    <3>7. ToldOnly => ToldOnly'
      BY <2>1, <3>1, <3>2 DEF ToldOnly, ExitsTo, DownsTo, Traps
    <3> QED BY <3>3, <3>4, <3>5, <3>6, <3>7 DEF WalkInv
  <2> QED BY <2>1, <2>2 DEF WInv
<1> QED BY <1>2, <1>4, <1>5, <1>6, <1>7, <1>8, <1>9 DEF WalkNext, WalkStep

\* The recursion of _notify_exit severs, cancels and tells exactly those that the
\* atomic step of ProcessRuntime says, for every link graph, every set of monitors and
\* every order of iteration: nobody is skipped although it undoes the links while it
\* walks over them.
THEOREM WalkAlwaysCascades == WalkSpec => []WalkIsCascade
<1>1. Init /\ NoWalk => WInv
  BY Initially DEF NoWalk, WInv
<1>2. WInv => WalkIsCascade
  <2> SUFFICES ASSUME WInv, WalkDone PROVE WalkIsCascade
    BY DEF WalkIsCascade
  <2> QED BY DoneIsCascade DEF WInv, WalkDone
<1> QED BY <1>1, <1>2, WalkInductive, PTL DEF WalkSpec

=============================================================================
