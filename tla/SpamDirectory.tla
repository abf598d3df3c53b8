---------------------------- MODULE SpamDirectory ----------------------------
(***************************************************************************)
(* What SPAM knows of its processes apart from when they run: the table,   *)
(* the names, the links and monitors and the counters, as spam/backend.py, *)
(* spam/runtime.py and spam/data.py change them.  Operations are not       *)
(* interrupted: none awaits between its look-up and its change.            *)
(***************************************************************************)
EXTENDS Naturals, FiniteSets

CONSTANTS
    DirPids,    \* made from uuids: none is given twice
    DirNames,
    NoName

ASSUME DirectoryAssumption ==   \* a name is not a pid
    DirNames \cap (DirPids \cup {NoName}) = {}

ProcessTypes == {"gen_server", "supervisor", "worker"}

VARIABLES
    spamUp,            \* initialized
    process_table,
    process_type,      \* of each process ever spawned
    process_name,      \* OTPProcess.name
    name_registry,     \* a function on the names that are taken
    linked_processes, monitoring_processes,
    total_created, total_terminated,
    renamed,           \* history: processes given a second name
    retaken            \* history: names given to a process while taken

directoryVars == <<spamUp, process_table, process_type, process_name, name_registry,
                   linked_processes, monitoring_processes, total_created, total_terminated,
                   renamed, retaken>>

Fresh ==
    [table |-> {}, registry |-> <<>>, none |-> [p \in DirPids |-> {}],
     unnamed |-> [p \in DirPids |-> NoName]]

DirectoryInit ==
    /\ spamUp = FALSE
    /\ process_table = Fresh.table /\ process_type = <<>>
    /\ process_name = Fresh.unnamed /\ name_registry = Fresh.registry
    /\ linked_processes = Fresh.none /\ monitoring_processes = Fresh.none
    /\ total_created = 0 /\ total_terminated = 0
    /\ renamed = {} /\ retaken = {}

Spawned == DOMAIN process_type

-----------------------------------------------------------------------------
(* The runtime.                                                            *)

\* Every initialisation makes a scheduler with a directory of its own.
StartRuntime ==
    /\ ~spamUp
    /\ spamUp' = TRUE
    /\ process_table' = Fresh.table /\ name_registry' = Fresh.registry
    /\ total_created' = 0 /\ total_terminated' = 0
    /\ UNCHANGED <<process_type, process_name, linked_processes, monitoring_processes,
                   renamed, retaken>>

\* The directory outlives the scheduler, and names can still be given in it.
StopRuntime ==
    /\ spamUp
    /\ spamUp' = FALSE
    /\ UNCHANGED <<process_table, process_type, process_name, name_registry, linked_processes,
                   monitoring_processes, total_created, total_terminated, renamed, retaken>>

\* register_process: a name that is taken changes hands.
SpawnAs(type, p, n) ==
    /\ spamUp /\ p \notin Spawned
    /\ process_table' = process_table \cup {p}
    /\ process_type' = [q \in Spawned \cup {p} |-> IF q = p THEN type ELSE process_type[q]]
    /\ process_name' = [process_name EXCEPT ![p] = n]
    /\ name_registry' = IF n = NoName THEN name_registry
                        ELSE [x \in DOMAIN name_registry \cup {n} |->
                                 IF x = n THEN p ELSE name_registry[x]]
    /\ retaken' = retaken \cup ({n} \cap DOMAIN name_registry)
    /\ total_created' = total_created + 1
    /\ UNCHANGED <<spamUp, linked_processes, monitoring_processes,
                   total_terminated, renamed>>

Without(n) == [x \in DOMAIN name_registry \ {n} |-> name_registry[x]]

\* Fault: the name of a process that is terminated stays.
NamesKept(p) == name_registry
NamesAfter(p) == Without(process_name[p])

\* unregister_process: the name goes, whoever has it by now.  The partners' links stay.
TerminatePid(p) ==
    /\ spamUp /\ p \in process_table
    /\ process_table' = process_table \ {p}
    /\ name_registry' = NamesAfter(p)
    /\ total_terminated' = total_terminated + 1
    /\ UNCHANGED <<spamUp, process_type, process_name, linked_processes,
                   monitoring_processes, total_created, renamed, retaken>>

-----------------------------------------------------------------------------
(* The backend.                                                            *)

\* A name that is taken, or a process that is unknown, is refused.
RegisterNameOf(n, p) ==
    /\ n \notin DOMAIN name_registry /\ p \in process_table
    /\ name_registry' = [x \in DOMAIN name_registry \cup {n} |->
                            IF x = n THEN p ELSE name_registry[x]]
    /\ process_name' = [process_name EXCEPT ![p] = n]
    /\ renamed' = IF process_name[p] = NoName THEN renamed ELSE renamed \cup {p}
    /\ UNCHANGED <<spamUp, process_table, process_type, linked_processes,
                   monitoring_processes, total_created, total_terminated, retaken>>

UnregisterNameOf(n) ==
    /\ n \in DOMAIN name_registry
    /\ name_registry' = Without(n)
    /\ LET p == name_registry[n] IN
       process_name' = IF p \in process_table /\ process_name[p] = n
                       THEN [process_name EXCEPT ![p] = NoName] ELSE process_name
    /\ UNCHANGED <<spamUp, process_table, process_type, linked_processes,
                   monitoring_processes, total_created, total_terminated, renamed, retaken>>

LinkPids(p, q) ==
    /\ p \in process_table /\ q \in process_table
    /\ linked_processes' = [r \in DirPids |->
           linked_processes[r] \cup {s \in {p, q} : {r, s} = {p, q}}]
    /\ UNCHANGED <<spamUp, process_table, process_type, process_name, name_registry,
                   monitoring_processes, total_created, total_terminated, renamed, retaken>>

\* Of two processes those that are known forget each other.
UnlinkPids(p, q) ==
    /\ linked_processes' = [r \in DirPids |->
           IF r \in process_table /\ r \in {p, q}
           THEN linked_processes[r] \ {s \in {p, q} : {r, s} = {p, q}}
           ELSE linked_processes[r]]
    /\ UNCHANGED <<spamUp, process_table, process_type, process_name, name_registry,
                   monitoring_processes, total_created, total_terminated, renamed, retaken>>

\* monitor_process and demonitor_process; nothing reads what they note.
WatchPid(watcher, p) ==
    /\ p \in process_table
    /\ monitoring_processes' = [monitoring_processes EXCEPT ![p] = @ \cup {watcher}]
    /\ UNCHANGED <<spamUp, process_table, process_type, process_name, name_registry,
                   linked_processes, total_created, total_terminated, renamed, retaken>>
UnwatchPid(watcher, p) ==
    /\ p \in process_table
    /\ monitoring_processes' = [monitoring_processes EXCEPT ![p] = @ \ {watcher}]
    /\ UNCHANGED <<spamUp, process_table, process_type, process_name, name_registry,
                   linked_processes, total_created, total_terminated, renamed, retaken>>

\* _resolve_process_target: a pid, or else a name of a process that is known.
Resolve(target) ==
    IF target \in process_table THEN target
    ELSE IF target \in DOMAIN name_registry /\ name_registry[target] \in process_table
         THEN name_registry[target] ELSE NoName

\* list_processes, by type.
Listed(type) == {p \in process_table : process_type[p] = type}

DirectoryNext ==
    \/ StartRuntime \/ StopRuntime
    \/ \E p \in DirPids :
          \/ \E type \in ProcessTypes, n \in DirNames \cup {NoName} : SpawnAs(type, p, n)
          \/ TerminatePid(p)
          \/ \E n \in DirNames : RegisterNameOf(n, p)
          \/ \E q \in DirPids \ {p} : LinkPids(p, q) \/ UnlinkPids(p, q)
          \/ \E w \in Spawned \ {p} : WatchPid(w, p) \/ UnwatchPid(w, p)
    \/ \E n \in DirNames : UnregisterNameOf(n)

DirectorySpec == DirectoryInit /\ [][DirectoryNext]_directoryVars

-----------------------------------------------------------------------------
(* Properties.                                                             *)

\* A known process is found under its name, unless the name was given to a second
\* process while it was taken; and a name leads to a process that is gone only if that
\* process was given another name later.
NamesFound ==
    \A n \in DirNames \ retaken :
        /\ \A p \in process_table : process_name[p] = n => Resolve(n) = p
        /\ n \in DOMAIN name_registry =>
              name_registry[n] \in process_table \cup renamed

\* Known processes agree on their links, and the counters agree with the lists by type.
DirectoryAgrees ==
    /\ \A p, q \in process_table : q \in linked_processes[p] <=> p \in linked_processes[q]
    /\ total_created
         = total_terminated + Cardinality(Listed("gen_server"))
             + Cardinality(Listed("supervisor")) + Cardinality(Listed("worker"))

\* The directory stays sound while processes come, go, change names and the runtime
\* restarts.
DirectorySound == NamesFound /\ DirectoryAgrees
=============================================================================
