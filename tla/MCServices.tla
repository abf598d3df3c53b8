----------------------------- MODULE MCServices -----------------------------
(***************************************************************************)
(* The facilities that share no state, in one instance: the SPAM           *)
(* scheduler and its directory, the sockets, the atom table, the pid       *)
(* allocators, the runtime registry, the external term format, OTP modules *)
(* and the starts of processes.  Steps of two of them commute and no       *)
(* property speaks of two, so each is explored alone, from a choice made   *)
(* at first.                                                               *)
(***************************************************************************)
EXTENDS SpamScheduler, SpamDirectory, Sockets, Identities, RuntimeRegistry, Terms, OTPModules,
        Starters, TLC

VARIABLE focus

PidSymmetry == Permutations(Pids)

ServicesInit ==
    /\ focus \in {"spam", "directory", "socket", "atoms", "pids", "registry", "terms", "modules",
                  "starts"}
    /\ Init /\ DirectoryInit /\ SocketsInit /\ IdentitiesInit /\ RegistryInit /\ TermsInit
    /\ ModulesInit /\ StartsInit /\ (traps => focus = "starts")

ServicesNext ==
    /\ \/ focus = "spam" /\ Next
          /\ UNCHANGED <<directoryVars, socketVars, registryVars, identityVars, termVars,
                         moduleVars, startVars>>
       \/ focus = "directory" /\ DirectoryNext
          /\ UNCHANGED <<vars, socketVars, registryVars, identityVars, termVars,
                         moduleVars, startVars>>
       \/ focus = "socket" /\ SocketsNext
          /\ UNCHANGED <<vars, directoryVars, registryVars, identityVars, termVars,
                         moduleVars, startVars>>
       \/ focus = "atoms" /\ (\E t \in Threads : AtomStep(t))
          /\ UNCHANGED <<vars, directoryVars, socketVars, pidVars, registryVars,
                         termVars, moduleVars, startVars>>
       \/ focus = "pids" /\ (Allocate \/ SetNodeName)
          /\ UNCHANGED <<vars, directoryVars, socketVars, atomVars, registryVars,
                         termVars, moduleVars, startVars>>
       \/ focus = "registry" /\ RegistryNext
          /\ UNCHANGED <<vars, directoryVars, socketVars, identityVars, termVars,
                         moduleVars, startVars>>
       \/ focus = "terms" /\ TermsNext
          /\ UNCHANGED <<vars, directoryVars, socketVars, identityVars, registryVars,
                         moduleVars, startVars>>
       \/ focus = "modules" /\ ModulesNext
          /\ UNCHANGED <<vars, directoryVars, socketVars, identityVars, registryVars,
                         termVars, startVars>>
       \/ focus = "starts" /\ StartsNext
          /\ UNCHANGED <<vars, directoryVars, socketVars, identityVars, registryVars,
                         termVars, moduleVars>>
    /\ UNCHANGED focus

-----------------------------------------------------------------------------
(* Terms, with ByteLimit = 3 and WordLimit = 8: numbers and lengths on both *)
(* sides of every width, every type, nesting, keys that become equal, and   *)
(* what cannot be encoded or stored.                                        *)

A(x) == [atom |-> x]
I(n) == [int |-> n]
APid == [pid |-> [node |-> <<1, 2>>, id |-> 3, serial |-> 1, creation |-> 2]]
ARef == [ref |-> [node |-> <<1, 2>>, creation |-> 1, ids |-> <<4, 5>>]]
APort == [port |-> [node |-> <<1, 2, 2>>, id |-> 3, creation |-> 2]]
Nested == [list |-> <<I(1), [tuple |-> <<A(<<4>>), I(5)>>]>>]

OurTerms ==
    {[none |-> TRUE], [bool |-> TRUE], A(<<1, 2>>), A(<<2, 1, 2>>)}
    \cup {I(n) : n \in {0, 2, 3, -1, 7, 8, -8, -9, 40}}
    \cup {[float |-> 9], [bytes |-> <<>>], [str |-> <<98, 107>>],
          [tuple |-> <<>>], [tuple |-> <<Nested, APid, ARef, APort>>],
          EmptyList, Nested, [list |-> <<EmptyList, EmptyList>>],
          [items |-> <<>>],
          [items |-> << <<[none |-> TRUE], I(1)>>, <<A(<<1>>), Nested>>,
                        <<[tuple |-> <<I(1)>>], I(-20)>> >>],
          [tuple |-> <<Nested, [object |-> 1]>>]}

PeersTerms ==
    {A(<<1, 2>>), I(1), [float |-> 9], APid, ARef, APort,
     [string |-> <<1, 2>>], [improper |-> <<I(1), A(<<3>>)>>],
     [tuple |-> <<Nested, [string |-> <<>>]>>],
     [items |-> << <<APid, EmptyList>> >>],
     [items |-> << <<[string |-> <<2>>], I(1)>> >>],
     [items |-> << <<APort, I(1)>> >>],
     [items |-> << <<[tuple |-> <<EmptyList>>], I(1)>> >>]}
=============================================================================
