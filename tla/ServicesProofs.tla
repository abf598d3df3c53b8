--------------------------- MODULE ServicesProofs ---------------------------
(***************************************************************************)
(* Proofs about the services, which share no state: atoms, pids, the       *)
(* runtime registry, SPAM's directory and scheduler, sockets, OTP modules  *)
(* and starts of processes, each for every value of its own constants.     *)
(***************************************************************************)
EXTENDS Identities, RuntimeRegistry, SpamDirectory, SpamScheduler, Sockets,
        OTPModules, Starters, SequenceTheorems, FiniteSetTheorems, WellFoundedInduction, TLAPS

-----------------------------------------------------------------------------
(* The atom table.                                                         *)

Names == Seq(AtomNames)

WantsOK ==
    wants \in [Threads -> {AtRest}
                 \cup [at : {"fast"}, names : Names, missing : Names]
                 \cup [at : {"locked", "writes"}, missing : Names]]

\* Whoever creates atoms holds the lock, and has one in hand while it writes.
LockHeld ==
    \A t \in Threads :
        /\ wants[t].at \in {"locked", "writes"} <=> holder = t
        /\ wants[t].at = "writes" =>
              /\ wants[t].missing # <<>>
              /\ Head(wants[t].missing) \notin DOMAIN byName
              /\ counter \in DOMAIN byId
              /\ byId[counter] = Head(wants[t].missing)

\* The two maps are inverse to each other, but for the atom that is being written.
MapsInverse ==
    /\ counter \in Nat
    /\ \A n \in DOMAIN byName :
          /\ byName[n] \in Nat /\ byName[n] < counter
          /\ byName[n] \in DOMAIN byId /\ byId[byName[n]] = n

HandedKnown == \A a \in handed : \E n \in DOMAIN byName : a = <<n, byName[n]>>

AtomsIInv == WantsOK /\ LockHeld /\ MapsInverse /\ HandedKnown

\* No two threads write at once, and what one has looked up under the lock stays
\* true until it has written it.
LEMMA AtomsKept == AtomsIInv /\ [IdentitiesNext]_identityVars => AtomsIInv'
<1> USE IdentitiesAssumption
<1> SUFFICES ASSUME AtomsIInv, [IdentitiesNext]_identityVars PROVE AtomsIInv'
  OBVIOUS
<1> USE DEF AtomsIInv
<1>1. ASSUME NEW t \in Threads, Ensure(t) PROVE AtomsIInv'
  <2>1. PICK ns \in Names :
            wants' = [wants EXCEPT ![t] = [at |-> "fast", names |-> ns, missing |-> <<>>]]
    <3>1. \A n \in AtomNames : <<n>> \in Names
      BY DEF Names
    <3>2. \A n, m \in AtomNames : <<n, m>> \in Names
      BY DEF Names
    <3>3. \A ns \in AtomNames \X AtomNames : \E n, m \in AtomNames : ns = <<n, m>>
      OBVIOUS
    <3> QED BY <1>1, <3>1, <3>2, <3>3 DEF Ensure
  <2>2. WantsOK'
    BY <2>1 DEF WantsOK, Names
  <2>3. LockHeld'
    BY <1>1, <2>1 DEF Ensure, LockHeld, WantsOK, AtRest
  <2> QED BY <1>1, <2>2, <2>3 DEF Ensure, MapsInverse, HandedKnown
<1>2. ASSUME NEW t \in Threads, LookUp(t) PROVE AtomsIInv'
  <2>1. /\ wants[t] \in [at : {"fast"}, names : Names, missing : Names]
        /\ wants[t].names # <<>>
    BY <1>2 DEF LookUp, WantsOK, AtRest
  <2>2. /\ Head(wants[t].names) \in AtomNames /\ Tail(wants[t].names) \in Names
        /\ Append(wants[t].missing, Head(wants[t].names)) \in Names
    BY <2>1 DEF Names
  <2>3. PICK w \in [at : {"fast"}, names : Names, missing : Names] :
            wants' = [wants EXCEPT ![t] = w]
    <3>1. [wants[t] EXCEPT !.names = Tail(@)] \in [at : {"fast"}, names : Names, missing : Names]
      BY <2>1, <2>2
    <3>2. [[wants[t] EXCEPT !.names = Tail(@)] EXCEPT !.missing = Append(@, Head(wants[t].names))]
            \in [at : {"fast"}, names : Names, missing : Names]
      BY <2>1, <2>2
    <3> QED BY <1>2, <3>1, <3>2 DEF LookUp
  <2>4. WantsOK'
    BY <2>3 DEF WantsOK
  <2>5. LockHeld'
    BY <1>2, <2>1, <2>3 DEF LookUp, LockHeld, WantsOK
  <2>6. HandedKnown'
    BY <1>2 DEF LookUp, HandedKnown, HandOut, Known
  <2> QED BY <1>2, <2>4, <2>5, <2>6 DEF LookUp, MapsInverse
<1>3. ASSUME NEW t \in Threads, Lock(t) PROVE AtomsIInv'
  <2>1. wants[t] \in [at : {"fast"}, names : Names, missing : Names]
    BY <1>3 DEF Lock, WantsOK, AtRest
  <2>2. WantsOK'
    BY <1>3, <2>1 DEF Lock, WantsOK
  <2>3. LockHeld'
    BY <1>3, <2>1 DEF Lock, LockHeld, WantsOK, AtRest
  <2> QED BY <1>3, <2>2, <2>3 DEF Lock, MapsInverse, HandedKnown
<1>4. ASSUME NEW t \in Threads, Create(t) PROVE AtomsIInv'
  <2>1. /\ wants[t] \in [at : {"locked", "writes"}, missing : Names]
        /\ wants[t].at = "locked" /\ wants[t].missing # <<>> /\ holder = t
    BY <1>4 DEF Create, WantsOK, AtRest, LockHeld
  <2>2. \A u \in Threads \ {t} : wants[u].at \notin {"locked", "writes"}
    BY <2>1 DEF LockHeld
  <2>3. Head(wants[t].missing) \in AtomNames /\ Tail(wants[t].missing) \in Names
    BY <2>1 DEF Names
  <2>4. CASE Known(Head(wants[t].missing))
    <3>1. wants' = [wants EXCEPT ![t] = [at |-> "locked", missing |-> Tail(wants[t].missing)]]
      BY <1>4, <2>1, <2>4 DEF Create, DoubleCheck, WantsOK
    <3>2. WantsOK' /\ LockHeld'
      BY <1>4, <2>1, <2>2, <2>3, <2>4, <3>1 DEF Create, DoubleCheck, WantsOK, LockHeld
    <3> QED BY <1>4, <2>4, <3>2 DEF Create, DoubleCheck, HandOut, Known, MapsInverse, HandedKnown
  <2>5. CASE ~Known(Head(wants[t].missing))
    <3>1. wants' = [wants EXCEPT ![t] = [at |-> "writes", missing |-> wants[t].missing]]
      BY <1>4, <2>1, <2>5 DEF Create, DoubleCheck, WantsOK
    <3>2. WantsOK'
      BY <2>1, <3>1 DEF WantsOK
    <3>3. byId' = With(byId, counter, Head(wants[t].missing)) /\ UNCHANGED <<byName, counter, holder, handed>>
      BY <1>4, <2>5 DEF Create, DoubleCheck
    <3>4. LockHeld'
      BY <2>1, <2>2, <2>5, <3>1, <3>3 DEF LockHeld, WantsOK, With, Known
    <3>5. MapsInverse'
      BY <3>3 DEF MapsInverse, With
    <3> QED BY <3>2, <3>3, <3>4, <3>5 DEF HandedKnown
  <2> QED BY <2>4, <2>5
<1>5. ASSUME NEW t \in Threads, Publish(t) PROVE AtomsIInv'
  <2>1. /\ wants[t] \in [at : {"locked", "writes"}, missing : Names]
        /\ wants[t].at = "writes" /\ wants[t].missing # <<>> /\ holder = t
        /\ Head(wants[t].missing) \notin DOMAIN byName
        /\ counter \in DOMAIN byId /\ byId[counter] = Head(wants[t].missing)
    BY <1>5 DEF Publish, WantsOK, AtRest, LockHeld
  <2>2. \A u \in Threads \ {t} : wants[u].at \notin {"locked", "writes"}
    BY <2>1 DEF LockHeld
  <2>3. Tail(wants[t].missing) \in Names
    BY <2>1 DEF Names
  <2>4. WantsOK' /\ LockHeld'
    BY <1>5, <2>1, <2>2, <2>3 DEF Publish, WantsOK, LockHeld
  <2>5. byName' = With(byName, Head(wants[t].missing), counter)
        /\ counter' = counter + 1 /\ byId' = byId
        /\ handed' = handed \cup {<<Head(wants[t].missing), counter>>}
    BY <1>5 DEF Publish
  <2>6. MapsInverse'
    BY <2>1, <2>5 DEF MapsInverse, With
  <2>7. HandedKnown'
    BY <2>1, <2>5 DEF HandedKnown, With
  <2> QED BY <2>4, <2>6, <2>7
<1>6. ASSUME NEW t \in Threads, Unlock(t) PROVE AtomsIInv'
  <2>1. WantsOK'
    BY <1>6 DEF Unlock, WantsOK
  <2>2. LockHeld'
    BY <1>6 DEF Unlock, LockHeld, WantsOK, AtRest
  <2> QED BY <1>6, <2>1, <2>2 DEF Unlock, MapsInverse, HandedKnown
<1>7. CASE UNCHANGED atomVars
  BY <1>7 DEF atomVars, WantsOK, LockHeld, MapsInverse, HandedKnown
<1> QED BY <1>1, <1>2, <1>3, <1>4, <1>5, <1>6, <1>7
        DEF IdentitiesNext, AtomStep, identityVars

-----------------------------------------------------------------------------
(* Pids.                                                                   *)

\* How many pids one turn of both counters gives, and how many came before a
\* pid in its turn.
Turn == MaxId * (MaxSerial + 1)
Place(id, serial) == serial * MaxId + id - 1

Pid == [node : [name : NodeNames \cup {LocalNode}, creation : {1, 2}],
        id : 1 .. MaxId, serial : 0 .. MaxSerial]

PidsTyped ==
    /\ nextId \in 1 .. MaxId /\ nextSerial \in 0 .. MaxSerial
    /\ node \in [name : NodeNames \cup {LocalNode}, creation : {1, 2}]
    /\ issued \in Seq(Pid)

\* A pid of the present allocator that was given out at most one turn ago is as far
\* behind the counters as allocations followed it; those of another have another name.
PlacesKept ==
    \A k \in DOMAIN issued :
        IF issued[k].node = node
        THEN LET ago == Len(issued) + 1 - k
                 place == Place(issued[k].id, issued[k].serial)
                 now == Place(nextId, nextSerial)
             IN ago <= Turn => place + ago \in {now, now + Turn}
        ELSE issued[k].node.name = LocalNode /\ node.name # LocalNode

PidsIInv == PidsTyped /\ PlacesKept /\ PidsDistinct

LEMMA PlaceInTurn ==
  ASSUME NEW id \in 1 .. MaxId, NEW serial \in 0 .. MaxSerial
  PROVE  /\ Turn \in Nat /\ Place(id, serial) \in 0 .. Turn - 1
         /\ id < MaxId => Place(id + 1, serial) = Place(id, serial) + 1
         /\ id = MaxId /\ serial < MaxSerial => Place(1, serial + 1) = Place(id, serial) + 1
         /\ id = MaxId /\ serial = MaxSerial => Place(id, serial) = Turn - 1
         /\ Place(1, 0) = 0
<1> USE IdentitiesAssumption
<1>1. serial * MaxId \in Nat /\ MaxSerial * MaxId \in Nat
  OBVIOUS
<1>2. Turn = MaxSerial * MaxId + MaxId
  BY DEF Turn
<1>3. (serial + 1) * MaxId = serial * MaxId + MaxId
  OBVIOUS
<1>4. serial * MaxId <= MaxSerial * MaxId
  OBVIOUS
<1>5. 0 * MaxId = 0
  OBVIOUS
<1> QED BY <1>1, <1>2, <1>3, <1>4, <1>5 DEF Place

\* A pid less than a turn ago is at another place than the counters; the counters
\* come back to a place only after a whole turn.
LEMMA PidsKept == PidsIInv /\ [IdentitiesNext]_identityVars => PidsIInv'
<1> USE IdentitiesAssumption
<1> SUFFICES ASSUME PidsIInv, [IdentitiesNext]_identityVars PROVE PidsIInv'
  OBVIOUS
<1> DEFINE now == Place(nextId, nextSerial)
<1>1. PidsTyped /\ PlacesKept /\ PidsDistinct
  BY DEF PidsIInv
<1>2. Turn \in Nat /\ now \in 0 .. Turn - 1
  BY <1>1, PlaceInTurn DEF PidsTyped
<1>3. CASE Allocate
  <2>1. /\ issued' = Append(issued, ThisPid) /\ node' = node
        /\ Len(issued) \in Nat /\ DOMAIN issued = 1 .. Len(issued)
        /\ Len(issued') = Len(issued) + 1 /\ DOMAIN issued' = 1 .. Len(issued) + 1
        /\ issued'[Len(issued) + 1] = ThisPid
        /\ \A k \in 1 .. Len(issued) : issued'[k] = issued[k]
    BY <1>1, <1>3 DEF Allocate, PidsTyped
  <2>2. PidsTyped'
    <3>1. ThisPid \in Pid
      BY <1>1 DEF ThisPid, PidsTyped, Pid
    <3>2. nextId' \in 1 .. MaxId /\ nextSerial' \in 0 .. MaxSerial
      BY <1>1, <1>3 DEF Allocate, NextSerial, PidsTyped
    <3> QED BY <1>1, <2>1, <3>1, <3>2 DEF PidsTyped
  <2>3. now' = IF now = Turn - 1 THEN 0 ELSE now + 1
    <3>1. CASE nextId # MaxId
      <4>1. now' = now + 1
        BY <1>1, <1>3, <3>1, PlaceInTurn DEF Allocate, PidsTyped
      <4>2. now' \in 0 .. Turn - 1
        BY <2>2, PlaceInTurn DEF PidsTyped
      <4> QED BY <1>2, <4>1, <4>2
    <3>2. CASE nextId = MaxId /\ nextSerial # MaxSerial
      <4>1. now' = now + 1
        BY <1>1, <1>3, <3>2, PlaceInTurn DEF Allocate, NextSerial, PidsTyped
      <4>2. now' \in 0 .. Turn - 1
        BY <2>2, PlaceInTurn DEF PidsTyped
      <4> QED BY <1>2, <4>1, <4>2
    <3>3. CASE nextId = MaxId /\ nextSerial = MaxSerial
      BY <1>1, <1>3, <3>3, PlaceInTurn DEF Allocate, NextSerial, PidsTyped
    <3> QED BY <3>1, <3>2, <3>3
  <2>4. \A k \in 1 .. Len(issued) :
          /\ issued[k].id \in 1 .. MaxId /\ issued[k].serial \in 0 .. MaxSerial
          /\ Place(issued[k].id, issued[k].serial) \in 0 .. Turn - 1
    <3> SUFFICES ASSUME NEW k \in 1 .. Len(issued)
                 PROVE  /\ issued[k].id \in 1 .. MaxId /\ issued[k].serial \in 0 .. MaxSerial
                        /\ Place(issued[k].id, issued[k].serial) \in 0 .. Turn - 1
      OBVIOUS
    <3>1. issued[k].id \in 1 .. MaxId /\ issued[k].serial \in 0 .. MaxSerial
      <4>1. issued[k] \in Pid
        BY <1>1, <2>1 DEF PidsTyped
      <4> QED BY <4>1 DEF Pid
    <3> QED BY <3>1, PlaceInTurn
  <2>5. PlacesKept'
    <3> SUFFICES ASSUME NEW k \in 1 .. Len(issued) + 1
                 PROVE  IF issued'[k].node = node
                        THEN LET ago == Len(issued) + 2 - k
                                 place == Place(issued'[k].id, issued'[k].serial)
                             IN ago <= Turn => place + ago \in {now', now' + Turn}
                        ELSE issued'[k].node.name = LocalNode /\ node.name # LocalNode
      BY <2>1 DEF PlacesKept
    <3>1. CASE k = Len(issued) + 1
      <4>1. /\ issued'[k].node = node
            /\ Place(issued'[k].id, issued'[k].serial) = now
        BY <2>1, <3>1 DEF ThisPid
      <4> QED BY <1>2, <2>1, <2>3, <3>1, <4>1
    <3>2. CASE k \in 1 .. Len(issued) /\ issued[k].node = node
      <4> DEFINE place == Place(issued[k].id, issued[k].serial)
                 ago == Len(issued) + 1 - k
      <4>1. ago <= Turn => place + ago \in {now, now + Turn}
        BY <1>1, <2>1, <3>2 DEF PlacesKept
      <4>2. place \in 0 .. Turn - 1 /\ ago \in Nat
        BY <2>1, <2>4, <3>2
      <4>3. ago + 1 <= Turn => place + (ago + 1) \in {now', now' + Turn}
        BY <1>2, <2>3, <4>1, <4>2
      <4> QED BY <2>1, <3>2, <4>3
    <3>3. CASE k \in 1 .. Len(issued) /\ issued[k].node # node
      BY <1>1, <2>1, <3>3 DEF PlacesKept
    <3> QED BY <2>1, <3>1, <3>2, <3>3
  <2>6. PidsDistinct'
    <3> SUFFICES ASSUME NEW j \in 1 .. Len(issued) + 1, NEW k \in 1 .. Len(issued) + 1,
                        j < k, k - j < Turn
                 PROVE  issued'[j] # issued'[k]
      BY <2>1 DEF PidsDistinct, Turn
    <3>1. CASE k \in 1 .. Len(issued)
      BY <1>1, <2>1, <3>1 DEF PidsDistinct, Turn
    <3>2. CASE k = Len(issued) + 1
      <4>1. j \in 1 .. Len(issued)
        BY <2>1, <3>2
      <4>2. CASE issued[j].node # node
        BY <2>1, <3>2, <4>1, <4>2 DEF ThisPid
      <4>3. CASE issued[j].node = node
        <5>1. Place(issued[j].id, issued[j].serial) + (k - j) \in {now, now + Turn}
          <6> DEFINE ago == Len(issued) + 1 - j
          <6>1. ago <= Turn => Place(issued[j].id, issued[j].serial) + ago \in {now, now + Turn}
            BY <1>1, <2>1, <4>1, <4>3 DEF PlacesKept
          <6>2. ago = k - j /\ ago <= Turn
            BY <1>2, <2>1, <3>2, <4>1
          <6> QED BY <6>1, <6>2
        <5>2. Place(issued[j].id, issued[j].serial) # now
          BY <1>2, <2>1, <2>4, <3>2, <4>1, <5>1
        <5>3. issued[j].id # nextId \/ issued[j].serial # nextSerial
          BY <5>2
        <5> QED BY <2>1, <3>2, <4>1, <5>3 DEF ThisPid
      <4> QED BY <4>2, <4>3
    <3> QED BY <2>1, <3>1, <3>2
  <2> QED BY <2>2, <2>5, <2>6 DEF PidsIInv
<1>4. CASE SetNodeName
  <2>1. /\ node'.name # LocalNode /\ node.name = LocalNode
        /\ node' \in [name : NodeNames \cup {LocalNode}, creation : {1, 2}]
        /\ nextId' = 1 /\ nextSerial' = 0 /\ issued' = issued
    BY <1>4 DEF SetNodeName
  <2>2. PidsTyped'
    BY <1>1, <2>1 DEF PidsTyped
  <2>3. PlacesKept'
    BY <1>1, <2>1 DEF PidsTyped, PlacesKept
  <2> QED BY <1>1, <2>1, <2>2, <2>3 DEF PidsIInv, PidsDistinct
<1>5. CASE UNCHANGED pidVars
  BY <1>1, <1>5 DEF pidVars, PidsIInv, PidsTyped, PlacesKept, PidsDistinct
<1> QED BY <1>3, <1>4, <1>5 DEF IdentitiesNext, identityVars

-----------------------------------------------------------------------------
(* Together.                                                               *)

\* Whatever threads ask for whichever atoms at once, equal atoms have equal names and
\* are found again under their number; pids that are less than one turn of both
\* counters apart differ, across wraps and the node's renaming (AtomTable.ensure and
\* ensure_many, PidAllocator.allocate).
THEOREM OneMeaningAlways == IdentitiesSpec => []OneMeaning
<1>1. IdentitiesInit => AtomsIInv /\ PidsIInv
  <2>1. IdentitiesInit => AtomsIInv
    BY IdentitiesAssumption
       DEF IdentitiesInit, AtomsIInv, WantsOK, LockHeld, MapsInverse, HandedKnown, AtRest, Names
  <2>2. IdentitiesInit => PidsIInv
    BY IdentitiesAssumption
       DEF IdentitiesInit, PidsIInv, PidsTyped, PlacesKept, PidsDistinct
  <2> QED BY <2>1, <2>2
<1>2. (AtomsIInv /\ PidsIInv) /\ [IdentitiesNext]_identityVars => (AtomsIInv /\ PidsIInv)'
  BY AtomsKept, PidsKept
<1>3. AtomsIInv /\ PidsIInv => OneMeaning
  BY DEF AtomsIInv, MapsInverse, HandedKnown, AtomsAgree, PidsIInv, OneMeaning
<1> QED BY <1>1, <1>2, <1>3, PTL DEF IdentitiesSpec

-----------------------------------------------------------------------------
(* The runtime registry.                                                   *)

KnownBackends == Backends \cup {NoBackend}
Block == [user : Users, backend : Backends, previous : KnownBackends]

RegistryTypeOK ==
    /\ current \in KnownBackends
    /\ blocks \in Seq(Block) /\ beneath \in Seq(KnownBackends)
    /\ cached \in [Subscribers -> KnownBackends]
    /\ collected \subseteq Subscribers /\ failed \subseteq Subscribers

\* What a block will restore is what was in use when it was entered.
BlocksRemember ==
    /\ Len(blocks) = Len(beneath)
    /\ \A k \in 1 .. Len(blocks) : blocks[k].previous = beneath[k]

RegistryIInv == RegistryTypeOK /\ BlocksRemember /\ CachesFresh

\* Once all were told, whoever could not be is known.
LEMMA ToldAreFresh ==
    ASSUME RegistryTypeOK, Notify, UNCHANGED collected
    PROVE  /\ cached' \in [Subscribers -> KnownBackends] /\ failed' \subseteq Subscribers
           /\ \A m \in Subscribers \ (collected' \cup failed') : cached'[m] = NoBackend
<1>1. PICK raising \in SUBSET (Subscribers \ collected) : failed' = raising /\ cached' = Told(raising)
  BY DEF Notify
<1>2. \A m \in Subscribers : Told(raising)[m] \in KnownBackends
  BY DEF RegistryTypeOK, Told, KnownBackends
<1>3. \A m \in Subscribers \ (collected \cup raising) : Told(raising)[m] = NoBackend
  BY DEF Told
<1>4. Told(raising) \in [Subscribers -> KnownBackends]
  BY <1>2 DEF Told
<1> QED BY <1>1, <1>3, <1>4

LEMMA RegistryStep == RegistryIInv /\ [RegistryNext]_registryVars => RegistryIInv'
<1> USE DEF RegistryIInv, RegistryTypeOK, BlocksRemember, CachesFresh, KnownBackends
<1> SUFFICES ASSUME RegistryIInv, [RegistryNext]_registryVars PROVE RegistryIInv'
  OBVIOUS
<1>7. ASSUME UNCHANGED collected, (\E b \in Backends : SetRuntime(b)) \/ ResetRuntime
      PROVE  /\ current' \in KnownBackends /\ cached' \in [Subscribers -> KnownBackends]
             /\ failed' \subseteq Subscribers /\ CachesFresh'
  <2>1. CASE Notify
    <3>1. /\ cached' \in [Subscribers -> KnownBackends] /\ failed' \subseteq Subscribers
          /\ \A m \in Subscribers \ (collected' \cup failed') : cached'[m] = NoBackend
      BY <1>7, <2>1, ToldAreFresh
    <3>2. current' \in KnownBackends
      BY <1>7 DEF SetRuntime, ResetRuntime
    <3> QED BY <3>1, <3>2
  <2>2. CASE current = NoBackend /\ current' = NoBackend /\ UNCHANGED <<cached, failed>>
    BY <1>7, <2>2
  <2> QED BY <1>7, <2>1, <2>2 DEF SetRuntime, ResetRuntime
<1>1. CASE Install
  <2>1. UNCHANGED <<blocks, beneath, collected>>
    BY <1>1 DEF Install
  <2>2. (\E b \in Backends : SetRuntime(b)) \/ ResetRuntime
    BY <1>1 DEF Install
  <2>3. /\ current' \in KnownBackends /\ cached' \in [Subscribers -> KnownBackends]
        /\ failed' \subseteq Subscribers /\ CachesFresh'
    BY <1>7, <2>1, <2>2
  <2> QED BY <2>1, <2>3
<1>2. ASSUME NEW u \in Users, Enter(u) PROVE RegistryIInv'
  <2>1. PICK b \in Backends :
            /\ blocks' = Append(blocks, [user |-> u, backend |-> b, previous |-> current])
            /\ SetRuntime(b)
    BY <1>2 DEF Enter, Previous
  <2>2. [user |-> u, backend |-> b, previous |-> current] \in Block
    BY DEF Block
  <2>3. beneath' = Append(beneath, current)
    BY <1>2 DEF Enter
  <2>4. blocks' \in Seq(Block) /\ beneath' \in Seq(KnownBackends)
    BY <2>1, <2>2, <2>3
  <2>5. BlocksRemember'
    BY <2>1, <2>2, <2>3
  <2>6. UNCHANGED collected
    BY <1>2 DEF Enter
  <2>7. /\ current' \in KnownBackends /\ cached' \in [Subscribers -> KnownBackends]
        /\ failed' \subseteq Subscribers /\ CachesFresh'
    BY <1>7, <2>1, <2>6
  <2> QED BY <2>4, <2>5, <2>6, <2>7
<1>3. ASSUME NEW u \in Users, Exit(u) PROVE RegistryIInv'
  <2>1. /\ Len(blocks) \in Nat \ {0}
        /\ blocks' = SubSeq(blocks, 1, Len(blocks) - 1)
        /\ beneath' = SubSeq(beneath, 1, Len(beneath) - 1)
    BY <1>3 DEF Exit
  <2>2. blocks' \in Seq(Block) /\ beneath' \in Seq(KnownBackends) /\ BlocksRemember'
    BY <2>1
  <2>3. blocks[Len(blocks)].previous \in KnownBackends
    BY <2>1 DEF Block
  <2>4. UNCHANGED collected /\ ((\E b \in Backends : SetRuntime(b)) \/ ResetRuntime)
    BY <1>3, <2>3 DEF Exit
  <2>5. /\ current' \in KnownBackends /\ cached' \in [Subscribers -> KnownBackends]
        /\ failed' \subseteq Subscribers /\ CachesFresh'
    BY <1>7, <2>4
  <2> QED BY <2>2, <2>4, <2>5
<1>4. ASSUME NEW u \in Users, Call(u) \/ Return(u) PROVE RegistryIInv'
  BY <1>4 DEF Call, Return
<1>5. ASSUME NEW m \in Subscribers, Cache(m) \/ Collect(m) PROVE RegistryIInv'
  BY <1>5 DEF Cache, Collect
<1>6. CASE UNCHANGED registryVars
  BY <1>6 DEF registryVars
<1> QED BY <1>1, <1>2, <1>3, <1>4, <1>5, <1>6 DEF RegistryNext

\* However many blocks are nested and whoever opens and leaves them, in reverse
\* order, the end of each brings back the backend that was in use when it was
\* entered; and no module goes on using a cached backend that is no longer the
\* current one, unless its own callback has raised or was collected (with_runtime and _notify_change_listeners, runtime/registry.py).
THEOREM BackendsAlwaysRestored == RegistrySpec => BackendsRestored
<1>1. RegistryIInv /\ [RegistryNext]_registryVars
        => [Len(blocks') < Len(blocks) => current' = beneath[Len(beneath)]]_registryVars
  <2> SUFFICES ASSUME RegistryIInv, RegistryNext, Len(blocks') < Len(blocks)
               PROVE  current' = beneath[Len(beneath)]
    OBVIOUS
  <2> USE DEF RegistryIInv, RegistryTypeOK, BlocksRemember
  <2>1. PICK u \in Users : Exit(u)
    <3>1. ASSUME NEW u \in Users, Enter(u) PROVE FALSE
      BY <3>1 DEF Enter
    <3> QED BY <3>1 DEF RegistryNext, Install, Call, Return, Cache, Collect
  <2>2. Len(blocks) \in Nat \ {0}
    BY <2>1 DEF Exit
  <2>3. current' = blocks[Len(blocks)].previous
    BY <2>1 DEF Exit, SetRuntime, ResetRuntime
  <2> QED BY <2>2, <2>3
<1>2. RegistryIInv /\ RegistryIInv' => [CachesFresh']_registryVars
  BY DEF RegistryIInv
<1>3. RegistryInit => RegistryIInv
  BY DEF RegistryInit, RegistryIInv, RegistryTypeOK, BlocksRemember, CachesFresh, KnownBackends, Block
<1> QED BY <1>1, <1>2, <1>3, RegistryStep, PTL
        DEF RegistrySpec, BackendsRestored, ExitRestores

-----------------------------------------------------------------------------
(* SPAM's directory.                                                       *)

DirectoryTyped ==
    /\ IsFiniteSet(process_table) /\ process_table \subseteq Spawned
    /\ Spawned \subseteq DirPids /\ process_type \in [Spawned -> ProcessTypes]
    /\ process_name \in [DirPids -> DirNames \cup {NoName}]
    /\ linked_processes \in [DirPids -> SUBSET DirPids]
    /\ total_created \in Nat /\ total_terminated \in Nat

\* A name leads to the process that bears it, or to one that was renamed.
NamesLead ==
    /\ DOMAIN name_registry \subseteq DirNames
    /\ \A n \in DOMAIN name_registry :
          /\ name_registry[n] \in Spawned
          /\ n \notin retaken =>
                \/ name_registry[n] \in renamed
                \/ name_registry[n] \in process_table /\ process_name[name_registry[n]] = n
    /\ \A p \in process_table :
          process_name[p] \in DirNames \ retaken =>
              process_name[p] \in DOMAIN name_registry /\ name_registry[process_name[p]] = p

\* Known processes agree on their links, and a process not yet spawned has none.
LinksKept ==
    /\ \A p, q \in process_table : q \in linked_processes[p] <=> p \in linked_processes[q]
    /\ \A p \in DirPids \ Spawned : linked_processes[p] = {}
    /\ \A p \in DirPids : linked_processes[p] \subseteq Spawned

CountersKept == total_created = total_terminated + Cardinality(process_table)

DirectoryIInv == DirectoryTyped /\ NamesLead /\ LinksKept /\ CountersKept

\* The lists by type are the parts of the table.
LEMMA ListedAll ==
    ASSUME DirectoryTyped
    PROVE  Cardinality(process_table)
             = Cardinality(Listed("gen_server")) + Cardinality(Listed("supervisor"))
                 + Cardinality(Listed("worker"))
<1> DEFINE A == Listed("gen_server")
           B == Listed("supervisor")
           C == Listed("worker")
<1>1. /\ A \subseteq process_table /\ B \subseteq process_table /\ C \subseteq process_table
      /\ A \cap B = {} /\ (A \cup B) \cap C = {}
  BY DEF Listed
<1>2. process_table = (A \cup B) \cup C
  BY DEF Listed, DirectoryTyped, ProcessTypes
<1>3. IsFiniteSet(A) /\ IsFiniteSet(B) /\ IsFiniteSet(C)
  BY <1>1, FS_Subset DEF DirectoryTyped
<1> HIDE DEF A, B, C
<1>4. IsFiniteSet(A \cup B) /\ Cardinality(A \cup B) = Cardinality(A) + Cardinality(B)
  <2>1. Cardinality(A \cup B) = Cardinality(A) + Cardinality(B) - Cardinality(A \cap B)
    BY <1>3, FS_Union
  <2>2. Cardinality(A \cap B) = 0
    BY <1>1, FS_EmptySet
  <2>3. IsFiniteSet(A \cup B)
    BY <1>3, FS_Union
  <2> QED BY <1>3, <2>1, <2>2, <2>3, FS_CardinalityType
<1>5. Cardinality((A \cup B) \cup C) = Cardinality(A \cup B) + Cardinality(C)
  <2> DEFINE D == A \cup B
  <2>0. IsFiniteSet(D) /\ D \cap C = {}
    BY <1>1, <1>4
  <2> HIDE DEF D
  <2>1. Cardinality(D \cup C) = Cardinality(D) + Cardinality(C) - Cardinality(D \cap C)
    BY <1>3, <2>0, FS_Union
  <2>2. Cardinality(D \cap C) = 0
    BY <2>0, FS_EmptySet
  <2>3. Cardinality(D \cup C) = Cardinality(D) + Cardinality(C)
    BY <1>3, <2>0, <2>1, <2>2, FS_CardinalityType
  <2> QED BY <2>3 DEF D
<1> QED BY <1>2, <1>4, <1>5 DEF A, B, C

\* The invariant is what is promised.
LEMMA DirectoryInvSound == DirectoryIInv => DirectorySound
<1> SUFFICES ASSUME DirectoryIInv PROVE DirectorySound
  OBVIOUS
<1> USE DirectoryAssumption
<1>1. NamesFound
  <2> SUFFICES ASSUME NEW n \in DirNames \ retaken
               PROVE  /\ \A p \in process_table : process_name[p] = n => Resolve(n) = p
                      /\ n \in DOMAIN name_registry =>
                            name_registry[n] \in process_table \cup renamed
    BY DEF NamesFound
  <2>1. n \notin process_table
    BY DEF DirectoryIInv, DirectoryTyped
  <2>2. ASSUME NEW p \in process_table, process_name[p] = n PROVE Resolve(n) = p
    BY <2>1, <2>2 DEF DirectoryIInv, NamesLead, Resolve
  <2> QED BY <2>2 DEF DirectoryIInv, NamesLead
<1>2. DirectoryAgrees
  <2>1. /\ Cardinality(Listed("gen_server")) \in Nat /\ Cardinality(Listed("worker")) \in Nat
        /\ Cardinality(Listed("supervisor")) \in Nat
    <3>1. ASSUME NEW type PROVE Cardinality(Listed(type)) \in Nat
      <4>1. Listed(type) \subseteq process_table
        BY DEF Listed
      <4> QED BY <4>1, FS_Subset, FS_CardinalityType DEF DirectoryIInv, DirectoryTyped
    <3> QED BY <3>1
  <2>2. total_created = total_terminated + Cardinality(process_table) /\ total_terminated \in Nat
    BY DEF DirectoryIInv, CountersKept, DirectoryTyped
  <2>3. Cardinality(process_table)
             = Cardinality(Listed("gen_server")) + Cardinality(Listed("supervisor"))
                 + Cardinality(Listed("worker"))
    BY ListedAll DEF DirectoryIInv
  <2>4. total_created = total_terminated + Cardinality(Listed("gen_server"))
             + Cardinality(Listed("supervisor")) + Cardinality(Listed("worker"))
    BY <2>1, <2>2, <2>3
  <2> QED BY <2>4 DEF DirectoryIInv, LinksKept, DirectoryAgrees
<1> QED BY <1>1, <1>2 DEF DirectorySound

\* Every operation of the runtime and the backend keeps it.
LEMMA DirectoryStep == DirectoryIInv /\ [DirectoryNext]_directoryVars => DirectoryIInv'
<1> SUFFICES ASSUME DirectoryIInv, [DirectoryNext]_directoryVars PROVE DirectoryIInv'
  OBVIOUS
<1> USE DirectoryAssumption DEF DirectoryIInv, Spawned
<1>1. CASE StartRuntime
  <2>1. /\ process_table' = {} /\ name_registry' = <<>> /\ total_created' = 0
        /\ total_terminated' = 0
        /\ UNCHANGED <<process_type, process_name, linked_processes, renamed, retaken>>
    BY <1>1 DEF StartRuntime, Fresh
  <2>2. IsFiniteSet({}) /\ Cardinality({}) = 0 /\ DOMAIN <<>> = {}
    BY FS_EmptySet
  <2>3. DirectoryTyped'
    BY <2>1, <2>2 DEF DirectoryTyped
  <2>4. NamesLead'
    BY <2>1, <2>2 DEF NamesLead
  <2>5. LinksKept'
    BY <2>1 DEF LinksKept
  <2>6. CountersKept'
    BY <2>1, <2>2 DEF CountersKept
  <2> QED BY <2>3, <2>4, <2>5, <2>6
<1>2. CASE StopRuntime
  BY <1>2 DEF StopRuntime, DirectoryTyped, NamesLead, LinksKept, CountersKept
<1>3. ASSUME NEW type \in ProcessTypes, NEW p \in DirPids, NEW n \in DirNames \cup {NoName},
             SpawnAs(type, p, n)
      PROVE  DirectoryIInv'
  <2>0. /\ p \notin Spawned /\ process_table' = process_table \cup {p}
        /\ process_type' = [q \in Spawned \cup {p} |-> IF q = p THEN type ELSE process_type[q]]
        /\ process_name' = [process_name EXCEPT ![p] = n]
        /\ name_registry' = IF n = NoName THEN name_registry
                        ELSE [x \in DOMAIN name_registry \cup {n} |->
                                 IF x = n THEN p ELSE name_registry[x]]
        /\ retaken' = retaken \cup ({n} \cap DOMAIN name_registry)
        /\ total_created' = total_created + 1
        /\ UNCHANGED <<linked_processes, total_terminated, renamed>>
    BY <1>3 DEF SpawnAs
  <2>1. p \notin process_table /\ IsFiniteSet(process_table)
    BY <2>0 DEF DirectoryTyped
  <2>2. /\ IsFiniteSet(process_table \cup {p})
        /\ Cardinality(process_table \cup {p}) = Cardinality(process_table) + 1
        /\ Cardinality(process_table) \in Nat
    BY <2>1, FS_AddElement, FS_CardinalityType
  <2>3. DirectoryTyped'
    BY <2>0, <2>2 DEF DirectoryTyped
  <2>4. NamesLead'
    <3>1. CASE n = NoName
      BY <2>0, <2>1, <3>1 DEF NamesLead, DirectoryTyped
    <3>2. CASE n # NoName
      <4>1. DOMAIN name_registry' = DOMAIN name_registry \cup {n} /\ name_registry'[n] = p
            /\ \A x \in DOMAIN name_registry \ {n} : name_registry'[x] = name_registry[x]
        BY <2>0, <3>2
      <4>2. process_name'[p] = n /\ \A q \in DirPids \ {p} : process_name'[q] = process_name[q]
        BY <2>0 DEF DirectoryTyped
      <4>3. Spawned' = Spawned \cup {p}
        BY <2>0
      <4>4. DOMAIN name_registry' \subseteq DirNames
        BY <3>2, <4>1 DEF NamesLead
      <4>5. ASSUME NEW x \in DOMAIN name_registry'
            PROVE  /\ name_registry'[x] \in Spawned'
                   /\ x \notin retaken' =>
                        \/ name_registry'[x] \in renamed'
                        \/ name_registry'[x] \in process_table'
                           /\ process_name'[name_registry'[x]] = x
        <5>1. CASE x = n
          BY <2>0, <4>1, <4>2, <4>3, <5>1
        <5>2. CASE x # n
          <6>1. x \in DOMAIN name_registry /\ name_registry'[x] = name_registry[x]
            BY <4>1, <5>2
          <6>2. name_registry[x] \in Spawned /\ name_registry[x] # p
            BY <2>0, <6>1 DEF NamesLead
          <6> QED BY <2>0, <4>2, <4>3, <6>1, <6>2 DEF NamesLead, DirectoryTyped
        <5> QED BY <5>1, <5>2
      <4>6. ASSUME NEW q \in process_table', process_name'[q] \in DirNames \ retaken'
            PROVE  process_name'[q] \in DOMAIN name_registry'
                   /\ name_registry'[process_name'[q]] = q
        <5>1. CASE q = p
          BY <4>1, <4>2, <5>1
        <5>2. CASE q # p
          <6>1. q \in process_table /\ process_name'[q] = process_name[q]
                /\ process_name[q] \notin retaken
            BY <2>0, <4>2, <4>6, <5>2 DEF DirectoryTyped
          <6>2. process_name[q] \in DOMAIN name_registry /\ name_registry[process_name[q]] = q
            BY <4>6, <6>1 DEF NamesLead
          <6>3. process_name[q] # n
            BY <2>0, <4>6, <6>1, <6>2
          <6> QED BY <4>1, <6>1, <6>2, <6>3
        <5> QED BY <5>1, <5>2
      <4> QED BY <4>4, <4>5, <4>6 DEF NamesLead
    <3> QED BY <3>1, <3>2
  <2>5. LinksKept'
    <3>1. \A q \in DirPids : p \notin linked_processes[q]
      BY <2>0 DEF LinksKept
    <3>2. linked_processes[p] = {}
      BY <2>0 DEF LinksKept
    <3> QED BY <2>0, <3>1, <3>2 DEF LinksKept, DirectoryTyped
  <2>6. CountersKept'
    BY <2>0, <2>2 DEF CountersKept, DirectoryTyped
  <2> QED BY <2>3, <2>4, <2>5, <2>6
<1>4. ASSUME NEW p \in DirPids, TerminatePid(p) PROVE DirectoryIInv'
  <2>0. /\ p \in process_table /\ process_table' = process_table \ {p}
        /\ name_registry' = [x \in DOMAIN name_registry \ {process_name[p]} |-> name_registry[x]]
        /\ total_terminated' = total_terminated + 1
        /\ UNCHANGED <<process_type, process_name, linked_processes, total_created,
                       renamed, retaken>>
    BY <1>4 DEF TerminatePid, NamesAfter, Without
  <2>1. /\ IsFiniteSet(process_table \ {p})
        /\ Cardinality(process_table \ {p}) = Cardinality(process_table) - 1
        /\ Cardinality(process_table) \in Nat
    BY <2>0, FS_RemoveElement, FS_CardinalityType DEF DirectoryTyped
  <2>2. DirectoryTyped'
    BY <2>0, <2>1 DEF DirectoryTyped
  <2>3. NamesLead'
    BY <2>0 DEF NamesLead, DirectoryTyped
  <2>4. LinksKept'
    BY <2>0 DEF LinksKept
  <2>5. CountersKept'
    BY <2>0, <2>1 DEF CountersKept, DirectoryTyped
  <2> QED BY <2>2, <2>3, <2>4, <2>5
<1>5. ASSUME NEW p \in DirPids, NEW n \in DirNames, RegisterNameOf(n, p) PROVE DirectoryIInv'
  <2>0. /\ n \notin DOMAIN name_registry /\ p \in process_table
        /\ name_registry' = [x \in DOMAIN name_registry \cup {n} |->
                                 IF x = n THEN p ELSE name_registry[x]]
        /\ process_name' = [process_name EXCEPT ![p] = n]
        /\ renamed' = IF process_name[p] = NoName THEN renamed ELSE renamed \cup {p}
        /\ UNCHANGED <<process_table, process_type, linked_processes, total_created,
                       total_terminated, retaken>>
    BY <1>5 DEF RegisterNameOf
  <2>1. DirectoryTyped'
    BY <2>0 DEF DirectoryTyped
  <2>2. NamesLead'
    <3>1. DOMAIN name_registry' = DOMAIN name_registry \cup {n} /\ name_registry'[n] = p
          /\ \A x \in DOMAIN name_registry : name_registry'[x] = name_registry[x]
      BY <2>0
    <3>2. process_name'[p] = n /\ \A q \in DirPids \ {p} : process_name'[q] = process_name[q]
      BY <2>0 DEF DirectoryTyped
    <3>3. renamed \subseteq renamed'
      BY <2>0
    <3>4. DOMAIN name_registry' \subseteq DirNames
      BY <3>1 DEF NamesLead
    <3>5. ASSUME NEW x \in DOMAIN name_registry
          PROVE  /\ name_registry'[x] \in Spawned'
                 /\ x \notin retaken' =>
                      \/ name_registry'[x] \in renamed'
                      \/ name_registry'[x] \in process_table'
                         /\ process_name'[name_registry'[x]] = x
      <4>1. CASE name_registry[x] = p
        <5>1. x \in DirNames /\ x # NoName
          BY DEF NamesLead
        <5>2. x \notin retaken => p \in renamed \/ process_name[p] = x
          BY <4>1 DEF NamesLead
        <5>3. x \notin retaken => p \in renamed'
          BY <2>0, <5>1, <5>2
        <5> QED BY <2>0, <3>1, <4>1, <5>3 DEF DirectoryTyped
      <4>2. CASE name_registry[x] # p
        BY <2>0, <3>1, <3>2, <3>3, <4>2 DEF NamesLead, DirectoryTyped
      <4> QED BY <4>1, <4>2
    <3>6. p \in Spawned' /\ p \in process_table'
      BY <2>0 DEF DirectoryTyped
    <3>7. ASSUME NEW q \in process_table', process_name'[q] \in DirNames \ retaken'
          PROVE  process_name'[q] \in DOMAIN name_registry'
                 /\ name_registry'[process_name'[q]] = q
      <4>1. CASE q = p
        BY <3>1, <3>2, <4>1
      <4>2. CASE q # p
        BY <2>0, <3>1, <3>2, <3>7, <4>2 DEF NamesLead, DirectoryTyped
      <4> QED BY <4>1, <4>2
    <3> QED BY <3>1, <3>2, <3>4, <3>5, <3>6, <3>7 DEF NamesLead
  <2>3. LinksKept'
    BY <2>0 DEF LinksKept
  <2>4. CountersKept'
    BY <2>0 DEF CountersKept
  <2> QED BY <2>1, <2>2, <2>3, <2>4
<1>6. ASSUME NEW n \in DirNames, UnregisterNameOf(n) PROVE DirectoryIInv'
  <2> DEFINE p == name_registry[n]
  <2>0. /\ n \in DOMAIN name_registry
        /\ name_registry' = [x \in DOMAIN name_registry \ {n} |-> name_registry[x]]
        /\ process_name' = IF p \in process_table /\ process_name[p] = n
                           THEN [process_name EXCEPT ![p] = NoName] ELSE process_name
        /\ UNCHANGED <<process_table, process_type, linked_processes, total_created,
                       total_terminated, renamed, retaken>>
    BY <1>6 DEF UnregisterNameOf, Without
  <2>1. DirectoryTyped'
    BY <2>0 DEF DirectoryTyped
  <2>2. NamesLead'
    <3>1. CASE p \in process_table /\ process_name[p] = n
      <4>1. process_name'[p] = NoName
            /\ \A q \in DirPids \ {p} : process_name'[q] = process_name[q]
        BY <2>0, <3>1 DEF DirectoryTyped
      <4>2. ASSUME NEW x \in DOMAIN name_registry \ {n}, x \notin retaken
            PROVE  \/ name_registry[x] \in renamed
                   \/ name_registry[x] \in process_table /\ process_name'[name_registry[x]] = x
        <5>1. \/ name_registry[x] \in renamed
              \/ name_registry[x] \in process_table /\ process_name[name_registry[x]] = x
          BY <4>2 DEF NamesLead
        <5>2. process_name[name_registry[x]] = x => name_registry[x] # p
          BY <3>1
        <5> QED BY <4>1, <5>1, <5>2 DEF DirectoryTyped
      <4>3. ASSUME NEW q \in process_table, process_name'[q] \in DirNames \ retaken
            PROVE  process_name'[q] \in DOMAIN name_registry \ {n}
                   /\ name_registry[process_name'[q]] = q
        <5>1. q # p
          BY <4>1, <4>3
        <5>2. process_name'[q] = process_name[q]
          BY <4>1, <5>1 DEF DirectoryTyped
        <5>3. process_name[q] \in DOMAIN name_registry /\ name_registry[process_name[q]] = q
          BY <4>3, <5>2 DEF NamesLead
        <5> QED BY <5>1, <5>2, <5>3
      <4> HIDE DEF p
      <4> QED BY <2>0, <4>2, <4>3 DEF NamesLead
    <3>2. CASE ~(p \in process_table /\ process_name[p] = n)
      <4>1. process_name' = process_name
        BY <2>0, <3>2
      <4>2. ASSUME NEW q \in process_table, process_name[q] \in DirNames \ retaken
            PROVE  process_name[q] \in DOMAIN name_registry \ {n}
                   /\ name_registry[process_name[q]] = q
        <5>1. process_name[q] \in DOMAIN name_registry /\ name_registry[process_name[q]] = q
          BY <4>2 DEF NamesLead
        <5> QED BY <3>2, <5>1
      <4> HIDE DEF p
      <4> QED BY <2>0, <4>1, <4>2 DEF NamesLead
    <3> QED BY <3>1, <3>2
  <2>3. LinksKept'
    BY <2>0 DEF LinksKept
  <2>4. CountersKept'
    BY <2>0 DEF CountersKept
  <2> QED BY <2>1, <2>2, <2>3, <2>4
<1>7. ASSUME NEW p \in DirPids, NEW q \in DirPids \ {p}, LinkPids(p, q) \/ UnlinkPids(p, q)
      PROVE  DirectoryIInv'
  <2>0. UNCHANGED <<process_table, process_type, process_name, name_registry, total_created,
                    total_terminated, renamed, retaken>>
    BY <1>7 DEF LinkPids, UnlinkPids
  <2>1. \A r, s \in DirPids : {r, s} = {p, q} <=> (r = p /\ s = q) \/ (r = q /\ s = p)
    OBVIOUS
  <2>2. CASE LinkPids(p, q)
    <3>1. /\ p \in process_table /\ q \in process_table
          /\ linked_processes' = [r \in DirPids |->
                 linked_processes[r] \cup {s \in {p, q} : {r, s} = {p, q}}]
      BY <2>2 DEF LinkPids
    <3>2. p \in Spawned /\ q \in Spawned
      BY <3>1 DEF DirectoryTyped
    <3>3. \A r, s \in DirPids : s \in linked_processes'[r] <=>
              \/ s \in linked_processes[r]
              \/ (r = p /\ s = q) \/ (r = q /\ s = p)
      BY <2>1, <3>1 DEF DirectoryTyped
    <3>4. DirectoryTyped'
      BY <2>0, <3>1 DEF DirectoryTyped
    <3>5. LinksKept'
      <4>1. ASSUME NEW r \in DirPids \ Spawned PROVE linked_processes'[r] = {}
        <5>1. r # p /\ r # q /\ linked_processes[r] = {}
          BY <3>2 DEF LinksKept
        <5>2. \A s \in DirPids : s \notin linked_processes'[r]
          BY <3>3, <5>1
        <5>3. linked_processes'[r] \subseteq DirPids
          BY <3>4 DEF DirectoryTyped
        <5> QED BY <5>2, <5>3
      <4>2. \A r \in DirPids : linked_processes'[r] \subseteq Spawned
        BY <3>2, <3>3, <3>4 DEF LinksKept, DirectoryTyped
      <4>3. \A r, s \in process_table : s \in linked_processes'[r] <=> r \in linked_processes'[s]
        BY <3>3 DEF LinksKept, DirectoryTyped
      <4> QED BY <2>0, <4>1, <4>2, <4>3 DEF LinksKept
    <3> QED BY <2>0, <3>4, <3>5 DEF NamesLead, CountersKept
  <2>3. CASE UnlinkPids(p, q)
    <3>1. linked_processes' = [r \in DirPids |->
             IF r \in process_table /\ r \in {p, q}
             THEN linked_processes[r] \ {s \in {p, q} : {r, s} = {p, q}}
             ELSE linked_processes[r]]
      BY <2>3 DEF UnlinkPids
    <3>2. \A r, s \in DirPids : s \in linked_processes'[r] <=>
              /\ s \in linked_processes[r]
              /\ ~ (r \in process_table /\ ((r = p /\ s = q) \/ (r = q /\ s = p)))
      BY <2>1, <3>1 DEF DirectoryTyped
    <3>3. \A r \in DirPids : linked_processes'[r] \subseteq linked_processes[r]
      BY <3>1
    <3>4. DirectoryTyped'
      BY <2>0, <3>1 DEF DirectoryTyped
    <3>5. LinksKept'
      <4>1. \A r \in DirPids \ Spawned : linked_processes'[r] = {}
        BY <3>3 DEF LinksKept
      <4>2. \A r \in DirPids : linked_processes'[r] \subseteq Spawned
        BY <3>3 DEF LinksKept
      <4>3. \A r, s \in process_table : s \in linked_processes'[r] <=> r \in linked_processes'[s]
        BY <3>2 DEF LinksKept, DirectoryTyped
      <4> QED BY <2>0, <4>1, <4>2, <4>3 DEF LinksKept
    <3> QED BY <2>0, <3>4, <3>5 DEF NamesLead, CountersKept
  <2> QED BY <1>7, <2>2, <2>3
<1>8. ASSUME NEW p \in DirPids, NEW w, WatchPid(w, p) \/ UnwatchPid(w, p) PROVE DirectoryIInv'
  BY <1>8 DEF WatchPid, UnwatchPid, DirectoryTyped, NamesLead, LinksKept, CountersKept
<1>9. CASE UNCHANGED directoryVars
  BY <1>9 DEF directoryVars, DirectoryTyped, NamesLead, LinksKept, CountersKept
<1> QED BY <1>1, <1>2, <1>3, <1>4, <1>5, <1>6, <1>7, <1>8, <1>9 DEF DirectoryNext

\* The directory of SPAM is sound: a known process is found under its name unless the
\* name changed hands, known processes agree on their links, and the counters agree
\* with the lists (spam/runtime.py, data.py, backend.py).
THEOREM DirectoryAlwaysSound == DirectorySpec => []DirectorySound
<1>1. DirectoryInit => DirectoryIInv
  <2> SUFFICES ASSUME DirectoryInit PROVE DirectoryIInv
    OBVIOUS
  <2>1. IsFiniteSet({}) /\ Cardinality({}) = 0 /\ DOMAIN <<>> = {}
    BY FS_EmptySet
  <2>2. DirectoryTyped
    BY <2>1 DEF DirectoryInit, Fresh, DirectoryTyped, Spawned
  <2> QED BY <2>1, <2>2 DEF DirectoryInit, Fresh, DirectoryIInv, NamesLead, LinksKept,
                            CountersKept, Spawned
<1>2. DirectoryIInv /\ [DirectoryNext]_directoryVars => DirectoryIInv'
  BY DirectoryStep
<1>3. DirectoryIInv => DirectorySound
  BY DirectoryInvSound
<1> QED BY <1>1, <1>2, <1>3, PTL DEF DirectorySpec
-----------------------------------------------------------------------------
(* OTP modules.                                                            *)

\* A non-empty set of numbers has a least one.
LEMMA LeastOf ==
    ASSUME NEW S \in SUBSET Nat, S # {}
    PROVE  \E x \in S : \A y \in S : x <= y
<1>1. PICK x \in S : \A y \in S : <<y, x>> \notin OpToRel(<, Nat)
  BY NatLessThanWellFounded, WFMin
<1>2. OpToRel(<, Nat) = {ss \in Nat \X Nat : ss[1] < ss[2]}
  BY DEF OpToRel
<1>3. \A y \in S : x <= y
  <2> SUFFICES ASSUME NEW y \in S PROVE x <= y
    OBVIOUS
  <2>1. <<y, x>> \in Nat \X Nat /\ x \in Nat /\ y \in Nat
    OBVIOUS
  <2>2. y < x => <<y, x>> \in {ss \in Nat \X Nat : ss[1] < ss[2]}
    BY <2>1
  <2>3. ~(y < x)
    BY <1>1, <1>2, <2>2
  <2> QED BY <2>1, <2>3
<1> QED BY <1>3

\* What a class statement can make.
Classes == [behavior  : Behaviors \cup {Plain, "unknown"},
            version   : {"well formed", "malformed", "absent"},
            base      : Nat \cup {NoClass},
            functions : UNION {Namespaces(b) : b \in Behaviors \cup {Plain, "unknown"}}]

\* The classes there are passed the checks and extend earlier ones only.
ClassesChecked ==
    /\ classes \in Seq(Classes)
    /\ \A c \in DOMAIN classes :
          /\ classes[c].base \in {NoClass} \cup 1 .. c - 1
          /\ Check(classes[c]) = "valid"

\* Every instance is one of a class with a start_link of its own.
InstancesStartable ==
    /\ instances \in Seq([class : Nat, at : {"init", "running", "ended"}])
    /\ \A i \in DOMAIN instances :
          instances[i].class \in DOMAIN classes /\ BehaviorOf(i) \in Startable

UnservedKnown == \A ask \in unserved : ask[1] \in DOMAIN classes

ModulesIInv == ClassesChecked /\ InstancesStartable /\ UnservedKnown /\ ContractsSuffice

\* What a class has, in terms of what the class it extends has.
AttributesIn(g, c) ==
    LET class == classes[c]
        own == class.functions
        inherited == IF class.base = NoClass THEN <<>> ELSE g[class.base]
    IN [f \in DOMAIN own \cup DOMAIN inherited |->
           IF f \in DOMAIN own THEN own[f] ELSE inherited[f]]

\* The class whose start_link a class has, in terms of that of the class it extends.
StarterIn(g, c) ==
    IF classes[c].behavior # Plain THEN c
    ELSE IF classes[c].base = NoClass THEN NoClass
    ELSE g[classes[c].base]

\* The attributes of a class are those the recursion says.
LEMMA AttributesAre ==
    ASSUME ClassesChecked
    PROVE  \A c \in DOMAIN classes : Attributes[c] = AttributesIn(Attributes, c)
<1> DEFINE n == Len(classes)
           Is(g, m) == g = [c \in 1 .. m |-> AttributesIn(g, c)]
           Bad == {m \in 0 .. n : ~ \E g : Is(g, m)}
<1>1. n \in Nat /\ DOMAIN classes = 1 .. n
  BY DEF ClassesChecked
<1>2. Bad = {}
  <2> SUFFICES ASSUME Bad # {} PROVE FALSE
    OBVIOUS
  <2>0. Bad \in SUBSET Nat
    BY <1>1
  <2>1. PICK m \in Bad : \A y \in Bad : m <= y
    <3> HIDE DEF Bad
    <3> QED BY <2>0, LeastOf
  <2>2. m # 0
    <3>1. Is(<<>>, 0)
      OBVIOUS
    <3> QED BY <3>1, <2>1
  <2>3. m - 1 \in 0 .. n /\ m - 1 \notin Bad /\ m \in 1 .. n
    BY <2>1, <2>2, <1>1
  <2>4. PICK g : Is(g, m - 1)
    BY <2>3
  <2> DEFINE h == [c \in 1 .. m |-> AttributesIn(g, c)]
  <2>5. \A c \in 1 .. m - 1 : h[c] = g[c]
    <3> SUFFICES ASSUME NEW c \in 1 .. m - 1 PROVE h[c] = g[c]
      OBVIOUS
    <3>1. c \in 1 .. m
      BY <2>3
    <3> QED BY <3>1, <2>4
  <2>6. ASSUME NEW c \in 1 .. m PROVE AttributesIn(g, c) = AttributesIn(h, c)
    <3>1. classes[c].base = NoClass \/ classes[c].base \in 1 .. m - 1
      BY <1>1, <2>3 DEF ClassesChecked
    <3> HIDE DEF h
    <3> QED BY <3>1, <2>5 DEF AttributesIn
  <2>7. Is(h, m)
    BY <2>6
  <2> QED BY <2>1, <2>7
<1>3. \E g : Is(g, n)
  BY <1>2, <1>1
<1>4. Attributes = CHOOSE g : Is(g, n)
  BY <1>1 DEF Attributes, AttributesIn
<1>5. Is(Attributes, n)
  BY <1>3, <1>4
<1> QED BY <1>1, <1>5

\* So is the class whose start_link a class has; it is one of the classes.
LEMMA StarterIs ==
    ASSUME ClassesChecked
    PROVE  \A c \in DOMAIN classes : Starter[c] \in {NoClass} \cup DOMAIN classes
<1> DEFINE n == Len(classes)
           Is(g, m) == g = [c \in 1 .. m |-> StarterIn(g, c)]
           Bad == {m \in 0 .. n : ~ \E g : Is(g, m)}
<1>1. n \in Nat /\ DOMAIN classes = 1 .. n
  BY DEF ClassesChecked
<1>2. Bad = {}
  <2> SUFFICES ASSUME Bad # {} PROVE FALSE
    OBVIOUS
  <2>0. Bad \in SUBSET Nat
    BY <1>1
  <2>1. PICK m \in Bad : \A y \in Bad : m <= y
    <3> HIDE DEF Bad
    <3> QED BY <2>0, LeastOf
  <2>2. m # 0
    <3>1. Is(<<>>, 0)
      OBVIOUS
    <3> QED BY <3>1, <2>1
  <2>3. m - 1 \in 0 .. n /\ m - 1 \notin Bad /\ m \in 1 .. n
    BY <2>1, <2>2, <1>1
  <2>4. PICK g : Is(g, m - 1)
    BY <2>3
  <2> DEFINE h == [c \in 1 .. m |-> StarterIn(g, c)]
  <2>5. \A c \in 1 .. m - 1 : h[c] = g[c]
    <3> SUFFICES ASSUME NEW c \in 1 .. m - 1 PROVE h[c] = g[c]
      OBVIOUS
    <3>1. c \in 1 .. m
      BY <2>3
    <3> QED BY <3>1, <2>4
  <2>6. ASSUME NEW c \in 1 .. m PROVE StarterIn(g, c) = StarterIn(h, c)
    <3>1. classes[c].base = NoClass \/ classes[c].base \in 1 .. m - 1
      BY <1>1, <2>3 DEF ClassesChecked
    <3> HIDE DEF h
    <3> QED BY <3>1, <2>5 DEF StarterIn
  <2>7. Is(h, m)
    BY <2>6
  <2> QED BY <2>1, <2>7
<1>3. \E g : Is(g, n)
  BY <1>2, <1>1
<1>4. Starter = CHOOSE g : Is(g, n)
  BY <1>1 DEF Starter, StarterIn
<1>5. Is(Starter, n)
  BY <1>3, <1>4
<1> DEFINE Lost == {c \in 1 .. n : Starter[c] \notin {NoClass} \cup 1 .. n}
<1>6. Lost = {}
  <2> SUFFICES ASSUME Lost # {} PROVE FALSE
    OBVIOUS
  <2>0. Lost \in SUBSET Nat
    BY <1>1
  <2>1. PICK c \in Lost : \A y \in Lost : c <= y
    <3> HIDE DEF Lost
    <3> QED BY <2>0, LeastOf
  <2>2. Starter[c] = StarterIn(Starter, c)
    BY <1>5, <2>1
  <2>3. classes[c].base = NoClass \/ classes[c].base \in 1 .. c - 1
    BY <1>1, <2>1 DEF ClassesChecked
  <2>4. \A b \in 1 .. c - 1 : Starter[b] \in {NoClass} \cup 1 .. n
    BY <1>1, <2>1
  <2> QED BY <2>1, <2>2, <2>3, <2>4, <1>1 DEF StarterIn
<1> QED BY <1>1, <1>6

\* A function of a class is a coroutine function or not.
LEMMA FunctionsAreOf ==
    ASSUME NEW class \in Classes
    PROVE  \A f \in DOMAIN class.functions : class.functions[f] \in {"sync", "async"}
<1>1. class.functions \in UNION {Namespaces(b) : b \in Behaviors \cup {Plain, "unknown"}}
  BY DEF Classes
<1>2. PICK b : class.functions \in Namespaces(b)
  BY <1>1
<1> QED BY <1>2 DEF Namespaces

\* A class with a behaviour that passed the checks has every callback of its contract, and
\* serves whatever function it defines.
LEMMA OwnServed ==
    ASSUME ClassesChecked, NEW c \in DOMAIN classes, classes[c].behavior \in Behaviors
    PROVE  /\ Contracts[classes[c].behavior] \subseteq DOMAIN classes[c].functions
           /\ \A name \in DOMAIN classes[c].functions : Served(c, name)
<1> DEFINE class == classes[c]
<1>1. class \in Classes
  BY DEF ClassesChecked
<1>2. class.behavior # Plain
  BY DEF Behaviors, Contracts, Plain
<1>3. Check(class) = "valid"
  BY DEF ClassesChecked
<1>4. Contracts[class.behavior] \subseteq DOMAIN class.functions /\ ~ HasSync(class.functions)
  BY <1>2, <1>3 DEF Check
<1>5. \A name \in DOMAIN class.functions : class.functions[name] = "async"
  BY <1>1, <1>4, FunctionsAreOf DEF HasSync
<1>6. \A name \in DOMAIN class.functions :
         name \in DOMAIN Attributes[c] /\ Attributes[c][name] = "async"
  <2>1. Attributes[c] = AttributesIn(Attributes, c)
    BY AttributesAre
  <2> QED BY <2>1, <1>5 DEF AttributesIn
<1> QED BY <1>4, <1>5, <1>6 DEF Served, Lookup

\* What a loop may ask of an instance: callbacks of its contract, and a gen_statem's
\* state handlers.
MayBeAsked(b) == Contracts[b] \cup (IF b = "gen_statem" THEN StateHandlers ELSE {})

LEMMA AskedOfContract ==
    ASSUME NEW b \in Startable
    PROVE  /\ b \in Behaviors
           /\ FirstAsked(b) \cup AskedWhileRunning(b) \cup AskedAtTheEnd(b) \subseteq MayBeAsked(b)
<1> USE DEF Behaviors, Contracts, FirstAsked, AskedWhileRunning, AskedAtTheEnd, MayBeAsked
<1>1. CASE b = "gen_server"
  BY <1>1
<1>2. CASE b = "supervisor"
  BY <1>2
<1>3. CASE b = "dynamic_supervisor"
  BY <1>3
<1>4. CASE b = "gen_statem"
  BY <1>4
<1>5. CASE b = "task"
  BY <1>5
<1> QED BY <1>1, <1>2, <1>3, <1>4, <1>5 DEF Startable

\* An instance that asks for what it may ask for gets it, or asked for a state handler
\* that its class does not define.
LEMMA AskedAndServed ==
    ASSUME ModulesIInv, NEW i \in DOMAIN instances, NEW names,
           names \subseteq MayBeAsked(BehaviorOf(i)),
           NEW next \in {"init", "running", "ended"}, Ask(i, names, next)
    PROVE  ModulesIInv'
<1>1. /\ instances[i].class \in DOMAIN classes /\ BehaviorOf(i) \in Behaviors
  BY AskedOfContract DEF ModulesIInv, InstancesStartable
<1> DEFINE c == instances[i].class
<1>2. ASSUME NEW n \in names, ~ Served(c, n)
      PROVE  classes[c].behavior = "gen_statem" /\ n \in StateHandlers \ DOMAIN classes[c].functions
  <2>1. Contracts[classes[c].behavior] \subseteq DOMAIN classes[c].functions
        /\ n \notin DOMAIN classes[c].functions
    BY <1>1, <1>2, OwnServed DEF ModulesIInv, BehaviorOf
  <2>2. n \in MayBeAsked(classes[c].behavior)
    BY DEF BehaviorOf
  <2> QED BY <2>1, <2>2 DEF MayBeAsked
<1>3. ContractsSuffice' /\ UnservedKnown'
  <2>1. UNCHANGED classes
        /\ unserved' = unserved \cup {<<c, n>> : n \in {n \in names : ~ Served(c, n)}}
    BY DEF Ask
  <2>2. \A ask \in unserved' :
           \/ ask \in unserved
           \/ ask[1] = c /\ ask[2] \in names /\ ~ Served(c, ask[2])
    BY <2>1
  <2> HIDE DEF c
  <2>3. \A ask \in unserved' :
           LET class == classes[ask[1]]
           IN /\ ask[1] \in DOMAIN classes
              /\ class.behavior = "gen_statem" /\ ask[2] \in StateHandlers \ DOMAIN class.functions
    BY <1>1, <1>2, <2>2 DEF ModulesIInv, ContractsSuffice, UnservedKnown, c
  <2> QED BY <2>1, <2>3 DEF ContractsSuffice, UnservedKnown
<1>4. ClassesChecked'
  BY DEF Ask, ModulesIInv, ClassesChecked, Check, HasSync
<1>5. /\ instances' \in Seq([class : Nat, at : {"init", "running", "ended"}])
      /\ DOMAIN instances' = DOMAIN instances
      /\ \A j \in DOMAIN instances : instances'[j].class = instances[j].class
  <2>1. instances \in Seq([class : Nat, at : {"init", "running", "ended"}])
    BY DEF ModulesIInv, InstancesStartable
  <2> DEFINE asking == [instances[i] EXCEPT !.at = next]
  <2>2. asking \in [class : Nat, at : {"init", "running", "ended"}] /\ asking.class = instances[i].class
    <3>1. instances[i] \in [class : Nat, at : {"init", "running", "ended"}]
      <4>1. i \in 1 .. Len(instances)
        BY ONLY <2>1, i \in DOMAIN instances, LenProperties
      <4> QED BY ONLY <2>1, <4>1, ElementOfSeq
    <3> QED BY ONLY <3>1, next \in {"init", "running", "ended"}
  <2>3. instances' = [instances EXCEPT ![i] = asking]
    BY DEF Ask
  <2> HIDE DEF asking
  <2> QED BY ONLY i \in DOMAIN instances, <2>1, <2>2, <2>3
<1>6. InstancesStartable'
  BY <1>5 DEF Ask, ModulesIInv, InstancesStartable, BehaviorOf
<1> QED BY <1>3, <1>4, <1>6 DEF ModulesIInv

\* A sequence with one element more.
LEMMA Appended ==
    ASSUME NEW S, NEW seq \in Seq(S), NEW e \in S
    PROVE  /\ Append(seq, e) \in Seq(S)
           /\ DOMAIN seq = 1 .. Len(seq) /\ Len(seq) \in Nat
           /\ DOMAIN Append(seq, e) = 1 .. Len(seq) + 1
           /\ \A k \in 1 .. Len(seq) : Append(seq, e)[k] = seq[k]
           /\ Append(seq, e)[Len(seq) + 1] = e
  OBVIOUS

\* A class that passed the checks joins the others.
LEMMA ClassDefined ==
    ASSUME ModulesIInv, NEW class \in Classes, class.base \in DOMAIN classes \cup {NoClass},
           Check(class) = "valid", classes' = Append(classes, class),
           UNCHANGED <<instances, unserved>>
    PROVE  ModulesIInv'
<1> DEFINE n == Len(classes)
<1>1. /\ classes' \in Seq(Classes)
      /\ DOMAIN classes = 1 .. n /\ n \in Nat
      /\ DOMAIN classes' = 1 .. n + 1
      /\ \A k \in 1 .. n : classes'[k] = classes[k]
      /\ classes'[n + 1] = class
  <2>1. classes \in Seq(Classes)
    BY DEF ModulesIInv, ClassesChecked
  <2> QED BY <2>1, Appended
<1> HIDE DEF n
<1>2. \A c \in 1 .. n : classes[c].base \in {NoClass} \cup 1 .. c - 1 /\ Check(classes[c]) = "valid"
  BY <1>1 DEF ModulesIInv, ClassesChecked
<1>3. class.base \in {NoClass} \cup 1 .. n
  BY <1>1
<1>4. ASSUME NEW c \in 1 .. n + 1
      PROVE  classes'[c].base \in {NoClass} \cup 1 .. c - 1 /\ Check(classes'[c]) = "valid"
  <2>1. CASE c \in 1 .. n
    BY <1>1, <1>2, <2>1
  <2>2. CASE c = n + 1
    <3>1. classes'[c] = class /\ c - 1 = n
      BY <1>1, <2>2
    <3> QED BY <3>1, <1>3
  <2>3. c \in 1 .. n \/ c = n + 1
    BY <1>1
  <2> QED BY <2>1, <2>2, <2>3
<1>5. ClassesChecked'
  BY <1>1, <1>4 DEF ClassesChecked, Check, HasSync
<1>6. \A c \in DOMAIN classes : c \in DOMAIN classes' /\ classes'[c] = classes[c]
  <2>1. \A c \in 1 .. n : c \in 1 .. n + 1
    BY <1>1
  <2> QED BY <2>1, <1>1
<1>7. InstancesStartable'
  BY <1>6 DEF ModulesIInv, InstancesStartable, BehaviorOf
<1>8. UnservedKnown' /\ ContractsSuffice'
  BY <1>6 DEF ModulesIInv, UnservedKnown, ContractsSuffice
<1> QED BY <1>5, <1>7, <1>8 DEF ModulesIInv

\* Every step keeps the invariant.
LEMMA ModulesStep == ModulesIInv /\ [ModulesNext]_moduleVars => ModulesIInv'
<1> SUFFICES ASSUME ModulesIInv, [ModulesNext]_moduleVars PROVE ModulesIInv'
  OBVIOUS
<1> USE ModulesAssumption
<1>0. /\ classes \in Seq(Classes)
      /\ instances \in Seq([class : Nat, at : {"init", "running", "ended"}])
      /\ Len(classes) \in Nat /\ DOMAIN classes = 1 .. Len(classes)
      /\ Len(instances) \in Nat /\ DOMAIN instances = 1 .. Len(instances)
  BY DEF ModulesIInv, ClassesChecked, InstancesStartable
<1>b. \A b \in DOMAIN classes \cup {NoClass} : b \in Nat \cup {NoClass}
  BY <1>0
<1>1. CASE DefineClass
  <2>1. PICK behavior \in Behaviors \cup {Plain, "unknown"},
             version \in {"well formed", "malformed", "absent"},
             base \in DOMAIN classes \cup {NoClass} :
        \E functions \in Namespaces(behavior) :
          LET class == [behavior |-> behavior, version |-> version, base |-> base,
                        functions |-> functions]
          IN IF Check(class) = "valid"
               THEN classes' = Append(classes, class) /\ UNCHANGED refused
               ELSE refused' = refused \cup {Check(class)} /\ UNCHANGED classes
    BY <1>1 DEF DefineClass
  <2>2. PICK functions \in Namespaces(behavior) :
          LET class == [behavior |-> behavior, version |-> version, base |-> base,
                        functions |-> functions]
          IN IF Check(class) = "valid"
               THEN classes' = Append(classes, class) /\ UNCHANGED refused
               ELSE refused' = refused \cup {Check(class)} /\ UNCHANGED classes
    BY <2>1
  <2> DEFINE class == [behavior |-> behavior, version |-> version, base |-> base,
                       functions |-> functions]
  <2>3. class \in Classes
    <3>1. functions \in UNION {Namespaces(b) : b \in Behaviors \cup {Plain, "unknown"}}
      BY <2>2
    <3>2. base \in Nat \cup {NoClass}
      BY <1>b, Zenon
    <3> QED BY <3>1, <3>2 DEF Classes
  <2>4. class.base \in DOMAIN classes \cup {NoClass}
    OBVIOUS
  <2>5. UNCHANGED <<instances, unserved>>
    BY <1>1 DEF DefineClass
  <2>6. CASE Check(class) = "valid"
    <3>1. classes' = Append(classes, class)
      BY <2>2, <2>6
    <3> QED BY <3>1, <2>3, <2>4, <2>5, <2>6, ClassDefined
  <2>7. CASE Check(class) # "valid"
    <3>1. UNCHANGED classes
      BY <2>2, <2>7
    <3> QED BY <3>1, <2>5 DEF ModulesIInv, ContractsSuffice, UnservedKnown, ClassesChecked,
                InstancesStartable, BehaviorOf, Check, HasSync
  <2> QED BY <2>6, <2>7
<1>2. ASSUME NEW c \in DOMAIN classes, StartLink(c) PROVE ModulesIInv'
  <2> DEFINE starter == Starter[c]
  <2>1. starter \in {NoClass} \cup DOMAIN classes
    BY StarterIs DEF ModulesIInv
  <2>2. UNCHANGED <<classes, unserved>>
    BY <1>2 DEF StartLink
  <2>3. \/ UNCHANGED instances
        \/ /\ starter \in DOMAIN classes /\ classes[starter].behavior \in Startable
           /\ instances' = Append(instances, [class |-> starter, at |-> "init"])
    BY <1>2, <2>1 DEF StartLink
  <2>4. CASE UNCHANGED instances
    BY <2>2, <2>4 DEF ModulesIInv, ContractsSuffice, UnservedKnown, ClassesChecked,
                InstancesStartable, BehaviorOf, Check, HasSync
  <2>5. CASE /\ starter \in DOMAIN classes /\ classes[starter].behavior \in Startable
             /\ instances' = Append(instances, [class |-> starter, at |-> "init"])
    <3> HIDE DEF starter
    <3>1. /\ instances' \in Seq([class : Nat, at : {"init", "running", "ended"}])
          /\ DOMAIN instances' = 1 .. Len(instances) + 1
          /\ \A i \in DOMAIN instances : instances'[i] = instances[i]
          /\ instances'[Len(instances) + 1].class = starter
      BY <1>0, <2>5
    <3>2. ASSUME NEW i \in DOMAIN instances'
          PROVE  instances'[i].class \in DOMAIN classes /\
                 classes[instances'[i].class].behavior \in Startable
      <4>1. CASE i \in DOMAIN instances
        BY <3>1, <4>1 DEF ModulesIInv, InstancesStartable, BehaviorOf
      <4>2. CASE i = Len(instances) + 1
        BY <3>1, <4>2, <2>5
      <4> QED BY <4>1, <4>2, <3>1, <1>0
    <3>3. InstancesStartable'
      BY <3>1, <3>2, <2>2 DEF InstancesStartable, BehaviorOf
    <3> QED BY <3>3, <2>2 DEF ModulesIInv, ContractsSuffice, UnservedKnown, ClassesChecked, Check, HasSync
  <2> QED BY <2>3, <2>4, <2>5
<1>3. ASSUME NEW i \in DOMAIN instances, RunInit(i) \/ Handle(i) \/ RunTerminate(i)
      PROVE  ModulesIInv'
  <2>1. /\ FirstAsked(BehaviorOf(i)) \subseteq MayBeAsked(BehaviorOf(i))
        /\ AskedWhileRunning(BehaviorOf(i)) \subseteq MayBeAsked(BehaviorOf(i))
        /\ AskedAtTheEnd(BehaviorOf(i)) \subseteq MayBeAsked(BehaviorOf(i))
    BY AskedOfContract DEF ModulesIInv, InstancesStartable
  <2>2. CASE RunInit(i)
    BY <2>1, <2>2, AskedAndServed DEF RunInit
  <2>3. CASE Handle(i)
    <3>1. PICK name \in AskedWhileRunning(BehaviorOf(i)), next \in {"running", "ended"} :
             Ask(i, {name}, next)
      BY <2>3 DEF Handle
    <3>2. {name} \subseteq MayBeAsked(BehaviorOf(i))
      BY <2>1, <3>1
    <3> QED BY <3>1, <3>2, AskedAndServed
  <2>4. CASE RunTerminate(i)
    BY <2>1, <2>4, AskedAndServed DEF RunTerminate
  <2> QED BY <1>3, <2>2, <2>3, <2>4
<1>4. CASE UNCHANGED moduleVars
  BY <1>4 DEF moduleVars, ModulesIInv, ContractsSuffice, UnservedKnown, ClassesChecked,
                InstancesStartable, BehaviorOf, Check, HasSync
<1> QED BY <1>1, <1>2, <1>3, <1>4 DEF ModulesNext

\* The metaclass's checks are enough for the loops: whatever start_link starts, also of a
\* class that inherited it, serves all that it is asked for, but for the state handlers
\* that the class of a gen_statem does not define (module/core.py, gen_statem/core.py).
THEOREM ContractsAlwaysSuffice == ModulesSpec => []ContractsSuffice
<1>1. ModulesInit => ModulesIInv
  BY DEF ModulesInit, ModulesIInv, ClassesChecked, InstancesStartable, ContractsSuffice,
         UnservedKnown
<1>2. ModulesIInv /\ [ModulesNext]_moduleVars => ModulesIInv'
  BY ModulesStep
<1>3. ModulesIInv => ContractsSuffice
  BY DEF ModulesIInv
<1> QED BY <1>1, <1>2, <1>3, PTL DEF ModulesSpec

-----------------------------------------------------------------------------
(* Members of a sequence counted.                                          *)

Tally(s, m) == Cardinality({i \in DOMAIN s : s[i] = m})

\* Concatenation, head and tail.
LEMMA SeqFacts ==
  ASSUME NEW S, NEW s \in Seq(S), NEW t \in Seq(S)
  PROVE  /\ s \o t \in Seq(S)
         /\ DOMAIN (s \o t) = 1 .. (Len(s) + Len(t))
         /\ \A k \in DOMAIN (s \o t) :
               (s \o t)[k] = IF k <= Len(s) THEN s[k] ELSE t[k - Len(s)]
  OBVIOUS

\* A message is a number of times in a sequence.
LEMMA TallyType ==
  ASSUME NEW S, NEW m, NEW s \in Seq(S)
  PROVE  IsFiniteSet({i \in DOMAIN s : s[i] = m}) /\ Tally(s, m) \in Nat
<1>1. IsFiniteSet(1 .. Len(s)) /\ DOMAIN s = 1 .. Len(s)
  BY FS_Interval
<1>2. {i \in DOMAIN s : s[i] = m} \in SUBSET (1 .. Len(s))
  BY <1>1
<1> QED
  BY <1>1, <1>2, FS_Subset, FS_CardinalityType DEF Tally

\* The tallies of two sequences add up.
LEMMA TallyConcat ==
  ASSUME NEW S, NEW m, NEW s \in Seq(S), NEW t \in Seq(S)
  PROVE  Tally(s \o t, m) = Tally(s, m) + Tally(t, m)
<1> DEFINE n == Len(s)
           A == {i \in DOMAIN s : s[i] = m}
           B == {i \in DOMAIN t : t[i] = m}
           C == {i \in DOMAIN (s \o t) : (s \o t)[i] = m}
           D == {i \in C : i > n}
           f == [i \in B |-> i + n]
<1>1. /\ n \in Nat /\ Len(t) \in Nat /\ DOMAIN s = 1 .. n /\ DOMAIN t = 1 .. Len(t)
      /\ DOMAIN (s \o t) = 1 .. n + Len(t)
      /\ \A i \in 1 .. n + Len(t) : (s \o t)[i] = IF i <= n THEN s[i] ELSE t[i - n]
  BY SeqFacts
<1>2. IsFiniteSet(A) /\ IsFiniteSet(B) /\ Cardinality(A) \in Nat /\ Cardinality(B) \in Nat
  BY TallyType DEF Tally
<1>3. ASSUME NEW i \in B PROVE i + n \in D
  <2>1. i \in 1 .. Len(t) /\ i + n \in 1 .. n + Len(t) /\ i + n > n /\ (i + n) - n = i
    BY <1>1
  <2>2. (s \o t)[i + n] = t[i]
    BY <1>1, <2>1
  <2> QED BY <1>1, <2>1, <2>2
<1>4. ASSUME NEW i \in D PROVE i - n \in B /\ (i - n) + n = i
  <2>1. i \in 1 .. n + Len(t) /\ i > n /\ i - n \in 1 .. Len(t) /\ (i - n) + n = i
    BY <1>1
  <2>2. (s \o t)[i] = t[i - n]
    BY <1>1, <2>1
  <2> QED BY <1>1, <2>1, <2>2
<1>5. A \cup D = C /\ A \cap D = {}
  BY <1>1
<1>6. ExistsBijection(B, D)
  <2>1. B \subseteq Nat /\ D \subseteq Nat
    BY <1>1
  <2> HIDE DEF B, D
  <2>2. f \in [B -> D]
    BY <1>3
  <2>3. \A a, b \in B : f[a] = f[b] => a = b
    BY <1>1, <2>1
  <2>4. \A d \in D : \E b \in B : f[b] = d
    BY <1>4
  <2>5. f \in Bijection(B, D)
    BY <2>2, <2>3, <2>4 DEF Bijection, Injection, Surjection, IsInjective
  <2> QED BY <2>5 DEF ExistsBijection
<1>7. IsFiniteSet(D) /\ Cardinality(D) = Cardinality(B)
  BY <1>2, <1>6, FS_Bijection
<1> HIDE DEF A, B, C, D
<1>8. Cardinality(C) = Cardinality(A) + Cardinality(B)
  <2>1. Cardinality(A \cup D) = Cardinality(A) + Cardinality(D) - Cardinality(A \cap D)
    BY <1>2, <1>7, FS_Union
  <2>2. Cardinality(A \cap D) = 0
    BY <1>5, FS_EmptySet
  <2>3. Cardinality(C) = Cardinality(A \cup D)
    BY <1>5
  <2> QED BY <1>2, <1>7, <2>1, <2>2, <2>3
<1> QED
  BY <1>8 DEF A, B, C, Tally

\* The tallies of the shortest sequences.
LEMMA TallyOne ==
  ASSUME NEW m, NEW x
  PROVE  Tally(<<>>, m) = 0 /\ Tally(<<x>>, m) = IF m = x THEN 1 ELSE 0
<1>1. Tally(<<>>, m) = 0
  <2>1. {i \in DOMAIN <<>> : <<>>[i] = m} = {}
    OBVIOUS
  <2> QED BY <2>1, FS_EmptySet DEF Tally
<1>2. Tally(<<x>>, m) = IF m = x THEN 1 ELSE 0
  <2>1. {i \in DOMAIN <<x>> : <<x>>[i] = m} = IF m = x THEN {1} ELSE {}
    OBVIOUS
  <2> QED BY <2>1, FS_EmptySet, FS_Singleton DEF Tally
<1> QED BY <1>1, <1>2

\* A letter more at the end.
LEMMA TallyAppend ==
  ASSUME NEW S, NEW m, NEW s \in Seq(S), NEW x \in S
  PROVE  /\ Append(s, x) \in Seq(S)
         /\ Tally(Append(s, x), m) = Tally(s, m) + IF m = x THEN 1 ELSE 0
<1>1. Append(s, x) = s \o <<x>> /\ <<x>> \in Seq(S) /\ Append(s, x) \in Seq(S)
  OBVIOUS
<1>2. Tally(s \o <<x>>, m) = Tally(s, m) + Tally(<<x>>, m)
  BY <1>1, TallyConcat
<1> QED BY <1>1, <1>2, TallyOne

\* A letter less at the front.
LEMMA TallyTail ==
  ASSUME NEW S, NEW m, NEW s \in Seq(S), s # <<>>
  PROVE  /\ Head(s) \in S /\ Tail(s) \in Seq(S)
         /\ Tally(s, m) = Tally(Tail(s), m) + IF m = Head(s) THEN 1 ELSE 0
<1>1. /\ Head(s) \in S /\ <<Head(s)>> \in Seq(S) /\ Tail(s) \in Seq(S)
      /\ s = <<Head(s)>> \o Tail(s)
  OBVIOUS
<1>2. Tally(s, m) = Tally(<<Head(s)>>, m) + Tally(Tail(s), m)
  BY <1>1, TallyConcat
<1>3. Tally(Tail(s), m) \in Nat
  BY <1>1, TallyType
<1> QED BY <1>1, <1>2, <1>3, TallyOne

-----------------------------------------------------------------------------
(* Starts of processes: letters counted.                                   *)

StartKinds == [behavior : StartBehaviors, linked : BOOLEAN]
Fates == {"absent", "init", "up", "failed", "killed"}
Errors == {"RuntimeError", "UnboundLocalError"}
Results == {"none", "pid", "unexpected", "TimeoutError"} \cup Errors
Letters == {Ok(k) : k \in StartIds} \cup {Failed(k) : k \in StartIds}
             \cup {ExitOf(k) : k \in StartIds} \cup {Other(m) : m \in OtherMail}

Once(m, S) == IF m \in S THEN 1 ELSE 0

\* Where the copies of a letter are.
LEMMA CopiesAre ==
  ASSUME NEW m
  PROVE  Copies(m) = Tally(letters, m) + Tally(kept, m) + Once(m, read) + Once(m, swallowed)
  BY DEF Copies, Tally, Once

-----------------------------------------------------------------------------
(* Starts of processes: the inductive invariant.                           *)

StartsTyped ==
    /\ traps \in BOOLEAN /\ gone \in BOOLEAN
    /\ starts \in Seq(StartKinds) /\ Len(starts) <= MaxStarts
    /\ waiting \in {0, Len(starts)}
    /\ spawned \in [StartIds -> Fates] /\ outcome \in [StartIds -> Results]
    /\ arrived \subseteq OtherMail
MailTyped ==
    /\ letters \in Seq(Letters) /\ kept \in Seq(Letters)
    /\ read \subseteq Letters /\ swallowed \subseteq Letters

\* The starts made are those with a process; all but the one it waits in have an outcome.
InTurn ==
    /\ waiting = 0 => kept = <<>>
    /\ gone => waiting = 0 /\ letters = <<>>
    /\ \A k \in StartIds : spawned[k] = "absent" <=> k > Len(starts)
    /\ \A k \in StartIds : k > Len(starts) \/ k = waiting => outcome[k] = "none"
    /\ ~gone => \A k \in StartIds : k <= Len(starts) /\ k # waiting => outcome[k] # "none"

\* A letter is somewhere at most once, and only after it was sent.
LettersOnce ==
    /\ \A m \in Letters : Copies(m) <= 1
    /\ \A m \in OtherMail : m \notin arrived => Copies(Other(m)) = 0
    /\ ~gone => \A m \in arrived : Copies(Other(m)) = 1

\* What a start took for its own word is nowhere any more.
WordsTrue ==
    \A k \in StartIds :
        /\ Copies(Ok(k)) # 0 => spawned[k] \in {"up", "killed"} /\ outcome[k] # "pid"
        /\ Copies(Failed(k)) # 0 => spawned[k] = "failed" /\ outcome[k] \notin Errors
        /\ Copies(ExitOf(k)) # 0 => spawned[k] = "killed"
        /\ outcome[k] = "pid" => spawned[k] \in {"up", "killed"}
        /\ outcome[k] \in Errors => spawned[k] = "failed"

\* A gen_server's start fails over a reply, and only after another start timed out.
OverLateReply(k) ==
    starts[k].behavior = "gen_server" => \E j \in 1 .. k - 1 : outcome[j] = "TimeoutError"
LatesKnown ==
    /\ \A k \in StartIds :
          outcome[k] = "unexpected" => OverLateReply(k) /\ starts[k].behavior # "gen_statem"
    /\ \A m \in swallowed :
          \E k \in StartIds :
             outcome[k] = "unexpected" /\ (starts[k].behavior = "gen_server" => IsReply(m))

StartsIInv == StartsTyped /\ MailTyped /\ InTurn /\ LettersOnce /\ WordsTrue /\ LatesKnown

\* A letter is a number of times somewhere.
LEMMA CopiesType == ASSUME MailTyped, NEW m PROVE Copies(m) \in Nat
<1>1. Tally(letters, m) \in Nat /\ Tally(kept, m) \in Nat
  BY TallyType DEF MailTyped
<1> QED BY <1>1, CopiesAre DEF Once

\* What the letters are, and that no two kinds are the same.
LEMMA LettersAre ==
  /\ \A k \in StartIds : Ok(k) \in Letters /\ Failed(k) \in Letters /\ ExitOf(k) \in Letters
  /\ \A m \in OtherMail : Other(m) \in Letters
  /\ \A k, j : /\ Ok(k) # Failed(j) /\ Ok(k) # ExitOf(j) /\ Ok(k) # Other(j)
               /\ Failed(k) # ExitOf(j) /\ Failed(k) # Other(j) /\ ExitOf(k) # Other(j)
               /\ (Ok(k) = Ok(j) => k = j) /\ (Failed(k) = Failed(j) => k = j)
               /\ (ExitOf(k) = ExitOf(j) => k = j) /\ (Other(k) = Other(j) => k = j)
<1>1. /\ \A k \in StartIds : Ok(k) \in Letters /\ Failed(k) \in Letters /\ ExitOf(k) \in Letters
      /\ \A m \in OtherMail : Other(m) \in Letters
  BY DEF Letters
<1>2. ASSUME NEW k, NEW j
      PROVE  /\ Ok(k) # Failed(j) /\ Ok(k) # ExitOf(j) /\ Ok(k) # Other(j)
             /\ Failed(k) # ExitOf(j) /\ Failed(k) # Other(j) /\ ExitOf(k) # Other(j)
             /\ (Ok(k) = Ok(j) => k = j) /\ (Failed(k) = Failed(j) => k = j)
             /\ (ExitOf(k) = ExitOf(j) => k = j) /\ (Other(k) = Other(j) => k = j)
  BY DEF Ok, Failed, ExitOf, Other
<1> QED BY <1>1, <1>2

\* A letter that is posted is there once more.
LEMMA PostAdds ==
  ASSUME MailTyped, NEW x \in Letters, Post(x), UNCHANGED <<kept, read, swallowed>>
  PROVE  /\ MailTyped'
         /\ \A m : Copies(m)' = Copies(m) + IF ~gone /\ m = x THEN 1 ELSE 0
<1>1. MailTyped'
  BY DEF MailTyped, Post
<1>2. ASSUME NEW m PROVE Copies(m)' = Copies(m) + IF ~gone /\ m = x THEN 1 ELSE 0
  <2>1. CASE gone
    <3>1. letters' = letters
      BY <2>1 DEF Post
    <3>2. Copies(m)' = Copies(m)
      BY <3>1 DEF Copies
    <3> QED BY <2>1, <3>2, CopiesType
  <2>2. CASE ~gone
    <3>1. Tally(letters', m) = Tally(letters, m) + IF m = x THEN 1 ELSE 0
      BY <2>2, TallyAppend DEF MailTyped, Post
    <3>2. Copies(m)' = Tally(letters', m) + Tally(kept, m) + Once(m, read) + Once(m, swallowed)
      BY DEF Copies, Tally, Once
    <3>3. Tally(letters, m) \in Nat /\ Tally(kept, m) \in Nat
      BY TallyType DEF MailTyped
    <3> QED BY <3>1, <3>2, <3>3, <2>2, CopiesAre DEF Once
  <2> QED BY <2>1, <2>2
<1> QED BY <1>1, <1>2

\* The first letter is nowhere else.
LEMMA HeadOnce ==
  ASSUME MailTyped, LettersOnce, letters # <<>>
  PROVE  /\ Head(letters) \in Letters /\ Tail(letters) \in Seq(Letters)
         /\ \A m : Tally(letters, m) = Tally(Tail(letters), m) + IF m = Head(letters) THEN 1 ELSE 0
         /\ Tally(Tail(letters), Head(letters)) = 0 /\ Tally(kept, Head(letters)) = 0
         /\ Head(letters) \notin read /\ Head(letters) \notin swallowed
         /\ Copies(Head(letters)) = 1
<1> DEFINE h == Head(letters)
<1>1. /\ h \in Letters /\ Tail(letters) \in Seq(Letters)
      /\ \A m : Tally(letters, m) = Tally(Tail(letters), m) + IF m = h THEN 1 ELSE 0
  BY TallyTail DEF MailTyped
<1>2. Copies(h) <= 1
  BY <1>1 DEF LettersOnce
<1>3. Tally(Tail(letters), h) \in Nat /\ Tally(kept, h) \in Nat
  BY <1>1, TallyType DEF MailTyped
<1>4. Copies(h) = Tally(letters, h) + Tally(kept, h) + Once(h, read) + Once(h, swallowed)
  BY CopiesAre
<1>5. Tally(letters, h) = Tally(Tail(letters), h) + 1
  BY <1>1
<1> HIDE DEF h
<1>6. /\ Tally(Tail(letters), h) = 0 /\ Tally(kept, h) = 0
      /\ h \notin read /\ h \notin swallowed /\ Copies(h) = 1
  BY <1>2, <1>3, <1>4, <1>5 DEF Once
<1> QED BY <1>1, <1>6 DEF h

\* A start that waits on keeps the letter.
LEMMA KeepMoves ==
  ASSUME MailTyped, LettersOnce, letters # <<>>, UNCHANGED <<read, swallowed>>,
         kept' = Append(kept, Head(letters)), letters' = Tail(letters)
  PROVE  MailTyped' /\ \A m : Copies(m)' = Copies(m)
<1>1. MailTyped'
  BY HeadOnce DEF MailTyped
<1>2. ASSUME NEW m PROVE Copies(m)' = Copies(m)
  <2>1. Tally(kept', m) = Tally(kept, m) + IF m = Head(letters) THEN 1 ELSE 0
    BY HeadOnce, TallyAppend DEF MailTyped
  <2>2. Tally(letters, m) = Tally(letters', m) + IF m = Head(letters) THEN 1 ELSE 0
    BY HeadOnce
  <2>3. Copies(m)' = Tally(letters', m) + Tally(kept', m) + Once(m, read) + Once(m, swallowed)
    BY DEF Copies, Tally, Once
  <2>4. Tally(letters', m) \in Nat /\ Tally(kept, m) \in Nat
    BY <1>1, TallyType DEF MailTyped
  <2> QED BY <2>1, <2>2, <2>3, <2>4, CopiesAre DEF Once
<1> QED BY <1>1, <1>2

\* A start that is over sends again what it kept; the letter that ended it is gone, or
\* swallowed.
LEMMA EndMoves ==
  ASSUME MailTyped, LettersOnce, letters # <<>>, UNCHANGED read,
         kept' = <<>>, letters' = Tail(letters) \o kept,
         NEW lost \in BOOLEAN,
         swallowed' = IF lost THEN swallowed \cup {Head(letters)} ELSE swallowed
  PROVE  /\ MailTyped'
         /\ \A m : Copies(m)' = IF m = Head(letters) /\ ~lost THEN 0 ELSE Copies(m)
<1>1. MailTyped'
  BY HeadOnce DEF MailTyped
<1>2. ASSUME NEW m
      PROVE Copies(m)' = IF m = Head(letters) /\ ~lost THEN 0 ELSE Copies(m)
  <2>1. Tally(letters', m) = Tally(Tail(letters), m) + Tally(kept, m) /\ Tally(kept', m) = 0
    <3>1. Tail(letters) \in Seq(Letters) /\ kept \in Seq(Letters)
      BY HeadOnce DEF MailTyped
    <3>2. Tally(Tail(letters) \o kept, m) = Tally(Tail(letters), m) + Tally(kept, m)
      BY ONLY <3>1, TallyConcat
    <3> QED BY <3>2, TallyOne
  <2>2. Copies(m)' = Tally(letters', m) + Tally(kept', m) + Once(m, read) + Once(m, swallowed')
    BY DEF Copies, Tally, Once
  <2>3. Tally(Tail(letters), m) \in Nat /\ Tally(kept, m) \in Nat
    BY HeadOnce, TallyType DEF MailTyped
  <2>4. CASE m = Head(letters)
    <3>1. /\ Tally(Tail(letters), m) = 0 /\ Tally(kept, m) = 0 /\ Copies(m) = 1
          /\ m \notin read /\ m \notin swallowed
      BY <2>4, HeadOnce
    <3>2. Once(m, swallowed') = IF lost THEN 1 ELSE 0
      BY <2>4, <3>1 DEF Once
    <3>3. Once(m, read) = 0
      BY <3>1 DEF Once
    <3> QED BY <3>1, <3>2, <3>3, <2>1, <2>2, <2>4
  <2>5. CASE m # Head(letters)
    <3>1. Tally(letters, m) = Tally(Tail(letters), m)
      BY <2>3, <2>5, HeadOnce
    <3>2. Once(m, swallowed') = Once(m, swallowed)
      BY <2>5 DEF Once
    <3>3. Once(m, read) \in Nat /\ Once(m, swallowed) \in Nat
      BY DEF Once
    <3> QED BY <3>1, <3>2, <3>3, <2>1, <2>2, <2>3, <2>5, CopiesAre
  <2> QED BY <2>4, <2>5
<1> QED BY <1>1, <1>2

\* A start that times out sends again what it kept.
LEMMA TimeoutMoves ==
  ASSUME MailTyped, letters = <<>>, UNCHANGED <<read, swallowed>>,
         kept' = <<>>, letters' = <<>> \o kept
  PROVE  MailTyped' /\ \A m : Copies(m)' = Copies(m)
<1>1. letters' = kept
  BY DEF MailTyped
<1>2. MailTyped'
  BY <1>1 DEF MailTyped
<1>3. ASSUME NEW m PROVE Copies(m)' = Copies(m)
  <2>1. Copies(m)' = Tally(letters', m) + Tally(kept', m) + Once(m, read) + Once(m, swallowed)
    BY DEF Copies, Tally, Once
  <2>2. Tally(letters, m) = 0 /\ Tally(kept', m) = 0 /\ Tally(letters', m) = Tally(kept, m)
    BY <1>1, TallyOne
  <2>3. Tally(kept, m) \in Nat
    BY TallyType DEF MailTyped
  <2> QED BY <2>1, <2>2, <2>3, CopiesAre DEF Once
<1> QED BY <1>2, <1>3

\* The starter's own code takes a letter.
LEMMA ReadMoves ==
  ASSUME MailTyped, LettersOnce, letters # <<>>, UNCHANGED <<kept, swallowed>>,
         read' = read \cup {Head(letters)}, letters' = Tail(letters)
  PROVE  MailTyped' /\ \A m : Copies(m)' = Copies(m)
<1>1. MailTyped'
  BY HeadOnce DEF MailTyped
<1>2. ASSUME NEW m PROVE Copies(m)' = Copies(m)
  <2>1. Tally(letters, m) = Tally(letters', m) + IF m = Head(letters) THEN 1 ELSE 0
    BY HeadOnce
  <2>2. Once(m, read') = Once(m, read) + IF m = Head(letters) THEN 1 ELSE 0
    BY HeadOnce DEF Once
  <2>3. Copies(m)' = Tally(letters', m) + Tally(kept, m) + Once(m, read') + Once(m, swallowed)
    BY DEF Copies, Tally, Once
  <2>4. Tally(letters', m) \in Nat /\ Tally(kept, m) \in Nat
    BY <1>1, TallyType DEF MailTyped
  <2> QED BY <2>1, <2>2, <2>3, <2>4, CopiesAre DEF Once
<1> QED BY <1>1, <1>2

\* A starter that is taken along loses its mailbox.
LEMMA GoneMoves ==
  ASSUME MailTyped, UNCHANGED <<read, swallowed>>, kept' = <<>>, letters' = <<>>
  PROVE  MailTyped' /\ \A m : Copies(m)' \in Nat /\ Copies(m)' <= Copies(m)
<1>1. MailTyped'
  BY DEF MailTyped
<1>2. ASSUME NEW m PROVE Copies(m)' \in Nat /\ Copies(m)' <= Copies(m)
  <2>1. Copies(m)' = Tally(letters', m) + Tally(kept', m) + Once(m, read) + Once(m, swallowed)
    BY DEF Copies, Tally, Once
  <2>2. Tally(kept', m) = 0 /\ Tally(letters', m) = 0
    BY TallyOne
  <2>3. Tally(kept, m) \in Nat /\ Tally(letters, m) \in Nat
    BY TallyType DEF MailTyped
  <2> QED BY <2>1, <2>2, <2>3, CopiesAre DEF Once
<1> QED BY <1>1, <1>2

-----------------------------------------------------------------------------
(* Starts of processes: every step keeps the invariant.                    *)

\* What the start that waits is, and what its verdict on a letter says.
LEMMA VerdictIs ==
  ASSUME NEW k \in StartIds, NEW m \in Letters, starts[k].behavior \in StartBehaviors
  PROVE  /\ Verdict(k, m) \in {"pid", "keep", "unexpected"} \cup Errors
         /\ Verdict(k, m) = "pid" => m = Ok(k)
         /\ Verdict(k, m) \in Errors => m = Failed(k)
         /\ Verdict(k, m) = "unexpected" =>
               /\ starts[k].behavior # "gen_statem"
               /\ starts[k].behavior = "gen_server" =>
                     IsReply(m) /\ m.start # k /\ starts[m.start].behavior = "gen_server"
  BY DEF Verdict, GenServerStart, GenStatemStart, SupervisorStart, DynamicSupervisorStart,
         TaskStart, OwnWord, StartBehaviors, Errors

\* A step that leaves the starts, their outcomes and what was swallowed alone.
LEMMA LatesStay ==
  ASSUME LatesKnown, UNCHANGED <<starts, outcome, swallowed>>
  PROVE  LatesKnown'
  BY DEF LatesKnown, OverLateReply

\* Which letters there are says nothing new when no letter is more and no fate changes.
LEMMA WordsStay ==
  ASSUME StartsTyped, MailTyped, WordsTrue, UNCHANGED <<spawned, outcome>>,
         \A m \in Letters : Copies(m)' = Copies(m)
  PROVE  WordsTrue'
  BY LettersAre DEF WordsTrue

\* The starter makes a start.
LEMMA BeginKeeps ==
  ASSUME StartsIInv, NEW b \in StartBehaviors, NEW l \in BOOLEAN, BeginStart(b, l)
  PROVE  StartsIInv'
<1> USE StartersAssumption
<1> DEFINE n == Len(starts) + 1
           new == [behavior |-> b, linked |-> l]
<1>1. /\ n \in StartIds /\ Len(starts) \in Nat /\ new \in StartKinds /\ ~gone /\ waiting = 0
      /\ waiting' = n /\ spawned' = [spawned EXCEPT ![n] = "init"]
      /\ starts' = Append(starts, new)
  BY DEF StartsIInv, StartsTyped, BeginStart, StartIds, StartKinds
<1>2. /\ starts' \in Seq(StartKinds) /\ Len(starts') = n
      /\ \A k \in 1 .. Len(starts) : starts'[k] = starts[k]
  BY <1>1 DEF StartsIInv, StartsTyped
<1>3. \A m : Copies(m)' = Copies(m)
  BY DEF BeginStart, Copies
<1> HIDE DEF n, new
<1>4. StartsTyped'
  BY <1>1, <1>2 DEF StartsIInv, StartsTyped, BeginStart, StartIds, Fates
<1>5. MailTyped'
  BY DEF StartsIInv, MailTyped, BeginStart
<1>6. InTurn'
  <2>1. \A k \in StartIds : spawned'[k] = "absent" <=> k > n
    BY <1>1 DEF StartsIInv, StartsTyped, InTurn, StartIds, Fates, n
  <2>2. \A k \in StartIds : k > n \/ k = n => outcome[k] = "none"
    BY <1>1 DEF StartsIInv, InTurn, StartIds, n
  <2>3. \A k \in StartIds : k <= n /\ k # n => outcome[k] # "none"
    BY <1>1 DEF StartsIInv, InTurn, StartIds, n
  <2> QED BY <1>1, <1>2, <2>1, <2>2, <2>3 DEF InTurn, BeginStart
<1>7. LettersOnce'
  BY <1>3 DEF StartsIInv, LettersOnce, BeginStart
<1>8. WordsTrue'
  <2>1. spawned[n] = "absent" /\ outcome' = outcome
    BY <1>1 DEF StartsIInv, InTurn, BeginStart, n, StartIds
  <2>2. ASSUME NEW k \in StartIds
        PROVE  spawned'[k] = spawned[k] \/ (spawned[k] = "absent" /\ spawned'[k] = "init")
    BY <1>1, <2>1 DEF StartsIInv, StartsTyped
  <2> QED BY <1>3, <2>1, <2>2 DEF StartsIInv, WordsTrue, Errors
<1>9. LatesKnown'
  <2>1. \A k \in StartIds : outcome[k] # "none" => k \in 1 .. Len(starts)
    BY <1>1 DEF StartsIInv, InTurn, StartIds
  <2>2. \A k \in StartIds : outcome[k] = "unexpected" => starts'[k] = starts[k]
    BY <2>1, <1>2
  <2> QED BY <2>2 DEF StartsIInv, LatesKnown, OverLateReply, BeginStart
<1> QED BY <1>4, <1>5, <1>6, <1>7, <1>8, <1>9 DEF StartsIInv

\* The start that waits, and those before it.
LEMMA WaitingIs ==
  ASSUME StartsIInv, waiting # 0
  PROVE  /\ waiting \in StartIds /\ waiting = Len(starts) /\ ~gone
         /\ starts[waiting].behavior \in StartBehaviors /\ outcome[waiting] = "none"
         /\ \A k \in StartIds : k < waiting => outcome[k] # "none"
<1> USE StartersAssumption
<1>1. waiting \in StartIds /\ waiting = Len(starts)
  BY DEF StartsIInv, StartsTyped, StartIds
<1>2. starts[waiting] \in StartKinds
  BY <1>1 DEF StartsIInv, StartsTyped, StartIds
<1> QED BY <1>1, <1>2 DEF StartsIInv, InTurn, StartKinds, StartIds

\* A gen_server's start that fails over a reply does so after one that timed out.
LEMMA ReplyIsLate ==
  ASSUME StartsIInv, waiting # 0, NEW m \in Letters, Copies(m) # 0,
         IsReply(m), m.start # waiting, starts[m.start].behavior = "gen_server"
  PROVE  \E j \in 1 .. waiting - 1 : outcome[j] = "TimeoutError"
<1> USE StartersAssumption
<1>1. PICK j \in StartIds : m \in {Ok(j), Failed(j)} /\ m.start = j
  BY DEF Letters, IsReply, Ok, Failed, ExitOf, Other
<1>2. spawned[j] # "absent" /\ outcome[j] # "pid" /\ outcome[j] \notin Errors
  BY <1>1 DEF StartsIInv, WordsTrue, Errors
<1>3. j < waiting
  BY <1>1, <1>2, WaitingIs DEF StartsIInv, InTurn, StartIds
<1>4. outcome[j] \in {"unexpected", "TimeoutError"}
  BY <1>2, <1>3, WaitingIs DEF StartsIInv, StartsTyped, Results
<1>5. CASE outcome[j] = "TimeoutError"
  BY <1>3, <1>5, WaitingIs DEF StartIds
<1>6. CASE outcome[j] = "unexpected"
  <2>1. PICK i \in 1 .. j - 1 : outcome[i] = "TimeoutError"
    BY <1>1, <1>6 DEF StartsIInv, LatesKnown, OverLateReply
  <2>2. i \in 1 .. waiting - 1
    BY <1>3, <2>1, WaitingIs DEF StartIds
  <2> QED BY <2>1, <2>2
<1> QED BY <1>4, <1>5, <1>6

\* A start waits on.
LEMMA KeepKeeps ==
  ASSUME StartsIInv, StartReceives, Verdict(waiting, Head(letters)) = "keep"
  PROVE  StartsIInv'
<1>1. /\ waiting # 0 /\ letters # <<>> /\ kept' = Append(kept, Head(letters))
      /\ letters' = Tail(letters)
      /\ UNCHANGED <<traps, waiting, gone, starts, spawned, outcome, arrived, read, swallowed>>
  BY DEF StartReceives
<1>2. MailTyped' /\ \A m : Copies(m)' = Copies(m)
  BY <1>1, KeepMoves DEF StartsIInv
<1>3. StartsTyped'
  BY <1>1 DEF StartsIInv, StartsTyped
<1>4. InTurn'
  BY <1>1, WaitingIs DEF StartsIInv, InTurn
<1>5. LettersOnce'
  BY <1>1, <1>2 DEF StartsIInv, LettersOnce
<1>6. WordsTrue' /\ LatesKnown'
  BY <1>1, <1>2, WordsStay, LatesStay DEF StartsIInv
<1> QED BY <1>2, <1>3, <1>4, <1>5, <1>6 DEF StartsIInv

\* A start that ends: what it came to is of its own.
LEMMA EndingKeeps ==
  ASSUME StartsIInv, waiting # 0, NEW r \in Results \ {"none"},
         outcome' = [outcome EXCEPT ![waiting] = r], waiting' = 0, kept' = <<>>,
         UNCHANGED <<traps, gone, starts, spawned, arrived>>
  PROVE  StartsTyped' /\ InTurn'
<1>1. /\ waiting \in StartIds /\ waiting = Len(starts) /\ ~gone
      /\ outcome'[waiting] = r /\ \A k \in StartIds : k # waiting => outcome'[k] = outcome[k]
  BY WaitingIs DEF StartsIInv, StartsTyped
<1>2. StartsTyped'
  BY <1>1 DEF StartsIInv, StartsTyped
<1>3. \A k \in StartIds : k <= Len(starts) => outcome'[k] # "none"
  BY <1>1 DEF StartsIInv, InTurn
<1>4. \A k \in StartIds : k > Len(starts) \/ k = 0 => outcome'[k] = "none"
  BY <1>1 DEF StartsIInv, InTurn, StartIds
<1> QED BY <1>1, <1>2, <1>3, <1>4 DEF StartsIInv, InTurn

\* A start that times out, or fails over a letter, leaves those that ended before as
\* they were.
LEMMA LatesGrow ==
  ASSUME StartsIInv, waiting # 0, NEW r, outcome' = [outcome EXCEPT ![waiting] = r],
         UNCHANGED starts
  PROVE  /\ \A k \in StartIds : OverLateReply(k) => OverLateReply(k)'
         /\ \A k \in StartIds : outcome[k] # "none" => outcome'[k] = outcome[k]
<1> USE StartersAssumption
<1>1. \A k \in StartIds : outcome[k] # "none" => outcome'[k] = outcome[k]
  BY WaitingIs DEF StartsIInv, StartsTyped
<1>2. \A k \in StartIds : \A j \in 1 .. k - 1 : j \in StartIds
  BY DEF StartIds
<1>3. ASSUME NEW k \in StartIds, OverLateReply(k) PROVE OverLateReply(k)'
  BY <1>1, <1>2, <1>3 DEF OverLateReply
<1> QED BY <1>1, <1>3

\* A start takes its own word, or fails over another letter.
LEMMA EndKeeps ==
  ASSUME StartsIInv, StartReceives, Verdict(waiting, Head(letters)) # "keep"
  PROVE  StartsIInv'
<1>0. waiting # 0
  BY DEF StartReceives
<1>w. PICK w \in StartIds : w = waiting
  BY <1>0, WaitingIs
<1>h. PICK h \in Letters : h = Head(letters)
  BY HeadOnce DEF StartReceives, StartsIInv
<1> DEFINE r == Verdict(w, h)
           lost == r = "unexpected"
<1>1. /\ w # 0 /\ letters # <<>> /\ outcome' = [outcome EXCEPT ![w] = r]
      /\ kept' = <<>> /\ letters' = Tail(letters) \o kept /\ waiting' = 0
      /\ swallowed' = IF lost THEN swallowed \cup {h} ELSE swallowed
      /\ UNCHANGED <<traps, gone, starts, spawned, arrived, read>>
  BY <1>w, <1>h DEF StartReceives, EndStart
<1>2. /\ w \in StartIds /\ w = Len(starts) /\ ~gone /\ outcome[w] = "none"
      /\ starts[w].behavior \in StartBehaviors
  BY <1>0, <1>w, WaitingIs
<1>3. h \in Letters /\ Copies(h) = 1
  BY <1>1, <1>h, HeadOnce DEF StartsIInv
<1>4. /\ r \in {"pid", "unexpected"} \cup Errors
      /\ r = "pid" => h = Ok(w)
      /\ r \in Errors => h = Failed(w)
      /\ r = "unexpected" =>
            /\ starts[w].behavior # "gen_statem"
            /\ starts[w].behavior = "gen_server" =>
                  IsReply(h) /\ h.start # w /\ starts[h.start].behavior = "gen_server"
  <2>1. r # "keep"
    BY <1>w, <1>h
  <2> QED BY <1>2, <1>3, <2>1, VerdictIs
<1> HIDE DEF r
<1>5. lost \in BOOLEAN
  OBVIOUS
<1>6. MailTyped' /\ \A m : Copies(m)' = IF m = h /\ ~lost THEN 0 ELSE Copies(m)
  BY <1>1, <1>5, <1>h, EndMoves DEF StartsIInv
<1>7. StartsTyped' /\ InTurn'
  <2>1. r \in Results \ {"none"}
    BY <1>4 DEF Results, Errors
  <2> QED BY <1>1, <1>w, <2>1, EndingKeeps
<1>8. /\ outcome'[w] = r /\ \A k \in StartIds : k # w => outcome'[k] = outcome[k]
  BY <1>1, <1>2 DEF StartsIInv, StartsTyped
<1> HIDE DEF lost
<1>9. LettersOnce'
  <2>1. \A m \in OtherMail : Other(m) = h => lost
    BY <1>4, LettersAre DEF lost
  <2>2. \A m \in Letters : Copies(m)' <= 1
    BY <1>6 DEF StartsIInv, LettersOnce
  <2>3. arrived \subseteq OtherMail
    BY DEF StartsIInv, StartsTyped
  <2> QED BY <1>1, <1>2, <1>6, <2>1, <2>2, <2>3 DEF StartsIInv, LettersOnce
<1>10. WordsTrue'
  <2>1. ASSUME NEW k \in StartIds
        PROVE  /\ Copies(Ok(k))' # 0 => Copies(Ok(k)) # 0
               /\ Copies(Failed(k))' # 0 => Copies(Failed(k)) # 0
               /\ Copies(ExitOf(k))' # 0 => Copies(ExitOf(k)) # 0
    BY <1>6
  <2>2. ASSUME r = "pid"
        PROVE  spawned[w] \in {"up", "killed"} /\ Copies(Ok(w))' = 0
    BY <1>2, <1>3, <1>4, <1>6, <2>2 DEF StartsIInv, WordsTrue, lost
  <2>3. ASSUME r \in Errors
        PROVE  spawned[w] = "failed" /\ Copies(Failed(w))' = 0
    BY <1>2, <1>3, <1>4, <1>6, <2>3 DEF StartsIInv, WordsTrue, lost, Errors
  <2>4. spawned' = spawned
    BY <1>1
  <2>5. ASSUME NEW k \in StartIds, k = w
        PROVE  /\ Copies(Ok(k))' # 0 => spawned'[k] \in {"up", "killed"} /\ outcome'[k] # "pid"
               /\ Copies(Failed(k))' # 0 => spawned'[k] = "failed" /\ outcome'[k] \notin Errors
               /\ Copies(ExitOf(k))' # 0 => spawned'[k] = "killed"
               /\ outcome'[k] = "pid" => spawned'[k] \in {"up", "killed"}
               /\ outcome'[k] \in Errors => spawned'[k] = "failed"
    BY <1>8, <2>1, <2>2, <2>3, <2>4, <2>5 DEF StartsIInv, WordsTrue
  <2>6. ASSUME NEW k \in StartIds, k # w
        PROVE  /\ Copies(Ok(k))' # 0 => spawned'[k] \in {"up", "killed"} /\ outcome'[k] # "pid"
               /\ Copies(Failed(k))' # 0 => spawned'[k] = "failed" /\ outcome'[k] \notin Errors
               /\ Copies(ExitOf(k))' # 0 => spawned'[k] = "killed"
               /\ outcome'[k] = "pid" => spawned'[k] \in {"up", "killed"}
               /\ outcome'[k] \in Errors => spawned'[k] = "failed"
    BY <1>8, <2>1, <2>4, <2>6 DEF StartsIInv, WordsTrue
  <2> QED BY <2>5, <2>6 DEF WordsTrue
<1>11. LatesKnown'
  <2>1. /\ \A k \in StartIds : OverLateReply(k) => OverLateReply(k)'
        /\ \A k \in StartIds : outcome[k] # "none" => outcome'[k] = outcome[k]
    BY <1>1, <1>w, LatesGrow
  <2>2. ASSUME r = "unexpected", starts[w].behavior = "gen_server"
        PROVE  OverLateReply(w)'
    <3>1. PICK j \in 1 .. w - 1 : outcome[j] = "TimeoutError"
      BY <1>1, <1>3, <1>4, <1>w, <2>2, ReplyIsLate
    <3>2. j \in StartIds
      BY <1>2, <3>1, StartersAssumption DEF StartIds
    <3>3. outcome'[j] = "TimeoutError"
      BY <2>1, <3>1, <3>2
    <3> QED BY <3>1, <3>3 DEF OverLateReply
  <2>3. ASSUME NEW k \in StartIds, outcome'[k] = "unexpected"
        PROVE  OverLateReply(k)' /\ starts'[k].behavior # "gen_statem"
    <3>1. CASE k = w
      <4>1. r = "unexpected"
        BY <1>8, <2>3, <3>1
      <4>2. starts'[k].behavior # "gen_statem"
        BY <1>1, <1>4, <3>1, <4>1
      <4>3. CASE starts[w].behavior = "gen_server"
        BY <2>2, <3>1, <4>1, <4>2, <4>3
      <4>4. CASE starts[w].behavior # "gen_server"
        BY <1>1, <3>1, <4>2, <4>4 DEF OverLateReply
      <4> QED BY <4>3, <4>4
    <3>2. CASE k # w
      BY <1>1, <1>8, <2>1, <2>3, <3>2 DEF StartsIInv, LatesKnown
    <3> QED BY <3>1, <3>2
  <2>4. ASSUME NEW m \in swallowed'
        PROVE  \E k \in StartIds :
                  outcome'[k] = "unexpected" /\ (starts'[k].behavior = "gen_server" => IsReply(m))
    <3>1. CASE m \in swallowed
      BY <1>1, <2>1, <3>1 DEF StartsIInv, LatesKnown
    <3>2. CASE m \notin swallowed
      <4>1. m = h /\ r = "unexpected"
        BY <1>1, <2>4, <3>2 DEF lost
      <4> QED BY <1>1, <1>2, <1>4, <1>8, <4>1
    <3> QED BY <3>1, <3>2
  <2> QED BY <2>3, <2>4 DEF LatesKnown, IsReply
<1> QED BY <1>6, <1>7, <1>9, <1>10, <1>11 DEF StartsIInv

\* A start times out.
LEMMA TimeoutKeeps ==
  ASSUME StartsIInv, StartTimesOut
  PROVE  StartsIInv'
<1> DEFINE w == waiting
<1>1. /\ w # 0 /\ letters = <<>> /\ outcome' = [outcome EXCEPT ![w] = "TimeoutError"]
      /\ kept' = <<>> /\ letters' = <<>> \o kept /\ waiting' = 0
      /\ UNCHANGED <<traps, gone, starts, spawned, arrived, read, swallowed>>
  BY DEF StartTimesOut, EndStart
<1>2. w \in StartIds /\ ~gone /\ outcome[w] = "none"
  BY <1>1, WaitingIs
<1>3. MailTyped' /\ \A m : Copies(m)' = Copies(m)
  BY <1>1, TimeoutMoves DEF StartsIInv
<1>4. StartsTyped' /\ InTurn'
  <2>1. "TimeoutError" \in Results \ {"none"}
    BY DEF Results
  <2> QED BY <1>1, <2>1, EndingKeeps
<1>5. /\ outcome'[w] = "TimeoutError"
      /\ \A k \in StartIds : k # w => outcome'[k] = outcome[k]
  BY <1>1, <1>2 DEF StartsIInv, StartsTyped
<1>6. /\ \A k \in StartIds : OverLateReply(k) => OverLateReply(k)'
      /\ \A k \in StartIds : outcome[k] # "none" => outcome'[k] = outcome[k]
  BY <1>1, LatesGrow
<1> HIDE DEF w
<1>7. LettersOnce'
  BY <1>1, <1>3 DEF StartsIInv, LettersOnce
<1>8. WordsTrue'
  BY <1>1, <1>3, <1>5 DEF StartsIInv, WordsTrue, Errors
<1>9. LatesKnown'
  BY <1>1, <1>5, <1>6 DEF StartsIInv, LatesKnown
<1> QED BY <1>3, <1>4, <1>7, <1>8, <1>9 DEF StartsIInv

\* The starter reads a letter.
LEMMA ReadKeeps ==
  ASSUME StartsIInv, ReadLetter
  PROVE  StartsIInv'
<1>1. /\ waiting = 0 /\ letters # <<>> /\ letters' = Tail(letters)
      /\ read' = read \cup {Head(letters)}
      /\ UNCHANGED <<traps, waiting, gone, starts, spawned, outcome, kept, arrived, swallowed>>
  BY DEF ReadLetter
<1>2. MailTyped' /\ \A m : Copies(m)' = Copies(m)
  BY <1>1, ReadMoves DEF StartsIInv
<1>3. StartsTyped' /\ InTurn'
  BY <1>1 DEF StartsIInv, StartsTyped, InTurn
<1>4. LettersOnce'
  BY <1>1, <1>2 DEF StartsIInv, LettersOnce
<1>5. WordsTrue' /\ LatesKnown'
  BY <1>1, <1>2, WordsStay, LatesStay DEF StartsIInv
<1> QED BY <1>2, <1>3, <1>4, <1>5 DEF StartsIInv

\* Mail of others arrives.
LEMMA MailKeeps ==
  ASSUME StartsIInv, NEW x \in OtherMail, ArriveMail(x)
  PROVE  StartsIInv'
<1>1. /\ ~gone /\ x \notin arrived /\ arrived' = arrived \cup {x} /\ Post(Other(x))
      /\ UNCHANGED <<traps, waiting, gone, starts, spawned, outcome, kept, read, swallowed>>
  BY DEF ArriveMail
<1>2. MailTyped' /\ \A m : Copies(m)' = Copies(m) + IF m = Other(x) THEN 1 ELSE 0
  BY <1>1, PostAdds, LettersAre DEF StartsIInv
<1>3. \A m : Copies(m) \in Nat
  BY CopiesType DEF StartsIInv
<1>4. StartsTyped' /\ InTurn'
  BY <1>1 DEF StartsIInv, StartsTyped, InTurn
<1>5. Copies(Other(x)) = 0
  BY <1>1 DEF StartsIInv, LettersOnce
<1>6. LettersOnce'
  <2>1. ASSUME NEW m \in Letters PROVE Copies(m)' <= 1
    <3>1. CASE m = Other(x)
      BY <1>2, <1>5, <3>1
    <3>2. CASE m # Other(x)
      BY <1>2, <1>3, <3>2 DEF StartsIInv, LettersOnce
    <3> QED BY <3>1, <3>2
  <2>2. ASSUME NEW m \in OtherMail
        PROVE  Copies(Other(m))' = IF m = x THEN 1 ELSE Copies(Other(m))
    <3>1. Other(m) = Other(x) => m = x
      BY DEF Other
    <3> QED BY <3>1, <1>2, <1>3, <1>5
  <2>3. arrived \subseteq OtherMail
    BY DEF StartsIInv, StartsTyped
  <2> QED BY <1>1, <2>1, <2>2, <2>3 DEF StartsIInv, LettersOnce
<1>7. WordsTrue'
  <2>1. ASSUME NEW k \in StartIds
        PROVE  /\ Copies(Ok(k))' = Copies(Ok(k)) /\ Copies(Failed(k))' = Copies(Failed(k))
               /\ Copies(ExitOf(k))' = Copies(ExitOf(k))
    <3>1. Ok(k) # Other(x) /\ Failed(k) # Other(x) /\ ExitOf(k) # Other(x)
      BY DEF Ok, Failed, ExitOf, Other
    <3> QED BY <3>1, <1>2, <1>3
  <2> QED BY <1>1, <2>1 DEF StartsIInv, WordsTrue
<1>8. LatesKnown'
  BY <1>1, LatesStay DEF StartsIInv
<1> QED BY <1>2, <1>4, <1>6, <1>7, <1>8 DEF StartsIInv

\* A fate that changes and a letter that says so.
LEMMA FateKeeps ==
  ASSUME StartsIInv, NEW k \in StartIds, NEW f \in Fates, NEW x \in Letters,
         f # "absent", spawned[k] # "absent",
         spawned' = [spawned EXCEPT ![k] = f], Post(x), Copies(x) = 0,
         \A m \in OtherMail : x # Other(m),
         UNCHANGED <<traps, waiting, gone, starts, outcome, kept, arrived, read, swallowed>>
  PROVE  /\ StartsTyped' /\ MailTyped' /\ InTurn' /\ LettersOnce' /\ LatesKnown'
         /\ \A m : Copies(m)' # 0 => Copies(m) # 0 \/ m = x
<1>1. MailTyped' /\ \A m : Copies(m)' = Copies(m) + IF ~gone /\ m = x THEN 1 ELSE 0
  BY PostAdds DEF StartsIInv
<1>2. \A m : Copies(m) \in Nat
  BY CopiesType DEF StartsIInv
<1>3. StartsTyped'
  BY DEF StartsIInv, StartsTyped
<1>4. InTurn'
  <2>1. \A j \in StartIds : spawned'[j] = "absent" <=> spawned[j] = "absent"
    BY DEF StartsIInv, StartsTyped
  <2>2. gone => letters' = <<>>
    BY DEF StartsIInv, InTurn, Post
  <2> QED BY <2>1, <2>2 DEF StartsIInv, InTurn
<1>5. LettersOnce'
  <2>1. ASSUME NEW m \in Letters PROVE Copies(m)' <= 1
    <3>1. CASE m = x
      BY <1>1, <3>1
    <3>2. CASE m # x
      BY <1>1, <1>2, <3>2 DEF StartsIInv, LettersOnce
    <3> QED BY <3>1, <3>2
  <2>2. ASSUME NEW m \in OtherMail PROVE Copies(Other(m))' = Copies(Other(m))
    BY <1>1, <1>2
  <2>3. arrived \subseteq OtherMail
    BY DEF StartsIInv, StartsTyped
  <2> QED BY <2>1, <2>2, <2>3 DEF StartsIInv, LettersOnce
<1>6. LatesKnown'
  BY LatesStay DEF StartsIInv
<1>7. ASSUME NEW m, Copies(m)' # 0 PROVE Copies(m) # 0 \/ m = x
  BY <1>1, <1>2, <1>7
<1> QED BY <1>1, <1>3, <1>4, <1>5, <1>6, <1>7

\* A started process says how its init went.
LEMMA InitKeeps ==
  ASSUME StartsIInv, NEW k \in DOMAIN starts, RunStartedInit(k)
  PROVE  StartsIInv'
<1>1. k \in StartIds
  BY StartersAssumption DEF StartsIInv, StartsTyped, StartIds
<1>2. /\ spawned[k] = "init" /\ spawned \in [StartIds -> Fates]
      /\ Copies(Ok(k)) = 0 /\ Copies(Failed(k)) = 0 /\ Copies(ExitOf(k)) = 0
      /\ outcome[k] # "pid" /\ outcome[k] \notin Errors
  BY <1>1 DEF RunStartedInit, StartsIInv, StartsTyped, WordsTrue
<1>3. UNCHANGED <<traps, waiting, gone, starts, outcome, kept, arrived, read, swallowed>>
  BY DEF RunStartedInit
<1>4. ASSUME spawned' = [spawned EXCEPT ![k] = "up"], Post(Ok(k)) PROVE StartsIInv'
  <2>1. /\ StartsTyped' /\ MailTyped' /\ InTurn' /\ LettersOnce' /\ LatesKnown'
        /\ \A m : Copies(m)' # 0 => Copies(m) # 0 \/ m = Ok(k)
    <3>1. "up" \in Fates /\ Ok(k) \in Letters /\ \A m \in OtherMail : Ok(k) # Other(m)
      BY <1>1, LettersAre DEF Fates
    <3> QED BY <1>1, <1>2, <1>3, <1>4, <3>1, FateKeeps
  <2>2. \A j \in StartIds : spawned'[j] = IF j = k THEN "up" ELSE spawned[j]
    BY <1>2, <1>4
  <2>3. \A j \in StartIds : /\ Copies(Ok(j))' # 0 => Copies(Ok(j)) # 0 \/ j = k
                            /\ Copies(Failed(j))' # 0 => Copies(Failed(j)) # 0
                            /\ Copies(ExitOf(j))' # 0 => Copies(ExitOf(j)) # 0
    BY <2>1, LettersAre
  <2>4. WordsTrue'
    BY <1>1, <1>2, <1>3, <2>2, <2>3 DEF StartsIInv, WordsTrue
  <2> QED BY <2>1, <2>4 DEF StartsIInv
<1>5. ASSUME spawned' = [spawned EXCEPT ![k] = "failed"], Post(Failed(k)) PROVE StartsIInv'
  <2>1. /\ StartsTyped' /\ MailTyped' /\ InTurn' /\ LettersOnce' /\ LatesKnown'
        /\ \A m : Copies(m)' # 0 => Copies(m) # 0 \/ m = Failed(k)
    <3>1. "failed" \in Fates /\ Failed(k) \in Letters /\ \A m \in OtherMail : Failed(k) # Other(m)
      BY <1>1, LettersAre DEF Fates
    <3> QED BY <1>1, <1>2, <1>3, <1>5, <3>1, FateKeeps
  <2>2. \A j \in StartIds : spawned'[j] = IF j = k THEN "failed" ELSE spawned[j]
    BY <1>2, <1>5
  <2>3. \A j \in StartIds : /\ Copies(Ok(j))' # 0 => Copies(Ok(j)) # 0
                            /\ Copies(Failed(j))' # 0 => Copies(Failed(j)) # 0 \/ j = k
                            /\ Copies(ExitOf(j))' # 0 => Copies(ExitOf(j)) # 0
    BY <2>1, LettersAre
  <2>4. WordsTrue'
    BY <1>1, <1>2, <1>3, <2>2, <2>3 DEF StartsIInv, WordsTrue
  <2> QED BY <2>1, <2>4 DEF StartsIInv
<1> QED BY <1>4, <1>5 DEF RunStartedInit

\* A started process is killed.
LEMMA KillKeeps ==
  ASSUME StartsIInv, NEW k \in DOMAIN starts, KillStarted(k)
  PROVE  StartsIInv'
<1>1. k \in StartIds
  BY StartersAssumption DEF StartsIInv, StartsTyped, StartIds
<1>2. /\ spawned[k] \in {"init", "up"} /\ spawned \in [StartIds -> Fates]
      /\ spawned' = [spawned EXCEPT ![k] = "killed"]
      /\ Copies(Failed(k)) = 0 /\ Copies(ExitOf(k)) = 0 /\ outcome[k] \notin Errors
      /\ UNCHANGED <<traps, starts, outcome, arrived, read, swallowed>>
  BY <1>1 DEF KillStarted, StartsIInv, StartsTyped, WordsTrue
<1>3. /\ "killed" \in Fates /\ ExitOf(k) \in Letters
      /\ \A m \in OtherMail : ExitOf(k) # Other(m)
  BY <1>1, LettersAre DEF Fates
<1>4. \A j \in StartIds : spawned'[j] = IF j = k THEN "killed" ELSE spawned[j]
  BY <1>2
<1>5. WordsTrue' \/ \E m : Copies(m)' # 0 /\ Copies(m) = 0 /\ m # ExitOf(k)
  <2> SUFFICES ASSUME \A m : Copies(m)' # 0 => Copies(m) # 0 \/ m = ExitOf(k)
               PROVE  WordsTrue'
    OBVIOUS
  <2>1. \A j \in StartIds : /\ Copies(Ok(j))' # 0 => Copies(Ok(j)) # 0
                            /\ Copies(Failed(j))' # 0 => Copies(Failed(j)) # 0
                            /\ Copies(ExitOf(j))' # 0 => Copies(ExitOf(j)) # 0 \/ j = k
    BY LettersAre
  <2> QED BY <1>1, <1>2, <1>4, <2>1 DEF StartsIInv, WordsTrue
<1>6. CASE ~starts[k].linked \/ gone
  <2>1. UNCHANGED <<waiting, gone, letters, kept>>
    BY <1>6 DEF KillStarted
  <2>2. \A m : Copies(m)' = Copies(m)
    BY <1>2, <2>1 DEF Copies
  <2>3. WordsTrue'
    BY <1>5, <2>2
  <2>4. StartsTyped' /\ MailTyped'
    BY <1>2, <1>3, <2>1 DEF StartsIInv, StartsTyped, MailTyped
  <2>5. InTurn'
    BY <1>2, <1>4, <2>1 DEF StartsIInv, InTurn
  <2>6. LettersOnce' /\ LatesKnown'
    BY <1>2, <2>1, <2>2, LatesStay DEF StartsIInv, LettersOnce
  <2> QED BY <2>3, <2>4, <2>5, <2>6 DEF StartsIInv
<1>7. CASE starts[k].linked /\ ~gone /\ traps
  <2>1. Post(ExitOf(k)) /\ UNCHANGED <<waiting, gone, kept>>
    BY <1>7 DEF KillStarted
  <2>2. /\ StartsTyped' /\ MailTyped' /\ InTurn' /\ LettersOnce' /\ LatesKnown'
        /\ \A m : Copies(m)' # 0 => Copies(m) # 0 \/ m = ExitOf(k)
    BY <1>1, <1>2, <1>3, <2>1, FateKeeps
  <2> QED BY <1>5, <2>2 DEF StartsIInv
<1>8. CASE starts[k].linked /\ ~gone /\ ~traps
  <2>1. gone' = TRUE /\ waiting' = 0 /\ letters' = <<>> /\ kept' = <<>>
    BY <1>8 DEF KillStarted
  <2>2. MailTyped' /\ \A m : Copies(m)' \in Nat /\ Copies(m)' <= Copies(m)
    BY <1>2, <2>1, GoneMoves DEF StartsIInv
  <2>3. \A m : Copies(m) \in Nat
    BY CopiesType DEF StartsIInv
  <2>4. WordsTrue'
    <3>1. \A m : Copies(m)' # 0 => Copies(m) # 0
      BY <2>2, <2>3
    <3> QED BY <1>5, <3>1
  <2>5. StartsTyped'
    BY <1>2, <1>3, <2>1 DEF StartsIInv, StartsTyped
  <2>6. InTurn'
    BY <1>2, <1>4, <2>1 DEF StartsIInv, InTurn, StartIds
  <2>7. LettersOnce'
    <3>1. \A m \in Letters : Copies(m)' <= 1
      BY <2>2, <2>3 DEF StartsIInv, LettersOnce
    <3>2. \A m \in OtherMail : m \notin arrived => Copies(Other(m))' = 0
      BY <2>2, <2>3 DEF StartsIInv, LettersOnce
    <3> QED BY <1>2, <2>1, <3>1, <3>2 DEF LettersOnce
  <2>8. LatesKnown'
    BY <1>2, LatesStay DEF StartsIInv
  <2> QED BY <2>2, <2>4, <2>5, <2>6, <2>7, <2>8 DEF StartsIInv
<1> QED BY <1>6, <1>7, <1>8 DEF StartsIInv, StartsTyped

\* Every step of the starter and of what it started keeps the invariant.
LEMMA StartsStep == StartsIInv /\ [StartsNext]_startVars => StartsIInv'
<1> SUFFICES ASSUME StartsIInv, [StartsNext]_startVars PROVE StartsIInv'
  OBVIOUS
<1>1. CASE StartReceives
  BY <1>1, KeepKeeps, EndKeeps
<1>2. CASE UNCHANGED startVars
  <2>1. UNCHANGED <<traps, waiting, gone, starts, spawned, outcome, letters, kept, arrived,
                    read, swallowed>>
    BY <1>2 DEF startVars
  <2>2. \A m : Copies(m)' = Copies(m)
    BY <2>1 DEF Copies
  <2>3. LettersOnce' /\ WordsTrue' /\ LatesKnown'
    BY <2>1, <2>2, LatesStay DEF StartsIInv, LettersOnce, WordsTrue
  <2>4. StartsTyped' /\ MailTyped' /\ InTurn'
    BY <2>1 DEF StartsIInv, StartsTyped, MailTyped, InTurn
  <2> QED BY <2>3, <2>4 DEF StartsIInv
<1> QED BY <1>1, <1>2, BeginKeeps, TimeoutKeeps, ReadKeeps, MailKeeps, InitKeeps, KillKeeps
        DEF StartsNext

\* Every start comes to a true end, of its own process, and takes from the mailbox only
\* what it must (gen_server, gen_statem, supervisor, dynamic_supervisor and task start).
THEOREM StartsAlwaysAccounted == StartsSpec => []StartsAccounted
<1>1. StartsInit => StartsIInv
  <2> SUFFICES ASSUME StartsInit PROVE StartsIInv
    OBVIOUS
  <2>1. \A m : Copies(m) = 0
    <3>1. \A m : Tally(letters, m) = 0 /\ Tally(kept, m) = 0
      BY TallyOne DEF StartsInit
    <3> QED BY <3>1, CopiesAre DEF Once, StartsInit
  <2>2. StartsTyped /\ MailTyped
    <3>1. <<>> \in Seq(StartKinds) /\ Len(<<>>) = 0 /\ <<>> \in Seq(Letters)
      OBVIOUS
    <3>2. /\ [k \in StartIds |-> "absent"] \in [StartIds -> Fates]
          /\ [k \in StartIds |-> "none"] \in [StartIds -> Results]
      BY DEF Fates, Results
    <3>3. StartsTyped
      <4>1. starts \in Seq(StartKinds) /\ Len(starts) = 0 /\ arrived \subseteq OtherMail
        BY <3>1 DEF StartsInit
      <4>2. spawned \in [StartIds -> Fates] /\ outcome \in [StartIds -> Results]
        BY <3>2 DEF StartsInit
      <4>3. traps \in BOOLEAN /\ gone \in BOOLEAN /\ waiting = 0
        BY DEF StartsInit
      <4>4. Len(starts) <= MaxStarts /\ waiting \in {0, Len(starts)}
        BY StartersAssumption, <4>1, <4>3
      <4> QED BY <4>1, <4>2, <4>3, <4>4 DEF StartsTyped
    <3>4. MailTyped
      BY <3>1 DEF StartsInit, MailTyped
    <3> QED BY <3>3, <3>4
  <2>3. InTurn
    BY StartersAssumption DEF StartsInit, InTurn, StartIds
  <2>4. LettersOnce /\ WordsTrue /\ LatesKnown
    BY <2>1 DEF StartsInit, LettersOnce, WordsTrue, LatesKnown, Errors
  <2> QED BY <2>2, <2>3, <2>4 DEF StartsIInv
<1>2. StartsIInv => StartsAccounted
  <2> SUFFICES ASSUME StartsIInv PROVE StartsAccounted
    OBVIOUS
  <2>1. SpeaksForItsOwn
    BY DEF StartsIInv, WordsTrue, SpeaksForItsOwn, Errors
  <2>2. ASSUME ~gone, NEW m \in swallowed
        PROVE  \E k \in StartIds :
                  /\ outcome[k] = "unexpected"
                  /\ starts[k].behavior \in {"gen_server", "gen_statem"} =>
                        /\ starts[k].behavior = "gen_server" /\ IsReply(m)
                        /\ \E j \in 1 .. k - 1 : outcome[j] = "TimeoutError"
    BY DEF StartsIInv, LatesKnown, OverLateReply
  <2>3. MailSurvivesStarts
    BY <2>2 DEF StartsIInv, InTurn, LettersOnce, MailSurvivesStarts
  <2> QED BY <2>1, <2>3 DEF StartsAccounted
<1> QED BY <1>1, <1>2, StartsStep, PTL DEF StartsSpec

-----------------------------------------------------------------------------
(* The SPAM scheduler: sequences with a member removed.                    *)

\* What is counted is there, and what is not counted is not.
LEMMA TallyZero ==
  ASSUME NEW S, NEW m, NEW s \in Seq(S), Tally(s, m) = 0
  PROVE  \A i \in DOMAIN s : s[i] # m
<1>1. IsFiniteSet({i \in DOMAIN s : s[i] = m})
  BY TallyType
<1>2. {i \in DOMAIN s : s[i] = m} = {}
  BY <1>1, FS_EmptySet DEF Tally
<1> QED BY <1>2

\* A sequence without its i-th member.
LEMMA RemovedAt ==
  ASSUME NEW S, NEW s \in Seq(S), NEW i \in DOMAIN s
  PROVE  /\ RemoveAt(s, i) \in Seq(S) /\ Len(RemoveAt(s, i)) = Len(s) - 1
         /\ \A m : m # s[i] => Tally(RemoveAt(s, i), m) = Tally(s, m)
<1> DEFINE n == Len(s)
           u == SubSeq(s, 1, i - 1)
           w == SubSeq(s, i + 1, n)
<1>1. n \in Nat /\ DOMAIN s = 1 .. n /\ \A k \in 1 .. n : s[k] \in S
  BY ElementOfSeq, LenProperties
<1>2. i \in Nat /\ 1 <= i /\ i <= n
  BY <1>1
<1>3. /\ u \in Seq(S) /\ Len(u) = i - 1 /\ \A k \in 1 .. i - 1 : u[k] = s[k]
  <2>1. \A k \in 1 .. i - 1 : s[k] \in S /\ 1 + k - 1 = k
    BY <1>1, <1>2
  <2>2. 1 \in Int /\ i - 1 \in Int /\ i - 1 - 1 + 1 = i - 1 /\ (1 <= i - 1 \/ i - 1 = 0)
    BY <1>2
  <2> QED BY <2>1, <2>2, SubSeqProperties
<1>4. /\ w \in Seq(S) /\ Len(w) = n - i /\ \A k \in 1 .. n - i : w[k] = s[i + k]
  <2>1. \A k \in i + 1 .. n : s[k] \in S
    BY <1>1, <1>2
  <2>2. /\ i + 1 \in Int /\ n \in Int /\ n - (i + 1) + 1 = n - i /\ (i + 1 <= n \/ n - i = 0)
        /\ \A k \in 1 .. n - i : i + 1 + k - 1 = i + k
    BY <1>1, <1>2
  <2> QED BY <2>1, <2>2, SubSeqProperties
<1>5. RemoveAt(s, i) = u \o w
  BY DEF RemoveAt
<1>6. s = (u \o <<s[i]>>) \o w
  <2> DEFINE v == u \o <<s[i]>>
  <2>1. v \in Seq(S) /\ Len(v) = i /\ \A k \in 1 .. i : v[k] = s[k]
    <3> HIDE DEF u
    <3>1. <<s[i]>> \in Seq(S) /\ Len(<<s[i]>>) = 1 /\ s[i] \in S /\ <<s[i]>>[1] = s[i]
      BY <1>1
    <3> DEFINE l == Len(u) + Len(<<s[i]>>)
    <3>2. /\ v \in Seq(S) /\ Len(v) = l
          /\ \A k \in 1 .. l : v[k] = IF k <= Len(u) THEN u[k] ELSE <<s[i]>>[k - Len(u)]
      <4>1. u \in Seq(S) /\ <<s[i]>> \in Seq(S)
        BY <3>1, <1>3
      <4> QED BY <4>1, ConcatProperties
    <3>3. Len(v) = i /\ l = i /\ i - 1 + 1 = i
      BY <3>1, <3>2, <1>2, <1>3
    <3> HIDE DEF l
    <3>4. ASSUME NEW k \in 1 .. i PROVE v[k] = s[k]
      <4>1. CASE k = i
        <5>1. ~ (k <= i - 1) /\ k - (i - 1) = 1 /\ k \in 1 .. i - 1 + 1
          BY <4>1, <1>2
        <5> QED BY <5>1, <3>1, <3>2, <3>3, <4>1, <1>3
      <4>2. CASE k # i
        <5>1. k <= i - 1 /\ k \in 1 .. i - 1 /\ k \in 1 .. i - 1 + 1
          BY <4>2, <1>2
        <5> QED BY <5>1, <3>2, <3>3, <1>3
      <4> QED BY <4>1, <4>2
    <3> QED BY <3>2, <3>3, <3>4
  <2> HIDE DEF u, v, w
  <2>2. /\ v \o w \in Seq(S) /\ Len(v \o w) = n
        /\ \A k \in 1 .. n : (v \o w)[k] = IF k <= i THEN v[k] ELSE w[k - i]
    <3>1. /\ v \o w \in Seq(S) /\ Len(v \o w) = Len(v) + Len(w)
          /\ \A k \in 1 .. Len(v) + Len(w) :
                (v \o w)[k] = IF k <= Len(v) THEN v[k] ELSE w[k - Len(v)]
      BY <2>1, <1>4, ConcatProperties
    <3>2. Len(v) = i /\ Len(v) + Len(w) = n
      BY <2>1, <1>1, <1>2, <1>4
    <3> QED BY <3>1, <3>2
  <2>4. ASSUME NEW k \in 1 .. n PROVE (v \o w)[k] = s[k]
    <3>1. CASE k <= i
      BY <3>1, <2>1, <2>2, <1>2
    <3>2. CASE ~ (k <= i)
      <4>1. k - i \in 1 .. n - i /\ i + (k - i) = k
        BY <3>2, <1>1, <1>2
      <4> QED BY <4>1, <3>2, <2>2, <1>4
    <3> QED BY <3>1, <3>2
  <2>6. s = v \o w
    BY <1>1, <2>2, <2>4, SeqEqual
  <2> QED BY <2>6 DEF v
<1> HIDE DEF u, w
<1>7. u \o w \in Seq(S) /\ Len(u \o w) = n - 1
  <2>1. u \o w \in Seq(S) /\ Len(u \o w) = Len(u) + Len(w)
    BY <1>3, <1>4, ConcatProperties
  <2> QED BY <2>1, <1>1, <1>2, <1>3, <1>4
<1>8. ASSUME NEW m, m # s[i] PROVE Tally(u \o w, m) = Tally(s, m)
  <2>1. Tally(u \o w, m) = Tally(u, m) + Tally(w, m)
    BY <1>3, <1>4, TallyConcat
  <2>2. s[i] \in S /\ <<s[i]>> \in Seq(S) /\ u \o <<s[i]>> \in Seq(S)
    BY <1>1, <1>3
  <2>3. Tally((u \o <<s[i]>>) \o w, m) = Tally(u \o <<s[i]>>, m) + Tally(w, m)
    BY <2>2, <1>4, TallyConcat
  <2>4. Tally(u \o <<s[i]>>, m) = Tally(u, m) + Tally(<<s[i]>>, m)
    BY <2>2, <1>3, TallyConcat
  <2>5. Tally(<<s[i]>>, m) = 0
    BY <1>8, TallyOne
  <2>6. Tally(u, m) \in Nat
    BY <1>3, TallyType
  <2>7. Tally(s, m) = Tally((u \o <<s[i]>>) \o w, m)
    BY <1>6
  <2> QED BY <2>1, <2>3, <2>4, <2>5, <2>6, <2>7
<1> QED BY <1>5, <1>7, <1>8

\* A sequence without the first place of e.
LEMMA RemovedFirst ==
  ASSUME NEW S, NEW s \in Seq(S), NEW e
  PROVE  /\ RemoveFirst(s, e) \in Seq(S)
         /\ \A m : m # e => Tally(RemoveFirst(s, e), m) = Tally(s, m)
<1>1. CASE ~ \E i \in 1 .. Len(s) : s[i] = e
  BY <1>1 DEF RemoveFirst
<1>2. CASE \E i \in 1 .. Len(s) : s[i] = e
  <2> DEFINE I == {i \in 1 .. Len(s) : s[i] = e}
             k == Min(I)
  <2>1. I # {} /\ I \in SUBSET Nat
    BY <1>2
  <2>2. k \in I
    <3>1. \E x \in I : \A y \in I : x <= y
      <4> HIDE DEF I
      <4> QED BY <2>1, LeastOf
    <3> QED BY <3>1 DEF Min
  <2>3. RemoveFirst(s, e) = RemoveAt(s, k)
    BY <1>2, <2>1 DEF RemoveFirst, SelectInSeq
  <2>4. k \in DOMAIN s /\ s[k] = e
    BY <2>2
  <2> HIDE DEF k
  <2> QED BY <2>3, <2>4, RemovedAt
<1> QED BY <1>1, <1>2

-----------------------------------------------------------------------------
(* The SPAM scheduler: the inductive invariant.                            *)

States == {"none", "ready", "running", "waiting", "terminated"}
SliceKinds == [core : Cores, at : {"created"} \cup Calls \cup Casts, handled : Nat]

SpamTyped ==
    /\ initialized \in BOOLEAN /\ table \subseteq Pids /\ moved \subseteq Pids
    /\ state \in [Pids -> States]
    /\ message_queue \in [Pids -> Seq(Calls \cup Casts)]
    /\ current_core \in [Pids -> Cores \cup {0}]
    /\ active_processes \in [Cores -> SUBSET Pids]
    /\ ready_queue \in [Cores -> Seq(Pids)]
    /\ slices \in [Pids -> Seq(SliceKinds)]

\* Nothing is left of a process that was never spawned.
Unspawned ==
    \A p \in Pids :
        state[p] = "none" =>
            /\ p \notin table /\ slices[p] = <<>>
            /\ \A c \in Cores : Tally(ready_queue[c], p) = 0

\* The one turn of a process: a place in the queue of its core while it is ready, else a
\* slice, which has it running once it handles a message.
TurnOf(p) ==
    LET c == current_core[p]
        waits == Tally(ready_queue[c], p)
    IN /\ Len(slices[p]) + waits <= 1
       /\ state[p] = "ready" => Len(slices[p]) + waits = 1
       /\ state[p] = "running" => Len(slices[p]) = 1
       /\ state[p] = "waiting" => Len(slices[p]) + waits = 0
       /\ initialized /\ waits # 0 => state[p] = "ready"
       /\ \A i \in DOMAIN slices[p] :
             /\ slices[p][i].core = c
             /\ slices[p][i].at # "created" => state[p] \in {"running", "terminated"}

Turns == \A p \in table \ moved : TurnOf(p)
CoreKnown == \A p \in table : current_core[p] \in Cores

TurnsIInv == SpamTyped /\ Unspawned /\ CoreKnown /\ PlacedOnce /\ NoLostWakeup /\ Turns

\* Places of the model are what Tally counts.
LEMMA PlacesTallied == \A queue, p : Cardinality(Places(queue, p)) = Tally(queue, p)
  BY DEF Places, Tally

\* A turn is as it was when its process and its places are.
LEMMA TurnStays ==
  ASSUME NEW p, TurnOf(p),
         state'[p] = state[p], slices'[p] = slices[p], current_core'[p] = current_core[p],
         Tally(ready_queue'[current_core[p]], p) = Tally(ready_queue[current_core[p]], p),
         initialized' => initialized
  PROVE  TurnOf(p)'
  BY DEF TurnOf

\* The processes that a step of p leaves alone.
LEMMA OthersStay ==
  ASSUME SpamTyped, CoreKnown, Turns, NEW p \in Pids,
         \A q \in Pids \ {p} :
            /\ state'[q] = state[q] /\ slices'[q] = slices[q]
            /\ current_core'[q] = current_core[q]
            /\ \A c \in Cores : Tally(ready_queue'[c], q) = Tally(ready_queue[c], q),
         initialized' => initialized,
         table' \ {p} \subseteq table, moved \subseteq moved'
  PROVE  \A q \in (table' \ moved') \ {p} : TurnOf(q)'
<1> SUFFICES ASSUME NEW q \in (table' \ moved') \ {p} PROVE TurnOf(q)'
  OBVIOUS
<1>1. q \in table \ moved /\ q \in Pids \ {p} /\ current_core[q] \in Cores
  BY DEF SpamTyped, CoreKnown
<1>2. TurnOf(q)
  BY <1>1 DEF Turns
<1>3. /\ state'[q] = state[q] /\ slices'[q] = slices[q]
      /\ current_core'[q] = current_core[q]
      /\ Tally(ready_queue'[current_core[q]], q) = Tally(ready_queue[current_core[q]], q)
  BY <1>1
<1> QED BY <1>2, <1>3, TurnStays

\* Nothing is left of the processes never spawned when a step leaves them alone.
LEMMA UnspawnedStay ==
  ASSUME Unspawned, NEW p \in Pids, state'[p] # "none",
         table' \subseteq table \cup {p},
         \A q \in Pids \ {p} :
            /\ state'[q] = state[q] /\ slices'[q] = slices[q]
            /\ \A c \in Cores : Tally(ready_queue'[c], q) = Tally(ready_queue[c], q)
  PROVE  Unspawned'
  BY DEF Unspawned

\* A process is put at the end of a queue.
LEMMA Queued ==
  ASSUME SpamTyped, NEW p \in Pids, NEW c \in Cores,
         ready_queue' = [ready_queue EXCEPT ![c] = Append(@, p)]
  PROVE  /\ ready_queue' \in [Cores -> Seq(Pids)]
         /\ \A q \in Pids \ {p}, d \in Cores :
               Tally(ready_queue'[d], q) = Tally(ready_queue[d], q)
         /\ Tally(ready_queue'[c], p) = Tally(ready_queue[c], p) + 1
<1>1. ready_queue[c] \in Seq(Pids)
  BY DEF SpamTyped
<1>2. /\ Append(ready_queue[c], p) \in Seq(Pids)
      /\ \A q : Tally(Append(ready_queue[c], p), q) =
                  Tally(ready_queue[c], q) + IF q = p THEN 1 ELSE 0
  BY <1>1, TallyAppend
<1>3. \A d \in Cores : ready_queue'[d] = IF d = c THEN Append(ready_queue[c], p) ELSE ready_queue[d]
  BY DEF SpamTyped
<1>4. ready_queue' \in [Cores -> Seq(Pids)]
  BY <1>2 DEF SpamTyped
<1>5. ASSUME NEW q \in Pids \ {p}
      PROVE  Tally(Append(ready_queue[c], p), q) = Tally(ready_queue[c], q)
  <2>1. Tally(ready_queue[c], q) \in Nat
    BY <1>1, TallyType
  <2> QED BY <2>1, <1>2
<1>6. Tally(ready_queue'[c], p) = Tally(ready_queue[c], p) + 1
  BY <1>2, <1>3
<1> QED BY <1>3, <1>4, <1>5, <1>6

-----------------------------------------------------------------------------
(* The SPAM scheduler: the runtime's operations.                           *)

\* A process is spawned.
LEMMA SpawnKeeps ==
  ASSUME TurnsIInv, NEW p \in Pids, Spawn(p)
  PROVE  TurnsIInv'
<1>1. PICK c \in Cores : AddTo(c, p)
  BY DEF Spawn, LeastLoaded
<1>2. /\ state[p] = "none" /\ table' = table \cup {p}
      /\ active_processes' = [active_processes EXCEPT ![c] = @ \union {p}]
      /\ ready_queue' = [ready_queue EXCEPT ![c] = Append(@, p)]
      /\ current_core' = [current_core EXCEPT ![p] = c]
      /\ state' = [state EXCEPT ![p] = "ready"]
      /\ UNCHANGED <<initialized, message_queue, slices, call, moved>>
  BY <1>1 DEF Spawn, AddTo
<1>3. /\ p \notin table /\ slices[p] = <<>> /\ Tally(ready_queue[c], p) = 0
  BY <1>2 DEF TurnsIInv, Unspawned
<1>4. /\ ready_queue' \in [Cores -> Seq(Pids)]
      /\ \A q \in Pids \ {p}, d \in Cores :
            Tally(ready_queue'[d], q) = Tally(ready_queue[d], q)
      /\ Tally(ready_queue'[c], p) = Tally(ready_queue[c], p) + 1
  BY <1>2, Queued DEF TurnsIInv
<1>5. /\ state'[p] = "ready" /\ current_core'[p] = c
      /\ \A q \in Pids \ {p} : state'[q] = state[q] /\ current_core'[q] = current_core[q]
      /\ \A d \in Cores : active_processes'[d] =
            active_processes[d] \cup IF d = c THEN {p} ELSE {}
  BY <1>2 DEF TurnsIInv, SpamTyped
<1>7. SpamTyped'
  <2>1. state' \in [Pids -> States] /\ current_core' \in [Pids -> Cores \cup {0}]
    BY <1>2 DEF TurnsIInv, SpamTyped, States
  <2>2. active_processes' \in [Cores -> SUBSET Pids]
    BY <1>2 DEF TurnsIInv, SpamTyped
  <2> QED BY <1>2, <1>4, <2>1, <2>2 DEF TurnsIInv, SpamTyped
<1>8. Unspawned'
  BY <1>2, <1>4, <1>5, UnspawnedStay DEF TurnsIInv
<1>9. CoreKnown' /\ PlacedOnce'
  <2>1. table \subseteq Pids
    BY DEF TurnsIInv, SpamTyped
  <2>2. CoreKnown'
    BY <1>2, <1>5, <2>1 DEF TurnsIInv, CoreKnown
  <2>3. ASSUME NEW q \in table', NEW d \in Cores
        PROVE  q \in active_processes'[d] <=> d = current_core'[q]
    <3>1. CASE q = p
      BY <3>1, <1>3, <1>5 DEF TurnsIInv, PlacedOnce
    <3>2. CASE q # p
      BY <3>2, <1>2, <1>5, <2>1 DEF TurnsIInv, PlacedOnce
    <3> QED BY <3>1, <3>2
  <2>4. UNION {active_processes'[d] : d \in Cores} \subseteq table'
    BY <1>2, <1>5 DEF TurnsIInv, PlacedOnce
  <2> QED BY <2>2, <2>3, <2>4 DEF PlacedOnce
<1>10. NoLostWakeup'
  BY <1>2, <1>5 DEF TurnsIInv, NoLostWakeup
<1>11. Turns'
  <2>1. TurnOf(p)'
    <3>1. Tally(ready_queue'[c], p) = 1
      BY <1>3, <1>4
    <3>2. slices'[p] = <<>> /\ Len(slices'[p]) = 0 /\ DOMAIN slices'[p] = {}
      BY <1>2, <1>3
    <3> QED BY <3>1, <3>2, <1>5 DEF TurnOf
  <2>2. \A q \in (table' \ moved') \ {p} : TurnOf(q)'
    BY <1>2, <1>4, <1>5, OthersStay DEF TurnsIInv
  <2> QED BY <2>1, <2>2 DEF Turns
<1> QED BY <1>7, <1>8, <1>9, <1>10, <1>11 DEF TurnsIInv

\* list.remove in one queue.
LEMMA Unqueued ==
  ASSUME SpamTyped, NEW p \in Pids, NEW c \in Cores,
         ready_queue' = [ready_queue EXCEPT ![c] = RemoveFirst(@, p)]
  PROVE  /\ ready_queue' \in [Cores -> Seq(Pids)]
         /\ \A q \in Pids \ {p}, d \in Cores :
               Tally(ready_queue'[d], q) = Tally(ready_queue[d], q)
<1>1. ready_queue[c] \in Seq(Pids)
  BY DEF SpamTyped
<1>2. /\ RemoveFirst(ready_queue[c], p) \in Seq(Pids)
      /\ \A q : q # p => Tally(RemoveFirst(ready_queue[c], p), q) = Tally(ready_queue[c], q)
  BY <1>1, RemovedFirst
<1>3. \A d \in Cores :
         ready_queue'[d] = IF d = c THEN RemoveFirst(ready_queue[c], p) ELSE ready_queue[d]
  BY DEF SpamTyped
<1>4. ready_queue' \in [Cores -> Seq(Pids)]
  BY <1>2 DEF SpamTyped
<1> QED BY <1>2, <1>3, <1>4

\* A process is terminated.
LEMMA TerminateKeeps ==
  ASSUME TurnsIInv, NEW p \in Pids, Terminate(p)
  PROVE  TurnsIInv'
<1>0. PICK c \in Cores : c = current_core[p]
  BY DEF Terminate, TurnsIInv, CoreKnown
<1>1. /\ p \in table /\ table' = table \ {p}
      /\ active_processes' = [active_processes EXCEPT ![c] = @ \ {p}]
      /\ ready_queue' = [ready_queue EXCEPT ![c] = RemoveFirst(@, p)]
      /\ state' = [state EXCEPT ![p] = "terminated"]
      /\ UNCHANGED <<initialized, message_queue, current_core, slices, call, moved>>
  BY <1>0 DEF Terminate
<1>2. /\ ready_queue' \in [Cores -> Seq(Pids)]
      /\ \A q \in Pids \ {p}, d \in Cores :
            Tally(ready_queue'[d], q) = Tally(ready_queue[d], q)
  BY <1>1, Unqueued DEF TurnsIInv
<1>3. /\ state'[p] = "terminated" /\ \A q \in Pids \ {p} : state'[q] = state[q]
      /\ \A d \in Cores : active_processes'[d] =
            active_processes[d] \ IF d = c THEN {p} ELSE {}
  BY <1>1 DEF TurnsIInv, SpamTyped
<1>4. SpamTyped'
  <2>1. state' \in [Pids -> States] /\ active_processes' \in [Cores -> SUBSET Pids]
    BY <1>1 DEF TurnsIInv, SpamTyped, States
  <2> QED BY <1>1, <1>2, <2>1 DEF TurnsIInv, SpamTyped
<1>5. Unspawned'
  BY <1>1, <1>2, <1>3, UnspawnedStay DEF TurnsIInv
<1>6. CoreKnown' /\ PlacedOnce'
  <2>1. CoreKnown'
    BY <1>1 DEF TurnsIInv, CoreKnown
  <2>2. ASSUME NEW q \in table', NEW d \in Cores
        PROVE  q \in active_processes'[d] <=> d = current_core'[q]
    BY <1>1, <1>3 DEF TurnsIInv, PlacedOnce
  <2>3. \A d \in Cores : active_processes'[d] \subseteq table'
    BY <1>0, <1>1, <1>3 DEF TurnsIInv, PlacedOnce
  <2> QED BY <2>1, <2>2, <2>3 DEF PlacedOnce
<1>7. NoLostWakeup'
  BY <1>1, <1>3 DEF TurnsIInv, NoLostWakeup
<1>8. Turns'
  <2>1. \A q \in (table' \ moved') \ {p} : TurnOf(q)'
    BY <1>1, <1>2, <1>3, OthersStay DEF TurnsIInv
  <2> QED BY <1>1, <2>1 DEF Turns
<1> QED BY <1>4, <1>5, <1>6, <1>7, <1>8 DEF TurnsIInv

\* A process is moved to another core by hand.
LEMMA MigrateKeeps ==
  ASSUME TurnsIInv, NEW p \in Pids, NEW c \in Cores, Migrate(p, c)
  PROVE  TurnsIInv'
<1>0. PICK old \in Cores : old = current_core[p]
  BY DEF Migrate, TurnsIInv, CoreKnown
<1>1. /\ p \in table /\ old # c /\ table' = table /\ moved' = moved \cup {p}
      /\ active_processes' = [active_processes EXCEPT ![old] = @ \ {p}, ![c] = @ \cup {p}]
      /\ ready_queue' = [ready_queue EXCEPT ![old] = RemoveFirst(@, p), ![c] = Append(@, p)]
      /\ current_core' = [current_core EXCEPT ![p] = c]
      /\ state' = [state EXCEPT ![p] = "ready"]
      /\ UNCHANGED <<initialized, message_queue, slices, call>>
  BY <1>0 DEF Migrate
<1>2. /\ ready_queue' \in [Cores -> Seq(Pids)]
      /\ \A q \in Pids \ {p}, d \in Cores :
            Tally(ready_queue'[d], q) = Tally(ready_queue[d], q)
  <2>1. \A d \in Cores : ready_queue[d] \in Seq(Pids)
    BY DEF TurnsIInv, SpamTyped
  <2>2. /\ RemoveFirst(ready_queue[old], p) \in Seq(Pids)
        /\ \A q : q # p => Tally(RemoveFirst(ready_queue[old], p), q) = Tally(ready_queue[old], q)
    BY <2>1, RemovedFirst
  <2>3. Append(ready_queue[c], p) \in Seq(Pids)
    BY <2>1, TallyAppend
  <2>4. ASSUME NEW q, q # p
        PROVE  Tally(Append(ready_queue[c], p), q) = Tally(ready_queue[c], q)
    <3>1. Tally(Append(ready_queue[c], p), q) = Tally(ready_queue[c], q) + IF q = p THEN 1 ELSE 0
      BY <2>1, TallyAppend
    <3>2. Tally(ready_queue[c], q) \in Nat
      BY <2>1, TallyType
    <3> QED BY <2>4, <3>1, <3>2
  <2>5. \A d \in Cores : ready_queue'[d] =
           IF d = c THEN Append(ready_queue[c], p)
           ELSE IF d = old THEN RemoveFirst(ready_queue[old], p) ELSE ready_queue[d]
    BY <1>1 DEF TurnsIInv, SpamTyped
  <2>6. ready_queue' \in [Cores -> Seq(Pids)]
    BY <1>1, <2>2, <2>3 DEF TurnsIInv, SpamTyped
  <2> QED BY <2>2, <2>4, <2>5, <2>6
<1>3. /\ state'[p] = "ready" /\ current_core'[p] = c
      /\ \A q \in Pids \ {p} : state'[q] = state[q] /\ current_core'[q] = current_core[q]
      /\ \A d \in Cores : \A q : q \in active_processes'[d] <=>
            \/ d = c /\ q = p
            \/ q \in active_processes[d] /\ ~ (d = old /\ q = p)
  <2>1. /\ active_processes'[c] = active_processes[c] \cup {p}
        /\ active_processes'[old] = active_processes[old] \ {p}
        /\ \A d \in Cores \ {c, old} : active_processes'[d] = active_processes[d]
    BY <1>1 DEF TurnsIInv, SpamTyped
  <2>2. ASSUME NEW d \in Cores, NEW q
        PROVE  q \in active_processes'[d] <=>
                  \/ d = c /\ q = p
                  \/ q \in active_processes[d] /\ ~ (d = old /\ q = p)
    BY <2>1, <1>1
  <2>3. /\ state'[p] = "ready" /\ current_core'[p] = c
        /\ \A q \in Pids \ {p} : state'[q] = state[q] /\ current_core'[q] = current_core[q]
    BY <1>1 DEF TurnsIInv, SpamTyped
  <2> QED BY <2>2, <2>3
<1>4. SpamTyped'
  <2>1. /\ state' \in [Pids -> States] /\ active_processes' \in [Cores -> SUBSET Pids]
        /\ current_core' \in [Pids -> Cores \cup {0}]
    BY <1>1 DEF TurnsIInv, SpamTyped, States
  <2> QED BY <1>1, <1>2, <2>1 DEF TurnsIInv, SpamTyped
<1>5. Unspawned'
  BY <1>1, <1>2, <1>3, UnspawnedStay DEF TurnsIInv
<1>6. CoreKnown' /\ PlacedOnce'
  <2>1. \A q \in table : q \in Pids
    BY DEF TurnsIInv, SpamTyped
  <2>2. CoreKnown'
    BY <1>1, <1>3, <2>1 DEF TurnsIInv, CoreKnown
  <2>a. \A q \in table, d \in Cores : q \in active_processes[d] <=> d = current_core[q]
    BY DEF TurnsIInv, PlacedOnce
  <2>b. \A d \in Cores : active_processes[d] \subseteq table
    BY DEF TurnsIInv, PlacedOnce
  <2>c. /\ p \in table /\ table' = table /\ old # c
    BY <1>1
  <2>3. ASSUME NEW q \in table, NEW d \in Cores
        PROVE  q \in active_processes'[d] <=> d = current_core'[q]
    <3>1. CASE q = p
      BY <3>1, <1>0, <1>3, <2>a, <2>c
    <3>2. CASE q # p
      BY <3>2, <1>3, <2>1, <2>a
    <3> QED BY <3>1, <3>2
  <2>4. \A d \in Cores : active_processes'[d] \subseteq table
    BY <1>3, <2>b, <2>c
  <2> QED BY <2>2, <2>3, <2>4, <2>c DEF PlacedOnce
<1>7. NoLostWakeup'
  BY <1>1, <1>3 DEF TurnsIInv, NoLostWakeup
<1>8. Turns'
  <2>1. \A q \in (table' \ moved') \ {p} : TurnOf(q)'
    BY <1>1, <1>2, <1>3, OthersStay DEF TurnsIInv
  <2> QED BY <1>1, <2>1 DEF Turns
<1> QED BY <1>4, <1>5, <1>6, <1>7, <1>8 DEF TurnsIInv

\* A message is sent.
LEMMA SendKeeps ==
  ASSUME TurnsIInv, NEW p \in Pids, NEW m \in Calls \cup Casts, Send(p, m)
  PROVE  TurnsIInv'
<1>0. PICK c \in Cores : c = current_core[p]
  BY DEF Send, TurnsIInv, CoreKnown
<1>1. /\ p \in table /\ initialized
      /\ message_queue' = [message_queue EXCEPT ![p] = Append(@, m)]
      /\ UNCHANGED <<initialized, table, current_core, active_processes, slices, moved>>
  BY DEF Send
<1>2. /\ state[p] # "waiting" => UNCHANGED <<state, ready_queue>>
      /\ state[p] = "waiting" =>
            /\ state' = [state EXCEPT ![p] = "ready"]
            /\ ready_queue' = IF p \in ToSet(ready_queue[c]) THEN ready_queue
                              ELSE [ready_queue EXCEPT ![c] = Append(@, p)]
  BY <1>0 DEF Send, Wake
<1>3. message_queue' \in [Pids -> Seq(Calls \cup Casts)]
  <2>1. Append(message_queue[p], m) \in Seq(Calls \cup Casts)
    BY DEF TurnsIInv, SpamTyped
  <2> QED BY <1>1, <2>1 DEF TurnsIInv, SpamTyped
<1>4. /\ ready_queue' \in [Cores -> Seq(Pids)]
      /\ \A q \in Pids \ {p}, d \in Cores :
            Tally(ready_queue'[d], q) = Tally(ready_queue[d], q)
  <2>1. CASE ready_queue' = ready_queue
    BY <2>1 DEF TurnsIInv, SpamTyped
  <2>2. CASE ready_queue' = [ready_queue EXCEPT ![c] = Append(@, p)]
    BY <2>2, Queued DEF TurnsIInv
  <2> QED BY <2>1, <2>2, <1>2
<1>5. /\ state' \in [Pids -> States] /\ \A q \in Pids \ {p} : state'[q] = state[q]
      /\ state'[p] = IF state[p] = "waiting" THEN "ready" ELSE state[p]
  BY <1>2 DEF TurnsIInv, SpamTyped, States
<1>6. SpamTyped'
  BY <1>1, <1>3, <1>4, <1>5 DEF TurnsIInv, SpamTyped
<1>7. Unspawned'
  <2>1. state'[p] # "none"
    BY <1>1, <1>5 DEF TurnsIInv, Unspawned
  <2> QED BY <1>1, <1>4, <1>5, <2>1, UnspawnedStay DEF TurnsIInv
<1>8. CoreKnown' /\ PlacedOnce'
  BY <1>1 DEF TurnsIInv, CoreKnown, PlacedOnce
<1>9. NoLostWakeup'
  <2>1. \A q \in Pids \ {p} : message_queue'[q] = message_queue[q]
    BY <1>1 DEF TurnsIInv, SpamTyped
  <2> QED BY <1>5, <2>1 DEF TurnsIInv, NoLostWakeup
<1>10. Turns'
  <2>1. \A q \in (table' \ moved') \ {p} : TurnOf(q)'
    BY <1>1, <1>4, <1>5, OthersStay DEF TurnsIInv
  <2>2. ASSUME p \notin moved PROVE TurnOf(p)'
    <3>1. TurnOf(p)
      BY <1>1, <2>2 DEF TurnsIInv, Turns
    <3>2. CASE state[p] # "waiting"
      BY <3>1, <3>2, <1>1, <1>2, TurnStays
    <3>3. CASE state[p] = "waiting"
      <4>1. Len(slices[p]) \in Nat /\ Tally(ready_queue[c], p) \in Nat /\ slices[p] \in Seq(SliceKinds)
        <5>1. ready_queue[c] \in Seq(Pids) /\ slices[p] \in Seq(SliceKinds)
          BY DEF TurnsIInv, SpamTyped
        <5>2. Tally(ready_queue[c], p) \in Nat
          BY <5>1, TallyType
        <5> QED BY <5>1, <5>2, LenProperties
      <4>2. Len(slices[p]) = 0 /\ Tally(ready_queue[c], p) = 0
        BY <1>0, <3>1, <3>3, <4>1 DEF TurnOf
      <4>3. p \notin ToSet(ready_queue[c])
        <5>1. ready_queue[c] \in Seq(Pids)
          BY DEF TurnsIInv, SpamTyped
        <5> QED BY <4>2, <5>1, TallyZero DEF ToSet
      <4>4. Tally(ready_queue'[c], p) = 1
        <5>1. ready_queue' = [ready_queue EXCEPT ![c] = Append(@, p)]
          BY <1>2, <3>3, <4>3
        <5>2. Tally(ready_queue'[c], p) = Tally(ready_queue[c], p) + 1
          BY <5>1, Queued DEF TurnsIInv
        <5> QED BY <5>2, <4>2
      <4>5. slices'[p] = slices[p] /\ DOMAIN slices[p] = {} /\ current_core'[p] = c
        BY <1>0, <1>1, <4>1, <4>2
      <4> QED BY <3>3, <4>2, <4>4, <4>5, <1>5 DEF TurnOf
    <3> QED BY <3>2, <3>3
  <2> QED BY <1>1, <2>1, <2>2 DEF Turns
<1> QED BY <1>6, <1>7, <1>8, <1>9, <1>10 DEF TurnsIInv

-----------------------------------------------------------------------------
(* The SPAM scheduler: a turn of a core's loop.                            *)

\* Slices that are added come after those under way.
LEMMA SlicesAdded ==
  ASSUME SpamTyped, NEW c \in Cores, NEW n, \A q \in Pids : n[q] \in Nat,
         slices' = WithSlices(c, n)
  PROVE  /\ slices' \in [Pids -> Seq(SliceKinds)]
         /\ \A q \in Pids :
               /\ Len(slices[q]) \in Nat /\ Len(slices'[q]) = Len(slices[q]) + n[q]
               /\ n[q] = 0 => slices'[q] = slices[q]
               /\ Len(slices[q]) = 0 => \A i \in DOMAIN slices'[q] : slices'[q][i] = Slice(c)
<1>1. Slice(c) \in SliceKinds
  BY DEF Slice, SliceKinds
<1>2. ASSUME NEW q \in Pids
      PROVE  /\ slices'[q] \in Seq(SliceKinds)
             /\ Len(slices[q]) \in Nat /\ Len(slices'[q]) = Len(slices[q]) + n[q]
             /\ n[q] = 0 => slices'[q] = slices[q]
             /\ Len(slices[q]) = 0 => \A i \in DOMAIN slices'[q] : slices'[q][i] = Slice(c)
  <2> DEFINE new == [k \in 1 .. n[q] |-> Slice(c)]
  <2>1. /\ new \in Seq(SliceKinds) /\ Len(new) = n[q] /\ n[q] \in Nat
        /\ \A k \in 1 .. n[q] : new[k] = Slice(c)
    BY <1>1
  <2>2. slices[q] \in Seq(SliceKinds) /\ Len(slices[q]) \in Nat
    BY DEF SpamTyped
  <2>3. slices'[q] = slices[q] \o new
    BY DEF WithSlices
  <2> HIDE DEF new
  <2>4. /\ slices'[q] \in Seq(SliceKinds) /\ Len(slices'[q]) = Len(slices[q]) + Len(new)
        /\ \A i \in 1 .. Len(slices[q]) + Len(new) : slices'[q][i] =
              IF i <= Len(slices[q]) THEN slices[q][i] ELSE new[i - Len(slices[q])]
    <3> DEFINE old == slices[q]
    <3>1. old \in Seq(SliceKinds)
      BY <2>2
    <3> HIDE DEF old
    <3>2. /\ old \o new \in Seq(SliceKinds) /\ Len(old \o new) = Len(old) + Len(new)
          /\ \A i \in 1 .. Len(old) + Len(new) : (old \o new)[i] =
                IF i <= Len(old) THEN old[i] ELSE new[i - Len(old)]
      BY <2>1, <3>1, ConcatProperties
    <3> QED BY <2>3, <3>2 DEF old
  <2>5. ASSUME n[q] = 0 PROVE slices'[q] = slices[q]
    <3>1. new = <<>>
      BY <2>1, <2>5
    <3> QED BY <3>1, <2>2, <2>3, ConcatEmptySeq
  <2>6. ASSUME Len(slices[q]) = 0, NEW i \in DOMAIN slices'[q] PROVE slices'[q][i] = Slice(c)
    <3>1. Len(slices'[q]) = n[q] /\ i \in 1 .. n[q]
      BY <2>1, <2>4, <2>6, LenProperties
    <3>2. slices'[q][i] = new[i]
      BY <2>1, <2>4, <2>6, <3>1
    <3> QED BY <2>1, <3>1, <3>2
  <2> QED BY <2>1, <2>2, <2>4, <2>5, <2>6
<1>3. slices' \in [Pids -> Seq(SliceKinds)]
  <2>1. slices' = [q \in Pids |-> slices'[q]]
    BY DEF WithSlices
  <2> QED BY <2>1, <1>2
<1> QED BY <1>2, <1>3

\* How many slices a queue gives.
LEMMA DispatchedType ==
  ASSUME SpamTyped, NEW c \in Cores, NEW q \in Pids
  PROVE  /\ Dispatched(c, q) \in Nat
         /\ Dispatched(c, q) = IF q \in active_processes[c] /\ state[q] = "ready"
                               THEN Tally(ready_queue[c], q) ELSE 0
<1>1. ready_queue[c] \in Seq(Pids)
  BY DEF SpamTyped
<1>2. Tally(ready_queue[c], q) \in Nat
  BY <1>1, TallyType
<1> QED BY <1>2, PlacesTallied DEF Dispatched

\* The turn of a process that waited in the queue is now a slice; those elsewhere keep
\* theirs.
LEMMA DispatchTurn ==
  ASSUME SpamTyped, CoreKnown, PlacedOnce, initialized, NEW q \in table, TurnOf(q),
         NEW c \in Cores, NEW n, \A p \in Pids : n[p] \in Nat, n[q] = Dispatched(c, q),
         slices' = WithSlices(c, n), Tally(ready_queue'[c], q) = 0,
         \A d \in Cores \ {c} : Tally(ready_queue'[d], q) = Tally(ready_queue[d], q),
         state'[q] = state[q], current_core'[q] = current_core[q]
  PROVE  TurnOf(q)'
<1> DEFINE d == current_core[q]
<1>1. d \in Cores /\ q \in Pids
  BY DEF CoreKnown, SpamTyped
<1>2. /\ Len(slices[q]) \in Nat /\ Len(slices'[q]) = Len(slices[q]) + n[q]
      /\ n[q] = 0 => slices'[q] = slices[q]
      /\ Len(slices[q]) = 0 => \A i \in DOMAIN slices'[q] : slices'[q][i] = Slice(c)
  BY <1>1, SlicesAdded
<1>3. n[q] = IF q \in active_processes[c] /\ state[q] = "ready"
             THEN Tally(ready_queue[c], q) ELSE 0
  BY <1>1, DispatchedType
<1>4. q \in active_processes[c] <=> c = d
  BY DEF PlacedOnce
<1>5. CASE c # d
  <2>1. slices'[q] = slices[q] /\ Tally(ready_queue'[d], q) = Tally(ready_queue[d], q)
    BY <1>1, <1>2, <1>3, <1>4, <1>5
  <2>2. initialized' => initialized
    OBVIOUS
  <2> QED BY <2>1, <2>2, TurnStays
<1>6. CASE c = d
  <2>1. Tally(ready_queue[c], q) \in Nat
    <3>1. ready_queue[c] \in Seq(Pids)
      BY DEF SpamTyped
    <3> QED BY <3>1, TallyType
  <2>2. CASE Tally(ready_queue[c], q) = 0
    <3>1. slices'[q] = slices[q] /\ Tally(ready_queue'[d], q) = Tally(ready_queue[d], q)
      BY <1>2, <1>3, <1>6, <2>2
    <3> QED BY <3>1, TurnStays
  <2>3. CASE Tally(ready_queue[c], q) # 0
    <3>1. state[q] = "ready" /\ Len(slices[q]) = 0 /\ Tally(ready_queue[c], q) = 1
      BY <1>2, <1>6, <2>1, <2>3 DEF TurnOf
    <3>2. n[q] = 1
      BY <1>3, <1>4, <1>6, <3>1
    <3>3. Len(slices'[q]) = 1
      BY <1>2, <3>1, <3>2
    <3>4. \A i \in DOMAIN slices'[q] : slices'[q][i].core = c /\ slices'[q][i].at = "created"
      BY <1>2, <3>1 DEF Slice
    <3>5. current_core'[q] = c /\ state'[q] = "ready" /\ Tally(ready_queue'[c], q) = 0
      BY <1>6, <3>1
    <3> QED BY <3>3, <3>4, <3>5 DEF TurnOf
  <2> QED BY <2>2, <2>3
<1> QED BY <1>5, <1>6

\* A core gives out its queue.
LEMMA DispatchKeeps ==
  ASSUME TurnsIInv, NEW c \in Cores, initialized, DispatchOnly(c),
         UNCHANGED <<initialized, table, message_queue, call>>
  PROVE  TurnsIInv'
<1> DEFINE n == [p \in Pids |-> Dispatched(c, p)]
<1>1. /\ slices' = WithSlices(c, n) /\ ready_queue' = [ready_queue EXCEPT ![c] = <<>>]
      /\ UNCHANGED <<state, current_core, active_processes, moved>>
  BY DEF DispatchOnly
<1>2. \A p \in Pids : n[p] \in Nat /\ n[p] = Dispatched(c, p)
  BY DispatchedType DEF TurnsIInv
<1> HIDE DEF n
<1>3. /\ slices' \in [Pids -> Seq(SliceKinds)]
      /\ \A p \in Pids : n[p] = 0 => slices'[p] = slices[p]
  BY <1>1, <1>2, SlicesAdded DEF TurnsIInv
<1>4. /\ ready_queue' \in [Cores -> Seq(Pids)]
      /\ \A q : Tally(ready_queue'[c], q) = 0
      /\ \A d \in Cores \ {c} : ready_queue'[d] = ready_queue[d]
  <2>1. ready_queue'[c] = <<>> /\ \A d \in Cores \ {c} : ready_queue'[d] = ready_queue[d]
    BY <1>1 DEF TurnsIInv, SpamTyped
  <2>2. ready_queue' \in [Cores -> Seq(Pids)]
    BY <1>1 DEF TurnsIInv, SpamTyped
  <2> QED BY <2>1, <2>2, TallyOne
<1>5. SpamTyped'
  BY <1>1, <1>3, <1>4 DEF TurnsIInv, SpamTyped
<1>6. Unspawned'
  <2> SUFFICES ASSUME NEW p \in Pids, state[p] = "none"
               PROVE  p \notin table /\ slices'[p] = <<>>
                      /\ \A d \in Cores : Tally(ready_queue'[d], p) = 0
    BY <1>1 DEF Unspawned
  <2>1. /\ p \notin table /\ slices[p] = <<>>
        /\ \A d \in Cores : Tally(ready_queue[d], p) = 0
    BY DEF TurnsIInv, Unspawned
  <2>2. n[p] = 0
    BY <1>2, DispatchedType DEF TurnsIInv
  <2> QED BY <2>1, <2>2, <1>3, <1>4
<1>7. CoreKnown' /\ PlacedOnce' /\ NoLostWakeup'
  BY <1>1 DEF TurnsIInv, CoreKnown, PlacedOnce, NoLostWakeup
<1>8. Turns'
  <2> SUFFICES ASSUME NEW q \in table \ moved PROVE TurnOf(q)'
    BY <1>1 DEF Turns
  <2>1. TurnOf(q) /\ q \in Pids /\ n[q] = Dispatched(c, q)
    BY <1>2 DEF TurnsIInv, Turns, SpamTyped
  <2>2. \A d \in Cores \ {c} : Tally(ready_queue'[d], q) = Tally(ready_queue[d], q)
    BY <1>4
  <2> QED BY <1>1, <1>2, <1>4, <2>1, <2>2, DispatchTurn DEF TurnsIInv
<1> QED BY <1>5, <1>6, <1>7, <1>8 DEF TurnsIInv

\* A core gives out its queue and steals.
LEMMA StealKeeps ==
  ASSUME TurnsIInv, NEW c \in Cores, initialized, DispatchAndSteal(c),
         UNCHANGED <<initialized, table, message_queue, call>>
  PROVE  TurnsIInv'
<1> DEFINE Steals(v, p) ==
             /\ ready_queue' = [ready_queue EXCEPT ![c] = <<>>, ![v] = RemoveFirst(@, p)]
             /\ active_processes' = Taken(v, c, p)
             /\ current_core' = [current_core EXCEPT ![p] = c]
             /\ state' = [state EXCEPT ![p] = "ready"]
             /\ moved' = moved \union {p}
             /\ slices' = WithSlices(c, [q \in Pids |->
                              Dispatched(c, q) + IF q = p THEN 2 ELSE 0])
<1>a. PICK v \in Victims(c) : \E last \in Stealable(v) : Steals(v, ready_queue[v][last])
  BY DEF DispatchAndSteal
<1>0. PICK last \in Stealable(v) : Steals(v, ready_queue[v][last])
  BY <1>a
<1>1. PICK p \in Pids : p = ready_queue[v][last] /\ p \in active_processes[v]
  BY DEF Stealable, TurnsIInv, SpamTyped, Victims
<1>2. v \in Cores /\ v # c /\ p \in table /\ current_core[p] = v
  BY <1>1 DEF Victims, TurnsIInv, PlacedOnce
<1> DEFINE n == [q \in Pids |-> Dispatched(c, q) + IF q = p THEN 2 ELSE 0]
<1>3. /\ ready_queue' = [ready_queue EXCEPT ![c] = <<>>, ![v] = RemoveFirst(@, p)]
      /\ active_processes' = [active_processes EXCEPT ![v] = @ \ {p}, ![c] = @ \union {p}]
      /\ current_core' = [current_core EXCEPT ![p] = c]
      /\ state' = [state EXCEPT ![p] = "ready"]
      /\ moved' = moved \union {p}
      /\ slices' = WithSlices(c, n)
  BY <1>0, <1>1 DEF Taken
<1>4. \A q \in Pids : n[q] \in Nat /\ (q # p => n[q] = Dispatched(c, q))
  <2>1. \A q \in Pids : Dispatched(c, q) \in Nat
    BY DispatchedType DEF TurnsIInv
  <2> QED BY <2>1
<1> HIDE DEF n
<1>5. /\ slices' \in [Pids -> Seq(SliceKinds)]
      /\ \A q \in Pids : n[q] = 0 => slices'[q] = slices[q]
  BY <1>3, <1>4, SlicesAdded DEF TurnsIInv
<1>6. /\ ready_queue' \in [Cores -> Seq(Pids)]
      /\ \A q : Tally(ready_queue'[c], q) = 0
      /\ \A q \in Pids \ {p}, d \in Cores \ {c} :
            Tally(ready_queue'[d], q) = Tally(ready_queue[d], q)
  <2>1. \A d \in Cores : ready_queue[d] \in Seq(Pids)
    BY DEF TurnsIInv, SpamTyped
  <2>2. /\ RemoveFirst(ready_queue[v], p) \in Seq(Pids)
        /\ \A q : q # p => Tally(RemoveFirst(ready_queue[v], p), q) = Tally(ready_queue[v], q)
    BY <2>1, <1>2, RemovedFirst
  <2>3. \A d \in Cores : ready_queue'[d] =
           IF d = c THEN <<>>
           ELSE IF d = v THEN RemoveFirst(ready_queue[v], p) ELSE ready_queue[d]
    BY <1>2, <1>3 DEF TurnsIInv, SpamTyped
  <2>4. ready_queue' \in [Cores -> Seq(Pids)]
    <3>1. <<>> \in Seq(Pids)
      OBVIOUS
    <3>2. [ready_queue EXCEPT ![c] = <<>>] \in [Cores -> Seq(Pids)]
      BY <3>1 DEF TurnsIInv, SpamTyped
    <3>3. ready_queue' = [[ready_queue EXCEPT ![c] = <<>>] EXCEPT ![v] = RemoveFirst(ready_queue[v], p)]
      BY <1>2, <1>3 DEF TurnsIInv, SpamTyped
    <3> HIDE DEF n
    <3> QED BY <2>2, <3>2, <3>3
  <2> QED BY <2>2, <2>3, <2>4, TallyOne
<1>7. /\ state'[p] = "ready" /\ current_core'[p] = c
      /\ \A q \in Pids \ {p} : state'[q] = state[q] /\ current_core'[q] = current_core[q]
  BY <1>3 DEF TurnsIInv, SpamTyped
<1>8. \A d \in Cores : \A q : q \in active_processes'[d] <=>
         \/ d = c /\ q = p
         \/ q \in active_processes[d] /\ ~ (d = v /\ q = p)
  <2>1. /\ active_processes'[c] = active_processes[c] \cup {p}
        /\ active_processes'[v] = active_processes[v] \ {p}
        /\ \A d \in Cores \ {c, v} : active_processes'[d] = active_processes[d]
    BY <1>2, <1>3 DEF TurnsIInv, SpamTyped
  <2> QED BY <2>1, <1>2
<1>9. SpamTyped'
  <2>1. /\ state' \in [Pids -> States] /\ active_processes' \in [Cores -> SUBSET Pids]
        /\ current_core' \in [Pids -> Cores \cup {0}]
    BY <1>3 DEF TurnsIInv, SpamTyped, States
  <2> QED BY <1>3, <1>5, <1>6, <2>1 DEF TurnsIInv, SpamTyped
<1>10. Unspawned'
  <2> SUFFICES ASSUME NEW q \in Pids, state'[q] = "none"
               PROVE  q \notin table /\ slices'[q] = <<>>
                      /\ \A d \in Cores : Tally(ready_queue'[d], q) = 0
    BY DEF Unspawned
  <2>1. q # p /\ state[q] = "none"
    BY <1>7
  <2>2. /\ q \notin table /\ slices[q] = <<>>
        /\ \A d \in Cores : Tally(ready_queue[d], q) = 0
    BY <2>1 DEF TurnsIInv, Unspawned
  <2>3. n[q] = 0
    BY <1>4, <2>1, DispatchedType DEF TurnsIInv
  <2> QED BY <2>1, <2>2, <2>3, <1>5, <1>6
<1>11. CoreKnown' /\ PlacedOnce'
  <2>1. \A q \in table : q \in Pids
    BY DEF TurnsIInv, SpamTyped
  <2>a. \A q \in table, d \in Cores : q \in active_processes[d] <=> d = current_core[q]
    BY DEF TurnsIInv, PlacedOnce
  <2>b. \A d \in Cores : active_processes[d] \subseteq table
    BY DEF TurnsIInv, PlacedOnce
  <2>2. CoreKnown'
    BY <1>7, <2>1 DEF TurnsIInv, CoreKnown
  <2>3. ASSUME NEW q \in table, NEW d \in Cores
        PROVE  q \in active_processes'[d] <=> d = current_core'[q]
    <3>1. CASE q = p
      BY <3>1, <1>2, <1>7, <1>8, <2>a
    <3>2. CASE q # p
      BY <3>2, <1>7, <1>8, <2>1, <2>a
    <3> QED BY <3>1, <3>2
  <2>4. \A d \in Cores : active_processes'[d] \subseteq table
    BY <1>2, <1>8, <2>b
  <2> QED BY <2>2, <2>3, <2>4 DEF PlacedOnce
<1>12. NoLostWakeup'
  BY <1>7 DEF TurnsIInv, NoLostWakeup
<1>13. Turns'
  <2> SUFFICES ASSUME NEW q \in table \ moved' PROVE TurnOf(q)'
    BY DEF Turns
  <2>1. TurnOf(q) /\ q \in Pids \ {p} /\ n[q] = Dispatched(c, q) /\ q \in table
    BY <1>3, <1>4 DEF TurnsIInv, Turns, SpamTyped
  <2> QED BY <1>3, <1>4, <1>6, <1>7, <2>1, DispatchTurn DEF TurnsIInv
<1> QED BY <1>9, <1>10, <1>11, <1>12, <1>13 DEF TurnsIInv

-----------------------------------------------------------------------------
(* The SPAM scheduler: slices.                                             *)

\* A slice is of a process that was spawned, on a core; of one that never moved it is
\* the turn.
LEMMA SliceIs ==
  ASSUME TurnsIInv, NEW p \in Pids, NEW i \in DOMAIN slices[p]
  PROVE  /\ slices[p] \in Seq(SliceKinds) /\ i \in 1 .. Len(slices[p]) /\ Len(slices[p]) \in Nat
         /\ slices[p][i] \in SliceKinds /\ slices[p][i].core \in Cores
         /\ state[p] # "none"
         /\ p \in table \ moved =>
               /\ current_core[p] = slices[p][i].core /\ Len(slices[p]) = 1
               /\ Tally(ready_queue[slices[p][i].core], p) = 0
               /\ slices[p][i].at # "created" => state[p] \in {"running", "terminated"}
<1>1. slices[p] \in Seq(SliceKinds) /\ i \in 1 .. Len(slices[p]) /\ Len(slices[p]) \in Nat
  BY DEF TurnsIInv, SpamTyped
<1>2. slices[p][i] \in SliceKinds
  BY <1>1, ElementOfSeq
<1>3. slices[p][i].core \in Cores
  BY <1>2 DEF SliceKinds
<1>4. state[p] # "none"
  <2>1. slices[p] # <<>>
    BY <1>1
  <2> QED BY <2>1 DEF TurnsIInv, Unspawned
<1>5. ASSUME p \in table \ moved
      PROVE  /\ current_core[p] = slices[p][i].core /\ Len(slices[p]) = 1
             /\ Tally(ready_queue[slices[p][i].core], p) = 0
             /\ slices[p][i].at # "created" => state[p] \in {"running", "terminated"}
  <2>1. TurnOf(p)
    BY <1>5 DEF TurnsIInv, Turns
  <2>2. slices[p][i].core = current_core[p]
    BY <2>1 DEF TurnOf
  <2>3. Tally(ready_queue[current_core[p]], p) \in Nat
    <3>1. ready_queue[current_core[p]] \in Seq(Pids)
      BY <1>3, <2>2 DEF TurnsIInv, SpamTyped
    <3> QED BY <3>1, TallyType
  <2>4. Len(slices[p]) + Tally(ready_queue[current_core[p]], p) <= 1
    BY <2>1 DEF TurnOf
  <2>5. Len(slices[p]) = 1 /\ Tally(ready_queue[current_core[p]], p) = 0
    <3> DEFINE l == Len(slices[p])
               t == Tally(ready_queue[current_core[p]], p)
    <3>1. l \in Nat /\ l >= 1
      BY <1>1
    <3>2. t \in Nat /\ l + t <= 1
      BY <2>3, <2>4
    <3> HIDE DEF l, t
    <3>3. l = 1 /\ t = 0
      BY ONLY <3>1, <3>2
    <3> QED BY <3>3 DEF l, t
  <2>6. slices[p][i].at # "created" => state[p] \in {"running", "terminated"}
    BY <2>1 DEF TurnOf
  <2> QED BY <2>2, <2>5, <2>6
<1> QED BY <1>1, <1>2, <1>3, <1>4, <1>5

\* A slice that ends puts its process, ready, in the queue of the slice's core, or leaves
\* it neither ready nor running unless it has moved, and waiting only without mail.
LEMMA SliceEnds ==
  ASSUME TurnsIInv, NEW p \in Pids, NEW i \in DOMAIN slices[p], NEW s \in States \ {"none"},
         state' = [state EXCEPT ![p] = s],
         slices' = [slices EXCEPT ![p] = RemoveAt(@, i)],
         \/ /\ s = "ready"
            /\ ready_queue' = [ready_queue EXCEPT ![slices[p][i].core] = Append(@, p)]
         \/ (p \in table \ moved => s # "ready") /\ ready_queue' = ready_queue,
         s = "waiting" => message_queue[p] = <<>>,
         p \in table \ moved => s # "running",
         UNCHANGED <<initialized, table, message_queue, current_core, active_processes, moved>>
  PROVE  TurnsIInv'
<1>0. PICK c \in Cores : c = slices[p][i].core
  BY SliceIs
<1>1. RemoveAt(slices[p], i) \in Seq(SliceKinds) /\ Len(RemoveAt(slices[p], i)) = Len(slices[p]) - 1
  BY SliceIs, RemovedAt
<1>2. /\ state'[p] = s /\ slices'[p] = RemoveAt(slices[p], i)
      /\ \A q \in Pids \ {p} : state'[q] = state[q] /\ slices'[q] = slices[q]
  BY DEF TurnsIInv, SpamTyped
<1>3. /\ ready_queue' \in [Cores -> Seq(Pids)]
      /\ \A q \in Pids \ {p}, d \in Cores :
            Tally(ready_queue'[d], q) = Tally(ready_queue[d], q)
      /\ \/ s = "ready" /\ Tally(ready_queue'[c], p) = Tally(ready_queue[c], p) + 1
         \/ (p \in table \ moved => s # "ready") /\ ready_queue' = ready_queue
  <2>1. CASE ready_queue' = ready_queue /\ (p \in table \ moved => s # "ready")
    BY <2>1 DEF TurnsIInv, SpamTyped
  <2>2. CASE s = "ready" /\ ready_queue' = [ready_queue EXCEPT ![slices[p][i].core] = Append(@, p)]
    <3>1. ready_queue' = [ready_queue EXCEPT ![c] = Append(@, p)]
      BY <1>0, <2>2
    <3> QED BY <2>2, <3>1, Queued DEF TurnsIInv
  <2> QED BY <2>1, <2>2
<1>4. SpamTyped'
  <2>1. state' \in [Pids -> States] /\ slices' \in [Pids -> Seq(SliceKinds)]
    BY <1>1 DEF TurnsIInv, SpamTyped
  <2> QED BY <1>3, <2>1 DEF TurnsIInv, SpamTyped
<1>5. Unspawned'
  BY <1>2, <1>3, UnspawnedStay DEF TurnsIInv
<1>6. CoreKnown' /\ PlacedOnce'
  BY DEF TurnsIInv, CoreKnown, PlacedOnce
<1>7. NoLostWakeup'
  BY <1>2 DEF TurnsIInv, NoLostWakeup
<1>8. Turns'
  <2>1. \A q \in (table' \ moved') \ {p} : TurnOf(q)'
    BY <1>2, <1>3, OthersStay DEF TurnsIInv
  <2>2. ASSUME p \in table \ moved PROVE TurnOf(p)'
    <3>1. /\ current_core'[p] = c /\ Len(slices[p]) = 1 /\ Tally(ready_queue[c], p) = 0
          /\ s # "running"
      BY <1>0, <2>2, SliceIs
    <3>2. Len(slices'[p]) = 0 /\ DOMAIN slices'[p] = {}
      <4>1. slices'[p] \in Seq(SliceKinds) /\ Len(slices'[p]) = 0
        BY <1>1, <1>2, <3>1
      <4> QED BY <4>1, LenProperties
    <3>3. Tally(ready_queue'[c], p) = IF s = "ready" THEN 1 ELSE 0
      BY <1>3, <2>2, <3>1
    <3>4. state'[p] = s
      BY <1>2
    <3> QED BY ONLY <3>1, <3>2, <3>3, <3>4 DEF TurnOf
  <2> QED BY <2>1, <2>2 DEF Turns
<1> QED BY <1>4, <1>5, <1>6, <1>7, <1>8 DEF TurnsIInv

\* A slice yields.
LEMMA YieldKeeps ==
  ASSUME TurnsIInv, NEW p \in Pids, NEW i \in DOMAIN slices[p],
         Yield(p, slices[p][i].core), slices' = [slices EXCEPT ![p] = RemoveAt(@, i)],
         UNCHANGED <<initialized, table, message_queue, current_core, active_processes, moved>>
  PROVE  TurnsIInv'
<1>1. CASE message_queue[p] # <<>>
  <2>1. /\ state' = [state EXCEPT ![p] = "ready"]
        /\ ready_queue' = [ready_queue EXCEPT ![slices[p][i].core] = Append(@, p)]
    BY <1>1 DEF Yield
  <2>2. "ready" \in States \ {"none"}
    BY DEF States
  <2> QED BY <2>1, <2>2, SliceEnds
<1>2. CASE message_queue[p] = <<>>
  <2>1. state' = [state EXCEPT ![p] = "waiting"] /\ ready_queue' = ready_queue
    BY <1>2 DEF Yield
  <2>2. "waiting" \in States \ {"none"}
    BY DEF States
  <2> QED BY <1>2, <2>1, <2>2, SliceEnds
<1> QED BY <1>1, <1>2

\* A slice takes a message, or yields.
LEMMA GoesOnKeeps ==
  ASSUME TurnsIInv, NEW p \in Pids, NEW i \in DOMAIN slices[p],
         NEW now \in {"running", "terminated", state[p]}, NEW handled \in Nat,
         now = state[p] \/ now \in {"running", "terminated"},
         slices[p][i].at # "created" \/ now \in {"running", "terminated"},
         GoesOn(p, i, now, handled),
         UNCHANGED <<initialized, table, current_core, active_processes, moved>>
  PROVE  TurnsIInv'
<1>1. CASE /\ UNCHANGED message_queue /\ Yield(p, slices[p][i].core)
           /\ slices' = [slices EXCEPT ![p] = RemoveAt(@, i)]
  BY <1>1, YieldKeeps
<1>2. CASE ~ /\ UNCHANGED message_queue /\ Yield(p, slices[p][i].core)
             /\ slices' = [slices EXCEPT ![p] = RemoveAt(@, i)]
  <2> DEFINE on == [core |-> slices[p][i].core, at |-> Head(message_queue[p]), handled |-> handled]
             old == slices[p]
             new == [slices[p] EXCEPT ![i] = on]
  <2>0. PICK c \in Cores : c = slices[p][i].core
    BY SliceIs
  <2>1. /\ message_queue[p] # <<>>
        /\ message_queue' = [message_queue EXCEPT ![p] = Tail(@)]
        /\ state' = [state EXCEPT ![p] = now]
        /\ slices' = [slices EXCEPT ![p] = new]
        /\ ready_queue' = ready_queue
    BY <1>2 DEF GoesOn
  <2>2. /\ Head(message_queue[p]) \in Calls \cup Casts
        /\ Tail(message_queue[p]) \in Seq(Calls \cup Casts)
    <3>1. message_queue[p] \in Seq(Calls \cup Casts)
      BY DEF TurnsIInv, SpamTyped
    <3> QED BY <2>1, <3>1, HeadTailProperties
  <2>3. on \in SliceKinds /\ on.core = c
    BY <2>0, <2>2 DEF SliceKinds
  <2>4. new \in Seq(SliceKinds) /\ Len(new) = Len(slices[p]) /\ DOMAIN new = DOMAIN slices[p]
        /\ new[i] = on
    <3> HIDE DEF on
    <3> QED BY <2>3, SliceIs, ExceptSeq
  <2> HIDE DEF on, new
  <2>5. /\ state'[p] = now /\ slices'[p] = new
        /\ message_queue'[p] = Tail(message_queue[p])
        /\ \A q \in Pids \ {p} : /\ state'[q] = state[q] /\ slices'[q] = slices[q]
                                 /\ message_queue'[q] = message_queue[q]
    BY <2>1 DEF TurnsIInv, SpamTyped
  <2>6. state[p] # "none" /\ state[p] # "waiting" /\ now # "none" /\ now # "waiting"
    BY <2>1, SliceIs DEF TurnsIInv, NoLostWakeup
  <2>7. SpamTyped'
    <3>1. state' \in [Pids -> States]
      BY <2>1 DEF TurnsIInv, SpamTyped, States
    <3>2. slices' \in [Pids -> Seq(SliceKinds)] /\ message_queue' \in [Pids -> Seq(Calls \cup Casts)]
      BY <2>1, <2>2, <2>4 DEF TurnsIInv, SpamTyped
    <3> QED BY <2>1, <3>1, <3>2 DEF TurnsIInv, SpamTyped
  <2>8. Unspawned'
    BY <2>1, <2>5, <2>6, UnspawnedStay DEF TurnsIInv
  <2>9. CoreKnown' /\ PlacedOnce'
    BY DEF TurnsIInv, CoreKnown, PlacedOnce
  <2>10. NoLostWakeup'
    BY <2>5, <2>6 DEF TurnsIInv, NoLostWakeup
  <2>11. Turns'
    <3>1. \A q \in (table' \ moved') \ {p} : TurnOf(q)'
      BY <2>1, <2>5, OthersStay DEF TurnsIInv
    <3>2. ASSUME p \in table \ moved PROVE TurnOf(p)'
      <4>1. /\ current_core'[p] = c /\ Len(slices[p]) = 1 /\ Tally(ready_queue[c], p) = 0
            /\ i \in 1 .. Len(slices[p])
            /\ slices[p][i].at # "created" => state[p] \in {"running", "terminated"}
        BY <2>0, <3>2, SliceIs
      <4>2. Len(slices'[p]) = 1 /\ DOMAIN slices'[p] = {i} /\ slices'[p][i] = on
        <5>1. i = 1 /\ Len(new) = 1 /\ DOMAIN new = 1 .. 1
          BY <2>4, <4>1, LenProperties
        <5> QED BY <5>1, <2>4, <2>5
      <4>3. state'[p] \in {"running", "terminated"}
        BY <2>5, <4>1
      <4>4. Tally(ready_queue'[c], p) = 0
        BY <2>1, <4>1
      <4> QED BY <2>3, <4>1, <4>2, <4>3, <4>4 DEF TurnOf
    <3> QED BY <3>1, <3>2 DEF Turns
  <2> QED BY <2>7, <2>8, <2>9, <2>10, <2>11 DEF TurnsIInv
<1> QED BY <1>1, <1>2

\* A slice begins, goes on after a handler, or is preempted.
LEMMA SlicesKeep ==
  ASSUME TurnsIInv, NEW p \in Pids, NEW i \in DOMAIN slices[p],
         Begin(p, i) \/ Preempt(p, i) \/ \E o \in Outcomes : HandlerEnds(p, i, o)
  PROVE  TurnsIInv'
<1>0. slices[p][i] \in SliceKinds /\ slices[p][i].handled + 1 \in Nat /\ state[p] # "none"
  BY SliceIs DEF SliceKinds
<1>1. CASE Begin(p, i)
  <2>1. /\ GoesOn(p, i, "running", 0)
        /\ UNCHANGED <<initialized, table, current_core, active_processes, moved>>
    BY <1>1 DEF Begin
  <2> QED BY <2>1, GoesOnKeeps
<1>2. ASSUME NEW o \in Outcomes, HandlerEnds(p, i, o) PROVE TurnsIInv'
  <2>1. /\ slices[p][i].at # "created"
        /\ UNCHANGED <<initialized, table, current_core, active_processes, moved>>
    BY <1>2 DEF HandlerEnds
  <2>2. CASE /\ UNCHANGED message_queue /\ Yield(p, slices[p][i].core)
             /\ slices' = [slices EXCEPT ![p] = RemoveAt(@, i)]
    BY <2>1, <2>2, YieldKeeps
  <2>3. CASE GoesOn(p, i, IF o = "stop" THEN "terminated" ELSE state[p], slices[p][i].handled + 1)
    <3> DEFINE now == IF o = "stop" THEN "terminated" ELSE state[p]
    <3>1. now \in {"running", "terminated", state[p]}
      OBVIOUS
    <3>2. GoesOn(p, i, now, slices[p][i].handled + 1)
      BY <2>3
    <3> HIDE DEF now
    <3> QED BY <1>0, <2>1, <3>1, <3>2, GoesOnKeeps
  <2> QED BY <1>2, <2>2, <2>3 DEF HandlerEnds
<1>3. CASE Preempt(p, i)
  <2>1. /\ slices[p][i].at # "created"
        /\ slices' = [slices EXCEPT ![p] = RemoveAt(@, i)]
        /\ UNCHANGED <<initialized, table, message_queue, current_core, active_processes, moved>>
    BY <1>3 DEF Preempt
  <2>2. CASE state[p] = "running"
    <3>1. /\ state' = [state EXCEPT ![p] = "ready"]
          /\ ready_queue' = [ready_queue EXCEPT ![slices[p][i].core] = Append(@, p)]
      BY <1>3, <2>2 DEF Preempt
    <3>2. "ready" \in States \ {"none"}
      BY DEF States
    <3> QED BY <2>1, <3>1, <3>2, SliceEnds
  <2>3. CASE state[p] # "running"
    <3>1. state' = state /\ ready_queue' = ready_queue
      BY <1>3, <2>3 DEF Preempt
    <3>2. state' = [state EXCEPT ![p] = state[p]] /\ state[p] \in States \ {"none"}
      BY <1>0, <3>1 DEF TurnsIInv, SpamTyped
    <3>3. state[p] = "waiting" => message_queue[p] = <<>>
      BY DEF TurnsIInv, NoLostWakeup
    <3>4. p \in table \ moved => state[p] # "ready"
      BY <2>1, SliceIs
    <3> QED BY <2>1, <2>3, <3>1, <3>2, <3>3, <3>4, SliceEnds
  <2> QED BY <2>2, <2>3
<1> QED BY <1>1, <1>2, <1>3

-----------------------------------------------------------------------------
(* The SPAM scheduler: every step keeps the invariant.                     *)

\* SPAM shuts down: slices go on, loops do not.
LEMMA ShutdownKeeps ==
  ASSUME TurnsIInv, Shutdown
  PROVE  TurnsIInv'
<1>1. /\ initialized' = FALSE
      /\ UNCHANGED <<table, message_queue, current_core, active_processes, ready_queue,
                     slices, moved>>
      /\ \A p \in Pids : state'[p] = IF \E c \in Cores : p \in active_processes[c]
                                     THEN "terminated" ELSE state[p]
  BY DEF Shutdown
<1>2. SpamTyped'
  <2>1. state' \in [Pids -> States]
    BY DEF Shutdown, TurnsIInv, SpamTyped, States
  <2> QED BY <1>1, <2>1 DEF TurnsIInv, SpamTyped
<1>3. Unspawned' /\ CoreKnown' /\ PlacedOnce' /\ NoLostWakeup'
  BY <1>1 DEF TurnsIInv, Unspawned, CoreKnown, PlacedOnce, NoLostWakeup
<1>4. Turns'
  <2> SUFFICES ASSUME NEW p \in table \ moved PROVE TurnOf(p)'
    BY <1>1 DEF Turns
  <2>1. TurnOf(p) /\ p \in Pids /\ current_core[p] \in Cores
    BY DEF TurnsIInv, Turns, SpamTyped, CoreKnown
  <2>2. state'[p] = "terminated"
    BY <1>1, <2>1 DEF TurnsIInv, PlacedOnce
  <2> QED BY <1>1, <2>1, <2>2 DEF TurnOf
<1> QED BY <1>2, <1>3, <1>4 DEF TurnsIInv

\* A step that leaves the processes and their places alone.
LEMMA TurnsStay ==
  ASSUME TurnsIInv, initialized' \in BOOLEAN, initialized' = initialized \/ table = {},
         UNCHANGED <<table, state, message_queue, current_core, active_processes,
                     ready_queue, slices, moved>>
  PROVE  TurnsIInv'
<1>1. SpamTyped' /\ Unspawned' /\ CoreKnown' /\ PlacedOnce' /\ NoLostWakeup'
  BY DEF TurnsIInv, SpamTyped, Unspawned, CoreKnown, PlacedOnce, NoLostWakeup
<1>2. Turns'
  BY DEF TurnsIInv, Turns, TurnOf
<1> QED BY <1>1, <1>2 DEF TurnsIInv

\* Every step of the scheduler keeps the invariant.
LEMMA SchedulerStep == TurnsIInv /\ [Next]_vars => TurnsIInv'
<1> SUFFICES ASSUME TurnsIInv, [Next]_vars PROVE TurnsIInv'
  OBVIOUS
<1>1. CASE Initialize
  BY <1>1, TurnsStay DEF Initialize
<1>2. ASSUME NEW c \in Cores, CoreLoop(c) PROVE TurnsIInv'
  BY <1>2, DispatchKeeps, StealKeeps DEF CoreLoop
<1>3. ASSUME NEW m \in Calls, CallTimeout(m) PROVE TurnsIInv'
  BY <1>3, TurnsStay DEF CallTimeout, TurnsIInv, SpamTyped
<1>4. CASE UNCHANGED vars
  BY <1>4, TurnsStay DEF vars, TurnsIInv, SpamTyped
<1> QED BY <1>1, <1>2, <1>3, <1>4, ShutdownKeeps, SpawnKeeps, TerminateKeeps, MigrateKeeps,
           SendKeeps, SlicesKeep
        DEF Next

\* A process has one core; as long as that stays the same it has one turn on it, and it
\* gets that turn whenever a message waits (spam/core.py, scheduler.py).
THEOREM TurnsAlwaysKept == Spec => []TurnsKept
<1>1. Init => TurnsIInv
  <2> SUFFICES ASSUME Init PROVE TurnsIInv
    OBVIOUS
  <2>1. SpamTyped
    <3>1. <<>> \in Seq(Pids) /\ <<>> \in Seq(SliceKinds) /\ <<>> \in Seq(Calls \cup Casts)
      OBVIOUS
    <3>2. /\ ready_queue \in [Cores -> Seq(Pids)] /\ slices \in [Pids -> Seq(SliceKinds)]
          /\ message_queue \in [Pids -> Seq(Calls \cup Casts)]
      BY <3>1 DEF Init
    <3>3. /\ state \in [Pids -> States] /\ current_core \in [Pids -> Cores \cup {0}]
          /\ active_processes \in [Cores -> SUBSET Pids]
      BY DEF Init, States
    <3>4. initialized \in BOOLEAN /\ table \subseteq Pids /\ moved \subseteq Pids
      BY DEF Init
    <3> QED BY <3>2, <3>3, <3>4 DEF SpamTyped
  <2>2. Unspawned
    BY TallyOne DEF Init, Unspawned
  <2>3. CoreKnown /\ PlacedOnce /\ NoLostWakeup /\ Turns
    BY DEF Init, CoreKnown, PlacedOnce, NoLostWakeup, Turns
  <2> QED BY <2>1, <2>2, <2>3 DEF TurnsIInv
<1>2. TurnsIInv => TurnsKept
  <2> SUFFICES ASSUME TurnsIInv PROVE TurnsKept
    OBVIOUS
  <2>1. ASSUME NEW p \in table \ moved
        PROVE  LET turns == Len(slices[p]) + Cardinality(Places(ready_queue[current_core[p]], p))
               IN turns <= 1 /\ (state[p] = "ready" => turns = 1)
    BY PlacesTallied DEF TurnsIInv, Turns, TurnOf
  <2> QED BY <2>1 DEF TurnsIInv, TurnsKept, ScheduledOnce
<1> QED BY <1>1, <1>2, SchedulerStep, PTL DEF Spec

-----------------------------------------------------------------------------
(* Sockets.                                                                *)

Switches == {"active", "passive", "control", "close"}
CallsOf ==
    {Idle} \cup [op : {"accept"}] \cup [op : {"recv"}, at : {"waiting", "woken"}]
      \cup [op : Switches, pid : Owners \cup {Nobody}, task : Tasks]

SocketsTyped ==
    /\ sent \in 0 .. MaxBytes /\ buffer \in Seq(1 .. MaxBytes) /\ overlapped \in BOOLEAN
    /\ reader \in [Tasks -> {"absent", "new", "waiting", "woken", "done"}]
    /\ target \in [Tasks -> Owners \cup {Nobody}]
    /\ cancelling \subseteq Tasks /\ registered \in Tasks \cup {0}
    /\ pending \in [Callers -> CallsOf]
    /\ heard \in Seq((Owners \cup Callers \cup {Nobody}) \X Nat)

\* Who the stream wakes is waiting for it.
WaiterWaits ==
    /\ \A r \in Tasks : waiter = r => reader[r] = "waiting"
    /\ \A c \in Callers : waiter = c => pending[c] = [op |-> "recv", at |-> "waiting"]

\* Reader tasks are numbered as they are created.
Numbered == \E n \in 0 .. MaxReaders : \A r \in Tasks : reader[r] = "absent" <=> r > n

\* Without overlapping calls the registry knows the one reader that runs, which speaks to
\* the owner, unless it is being cancelled by the one call that goes on.
OneReader ==
    ~ overlapped =>
        /\ \A c, d \in Callers : pending[c] # Idle /\ pending[d] # Idle => c = d
        /\ \A r \in Tasks :
              Running(r) => r = registered /\ (r \notin cancelling => target[r] = owner)
        /\ \A c \in Callers : pending[c].op \in Switches =>
              \A r \in Tasks : Running(r) => r = pending[c].task /\ r \in cancelling

SocketsIInv == SocketsTyped /\ StreamKept /\ WaiterWaits /\ Numbered /\ OneReader

Listeners == Owners \cup Callers \cup {Nobody}

\* What is heard comes after what was.
LEMMA HeardMore ==
  ASSUME SocketsTyped, NEW who \in Listeners, NEW things \in Seq(Nat), Hears(who, things)
  PROVE  /\ heard' \in Seq(Listeners \X Nat)
         /\ Len(heard) \in Nat /\ Len(things) \in Nat
         /\ DOMAIN heard = 1 .. Len(heard) /\ DOMAIN heard' = 1 .. Len(heard) + Len(things)
         /\ \A k \in 1 .. Len(heard) : heard'[k] = heard[k]
         /\ \A k \in 1 .. Len(things) : heard'[Len(heard) + k] = <<who, things[k]>>
<1> DEFINE W == Listeners \X Nat
           new == [k \in DOMAIN things |-> <<who, things[k]>>]
<1>1. heard \in Seq(W) /\ new \in Seq(W) /\ Len(new) = Len(things) /\ heard' = heard \o new
  <2>1. DOMAIN things = 1 .. Len(things) /\ Len(things) \in Nat
    OBVIOUS
  <2>2. \A k \in 1 .. Len(things) : <<who, things[k]>> \in W
    OBVIOUS
  <2>3. new \in Seq(W) /\ Len(new) = Len(things)
    BY <2>1, <2>2
  <2> QED BY <2>3 DEF Hears, SocketsTyped, Listeners
<1>2. \A k \in 1 .. Len(things) : new[k] = <<who, things[k]>>
  OBVIOUS
<1> HIDE DEF W, new
<1>3. /\ heard' \in Seq(W)
      /\ Len(heard) \in Nat /\ Len(things) \in Nat
      /\ DOMAIN heard = 1 .. Len(heard) /\ DOMAIN heard' = 1 .. Len(heard) + Len(things)
      /\ \A k \in 1 .. Len(heard) : heard'[k] = heard[k]
      /\ \A k \in 1 .. Len(things) : heard'[Len(heard) + k] = new[k]
  <2>1. /\ heard \o new \in Seq(W) /\ DOMAIN (heard \o new) = 1 .. Len(heard) + Len(new)
        /\ \A k \in DOMAIN (heard \o new) :
              (heard \o new)[k] = IF k <= Len(heard) THEN heard[k] ELSE new[k - Len(heard)]
    BY ONLY <1>1, SeqFacts
  <2>2. Len(heard) \in Nat /\ Len(things) \in Nat /\ DOMAIN heard = 1 .. Len(heard)
    BY <1>1
  <2>3. \A k \in 1 .. Len(heard) : k \in 1 .. Len(heard) + Len(new) /\ k <= Len(heard)
    BY <1>1, <2>2
  <2>4. \A k \in 1 .. Len(things) : /\ Len(heard) + k \in 1 .. Len(heard) + Len(new)
                                   /\ ~ (Len(heard) + k <= Len(heard))
                                   /\ (Len(heard) + k) - Len(heard) = k
    BY <1>1, <2>2
  <2> QED BY <1>1, <2>1, <2>2, <2>3, <2>4
<1> QED BY <1>2, <1>3 DEF W

\* Bytes that pass from the front of the buffer to whoever hears them stay in order.
LEMMA PassedOn ==
  ASSUME SocketsTyped, StreamKept, NEW who \in Listeners, NEW things \in Seq(Nat),
         NEW n \in 0 .. Len(buffer), n <= Len(things),
         \A k \in 1 .. n : things[k] = buffer[k],
         \A k \in n + 1 .. Len(things) : things[k] \notin 1 .. MaxBytes,
         Hears(who, things), buffer' = SubSeq(buffer, n + 1, Len(buffer)), sent' = sent
  PROVE  StreamKept' /\ buffer' \in Seq(1 .. MaxBytes)
<1> USE SocketsAssumption
<1> DEFINE L == Len(heard)  B == Len(buffer)  taken == sent - B  T == Len(things)
           got == HeardBytes
           new == got \cup {L + k : k \in 1 .. n}
<1>1. /\ L \in Nat /\ B \in Nat /\ sent \in Nat /\ sent <= MaxBytes /\ T \in Nat
      /\ DOMAIN heard = 1 .. L /\ DOMAIN heard' = 1 .. L + T
      /\ \A k \in 1 .. L : heard'[k] = heard[k]
      /\ \A k \in 1 .. T : heard'[L + k] = <<who, things[k]>>
      /\ \A k \in 1 .. L : heard[k][2] \in Nat
  <2>1. L \in Nat /\ B \in Nat /\ sent \in Nat /\ sent <= MaxBytes
    BY DEF SocketsTyped
  <2>2. \A k \in 1 .. L : heard[k][2] \in Nat
    <3>1. \A k \in 1 .. L : heard[k] \in (Owners \cup Callers \cup {Nobody}) \X Nat
      BY DEF SocketsTyped
    <3> QED BY <3>1
  <2> HIDE DEF L, B, T
  <2>3. /\ T \in Nat /\ DOMAIN heard = 1 .. L /\ DOMAIN heard' = 1 .. L + T
        /\ \A k \in 1 .. L : heard'[k] = heard[k]
        /\ \A k \in 1 .. T : heard'[L + k] = <<who, things[k]>>
    BY HeardMore DEF L, T
  <2> QED BY <2>1, <2>2, <2>3
<1>2. /\ B = Len(buffer) /\ \A k \in 1 .. B : buffer[k] = taken + k
      /\ {heard[k][2] : k \in got} = 1 .. taken
      /\ \A j, k \in got : j < k => heard[j][2] < heard[k][2]
  BY DEF StreamKept
<1>3. /\ Len(buffer') = B - n /\ sent' - Len(buffer') = taken + n
      /\ buffer' \in Seq(1 .. MaxBytes)
      /\ \A k \in 1 .. B - n : buffer'[k] = taken + n + k
  <2>1. buffer \in Seq(1 .. MaxBytes) /\ n \in Nat /\ n + 1 \in 1 .. B + 1
    BY <1>1 DEF SocketsTyped
  <2>2. /\ SubSeq(buffer, n + 1, B) \in Seq(1 .. MaxBytes) /\ Len(SubSeq(buffer, n + 1, B)) = B - n
        /\ \A k \in 1 .. B - n : SubSeq(buffer, n + 1, B)[k] = buffer[n + k]
    BY <2>1, <1>1
  <2>3. \A k \in 1 .. B - n : n + k \in 1 .. B /\ taken + (n + k) = taken + n + k
    BY <1>1
  <2>4. buffer' \in Seq(1 .. MaxBytes) /\ Len(buffer') = B - n
    BY <2>2
  <2>5. sent' - Len(buffer') = taken + n
    <3>1. sent' - Len(buffer') = sent - (B - n)
      BY <2>4
    <3>2. sent \in Int /\ B \in Int /\ n \in Int
      BY <2>1, <1>1
    <3> HIDE DEF B
    <3>3. sent - (B - n) = (sent - B) + n
      BY ONLY <3>2
    <3> QED BY <3>1, <3>3
  <2>6. \A k \in 1 .. B - n : buffer'[k] = taken + n + k
    <3> TAKE k \in 1 .. B - n
    <3>1. buffer'[k] = buffer[n + k]
      BY <2>2
    <3>2. buffer[n + k] = taken + (n + k)
      BY <1>2, <2>3
    <3> QED BY <3>1, <3>2, <2>3
  <2> QED BY <2>4, <2>5, <2>6
<1>4. taken \in Int /\ (n > 0 => taken + n <= sent /\ taken >= 0)
  <2>1. taken \in Int /\ n <= B
    BY <1>1
  <2>2. ASSUME n > 0 PROVE taken >= 0
    <3>1. 1 \in 1 .. B /\ buffer[1] \in Nat /\ buffer[1] >= 1
      BY <1>1, <2>1, <2>2 DEF SocketsTyped
    <3>2. buffer[1] = taken + 1
      BY <1>2, <3>1
    <3>3. taken + 1 >= 1
      BY <3>1, <3>2
    <3> QED BY <3>3, <2>1
  <2>3. ASSUME n > 0 PROVE taken + n <= sent
    BY <1>1, <2>1
  <2> QED BY <2>1, <2>2, <2>3
<1> HIDE DEF L, B, T, taken
<1>5. HeardBytes' = new
  <2>1. ASSUME NEW k \in 1 .. L PROVE k \in HeardBytes' <=> k \in got
    BY <2>1, <1>1 DEF HeardBytes
  <2>2. ASSUME NEW k \in 1 .. T PROVE L + k \in HeardBytes' <=> k <= n
    <3>1. heard'[L + k][2] = things[k] /\ L + k \in DOMAIN heard'
      BY <1>1, <2>2
    <3>2. ASSUME k <= n PROVE things[k] \in 1 .. MaxBytes
      <4>1. things[k] = taken + k /\ k \in 1 .. n
        BY <1>1, <1>2, <3>2
      <4> QED BY <1>1, <1>4, <4>1
    <3>3. ASSUME ~ (k <= n) PROVE things[k] \notin 1 .. MaxBytes
      BY <1>1, <3>3 DEF T
    <3> QED BY <3>1, <3>2, <3>3 DEF HeardBytes
  <2>3. \A k \in HeardBytes' : k \in 1 .. L \/ \E i \in 1 .. T : k = L + i
    <3> SUFFICES ASSUME NEW k \in HeardBytes', k \notin 1 .. L
                 PROVE  \E i \in 1 .. T : k = L + i
      OBVIOUS
    <3>1. k \in 1 .. L + T
      BY <1>1 DEF HeardBytes
    <3>2. k - L \in 1 .. T /\ k = L + (k - L)
      BY <1>1, <3>1
    <3> QED BY <3>2
  <2>4. got \subseteq 1 .. L
    BY <1>1 DEF HeardBytes
  <2>5. n <= T /\ n \in Nat
    BY <1>1 DEF T
  <2>6. \A k \in 1 .. n : k \in 1 .. T /\ k <= n
    BY <2>5, <1>1
  <2>7. ASSUME NEW k \in HeardBytes' PROVE k \in new
    <3>1. CASE k \in 1 .. L
      BY <3>1, <2>1
    <3>2. ASSUME NEW i \in 1 .. T, k = L + i PROVE k \in new
      <4>1. i <= n
        BY <3>2, <2>2, <2>7
      <4>2. i \in 1 .. n
        BY ONLY <4>1, <2>5, <3>2, <1>1
      <4> QED BY <4>2, <3>2
    <3> QED BY <2>3, <3>1, <3>2
  <2>8. ASSUME NEW k \in new PROVE k \in HeardBytes'
    BY <2>1, <2>2, <2>4, <2>6
  <2> QED BY <2>7, <2>8
<1>6. /\ \A k \in got : heard'[k] = heard[k] /\ k \in 1 .. L /\ heard[k][2] \in 1 .. taken
      /\ \A k \in 1 .. n : heard'[L + k][2] = taken + k
  <2>1. got \subseteq 1 .. L
    BY <1>1 DEF HeardBytes
  <2>2. \A k \in 1 .. n : things[k] = taken + k /\ k \in 1 .. T
    <3>1. \A k \in 1 .. n : k \in 1 .. B /\ k \in 1 .. T
      BY <1>1 DEF B, T
    <3> QED BY <1>2, <3>1
  <2>3. \A k \in got : heard[k][2] \in 1 .. taken
    BY <1>2
  <2>4. \A k \in 1 .. n : heard'[L + k][2] = things[k]
    BY <1>1, <2>2
  <2> QED BY <1>1, <2>1, <2>2, <2>3, <2>4
<1>7. {heard'[k][2] : k \in new} = 1 .. taken + n
  <2>1. ASSUME NEW k \in new PROVE heard'[k][2] \in 1 .. taken + n
    <3>1. CASE k \in got
      BY <3>1, <1>4, <1>6
    <3>2. ASSUME NEW i \in 1 .. n, k = L + i PROVE heard'[k][2] \in 1 .. taken + n
      BY <3>2, <1>4, <1>6
    <3> QED BY <3>1, <3>2
  <2>2. ASSUME NEW b \in 1 .. taken + n PROVE \E k \in new : heard'[k][2] = b
    <3>1. CASE b \in 1 .. taken
      <4>1. PICK k \in got : heard[k][2] = b
        BY <3>1, <1>2
      <4> QED BY <4>1, <1>6
    <3>2. CASE b \notin 1 .. taken
      <4>1. b - taken \in 1 .. n /\ taken + (b - taken) = b
        BY <3>2, <1>4
      <4> QED BY <4>1, <1>6
    <3> QED BY <3>1, <3>2
  <2> HIDE DEF new
  <2> QED BY ONLY <2>1, <2>2
<1>8. ASSUME NEW j \in new, NEW k \in new, j < k PROVE heard'[j][2] < heard'[k][2]
  <2>1. CASE j \in got /\ k \in got
    BY <2>1, <1>2, <1>6, <1>8
  <2>2. ASSUME j \in got, NEW i \in 1 .. n, k = L + i PROVE heard'[j][2] < heard'[k][2]
    <3>1. heard'[k][2] = taken + i /\ heard'[j][2] = heard[j][2] /\ heard[j][2] \in 1 .. taken
      BY <2>2, <1>6
    <3> HIDE DEF got, new
    <3> QED BY <3>1, <1>4
  <2>3. ASSUME NEW i \in 1 .. n, j = L + i, k \in got PROVE FALSE
    BY <2>3, <1>1, <1>6, <1>8
  <2>4. ASSUME NEW i \in 1 .. n, j = L + i, NEW h \in 1 .. n, k = L + h
        PROVE  heard'[j][2] < heard'[k][2]
    <3>1. i < h
      BY <2>4, <1>1, <1>8
    <3>2. heard'[j][2] = taken + i /\ heard'[k][2] = taken + h
      BY <2>4, <1>6
    <3> QED BY <3>1, <3>2, <1>4
  <2> QED BY <2>1, <2>2, <2>3, <2>4
<1>9. buffer' = [k \in 1 .. Len(buffer') |-> taken + n + k]
  <2>1. \A s \in Seq(1 .. MaxBytes) : s = [k \in 1 .. Len(s) |-> s[k]]
    OBVIOUS
  <2>2. buffer' = [k \in 1 .. Len(buffer') |-> buffer'[k]]
    BY ONLY <1>3, <2>1
  <2> QED BY <1>3, <2>2
<1> HIDE DEF new, got
<1> QED BY <1>3, <1>5, <1>7, <1>8, <1>9 DEF StreamKept

-----------------------------------------------------------------------------
(* Sockets: the steps.                                                     *)

\* What the peer does wakes only whoever waits.
LEMMA WakeKeeps ==
  ASSUME SocketsIInv, WakeWaiter, UNCHANGED <<target, cancelling, registered, owner, overlapped>>
  PROVE  /\ reader' \in [Tasks -> {"absent", "new", "waiting", "woken", "done"}]
         /\ pending' \in [Callers -> CallsOf]
         /\ WaiterWaits' /\ Numbered' /\ OneReader'
<1> USE SocketsAssumption
<1>1. /\ reader' \in [Tasks -> {"absent", "new", "waiting", "woken", "done"}]
      /\ pending' \in [Callers -> CallsOf]
  BY DEF SocketsIInv, SocketsTyped, WakeWaiter, CallsOf
<1>2. WaiterWaits'
  BY DEF WakeWaiter, WaiterWaits
<1>3. \A r \in Tasks : /\ reader'[r] = "absent" <=> reader[r] = "absent"
                       /\ Running(r)' <=> Running(r)
  BY DEF SocketsIInv, WaiterWaits, WakeWaiter, Running
<1>4. \A c \in Callers : /\ pending'[c] # Idle <=> pending[c] # Idle
                         /\ pending'[c].op \in Switches <=> pending[c].op \in Switches
                         /\ pending[c].op \in Switches => pending'[c] = pending[c]
  BY DEF SocketsIInv, WaiterWaits, WakeWaiter, Idle, Switches
<1>5. Numbered'
  BY <1>3 DEF SocketsIInv, Numbered
<1>6. OneReader'
  BY <1>3, <1>4 DEF SocketsIInv, OneReader
<1> QED BY <1>1, <1>2, <1>5, <1>6

\* A byte more in the buffer.
LEMMA ArriveKeeps ==
  ASSUME SocketsIInv, Arrive, UNCHANGED overlapped
  PROVE  SocketsIInv'
<1> USE SocketsAssumption
<1>1. /\ sent' = sent + 1 /\ buffer' = Append(buffer, sent + 1) /\ heard' = heard /\ sent < MaxBytes
      /\ sent \in Nat /\ buffer \in Seq(1 .. MaxBytes) /\ sent + 1 \in 1 .. MaxBytes
      /\ Len(buffer) \in Nat
  BY DEF Arrive, SocketsIInv, SocketsTyped
<1>2. /\ buffer' \in Seq(1 .. MaxBytes) /\ Len(buffer') = Len(buffer) + 1
      /\ \A k \in 1 .. Len(buffer) : buffer'[k] = buffer[k]
      /\ buffer'[Len(buffer) + 1] = sent + 1
  BY <1>1
<1>3. sent' - Len(buffer') = sent - Len(buffer)
  BY <1>1, <1>2
<1>4. StreamKept'
  <2>1. \A k \in 1 .. Len(buffer) : buffer[k] = sent - Len(buffer) + k
    BY DEF SocketsIInv, StreamKept
  <2>2. \A k \in 1 .. Len(buffer') : buffer'[k] = sent - Len(buffer) + k
    <3> TAKE k \in 1 .. Len(buffer')
    <3>1. CASE k \in 1 .. Len(buffer)
      BY <3>1, <2>1, <1>2
    <3>2. CASE k = Len(buffer) + 1
      BY <3>2, <1>1, <1>2
    <3> QED BY <3>1, <3>2, <1>1, <1>2
  <2>3. \A s \in Seq(1 .. MaxBytes) : s = [k \in 1 .. Len(s) |-> s[k]]
    OBVIOUS
  <2>4. buffer' = [k \in 1 .. Len(buffer') |-> buffer'[k]]
    BY ONLY <1>2, <2>3
  <2>5. buffer' = [k \in 1 .. Len(buffer') |-> sent' - Len(buffer') + k]
    BY <1>3, <2>2, <2>4
  <2>6. HeardBytes' = HeardBytes
    BY <1>1 DEF HeardBytes
  <2>7. /\ {heard[k][2] : k \in HeardBytes} = 1 .. sent - Len(buffer)
        /\ \A j, k \in HeardBytes : j < k => heard[j][2] < heard[k][2]
    BY DEF SocketsIInv, StreamKept
  <2>8. /\ {heard'[k][2] : k \in HeardBytes'} = 1 .. sent' - Len(buffer')
        /\ \A j, k \in HeardBytes' : j < k => heard'[j][2] < heard'[k][2]
    BY ONLY <1>1, <1>3, <2>6, <2>7
  <2> QED BY ONLY <2>5, <2>8 DEF StreamKept
<1>5. WakeWaiter /\ UNCHANGED <<target, cancelling, registered, owner, overlapped>>
  BY DEF Arrive
<1>6. SocketsTyped'
  BY <1>1, <1>2, <1>5, WakeKeeps DEF SocketsIInv, SocketsTyped
<1> QED BY <1>4, <1>5, <1>6, WakeKeeps DEF SocketsIInv

\* The end of the stream.
LEMMA EndKeepsStream ==
  ASSUME SocketsIInv, EndOfStream, UNCHANGED overlapped
  PROVE  SocketsIInv'
<1>1. WakeWaiter /\ UNCHANGED <<target, cancelling, registered, owner, overlapped>>
  BY DEF EndOfStream
<1>2. SocketsTyped'
  BY <1>1, WakeKeeps DEF SocketsIInv, SocketsTyped, EndOfStream
<1>3. StreamKept'
  BY DEF EndOfStream, SocketsIInv, StreamKept, HeardBytes
<1> QED BY <1>1, <1>2, <1>3, WakeKeeps DEF SocketsIInv

\* One reader moves on or ends, another is not touched.
LEMMA ReaderMoves ==
  ASSUME SocketsIInv, NEW r \in Tasks, reader[r] \in {"new", "waiting", "woken"},
         NEW now \in {"waiting", "done"}, reader' = [reader EXCEPT ![r] = now],
         now = "waiting" => waiter' = r /\ registered' = registered /\ r \notin cancelling,
         now = "done" => waiter' # r,
         waiter' \in {waiter, r, Nobody},
         registered' \in {registered, 0}, cancelling' \in {cancelling, cancelling \ {r}},
         UNCHANGED <<target, pending, owner, overlapped>>
  PROVE  WaiterWaits' /\ Numbered' /\ OneReader'
<1> USE SocketsAssumption
<1>1. /\ reader \in [Tasks -> {"absent", "new", "waiting", "woken", "done"}]
      /\ \A q \in Tasks : reader'[q] = IF q = r THEN now ELSE reader[q]
  BY DEF SocketsIInv, SocketsTyped
<1>2. WaiterWaits'
  BY <1>1 DEF SocketsIInv, WaiterWaits
<1>3. Numbered'
  BY <1>1 DEF SocketsIInv, Numbered
<1>4. \A q \in Tasks : Running(q)' => Running(q) /\ (q = r => now = "waiting")
  BY <1>1 DEF Running
<1>5. ASSUME ~ overlapped, NEW q \in Tasks, Running(q)'
      PROVE  q = registered' /\ (q \notin cancelling' => target[q] = owner)
  <2>1. Running(r)
    BY DEF Running, Tasks
  <2>2. r = registered /\ q = registered
    BY <1>4, <1>5, <2>1 DEF SocketsIInv, OneReader
  <2>3. now = "waiting" /\ registered' = registered /\ q \notin cancelling
    BY <1>4, <1>5, <2>2
  <2> QED BY <1>4, <1>5, <2>2, <2>3 DEF SocketsIInv, OneReader
<1>6. ASSUME ~ overlapped, NEW c \in Callers, pending[c].op \in Switches, NEW q \in Tasks, Running(q)'
      PROVE  q = pending[c].task /\ q \in cancelling'
  <2>1. Running(r)
    BY DEF Running, Tasks
  <2>2. r \in cancelling /\ q = pending[c].task /\ r = pending[c].task
    BY <1>4, <1>6, <2>1 DEF SocketsIInv, OneReader
  <2> QED BY <1>4, <1>6, <2>2
<1>7. OneReader'
  BY <1>5, <1>6 DEF SocketsIInv, OneReader
<1> QED BY <1>2, <1>3, <1>7

\* A reader passes everything on, and nobody else hears of it.
LEMMA LoopKeeps ==
  ASSUME SocketsIInv, NEW r \in Tasks, ActiveReaderLoop(r), UNCHANGED overlapped
  PROVE  /\ SocketsIInv'
         /\ ~ overlapped => \A k \in DOMAIN heard' \ DOMAIN heard : heard'[k][1] = owner
<1> USE SocketsAssumption
<1>1. /\ reader[r] \in {"new", "woken"} /\ r \notin cancelling /\ Reads(r)
      /\ UNCHANGED <<phase, sent, eof, target, cancelling, pending, owner>>
  BY DEF ActiveReaderLoop
<1>2. target[r] \in Listeners /\ buffer \in Seq(Nat) /\ Len(buffer) \in Nat
  BY DEF SocketsIInv, SocketsTyped, Listeners
<1>3. PICK things \in Seq(Nat) :
        /\ Hears(target[r], things) /\ Len(buffer) <= Len(things)
        /\ \A k \in 1 .. Len(buffer) : things[k] = buffer[k]
        /\ \A k \in Len(buffer) + 1 .. Len(things) : things[k] \notin 1 .. MaxBytes
  <2>1. ASSUME NEW x \in {CLOSED, ERROR}
        PROVE  /\ buffer \o <<x>> \in Seq(Nat) /\ Len(buffer) <= Len(buffer \o <<x>>)
               /\ \A k \in 1 .. Len(buffer) : (buffer \o <<x>>)[k] = buffer[k]
               /\ \A k \in Len(buffer) + 1 .. Len(buffer \o <<x>>) :
                     (buffer \o <<x>>)[k] \notin 1 .. MaxBytes
    <3>1. x \in Nat /\ x \notin 1 .. MaxBytes
      BY DEF CLOSED, ERROR
    <3>2. /\ buffer \o <<x>> \in Seq(Nat) /\ Len(buffer \o <<x>>) = Len(buffer) + 1
          /\ \A k \in 1 .. Len(buffer) : (buffer \o <<x>>)[k] = buffer[k]
          /\ (buffer \o <<x>>)[Len(buffer) + 1] = x
      BY <1>2, <3>1
    <3>3. \A k \in Len(buffer) + 1 .. Len(buffer) + 1 : k = Len(buffer) + 1
      BY <1>2
    <3> QED BY <1>2, <3>1, <3>2, <3>3
  <2>2. \E x \in {CLOSED, ERROR} :
           Hears(target[r], buffer) \/ Hears(target[r], buffer \o <<x>>)
    BY <1>1 DEF Reads
  <2>3. \A k \in Len(buffer) + 1 .. Len(buffer) : FALSE
    BY <1>2
  <2>4. CASE Hears(target[r], buffer)
    BY <1>2, <2>3, <2>4
  <2>5. ASSUME NEW x \in {CLOSED, ERROR}, Hears(target[r], buffer \o <<x>>)
        PROVE  \E things \in Seq(Nat) :
                  /\ Hears(target[r], things) /\ Len(buffer) <= Len(things)
                  /\ \A k \in 1 .. Len(buffer) : things[k] = buffer[k]
                  /\ \A k \in Len(buffer) + 1 .. Len(things) : things[k] \notin 1 .. MaxBytes
    BY <2>1, <2>5
  <2> QED BY <2>2, <2>4, <2>5
<1>4. StreamKept' /\ buffer' \in Seq(1 .. MaxBytes)
  <2>1. \A s \in Seq(1 .. MaxBytes) : SubSeq(s, Len(s) + 1, Len(s)) = <<>>
    OBVIOUS
  <2>2. buffer' = SubSeq(buffer, Len(buffer) + 1, Len(buffer))
    BY <1>1, <2>1 DEF Reads, SocketsIInv, SocketsTyped
  <2>3. Len(buffer) \in 0 .. Len(buffer)
    BY <1>2
  <2> QED BY <1>1, <1>2, <1>3, <2>2, <2>3, PassedOn DEF SocketsIInv
<1>5. PICK now \in {"waiting", "done"} :
        /\ reader' = [reader EXCEPT ![r] = now]
        /\ now = "waiting" => waiter' = r /\ registered' = registered
        /\ now = "done" => waiter' = waiter
        /\ waiter' \in {waiter, r} /\ registered' \in {registered, 0}
  BY <1>1 DEF Reads, Unregister
<1>6. waiter # r
  BY <1>1 DEF SocketsIInv, WaiterWaits
<1>7. WaiterWaits' /\ Numbered' /\ OneReader'
  BY <1>1, <1>5, <1>6, ReaderMoves
<1>8. /\ heard' \in Seq(Listeners \X Nat)
      /\ ~ overlapped => \A k \in DOMAIN heard' \ DOMAIN heard : heard'[k][1] = owner
  <2>1. /\ heard' \in Seq(Listeners \X Nat)
        /\ Len(heard) \in Nat /\ Len(things) \in Nat
        /\ DOMAIN heard = 1 .. Len(heard) /\ DOMAIN heard' = 1 .. Len(heard) + Len(things)
        /\ \A k \in 1 .. Len(things) : heard'[Len(heard) + k] = <<target[r], things[k]>>
    BY <1>2, <1>3, HeardMore DEF SocketsIInv
  <2>2. ASSUME NEW k \in DOMAIN heard' \ DOMAIN heard PROVE heard'[k][1] = target[r]
    <3>1. k - Len(heard) \in 1 .. Len(things) /\ Len(heard) + (k - Len(heard)) = k
      BY <2>1
    <3> QED BY <2>1, <3>1
  <2>3. ~ overlapped => target[r] = owner
    <3>1. Running(r)
      BY <1>1 DEF Running, Tasks
    <3> QED BY <1>1, <3>1 DEF SocketsIInv, OneReader
  <2> QED BY <2>1, <2>2, <2>3
<1>9. SocketsTyped'
  <2>1. /\ reader' \in [Tasks -> {"absent", "new", "waiting", "woken", "done"}]
        /\ registered' \in Tasks \cup {0}
    BY <1>5 DEF SocketsIInv, SocketsTyped
  <2> QED BY <1>1, <1>4, <1>8, <2>1 DEF SocketsIInv, SocketsTyped, Listeners
<1> QED BY <1>4, <1>7, <1>8, <1>9 DEF SocketsIInv

\* A reader that is cancelled leaves the stream as it is.
LEMMA CancelKeeps ==
  ASSUME SocketsIInv, NEW r \in Tasks, ReaderCancelled(r), UNCHANGED overlapped
  PROVE  SocketsIInv'
<1> USE SocketsAssumption
<1>1. /\ reader[r] \in {"new", "waiting", "woken"} /\ r \in cancelling
      /\ reader' = [reader EXCEPT ![r] = "done"] /\ cancelling' = cancelling \ {r}
      /\ waiter' = IF waiter = r THEN Nobody ELSE waiter
      /\ registered' \in {registered, 0} /\ buffer' = buffer
      /\ UNCHANGED <<phase, sent, eof, target, pending, heard, owner>>
  BY DEF ReaderCancelled, Running, Kept, Unregister
<1>2. waiter' # r /\ waiter' \in {waiter, r, Nobody}
  BY <1>1
<1>3. WaiterWaits' /\ Numbered' /\ OneReader'
  BY <1>1, <1>2, ReaderMoves
<1>4. StreamKept'
  BY <1>1 DEF SocketsIInv, StreamKept, HeardBytes
<1>5. SocketsTyped'
  BY <1>1 DEF SocketsIInv, SocketsTyped
<1> QED BY <1>3, <1>4, <1>5 DEF SocketsIInv

\* The next reader has the next number.
LEMMA NextIs ==
  ASSUME SocketsTyped, Numbered
  PROVE  \E n \in 0 .. MaxReaders :
            /\ NextTask = n + 1
            /\ \A r \in Tasks : reader[r] = "absent" <=> r > n
<1> USE SocketsAssumption
<1>1. PICK n \in 0 .. MaxReaders : \A r \in Tasks : reader[r] = "absent" <=> r > n
  BY DEF Numbered
<1>2. {r \in Tasks : reader[r] # "absent"} = 1 .. n
  <2>1. \A r \in Tasks : r \in Int /\ (r > n <=> ~ (r <= n)) /\ 1 <= r
    BY DEF Tasks
  <2>2. \A r \in 1 .. n : r \in Tasks /\ r <= n
    BY DEF Tasks
  <2> QED BY <1>1, <2>1, <2>2
<1>3. Cardinality(1 .. n) = n
  BY FS_Interval
<1>4. NextTask = n + 1
  BY <1>2, <1>3 DEF NextTask
<1> QED BY <1>1, <1>4

\* What a call does when no reader runs: it starts one for the owner at most.
LEMMA EffectKeeps ==
  ASSUME SocketsIInv, NEW op \in Switches, NEW p \in Owners \cup {Nobody}, NEW found \in BOOLEAN,
         EffectOn(op, p, found), waiter' = waiter,
         overlapped' \in BOOLEAN, overlapped => overlapped',
         pending' \in [Callers -> CallsOf],
         \A c \in Callers : \/ pending'[c] = pending[c]
                            \/ pending'[c] = Idle /\ pending[c].op \in Switches,
         ~ overlapped' => /\ \A r \in Tasks : ~ Running(r)
                          /\ \A c \in Callers : pending'[c].op \notin Switches
  PROVE  /\ reader' \in [Tasks -> {"absent", "new", "waiting", "woken", "done"}]
         /\ target' \in [Tasks -> Owners \cup {Nobody}] /\ registered' \in Tasks \cup {0}
         /\ WaiterWaits' /\ Numbered' /\ OneReader'
<1> USE SocketsAssumption
<1> DEFINE new == NextTask
<1>1. \/ /\ new \in Tasks /\ reader' = [reader EXCEPT ![new] = "new"]
         /\ target' = [target EXCEPT ![new] = p] /\ registered' = new /\ owner' = p
      \/ UNCHANGED <<reader, target>> /\ registered' \in {registered, 0}
  BY DEF EffectOn, Effect, Controls, StartReader, Switches
<1>2. PICK n \in 0 .. MaxReaders :
            /\ new = n + 1
            /\ \A r \in Tasks : reader[r] = "absent" <=> r > n
  BY NextIs DEF SocketsIInv
<1> HIDE DEF new
<1>3. /\ reader \in [Tasks -> {"absent", "new", "waiting", "woken", "done"}]
      /\ target \in [Tasks -> Owners \cup {Nobody}] /\ registered \in Tasks \cup {0}
  BY DEF SocketsIInv, SocketsTyped
<1>4. /\ reader' \in [Tasks -> {"absent", "new", "waiting", "woken", "done"}]
      /\ target' \in [Tasks -> Owners \cup {Nobody}] /\ registered' \in Tasks \cup {0}
  BY <1>1, <1>3
<1>5. \A c \in Callers : pending[c] = [op |-> "recv", at |-> "waiting"] => pending'[c] = pending[c]
  BY DEF Switches
<1>6. WaiterWaits'
  <2>1. new \in Tasks => reader[new] = "absent"
    BY <1>2
  <2> QED BY <1>1, <1>3, <1>5, <2>1 DEF SocketsIInv, WaiterWaits
<1>7. Numbered'
  <2>1. CASE UNCHANGED reader
    BY <2>1 DEF SocketsIInv, Numbered
  <2>2. CASE new \in Tasks /\ reader' = [reader EXCEPT ![new] = "new"]
    <3>1. n + 1 \in 0 .. MaxReaders
      BY <1>2, <2>2 DEF Tasks
    <3>2. \A r \in Tasks : r \in Int /\ (r > n + 1 <=> r > n /\ r # n + 1)
      BY DEF Tasks
    <3>3. \A r \in Tasks : reader'[r] = "absent" <=> r > n + 1
      BY <1>2, <1>3, <2>2, <3>2
    <3> QED BY <3>1, <3>3 DEF Numbered
  <2> QED BY <1>1, <2>1, <2>2
<1>8. OneReader'
  <2> SUFFICES ASSUME ~ overlapped' PROVE OneReader'
    BY DEF OneReader
  <2>1. ~ overlapped /\ \A r \in Tasks : ~ Running(r)
    OBVIOUS
  <2>2. \A c \in Callers : pending'[c] # Idle => pending[c] # Idle
    OBVIOUS
  <2>3. ASSUME NEW r \in Tasks, Running(r)' PROVE r = registered' /\ target'[r] = owner'
    <3>1. r = new /\ target' = [target EXCEPT ![new] = p] /\ registered' = new /\ owner' = p
      BY <1>1, <1>3, <2>1, <2>3 DEF Running
    <3> QED BY <1>3, <3>1
  <2> QED BY <2>1, <2>2, <2>3 DEF SocketsIInv, OneReader
<1> QED BY <1>4, <1>6, <1>7, <1>8

\* A call begins: it cancels the reader it finds, or takes effect.
LEMMA BeginCallKeeps ==
  ASSUME SocketsIInv, NEW c \in Callers, NEW p \in Owners \cup {Nobody}, NEW op \in Switches,
         BeginCall(c, op, p), overlapped' = (overlapped \/ Overlap(c))
  PROVE  SocketsIInv'
<1> USE SocketsAssumption
<1>1. /\ pending[c] = Idle /\ UNCHANGED <<sent, eof, buffer, waiter, heard>>
      /\ cancelling' = IF Running(registered) THEN cancelling \cup {registered} ELSE cancelling
      /\ IF Running(registered)
         THEN /\ pending' = [pending EXCEPT ![c] = [op |-> op, pid |-> p, task |-> registered]]
              /\ UNCHANGED <<phase, reader, target, registered, owner>>
         ELSE EffectOn(op, p, Running(registered)) /\ UNCHANGED pending
  <2>1. Running(registered) \in BOOLEAN
    BY DEF Running
  <2> QED BY <2>1 DEF BeginCall, Awaits
<1>2. /\ overlapped' \in BOOLEAN /\ overlapped => overlapped'
      /\ ~ overlapped' => ~ overlapped /\ \A d \in Callers : pending[d] = Idle
  BY <1>1 DEF Overlap, SocketsIInv, SocketsTyped
<1>3. StreamKept'
  BY <1>1 DEF SocketsIInv, StreamKept, HeardBytes
<1>4. CASE Running(registered)
  <2>1. registered \in Tasks /\ [op |-> op, pid |-> p, task |-> registered] \in CallsOf
    BY <1>4 DEF Running, CallsOf, SocketsIInv, SocketsTyped
  <2>2. SocketsTyped'
    BY <1>1, <1>2, <1>4, <2>1 DEF SocketsIInv, SocketsTyped
  <2>3. WaiterWaits' /\ Numbered'
    <3>1. \A d \in Callers : pending[d] = [op |-> "recv", at |-> "waiting"] => d # c
      BY <1>1 DEF Idle
    <3> QED BY <1>1, <1>4, <3>1 DEF SocketsIInv, SocketsTyped, WaiterWaits, Numbered
  <2>4. OneReader'
    <3> SUFFICES ASSUME ~ overlapped' PROVE OneReader'
      BY DEF OneReader
    <3>1. \A d \in Callers : pending'[d] # Idle => d = c
      BY <1>1, <1>2, <1>4 DEF SocketsIInv, SocketsTyped
    <3>2. \A r \in Tasks : Running(r)' => r = registered /\ (r \notin cancelling => target[r] = owner)
      BY <1>1, <1>2, <1>4 DEF SocketsIInv, OneReader, Running
    <3>3. pending'[c].task = registered
      BY <1>1, <1>4 DEF SocketsIInv, SocketsTyped
    <3>4. \A d \in Callers : pending'[d].op \in Switches => pending'[d] # Idle
      BY DEF Idle, Switches
    <3> QED BY <1>1, <1>4, <3>1, <3>2, <3>3, <3>4 DEF OneReader
  <2> QED BY <1>3, <2>2, <2>3, <2>4 DEF SocketsIInv
<1>5. CASE ~ Running(registered)
  <2>1. /\ EffectOn(op, p, Running(registered)) /\ Running(registered) \in BOOLEAN
        /\ pending' = pending /\ cancelling' = cancelling /\ waiter' = waiter
    <3>1. Running(registered) \in BOOLEAN
      BY DEF Running
    <3> QED BY <1>1, <1>5, <3>1
  <2>2. ~ overlapped' => /\ \A r \in Tasks : ~ Running(r)
                         /\ \A d \in Callers : pending'[d].op \notin Switches
    BY <1>2, <1>5, <2>1 DEF SocketsIInv, OneReader, Idle, Switches
  <2>3. pending' \in [Callers -> CallsOf]
    BY <2>1 DEF SocketsIInv, SocketsTyped
  <2>4. /\ reader' \in [Tasks -> {"absent", "new", "waiting", "woken", "done"}]
        /\ target' \in [Tasks -> Owners \cup {Nobody}] /\ registered' \in Tasks \cup {0}
        /\ WaiterWaits' /\ Numbered' /\ OneReader'
    <3>1. overlapped' \in BOOLEAN /\ (overlapped => overlapped')
      BY <1>2
    <3>2. \A d \in Callers : \/ pending'[d] = pending[d]
                             \/ pending'[d] = Idle /\ pending[d].op \in Switches
      BY <2>1
    <3> HIDE DEF OneReader, Numbered, WaiterWaits
    <3> QED BY <3>1, <3>2, <2>1, <2>2, <2>3, EffectKeeps
  <2>5. SocketsTyped'
    BY <1>1, <1>2, <2>1, <2>3, <2>4 DEF SocketsIInv, SocketsTyped
  <2> QED BY <1>3, <2>4, <2>5 DEF SocketsIInv
<1> QED BY <1>4, <1>5

\* A call goes on when the reader it cancelled has ended.
LEMMA FinishCallKeeps ==
  ASSUME SocketsIInv, NEW c \in Callers, Finish(c), overlapped' = (overlapped \/ Overlap(c))
  PROVE  SocketsIInv'
<1> USE SocketsAssumption
<1> DEFINE op == pending[c].op  p == pending[c].pid
<1>1. /\ op \in Switches /\ p \in Owners \cup {Nobody} /\ pending[c].task \in Tasks
      /\ reader[pending[c].task] = "done"
      /\ EffectOn(op, p, TRUE) /\ pending' = [pending EXCEPT ![c] = Idle]
      /\ UNCHANGED <<sent, eof, buffer, waiter, cancelling, heard>>
  <2>1. op \in Switches
    BY DEF Finish, Switches
  <2>2. pending[c] \in CallsOf
    BY DEF SocketsIInv, SocketsTyped
  <2>3. pending[c] \in [op : Switches, pid : Owners \cup {Nobody}, task : Tasks]
    BY <2>1, <2>2 DEF CallsOf, Idle, Switches
  <2> QED BY <2>1, <2>3 DEF Finish
<1> HIDE DEF op, p
<1>2. overlapped' = overlapped /\ overlapped \in BOOLEAN
  <2>1. pending[c] # Idle
    BY <1>1 DEF op, Idle, Switches
  <2> QED BY <2>1 DEF Overlap, SocketsIInv, SocketsTyped
<1>3. StreamKept'
  BY <1>1 DEF SocketsIInv, StreamKept, HeardBytes
<1>4. /\ pending' \in [Callers -> CallsOf]
      /\ \A d \in Callers : pending'[d] = IF d = c THEN Idle ELSE pending[d]
  BY <1>1 DEF SocketsIInv, SocketsTyped, CallsOf
<1>5. ~ overlapped' => /\ \A r \in Tasks : ~ Running(r)
                       /\ \A d \in Callers : pending'[d].op \notin Switches
  <2> SUFFICES ASSUME ~ overlapped
               PROVE  /\ \A r \in Tasks : ~ Running(r)
                      /\ \A d \in Callers : pending'[d].op \notin Switches
    BY <1>2
  <2>1. \A r \in Tasks : ~ Running(r)
    BY <1>1 DEF SocketsIInv, OneReader, Running, op
  <2>2. \A d \in Callers : pending[d].op \in Switches => pending[d] # Idle
    BY DEF Idle, Switches
  <2>3. \A d \in Callers \ {c} : pending[d] = Idle
    BY <1>1, <2>2 DEF SocketsIInv, OneReader, op
  <2>4. Idle.op \notin Switches
    BY DEF Idle, Switches
  <2> QED BY <1>4, <2>1, <2>3, <2>4
<1>6. /\ reader' \in [Tasks -> {"absent", "new", "waiting", "woken", "done"}]
      /\ target' \in [Tasks -> Owners \cup {Nobody}] /\ registered' \in Tasks \cup {0}
      /\ WaiterWaits' /\ Numbered' /\ OneReader'
  <2>1. overlapped' \in BOOLEAN /\ (overlapped => overlapped') /\ waiter' = waiter
    BY <1>1, <1>2
  <2>2. \A d \in Callers : \/ pending'[d] = pending[d]
                           \/ pending'[d] = Idle /\ pending[d].op \in Switches
    BY <1>1, <1>4 DEF op
  <2> QED BY <1>1, <1>4, <1>5, <2>1, <2>2, EffectKeeps
<1>7. SocketsTyped'
  BY <1>1, <1>2, <1>4, <1>6 DEF SocketsIInv, SocketsTyped
<1> QED BY <1>3, <1>6, <1>7 DEF SocketsIInv

\* accept and recv change nothing but what their caller waits for.
LEMMA CallerMoves ==
  ASSUME SocketsIInv, NEW c \in Callers, NEW now \in CallsOf, now.op \notin Switches,
         pending[c].op \notin Switches, pending' = [pending EXCEPT ![c] = now],
         overlapped' = (overlapped \/ Overlap(c)),
         waiter' \in {waiter, c, Nobody},
         waiter' = c => now = [op |-> "recv", at |-> "waiting"],
         UNCHANGED <<reader, target, cancelling, registered, owner>>
  PROVE  /\ overlapped' \in BOOLEAN /\ pending' \in [Callers -> CallsOf]
         /\ WaiterWaits' /\ Numbered' /\ OneReader'
<1> USE SocketsAssumption
<1>1. /\ pending' \in [Callers -> CallsOf]
      /\ \A d \in Callers : pending'[d] = IF d = c THEN now ELSE pending[d]
  BY DEF SocketsIInv, SocketsTyped
<1>2. WaiterWaits' /\ Numbered'
  BY <1>1 DEF SocketsIInv, WaiterWaits, Numbered
<1>3. /\ overlapped' \in BOOLEAN
      /\ ~ overlapped' =>
            /\ ~ overlapped
            /\ pending[c] = Idle => \A d \in Callers : pending[d] = Idle
  BY DEF Overlap, SocketsIInv, SocketsTyped
<1>4. OneReader'
  <2> SUFFICES ASSUME ~ overlapped' PROVE OneReader'
    BY DEF OneReader
  <2>1. \A d \in Callers \ {c} : pending[d] = Idle \/ pending[c] = Idle
    BY <1>3 DEF SocketsIInv, OneReader
  <2>2. \A d \in Callers \ {c} : pending[d] = Idle
    BY <1>3, <2>1
  <2>3. \A d \in Callers : pending'[d] # Idle => d = c
    BY <1>1, <2>2
  <2>4. \A d \in Callers : pending'[d].op \notin Switches
    BY <1>1, <2>2 DEF Idle, Switches
  <2>5. \A r \in Tasks : Running(r)' => r = registered /\ (r \notin cancelling => target[r] = owner)
    BY <1>3 DEF SocketsIInv, OneReader, Running
  <2> QED BY <2>3, <2>4, <2>5 DEF OneReader
<1> QED BY <1>1, <1>2, <1>3, <1>4

\* accept.
LEMMA AcceptKeeps ==
  ASSUME SocketsIInv, NEW c \in Callers, Accept(c), overlapped' = (overlapped \/ Overlap(c)),
         UNCHANGED <<sent, eof, buffer, waiter, reader, target, cancelling, registered, heard, owner>>
  PROVE  SocketsIInv'
<1> USE SocketsAssumption
<1>1. PICK now \in {Idle, [op |-> "accept"]} : pending' = [pending EXCEPT ![c] = now]
  BY DEF Accept
<1>2. now \in CallsOf /\ now.op \notin Switches /\ now.op # "recv"
  BY DEF CallsOf, Idle, Switches
<1>3. pending[c].op \notin Switches
  BY DEF Accept, Idle, Switches
<1>4. waiter # c
  BY DEF Accept, Idle, SocketsIInv, WaiterWaits
<1>5. waiter' \in {waiter, c, Nobody} /\ waiter' # c
  BY <1>4
<1>6. /\ overlapped' \in BOOLEAN /\ pending' \in [Callers -> CallsOf]
      /\ WaiterWaits' /\ Numbered' /\ OneReader'
  BY <1>1, <1>2, <1>3, <1>5, CallerMoves
<1>7. SocketsTyped' /\ StreamKept'
  BY <1>6 DEF SocketsIInv, SocketsTyped, StreamKept, HeardBytes
<1> QED BY <1>6, <1>7 DEF SocketsIInv

\* recv: only its caller hears what it takes.
LEMMA RecvKeeps ==
  ASSUME SocketsIInv, NEW c \in Callers, Recv(c), overlapped' = (overlapped \/ Overlap(c)),
         UNCHANGED <<phase, sent, eof, reader, target, cancelling, registered, owner>>
  PROVE  /\ SocketsIInv'
         /\ \A k \in DOMAIN heard' \ DOMAIN heard : heard'[k][1] = c
<1> USE SocketsAssumption
<1> DEFINE waits == [op |-> "recv", at |-> "waiting"]
<1>1. pending[c].op \notin Switches
  BY DEF Recv, Idle, Switches
<1>2. PICK now \in {Idle, waits} :
        /\ pending' = [pending EXCEPT ![c] = now]
        /\ now = waits => waiter' = c
        /\ now = Idle => waiter' \in {waiter, Nobody} /\ waiter' # c
  <2>1. ASSUME waiter = c PROVE pending[c] = waits
    BY <2>1 DEF SocketsIInv, WaiterWaits
  <2>2. waits # Idle /\ waits # [op |-> "recv", at |-> "woken"]
    BY DEF Idle
  <2> HIDE DEF waits
  <2>3. waits = [op |-> "recv", at |-> "waiting"]
    BY DEF waits
  <2> QED BY <2>1, <2>2, <2>3 DEF Recv
<1>3. now \in CallsOf /\ now.op \notin Switches
  BY DEF CallsOf, Idle, Switches
<1>4. /\ overlapped' \in BOOLEAN /\ pending' \in [Callers -> CallsOf]
      /\ WaiterWaits' /\ Numbered' /\ OneReader'
  BY <1>1, <1>2, <1>3, CallerMoves
<1>5. \/ UNCHANGED <<buffer, heard>>
      \/ LET n == Least(ReadSize, Len(buffer))
         IN Hears(c, SubSeq(buffer, 1, n)) /\ buffer' = Drop(n)
  BY DEF Recv
<1>6. CASE UNCHANGED <<buffer, heard>>
  <2>1. SocketsTyped' /\ StreamKept'
    BY <1>4, <1>6 DEF SocketsIInv, SocketsTyped, StreamKept, HeardBytes
  <2> QED BY <1>4, <1>6, <2>1 DEF SocketsIInv
<1>7. ASSUME NEW n, n = Least(ReadSize, Len(buffer)), Hears(c, SubSeq(buffer, 1, n)), buffer' = Drop(n)
      PROVE  SocketsIInv' /\ \A k \in DOMAIN heard' \ DOMAIN heard : heard'[k][1] = c
  <2> DEFINE things == SubSeq(buffer, 1, n)
  <2>1. /\ buffer \in Seq(1 .. MaxBytes) /\ Len(buffer) \in Nat /\ n \in 0 .. Len(buffer)
    BY <1>7 DEF Least, SocketsIInv, SocketsTyped
  <2>2. /\ things \in Seq(Nat) /\ Len(things) = n
        /\ \A k \in 1 .. n : things[k] = buffer[k]
    BY <2>1
  <2>3. \A k \in n + 1 .. Len(things) : things[k] \notin 1 .. MaxBytes
    BY <2>1, <2>2
  <2>4. c \in Listeners /\ Hears(c, things) /\ n <= Len(things)
        /\ buffer' = SubSeq(buffer, n + 1, Len(buffer)) /\ sent' = sent
    BY <1>7, <2>1, <2>2 DEF Drop, Listeners
  <2> HIDE DEF things
  <2>5. StreamKept' /\ buffer' \in Seq(1 .. MaxBytes)
    BY <2>1, <2>2, <2>3, <2>4, PassedOn DEF SocketsIInv
  <2>6. /\ heard' \in Seq(Listeners \X Nat)
        /\ Len(heard) \in Nat /\ Len(things) \in Nat
        /\ DOMAIN heard = 1 .. Len(heard) /\ DOMAIN heard' = 1 .. Len(heard) + Len(things)
        /\ \A k \in 1 .. Len(things) : heard'[Len(heard) + k] = <<c, things[k]>>
    BY <2>2, <2>4, HeardMore DEF SocketsIInv
  <2>7. ASSUME NEW k \in DOMAIN heard' \ DOMAIN heard PROVE heard'[k][1] = c
    <3>1. k - Len(heard) \in 1 .. Len(things) /\ Len(heard) + (k - Len(heard)) = k
      BY <2>6
    <3> QED BY <2>6, <3>1
  <2>8. SocketsTyped'
    BY <1>4, <2>5, <2>6 DEF SocketsIInv, SocketsTyped, Listeners
  <2> QED BY <1>4, <2>5, <2>7, <2>8 DEF SocketsIInv
<1> QED BY <1>5, <1>6, <1>7

\* One step, and who hears of it.
LEMMA SocketsStep ==
  ASSUME SocketsIInv, [SocketsNext]_socketVars
  PROVE  /\ SocketsIInv'
         /\ ~ overlapped' => \A k \in DOMAIN heard' \ DOMAIN heard :
                                heard'[k][1] \in {owner} \cup Callers
<1> DEFINE Quietly == UNCHANGED heard
           Said == ~ overlapped' => \A k \in DOMAIN heard' \ DOMAIN heard :
                                       heard'[k][1] \in {owner} \cup Callers
<1>1. UNCHANGED heard => Said
  OBVIOUS
<1>2. CASE UNCHANGED socketVars
  <2>1. /\ UNCHANGED <<heard, sent, buffer, waiter, reader, target, cancelling, registered>>
        /\ UNCHANGED <<pending, owner, overlapped>>
    BY <1>2 DEF socketVars
  <2>2. SocketsTyped' /\ StreamKept' /\ WaiterWaits' /\ Numbered'
    BY <2>1 DEF SocketsIInv, SocketsTyped, StreamKept, HeardBytes, WaiterWaits, Numbered
  <2>3. OneReader'
    BY <2>1 DEF SocketsIInv, OneReader, Running
  <2> QED BY <1>1, <2>1, <2>2, <2>3 DEF SocketsIInv
<1>3. CASE Connect /\ UNCHANGED overlapped
  <2>1. /\ UNCHANGED <<heard, sent, buffer, waiter, reader, target, cancelling, registered>>
        /\ UNCHANGED <<pending, owner, overlapped>>
    BY <1>3 DEF Connect
  <2>2. SocketsTyped' /\ StreamKept' /\ WaiterWaits' /\ Numbered'
    BY <2>1 DEF SocketsIInv, SocketsTyped, StreamKept, HeardBytes, WaiterWaits, Numbered
  <2>3. OneReader'
    BY <2>1 DEF SocketsIInv, OneReader, Running
  <2> QED BY <1>1, <2>1, <2>2, <2>3 DEF SocketsIInv
<1>4. CASE Arrive /\ UNCHANGED overlapped
  BY <1>1, <1>4, ArriveKeeps DEF Arrive
<1>5. CASE EndOfStream /\ UNCHANGED overlapped
  BY <1>1, <1>5, EndKeepsStream DEF EndOfStream
<1>6. ASSUME NEW r \in Tasks, ActiveReaderLoop(r), UNCHANGED overlapped PROVE SocketsIInv' /\ Said
  BY <1>6, LoopKeeps
<1>7. ASSUME NEW r \in Tasks, ReaderCancelled(r), UNCHANGED overlapped PROVE SocketsIInv' /\ Said
  BY <1>1, <1>7, CancelKeeps DEF ReaderCancelled
<1>8. ASSUME NEW c \in Callers, CallStep(c), overlapped' = (overlapped \/ Overlap(c))
      PROVE  SocketsIInv' /\ Said
  <2>1. ASSUME NEW p \in Owners \cup {Nobody}, NEW op \in Switches, BeginCall(c, op, p)
        PROVE  SocketsIInv' /\ Said
    BY <1>1, <1>8, <2>1, BeginCallKeeps DEF BeginCall
  <2>2. CASE Finish(c)
    BY <1>1, <1>8, <2>2, FinishCallKeeps DEF Finish
  <2>3. CASE Accept(c) /\ UNCHANGED <<sent, eof, buffer, waiter, reader, target, cancelling,
                                     registered, heard, owner>>
    BY <1>1, <1>8, <2>3, AcceptKeeps
  <2>4. CASE Recv(c) /\ UNCHANGED <<phase, sent, eof, reader, target, cancelling, registered, owner>>
    BY <1>8, <2>4, RecvKeeps
  <2> QED BY <1>8, <2>1, <2>2, <2>3, <2>4 DEF CallStep, Switches
<1> QED BY <1>2, <1>3, <1>4, <1>5, <1>6, <1>7, <1>8 DEF SocketsNext

\* Whatever the peer sends and however calls to the socket, their timeouts and the ends of
\* reader tasks interleave, every byte is heard once and in order; and where calls do not
\* overlap, only by the owner or by who called recv.
THEOREM OwnerAlwaysServed == SocketsSpec => OwnerServed
<1> USE SocketsAssumption
<1>1. SocketsInit => SocketsIInv
  <2> SUFFICES ASSUME SocketsInit PROVE SocketsIInv
    OBVIOUS
  <2>1. SocketsTyped
    <3>1. buffer \in Seq(1 .. MaxBytes) /\ heard \in Seq((Owners \cup Callers \cup {Nobody}) \X Nat)
      <4>1. \A S : <<>> \in Seq(S)
        OBVIOUS
      <4> QED BY <4>1 DEF SocketsInit
    <3>2. pending \in [Callers -> CallsOf] /\ sent \in 0 .. MaxBytes /\ overlapped \in BOOLEAN
      <4>1. Idle \in CallsOf /\ 0 \in 0 .. MaxBytes /\ FALSE \in BOOLEAN
        BY DEF CallsOf
      <4> QED BY <4>1 DEF SocketsInit
    <3> QED BY <3>1, <3>2 DEF SocketsInit, SocketsTyped
  <2>2. StreamKept
    <3>1. Len(buffer) = 0 /\ sent - Len(buffer) = 0 /\ HeardBytes = {}
      <4>1. Len(<<>>) = 0 /\ DOMAIN <<>> = {}
        OBVIOUS
      <4>2. buffer = <<>> /\ heard = <<>> /\ sent = 0
        BY DEF SocketsInit
      <4>3. Len(buffer) = 0 /\ DOMAIN heard = {} /\ 0 - 0 = 0
        BY <4>1, <4>2
      <4>4. sent - Len(buffer) = 0
        BY ONLY <4>2, <4>3
      <4>5. HeardBytes = {}
        BY <4>3 DEF HeardBytes
      <4> QED BY <4>3, <4>4, <4>5
    <3>2. buffer = [k \in 1 .. 0 |-> 0 + k]
      BY DEF SocketsInit
    <3>3. {heard[k][2] : k \in {}} = 1 .. 0
      OBVIOUS
    <3> QED BY <3>1, <3>2, <3>3 DEF StreamKept
  <2>3. WaiterWaits /\ OneReader
    BY DEF SocketsInit, WaiterWaits, OneReader, Running, Idle, Switches
  <2>4. Numbered
    <3>1. 0 \in 0 .. MaxReaders /\ \A r \in Tasks : r > 0
      BY DEF Tasks
    <3> QED BY <3>1 DEF SocketsInit, Numbered
  <2> QED BY <2>1, <2>2, <2>3, <2>4 DEF SocketsIInv
<1>2. SocketsIInv /\ [SocketsNext]_socketVars => SocketsIInv'
  BY SocketsStep
<1>3. SocketsIInv' => [StreamKept']_socketVars
  BY DEF SocketsIInv
<1>4. SocketsIInv /\ [SocketsNext]_socketVars =>
        [~ overlapped' => \A k \in DOMAIN heard' \ DOMAIN heard :
                             heard'[k][1] \in {owner} \cup Callers]_socketVars
  BY SocketsStep
<1> QED BY <1>1, <1>2, <1>3, <1>4, PTL DEF SocketsSpec, OwnerServed, OnlyOwnerHears
=============================================================================
