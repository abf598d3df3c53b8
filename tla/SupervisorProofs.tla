-------------------------- MODULE SupervisorProofs --------------------------
(***************************************************************************)
(* Proofs about Supervisor, for any number of children, any options and    *)
(* any bound on restarts.                                                  *)
(***************************************************************************)
EXTENDS Supervisor, FiniteSetTheorems, SequenceTheorems, WellFoundedInduction, TLAPS

-----------------------------------------------------------------------------
(* The inductive invariant.                                                *)

Ended == {"failed", "stopped", "gave_up", "killed"}

TypeOK ==
    /\ setup \in Setups
    /\ sup \in {"starting", "serving"} \cup Ended
    /\ mailbox \in Seq(Messages)
    /\ refs \in SUBSET Refs
    /\ pid \in [Children -> Instances \cup {None}]
    /\ ref \in [Children -> Refs \cup {None}]
    /\ todo \in Seq(Children)
    /\ awaiting \in Instances \cup {None}
    /\ buffered \in Seq(Messages)
    /\ recent \in Nat
    /\ task \in [Instances -> {"absent", "init", "up"} \cup EndReasons]
    /\ cancelled \in SUBSET Instances
    /\ linked \in SUBSET Instances
    /\ watched \in [Instances -> Refs \cup {None}]

\* Instances of a child are numbered in the order they are started.
Numbered ==
    \A c \in Children : \E n \in 0 .. MaxStarts :
        {k \in 1 .. MaxStarts : task[<<c, k>>] # "absent"} = 1 .. n

\* A reference in the table is the one some child is watched under; an instance
\* is watched from the end of its start until it ends.
RefsWatched ==
    /\ \A r \in refs : \E i \in Instances : watched[i] = r
    /\ \A i \in Instances : watched[i] # None => IsAlive(i) /\ i # awaiting

\* Only what runs is cancelled; a child on record is one of its own instances.
OnRecord ==
    /\ \A i \in cancelled : IsAlive(i)
    /\ \A c \in Children : pid[c] # None => pid[c][1] = c

\* The instance under way belongs to the first child still to be started.
UnderWay ==
    /\ ~Running => awaiting = None /\ todo = <<>>
    /\ awaiting # None =>
          /\ todo # <<>> /\ awaiting[1] = Head(todo)
          /\ task[awaiting] # "absent"
          /\ Live(awaiting) => awaiting \in linked
    /\ sup = "starting" => recent = 0 /\ todo # <<>>

Base == TypeOK /\ Numbered /\ RefsWatched /\ OnRecord /\ UnderWay

-----------------------------------------------------------------------------
(* one_for_all and rest_for_one over servers that answer in time.          *)

Prompt ==
    /\ strategy # "one_for_one"
    /\ "slow" \notin setup.faults
    /\ \A c \in Children : setup.kind[c] = "gen_server"

\* While the supervisor runs, what lives is on record or under way.
LivesAccounted ==
    Running => \A i \in Instances :
                  Live(i) => i = awaiting \/ (i = pid[i[1]] /\ task[i] = "up")

\* What is still to be started is a suffix of the children, and nothing of it
\* lives but the instance under way.
SuffixDown ==
    todo # <<>> =>
        /\ \A k \in 1 .. Len(todo) : todo[k] = Head(todo) + k - 1
        /\ Head(todo) + Len(todo) - 1 = N
        /\ \A i \in Instances : i[1] >= Head(todo) /\ Live(i) => i = awaiting

\* The only reply in the mailbox is that of the instance under way, once; if it
\* is up, its reply is there.
Silent(s) == \A k \in DOMAIN s : ~InitReply(s[k])
ReplyAt(k) ==
    /\ awaiting # None
    /\ \/ mailbox[k] = INIT_OK(awaiting) /\ task[awaiting] # "init"
       \/ mailbox[k] = INIT_ERROR(awaiting) /\ ~IsAlive(awaiting)
    /\ \A l \in DOMAIN mailbox : l # k => ~InitReply(mailbox[l])

OneReply ==
    /\ Silent(buffered)
    /\ \/ Silent(mailbox) /\ (awaiting # None => task[awaiting] # "up")
       \/ \E k \in DOMAIN mailbox : ReplyAt(k)

Served == LivesAccounted /\ SuffixDown /\ AtMostOneLive /\ NoOrphans
PromptInv == Prompt => Served /\ OneReply

-----------------------------------------------------------------------------
(* one_for_one: every restart is paid for by an instance that ended.       *)

Charge(m) == m.tag = "DOWN" /\ m.reason # SHUTDOWN
Charges(s) == Cardinality({k \in DOMAIN s : Charge(s[k])})
SelfEnded == {i \in Instances : task[i] \in {NORMAL, CRASH}}
Owed == IF sup = "serving" /\ awaiting = None /\ todo # <<>> THEN 1 ELSE 0

Debt == recent + Owed + Charges(mailbox) + Charges(buffered)
Paid == strategy = "one_for_one" /\ Running =>
            /\ sup = "serving" => Len(todo) <= 1
            /\ Debt <= Cardinality(SelfEnded)
PaidInv == GivesUpJustified /\ Paid

IInv == Base /\ ChildrenHeard /\ PromptInv /\ PaidInv

-----------------------------------------------------------------------------
(* Facts about the messages and the mailbox.                               *)

\* Every message a step writes is one of Messages.
LEMMA MessageTypes ==
  /\ \A i \in Instances : INIT_OK(i) \in Messages /\ INIT_ERROR(i) \in Messages
  /\ \A r \in Refs, reason \in EndReasons : DOWN(r, reason) \in Messages
  /\ NOTICE \in Messages /\ STOP \in Messages
  BY DEF Messages

\* A sequence is changed in one of these ways only.
LEMMA SeqFacts ==
  ASSUME NEW S, NEW s \in Seq(S), NEW t \in Seq(S)
  PROVE  /\ s \o t \in Seq(S)
         /\ DOMAIN (s \o t) = 1 .. (Len(s) + Len(t))
         /\ \A k \in DOMAIN (s \o t) :
               (s \o t)[k] = IF k <= Len(s) THEN s[k] ELSE t[k - Len(s)]
         /\ s # <<>> => /\ Head(s) = s[1] /\ Head(s) \in S
                        /\ Tail(s) \in Seq(S)
                        /\ DOMAIN Tail(s) = 1 .. (Len(s) - 1)
                        /\ \A k \in DOMAIN Tail(s) : Tail(s)[k] = s[k + 1]
  OBVIOUS

\* The instances of a child are 1 .. Started(c): the next one is absent.
LEMMA StartedCounts ==
  ASSUME TypeOK, Numbered, NEW c \in Children
  PROVE  /\ Started(c) \in 0 .. MaxStarts
         /\ \A k \in 1 .. MaxStarts : task[<<c, k>>] # "absent" <=> k <= Started(c)
<1>1. PICK n \in 0 .. MaxStarts :
          {k \in 1 .. MaxStarts : task[<<c, k>>] # "absent"} = 1 .. n
  BY DEF Numbered
<1>2. Cardinality(1 .. n) = n
  BY <1>1, FS_Interval, SupervisorAssumption
<1>3. Started(c) = n
  BY <1>1, <1>2 DEF Started
<1> QED
  BY <1>1, <1>3, SupervisorAssumption

\* Numbered is about which instances are absent and nothing else.
LEMMA NumberedKept ==
  ASSUME TypeOK, Numbered, task' \in [Instances -> {"absent", "init", "up"} \cup EndReasons],
         \A i \in Instances : task[i] = "absent" <=> task'[i] = "absent"
  PROVE  Numbered'
<1> SUFFICES ASSUME NEW c \in Children
             PROVE  \E n \in 0 .. MaxStarts :
                {k \in 1 .. MaxStarts : task'[<<c, k>>] # "absent"} = 1 .. n
  BY DEF Numbered
<1>1. \A k \in 1 .. MaxStarts : <<c, k>> \in Instances
  BY DEF Instances
<1>2. {k \in 1 .. MaxStarts : task'[<<c, k>>] # "absent"}
        = {k \in 1 .. MaxStarts : task[<<c, k>>] # "absent"}
  BY <1>1
<1> QED
  BY <1>2 DEF Numbered

\* A reference handed out is in Refs: as many references as are watched, at most.
LEMMA NextReference ==
  ASSUME TypeOK, RefsWatched
  PROVE  Cardinality(refs) \in Refs
<1> DEFINE Img == {watched[i] : i \in Instances}
<1>1. IsFiniteSet(1 .. MaxStarts) /\ Cardinality(1 .. MaxStarts) = MaxStarts
  BY FS_Interval, SupervisorAssumption
<1>2. IsFiniteSet(Children) /\ Cardinality(Children) = N
  BY FS_Interval, SupervisorAssumption DEF Children
<1>3. IsFiniteSet(Instances) /\ Cardinality(Instances) = N * MaxStarts
  BY <1>1, <1>2, FS_Product DEF Instances
<1> DEFINE W == [i \in Instances |-> watched[i]]
<1>4. W \in Surjection(Instances, Img)
  BY DEF Surjection
<1>5. IsFiniteSet(Img) /\ Cardinality(Img) <= N * MaxStarts
  BY <1>3, <1>4, FS_Surjection
<1>6. refs \in SUBSET Img
  BY DEF RefsWatched
<1>7. Cardinality(refs) <= Cardinality(Img) /\ IsFiniteSet(refs)
  BY <1>5, <1>6, FS_Subset
<1>8. Cardinality(refs) \in Nat /\ Cardinality(Img) \in Nat
  BY <1>5, <1>7, FS_CardinalityType
<1>9. N * MaxStarts \in Nat
  BY <1>3, FS_CardinalityType
<1> QED
  BY <1>5, <1>7, <1>8, <1>9 DEF Refs

-----------------------------------------------------------------------------
(* Base is inductive: one lemma for each kind of step.                     *)

\* Base holds at the start.
LEMMA BaseInit == Init => Base
<1> SUFFICES ASSUME Init PROVE Base
  OBVIOUS
<1>1. TypeOK
  <2>1. todo \in Seq(Children)
    BY IsASeq, SupervisorAssumption DEF Init, Children
  <2> QED
    BY <2>1 DEF Init, TypeOK
<1>2. Numbered
  <2> SUFFICES ASSUME NEW c \in Children
               PROVE  \E n \in 0 .. MaxStarts :
                  {k \in 1 .. MaxStarts : task[<<c, k>>] # "absent"} = 1 .. n
    BY DEF Numbered
  <2>1. {k \in 1 .. MaxStarts : task[<<c, k>>] # "absent"} = 1 .. 0
    BY DEF Init, Instances
  <2> QED
    BY <2>1, SupervisorAssumption
<1>3. RefsWatched /\ OnRecord
  BY DEF Init, RefsWatched, OnRecord
<1>4. UnderWay
  <2>1. Len(todo) = N
    BY SupervisorAssumption DEF Init, Children
  <2>2. todo # <<>>
    BY <2>1, SupervisorAssumption
  <2> QED
    BY <2>2 DEF Init, UnderWay, Running
<1> QED
  BY <1>1, <1>2, <1>3, <1>4 DEF Base

\* An instance ends.
LEMMA BaseEnd ==
  ASSUME Base, setup' = setup, NEW i \in Instances, NEW reason \in EndReasons,
         NEW words \in Seq(Messages), IsAlive(i), End(i, reason, words)
  PROVE  Base'
<1> USE DEF Base
<1>1. mailbox' \in Seq(Messages)
  <2>1. (IF i \in linked /\ reason = CRASH THEN <<NOTICE>> ELSE <<>>) \in Seq(Messages)
    BY MessageTypes
  <2>2. watched[i] # None => watched[i] \in Refs
    BY DEF TypeOK
  <2>3. (IF watched[i] # None THEN <<DOWN(watched[i], reason)>> ELSE <<>>) \in Seq(Messages)
    BY <2>2, MessageTypes
  <2> QED
    BY <2>1, <2>3 DEF End, Tell, TypeOK
<1>2. \A j \in Instances : task'[j] = IF j = i THEN reason ELSE task[j]
  BY DEF End, TypeOK
<1>3. \A j \in Instances : watched'[j] = IF j = i THEN None ELSE watched[j]
  BY DEF End, TypeOK
<1>4. TypeOK'
  BY <1>1 DEF TypeOK, End, supVars
<1>5. Numbered'
  BY <1>2, <1>4, NumberedKept DEF TypeOK, IsAlive, EndReasons, NORMAL, SHUTDOWN, CRASH
<1>6. RefsWatched'
  BY <1>2, <1>3 DEF RefsWatched, End, supVars, IsAlive, TypeOK
<1>7. OnRecord'
  BY <1>2 DEF OnRecord, End, supVars, IsAlive, TypeOK
<1>8. UnderWay'
  BY <1>2 DEF UnderWay, End, supVars, Live, Running, TypeOK, IsAlive,
              EndReasons, NORMAL, SHUTDOWN, CRASH
<1> QED
  BY <1>4, <1>5, <1>6, <1>7, <1>8

\* An instance comes up.
LEMMA BaseInitOk ==
  ASSUME Base, setup' = setup, NEW i \in Instances, InitOk(i)
  PROVE  Base'
<1> USE DEF Base
<1>1. mailbox' \in Seq(Messages)
  BY MessageTypes DEF InitOk, Tell, TypeOK
<1>2. \A j \in Instances : task'[j] = IF j = i THEN "up" ELSE task[j]
  BY DEF InitOk, TypeOK
<1>3. TypeOK'
  BY <1>1 DEF TypeOK, InitOk, supVars
<1>4. Numbered'
  BY <1>2, <1>3, NumberedKept DEF TypeOK, InitOk
<1>5. RefsWatched' /\ OnRecord'
  BY <1>2 DEF RefsWatched, OnRecord, InitOk, supVars, IsAlive, TypeOK
<1>6. UnderWay'
  BY <1>2 DEF UnderWay, InitOk, supVars, Live, Running, TypeOK
<1> QED
  BY <1>3, <1>4, <1>5, <1>6

\* Somebody calls exit on a child.
LEMMA BaseExitChild ==
  ASSUME Base, setup' = setup, NEW i \in Instances, NEW reason \in ExitSignals,
         ExitChild(i, reason)
  PROVE  Base'
<1> USE DEF Base
<1>1. mailbox' \in Seq(Messages)
  <2>1. (IF i \in linked THEN <<NOTICE>> ELSE <<>>) \in Seq(Messages)
    BY MessageTypes
  <2>2. (IF watched[i] # None THEN <<NOTICE>> ELSE <<>>) \in Seq(Messages)
    BY MessageTypes
  <2>3. CASE reason = SHUTDOWN
    BY <2>3 DEF ExitChild, TypeOK
  <2>4. CASE reason # SHUTDOWN
    <3> DEFINE a == IF i \in linked THEN <<NOTICE>> ELSE <<>>
               b == IF watched[i] # None THEN <<NOTICE>> ELSE <<>>
    <3>1. mailbox' = IF Running THEN mailbox \o (a \o b) ELSE mailbox
      BY <2>4 DEF ExitChild, Tell
    <3>2. a \in Seq(Messages) /\ b \in Seq(Messages) /\ mailbox \in Seq(Messages)
      BY <2>1, <2>2 DEF TypeOK
    <3> HIDE DEF a, b
    <3> QED
      BY <3>1, <3>2, SeqFacts
  <2> QED
    BY <2>3, <2>4
<1>2. cancelled' = cancelled \cup {i}
  BY DEF ExitChild, CancelSet
<1>3. /\ linked' \in SUBSET Instances /\ (linked' = linked \/ linked' = linked \ {i})
      /\ watched' = watched \/ watched' = [watched EXCEPT ![i] = None]
      /\ watched' = watched => refs' \subseteq refs
      /\ watched' # watched => refs' = refs \ {watched[i]}
  BY DEF ExitChild, TypeOK
<1>4. TypeOK'
  BY <1>1, <1>2, <1>3 DEF TypeOK, ExitChild, supVars
<1>5. Numbered'
  BY <1>4, NumberedKept DEF ExitChild, TypeOK
<1>6. RefsWatched'
  BY <1>3 DEF RefsWatched, TypeOK, ExitChild, supVars, IsAlive
<1>7. OnRecord'
  BY <1>2 DEF OnRecord, ExitChild, supVars, IsAlive
<1>8. UnderWay'
  BY <1>2, <1>3 DEF UnderWay, ExitChild, supVars, Live, Running
<1> QED
  BY <1>4, <1>5, <1>6, <1>7, <1>8

\* The supervisor's process is gone.
LEMMA BaseGone ==
  ASSUME Base, setup' = setup, NEW how \in Ended, Gone(how),
         cancelled' \in SUBSET Instances, \A i \in cancelled' : IsAlive(i)
  PROVE  Base'
<1> USE DEF Base
<1>1. TypeOK'
  BY DEF TypeOK, Gone
<1>2. Numbered'
  BY <1>1, NumberedKept DEF Gone, TypeOK
<1>3. RefsWatched' /\ OnRecord'
  BY DEF RefsWatched, OnRecord, Gone, IsAlive
<1>4. UnderWay'
  BY DEF UnderWay, Gone, Running, Ended
<1> QED
  BY <1>1, <1>2, <1>3, <1>4

\* CancelSet adds only what lives.
LEMMA CancelSetType ==
  ASSUME Base, NEW S \in SUBSET (Instances \cup {None})
  PROVE  /\ CancelSet(S) \in SUBSET Instances
         /\ \A i \in CancelSet(S) : IsAlive(i)
         /\ cancelled \subseteq CancelSet(S)
  BY DEF CancelSet, Base, TypeOK, OnRecord, IsAlive

\* The next child is launched.
LEMMA BaseLaunch ==
  ASSUME Base, setup' = setup, Running, awaiting = None, todo # <<>>,
         Launch(Head(todo)), recent' \in Nat, sup = "starting" => recent' = 0
  PROVE  Base'
<1> USE DEF Base
<1> DEFINE c == Head(todo)
           i == <<c, Started(c) + 1>>
<1>1. c \in Children
  BY DEF TypeOK
<1>2. /\ Started(c) \in 0 .. MaxStarts /\ Started(c) < MaxStarts
      /\ \A k \in 1 .. MaxStarts : task[<<c, k>>] # "absent" <=> k <= Started(c)
  BY <1>1, StartedCounts DEF Launch
<1>3. i \in Instances
  BY <1>1, <1>2, SupervisorAssumption DEF Instances
<1>4. \A j \in Instances : task'[j] = IF j = i THEN "init" ELSE task[j]
  BY <1>3 DEF Launch, TypeOK
<1>5. TypeOK'
  BY <1>1, <1>3 DEF TypeOK, Launch
<1>6. Numbered'
  <2> SUFFICES ASSUME NEW d \in Children
               PROVE  \E n \in 0 .. MaxStarts :
                  {k \in 1 .. MaxStarts : task'[<<d, k>>] # "absent"} = 1 .. n
    BY DEF Numbered
  <2>1. \A k \in 1 .. MaxStarts : <<d, k>> \in Instances
    BY DEF Instances
  <2>2. CASE d = c
    <3>1. {k \in 1 .. MaxStarts : task'[<<d, k>>] # "absent"} = 1 .. (Started(c) + 1)
      BY <1>2, <1>3, <1>4, <2>1, <2>2, SupervisorAssumption
    <3>2. Started(c) + 1 \in 0 .. MaxStarts
      BY <1>2, SupervisorAssumption
    <3> QED
      BY <3>1, <3>2
  <2>3. CASE d # c
    <3>1. {k \in 1 .. MaxStarts : task'[<<d, k>>] # "absent"}
            = {k \in 1 .. MaxStarts : task[<<d, k>>] # "absent"}
      BY <1>4, <2>1, <2>3
    <3> QED
      BY <3>1 DEF Numbered
  <2> QED
    BY <2>2, <2>3
<1>7. RefsWatched'
  <2>1. awaiting' = i /\ refs' = refs /\ watched' = watched
    BY DEF Launch
  <2>2. task[i] = "absent"
    BY <1>2, <1>3 DEF TypeOK, Instances
  <2> QED
    BY <1>3, <1>4, <2>1, <2>2, NoneAssumption DEF RefsWatched, IsAlive
<1>8. OnRecord'
  <2>1. \A d \in Children : pid'[d] = IF d = c THEN None ELSE pid[d]
    BY <1>1 DEF Launch, TypeOK
  <2>2. cancelled' = cancelled
    BY DEF Launch
  <2> QED
    BY <1>4, <2>1, <2>2, NoneAssumption DEF OnRecord, IsAlive, TypeOK
<1>9. UnderWay'
  <2>1. awaiting' = i /\ todo' = todo /\ sup' = sup /\ i \in linked' /\ i[1] = c
    BY DEF Launch
  <2> QED
    BY <1>3, <1>4, <2>1 DEF UnderWay, Running
<1> QED
  BY <1>5, <1>6, <1>7, <1>8, <1>9

\* A child is put on record.
LEMMA BaseAdopt ==
  ASSUME Base, setup' = setup, Running, awaiting # None, IsAlive(awaiting),
         NEW rest \in Seq(Messages), Adopt(awaiting, rest)
  PROVE  Base'
<1> USE DEF Base
<1> DEFINE r == Cardinality(refs)
           i == awaiting
<1>1. r \in Refs
  BY NextReference
<1>2. i \in Instances /\ i[1] \in Children /\ todo # <<>>
  BY DEF TypeOK, Instances, UnderWay
<1>3. \A j \in Instances : watched'[j] = IF j = i THEN r ELSE watched[j]
  BY <1>2 DEF Adopt, TypeOK
<1>4. \A d \in Children : pid'[d] = IF d = i[1] THEN i ELSE pid[d]
  BY <1>2 DEF Adopt, TypeOK
<1>5. TypeOK'
  <2>1. Tail(todo) \in Seq(Children)
    BY <1>2 DEF TypeOK
  <2>2. refs' \in SUBSET Refs
    BY <1>1 DEF Adopt, TypeOK
  <2>3. watched' \in [Instances -> Refs \cup {None}]
    BY <1>1 DEF Adopt, TypeOK
  <2>4. /\ pid' \in [Children -> Instances \cup {None}]
        /\ ref' \in [Children -> Refs \cup {None}]
    BY <1>1, <1>2 DEF Adopt, TypeOK
  <2> QED
    BY <2>1, <2>2, <2>3, <2>4 DEF TypeOK, Adopt
<1>6. Numbered'
  BY <1>5, NumberedKept DEF Adopt, TypeOK
<1>7. RefsWatched'
  <2>0. \A j \in Instances : watched'[j] # None => IsAlive(j)' /\ j # awaiting'
    BY <1>2, <1>3, NoneAssumption DEF RefsWatched, Adopt, IsAlive
  <2> SUFFICES ASSUME NEW x \in refs'
               PROVE  \E j \in Instances : watched'[j] = x
    BY <2>0 DEF RefsWatched
  <2>1. CASE x = r
    BY <1>2, <1>3, <2>1
  <2>2. CASE x # r
    \* The instance adopted was not watched before.
    <3>1. x \in refs
      BY <2>2 DEF Adopt
    <3>2. PICK j \in Instances : watched[j] = x
      BY <3>1 DEF RefsWatched
    <3>3. watched[i] = None /\ x # None
      BY <1>2, <3>1, NoneAssumption DEF RefsWatched, TypeOK
    <3> QED
      BY <1>3, <3>2, <3>3
  <2> QED
    BY <2>1, <2>2
<1>8. OnRecord'
  BY <1>4 DEF OnRecord, Adopt, IsAlive
<1>9. UnderWay'
  <2>1. awaiting' = None /\ recent' = recent /\ todo' = Tail(todo)
        /\ sup' = IF sup = "starting" /\ Tail(todo) # <<>> THEN "starting" ELSE "serving"
    BY DEF Adopt
  <2> QED
    BY <2>1 DEF UnderWay, Running
<1> QED
  BY <1>5, <1>6, <1>7, <1>8, <1>9

\* A start is given up.
LEMMA BaseAbort ==
  ASSUME Base, setup' = setup, Running, awaiting # None,
         NEW rest \in Seq(Messages), Abort(rest)
  PROVE  Base'
<1>1. CASE sup = "starting"
  <2>1. \A i \in cancelled : IsAlive(i)
    BY DEF Base, OnRecord
  <2> QED
    BY <1>1, <2>1, BaseGone DEF Abort, Ended, Base, TypeOK
<1>2. CASE sup # "starting"
  <2> USE DEF Base
  <2>1. /\ todo' = <<>> /\ awaiting' = None /\ buffered' = <<>> /\ mailbox' = rest
        /\ UNCHANGED <<sup, refs, pid, ref, recent, task, cancelled, linked, watched>>
    BY <1>2 DEF Abort
  <2>2. TypeOK'
    BY <2>1 DEF TypeOK
  <2>3. Numbered'
    BY <2>1, <2>2, NumberedKept DEF TypeOK
  <2>4. RefsWatched' /\ OnRecord'
    BY <2>1, NoneAssumption DEF RefsWatched, OnRecord, IsAlive
  <2>5. UnderWay'
    BY <1>2, <2>1 DEF UnderWay
  <2> QED
    BY <2>2, <2>3, <2>4, <2>5
<1> QED
  BY <1>1, <1>2

\* A message is read, kept for later or sent, and nothing else happens.
LEMMA BaseMail ==
  ASSUME Base, setup' = setup, mailbox' \in Seq(Messages), buffered' \in Seq(Messages),
         UNCHANGED <<sup, refs, pid, ref, todo, awaiting, recent, task, cancelled,
                     linked, watched>>
  PROVE  Base'
<1> USE DEF Base
<1>1. TypeOK'
  BY DEF TypeOK
<1>2. Numbered'
  BY <1>1, NumberedKept DEF TypeOK
<1>3. RefsWatched' /\ OnRecord' /\ UnderWay'
  BY DEF RefsWatched, OnRecord, UnderWay, IsAlive, Live, Running
<1> QED
  BY <1>1, <1>2, <1>3

\* The least of a set of children is one of them.
LEMMA LeastChild ==
  ASSUME NEW S \in SUBSET Children, S # {}
  PROVE  Least(S) \in S /\ \A y \in S : Least(S) <= y
<1>1. S \subseteq Nat
  BY SupervisorAssumption DEF Children
<1>2. PICK x \in S : \A y \in S : <<y, x>> \notin OpToRel(<, Nat)
  BY <1>1, NatLessThanWellFounded, WFMin
<1>3. OpToRel(<, Nat) = {ss \in Nat \X Nat : ss[1] < ss[2]}
  BY DEF OpToRel
<1>4. \A y \in S : x <= y
  <2> SUFFICES ASSUME NEW y \in S PROVE x <= y
    OBVIOUS
  <2>1. <<y, x>> \in Nat \X Nat /\ x \in Nat /\ y \in Nat
    BY <1>1
  <2>2. y < x => <<y, x>> \in {ss \in Nat \X Nat : ss[1] < ss[2]}
    BY <2>1
  <2>3. ~(y < x)
    BY <1>2, <1>3, <2>2
  <2> QED
    BY <2>1, <2>3
<1> QED
  BY <1>4 DEF Least

First(dead) == IF strategy = "one_for_all" THEN 1 ELSE dead

\* The children from..N in start order.
LEMMA RemainingChildren ==
  ASSUME NEW from \in Children
  PROVE  LET t == [k \in 1 .. N - from + 1 |-> from + k - 1]
         IN  /\ t \in Seq(Children) /\ t # <<>> /\ Head(t) = from
             /\ Len(t) = N - from + 1
             /\ \A k \in 1 .. Len(t) : t[k] = from + k - 1
<1> DEFINE e(k) == from + k - 1
           t == [k \in 1 .. N - from + 1 |-> e(k)]
<1>1. N - from + 1 \in Nat /\ N - from + 1 >= 1
  BY SupervisorAssumption DEF Children
<1>2. \A k \in 1 .. N - from + 1 : e(k) \in Children
  BY SupervisorAssumption DEF Children
<1>3. t \in Seq(Children)
  BY <1>1, <1>2, IsASeq
<1>4. Len(t) = N - from + 1
  BY <1>1, <1>3
<1>5. t[1] = from
  BY <1>1 DEF Children
<1> QED
  BY <1>1, <1>3, <1>4, <1>5

\* The children to restart are chosen, and their peers told to exit.
LEMMA BaseHandleChildExit ==
  ASSUME Base, setup' = setup, sup = "serving", awaiting = None, todo = <<>>,
         NEW dead \in Children, HandleChildExit(dead), mailbox' \in Seq(Messages),
         UNCHANGED <<sup, refs, awaiting, buffered, recent, task, linked, watched>>
  PROVE  Base'
<1> USE DEF Base
<1>1. First(dead) \in Children
  BY SupervisorAssumption DEF First, Children
<1>2. todo' \in Seq(Children)
  <2>1. CASE strategy = "one_for_one"
    <3>1. todo' = <<dead>>
      BY <2>1 DEF HandleChildExit
    <3> QED
      BY <3>1
  <2>2. CASE strategy # "one_for_one"
    BY <1>1, <2>2, RemainingChildren DEF HandleChildExit, First
  <2> QED
    BY <2>1, <2>2
<1>3. /\ cancelled' \in SUBSET Instances
      /\ \A i \in cancelled' : IsAlive(i)
      /\ cancelled \subseteq cancelled'
  <2>1. CASE strategy = "one_for_one"
    BY <2>1 DEF HandleChildExit, TypeOK, OnRecord
  <2>2. CASE strategy # "one_for_one"
    <3>1. StopVictims(First(dead))
      BY <2>2 DEF HandleChildExit, First
    <3>2. {pid[c] : c \in First(dead) .. N} \ {None} \in SUBSET (Instances \cup {None})
      BY <1>1, SupervisorAssumption DEF TypeOK, Children
    <3> QED
      BY <3>1, <3>2, CancelSetType DEF StopVictims
  <2> QED
    BY <2>1, <2>2
<1>4. /\ pid' \in [Children -> Instances \cup {None}]
      /\ ref' \in [Children -> Refs \cup {None}]
      /\ \A c \in Children : pid'[c] = pid[c] \/ pid'[c] = None
  BY DEF HandleChildExit, StopVictims, TypeOK
<1>5. TypeOK'
  BY <1>2, <1>3, <1>4 DEF TypeOK
<1>6. Numbered'
  BY <1>5, NumberedKept DEF TypeOK
<1>7. RefsWatched' /\ OnRecord' /\ UnderWay'
  BY <1>3, <1>4 DEF RefsWatched, OnRecord, UnderWay, IsAlive, Live, Running
<1> QED
  BY <1>5, <1>6, <1>7

\* What is read, kept and put back is made of messages.
LEMMA MailTypes ==
  ASSUME Base
  PROVE  /\ buffered \in Seq(Messages)
         /\ mailbox # <<>> =>
               /\ Head(mailbox) \in Messages
               /\ Tail(mailbox) \in Seq(Messages)
               /\ Reinjected \in Seq(Messages)
               /\ Append(buffered, Head(mailbox)) \in Seq(Messages)
  BY DEF Base, TypeOK, Reinjected

\* StartNext as a whole.
LEMMA BaseStartNext ==
  ASSUME Base, setup' = setup, StartNext
  PROVE  Base'
<1>1. CASE sup = "starting" /\ Launch(Head(todo)) /\ UNCHANGED recent
  BY <1>1, BaseLaunch DEF StartNext, Base, TypeOK, UnderWay
<1>2. ASSUME sup = "serving", NEW kept \in IF setup.window_passes THEN 0 .. recent ELSE {recent},
             IF Exceeds(kept + 1) THEN StopChildren("gave_up")
                                  ELSE Launch(Head(todo)) /\ recent' = kept + 1
      PROVE  Base'
  <2>1. kept \in Nat
    BY DEF Base, TypeOK
  <2>2. CASE StopChildren("gave_up")
    <3>1. {pid[c] : c \in Children} \ {None} \in SUBSET (Instances \cup {None})
      BY DEF Base, TypeOK
    <3> QED
      BY <2>2, <3>1, CancelSetType, BaseGone DEF StopChildren, Ended
  <2>3. CASE Launch(Head(todo)) /\ recent' = kept + 1
    BY <1>2, <2>1, <2>3, BaseLaunch DEF StartNext
  <2> QED
    BY <1>2, <2>2, <2>3
<1> QED
  BY <1>1, <1>2 DEF StartNext

\* Handshake as a whole.
LEMMA BaseHandshake ==
  ASSUME Base, setup' = setup, Handshake
  PROVE  Base'
<1>1. Running
  BY DEF Handshake, Base, UnderWay
<1>2. CASE IsAlive(awaiting) /\ Adopt(awaiting, Reinjected)
  BY <1>1, <1>2, MailTypes, BaseAdopt DEF Handshake
<1>3. CASE Abort(Reinjected)
  BY <1>1, <1>3, MailTypes, BaseAbort DEF Handshake
<1>4. CASE /\ buffered' = Append(buffered, Head(mailbox))
           /\ mailbox' = Tail(mailbox)
           /\ UNCHANGED <<sup, refs, pid, ref, todo, awaiting, recent, task, cancelled,
                          linked, watched>>
  BY <1>4, MailTypes, BaseMail DEF Handshake
<1> QED
  BY <1>2, <1>3, <1>4 DEF Handshake

\* Receive as a whole.
LEMMA BaseReceive ==
  ASSUME Base, setup' = setup, Receive
  PROVE  Base'
<1>1. CASE StopChildren("stopped")
  <2>1. {pid[c] : c \in Children} \ {None} \in SUBSET (Instances \cup {None})
    BY DEF Base, TypeOK
  <2> QED
    BY <1>1, <2>1, CancelSetType, BaseGone DEF StopChildren, Ended
<1>2. CASE /\ Heeded(Head(mailbox))
           /\ HandleChildExit(Least(Owners(Head(mailbox).ref)))
           /\ mailbox' = Tail(mailbox)
           /\ UNCHANGED <<sup, refs, awaiting, buffered, recent, task, linked, watched>>
  <2>1. Least(Owners(Head(mailbox).ref)) \in Children
    BY <1>2, LeastChild DEF Heeded, Owners
  <2> QED
    BY <1>2, <2>1, MailTypes, BaseHandleChildExit DEF Receive
<1>3. CASE /\ mailbox' = Tail(mailbox)
           /\ UNCHANGED <<supVars, refs, task, cancelled, linked, watched>>
  BY <1>3, MailTypes, BaseMail DEF Receive, supVars
<1> QED
  BY <1>1, <1>2, <1>3 DEF Receive

\* Every step keeps Base.
LEMMA BaseNext ==
  ASSUME Base, [Next]_vars
  PROVE  Base'
<1>1. CASE Step
  <2>1. setup' = setup
    BY <1>1 DEF Step
  <2>2. CASE StartNext
    BY <2>1, <2>2, BaseStartNext
  <2>3. CASE Handshake
    BY <2>1, <2>3, BaseHandshake
  <2>4. CASE Timeout
    BY <2>1, <2>4, BaseAbort, MailTypes DEF Timeout, Base, UnderWay
  <2>5. CASE Receive
    BY <2>1, <2>5, BaseReceive
  <2> QED
    BY <1>1, <2>2, <2>3, <2>4, <2>5 DEF Step
<1>2. ASSUME NEW i \in Instances, Child(i) PROVE Base'
  <2>1. setup' = setup
    BY <1>2 DEF Child
  <2>2. CASE InitOk(i)
    BY <2>1, <2>2, BaseInitOk
  <2>3. CASE InitError(i)
    <3>1. <<INIT_ERROR(i)>> \in Seq(Messages)
      BY MessageTypes
    <3> QED
      BY <2>1, <2>3, <3>1, BaseEnd, NoneAssumption DEF InitError, IsAlive, EndReasons
  <2>4. CASE Unwind(i)
    BY <2>1, <2>4, BaseEnd, EmptySeq DEF Unwind, EndReasons, Base, OnRecord
  <2> QED
    BY <1>2, <2>2, <2>3, <2>4 DEF Child
<1>3. ASSUME NEW i \in Instances, Fail(i) PROVE Base'
  <2>1. IsAlive(i) /\ setup' = setup
    BY <1>3, NoneAssumption DEF Fail, Crash, Return, IsAlive
  <2>2. End(i, CRASH, <<>>) \/ End(i, NORMAL, <<>>)
    BY <1>3 DEF Fail, Crash, Return
  <2> QED
    BY <2>1, <2>2, BaseEnd, EmptySeq DEF EndReasons
<1>4. ASSUME NEW i \in Instances, NEW reason \in ExitSignals, Signal(i, reason) PROVE Base'
  BY <1>4, BaseExitChild DEF Signal
<1>5. CASE EndSupervisor
  <2>1. setup' = setup
    BY <1>5 DEF EndSupervisor
  <2>2. CASE RequestStop
    BY <2>1, <2>2, MessageTypes, BaseMail DEF RequestStop, supVars, Base, TypeOK
  <2>3. CASE Kill
    <3>1. linked \in SUBSET (Instances \cup {None})
      BY DEF Base, TypeOK
    <3> QED
      BY <2>1, <2>3, <3>1, CancelSetType, BaseGone DEF Kill, Ended
  <2> QED
    BY <1>5, <2>2, <2>3 DEF EndSupervisor
<1>6. CASE UNCHANGED vars
  BY <1>6, BaseMail DEF vars, supVars, Base, TypeOK
<1> QED
  BY <1>1, <1>2, <1>3, <1>4, <1>5, <1>6 DEF Next

-----------------------------------------------------------------------------
(* ChildrenHeard.                                                          *)

\* All a step may do to what the supervisor knows of a child that lives on.
Steady(c) ==
    pid'[c] # None =>
        /\ pid'[c] = pid[c] /\ ref'[c] = ref[c]
        /\ Live(pid[c])' =>
              /\ Live(pid[c])
              /\ pid[c] \in linked => pid[c] \in linked'
              /\ watched'[pid[c]] = watched[pid[c]]

\* ChildrenHeard survives steps that are steady for every child.
LEMMA HeardKept ==
  ASSUME ChildrenHeard, NoneAssumption, \A c \in Children : Steady(c)
  PROVE  ChildrenHeard'
  BY DEF ChildrenHeard, Steady, Live

\* The end of one instance is steady for all.
LEMMA SteadyEnd ==
  ASSUME Base, NEW i \in Instances, NEW reason \in EndReasons, NEW words,
         End(i, reason, words)
  PROVE  \A c \in Children : Steady(c)
<1> SUFFICES ASSUME NEW c \in Children, pid'[c] # None PROVE Steady(c)
  BY DEF Steady
<1>1. pid' = pid /\ ref' = ref /\ linked' = linked \ {i}
  BY DEF End, supVars
<1>2. pid[c] \in Instances
  BY <1>1 DEF Base, TypeOK
<1>3. /\ \A j \in Instances : task'[j] = IF j = i THEN reason ELSE task[j]
      /\ \A j \in Instances : watched'[j] = IF j = i THEN None ELSE watched[j]
      /\ cancelled' = cancelled \ {i}
  BY DEF End, Base, TypeOK
<1> QED
  BY <1>1, <1>2, <1>3 DEF Steady, Live, EndReasons, NORMAL, SHUTDOWN, CRASH

\* The child launched has no instance on record any more.
LEMMA SteadyLaunch ==
  ASSUME Base, todo # <<>>, Launch(Head(todo))
  PROVE  \A c \in Children : Steady(c)
<1> SUFFICES ASSUME NEW c \in Children, pid'[c] # None PROVE Steady(c)
  BY DEF Steady
<1> DEFINE h == Head(todo)
           i == <<h, Started(h) + 1>>
<1>1. h \in Children
  BY DEF Base, TypeOK
<1>2. c # h /\ pid'[c] = pid[c] /\ ref'[c] = ref[c]
  BY <1>1 DEF Launch, Base, TypeOK
<1>3. pid[c] \in Instances /\ pid[c][1] = c
  BY <1>2 DEF Base, TypeOK, OnRecord
<1>4. pid[c] # i
  BY <1>2, <1>3
<1>5. task' = [task EXCEPT ![i] = "init"] /\ linked' = linked \cup {i}
      /\ UNCHANGED <<cancelled, watched>>
  BY DEF Launch
<1>6. task'[pid[c]] = task[pid[c]]
  BY <1>3, <1>4, <1>5 DEF Base, TypeOK
<1> QED
  BY <1>2, <1>3, <1>5, <1>6 DEF Steady, Live

\* The child put on record is monitored under the reference recorded.
LEMMA HeardAdopt ==
  ASSUME Base, ChildrenHeard, awaiting # None, NEW rest, Adopt(awaiting, rest)
  PROVE  ChildrenHeard'
<1> SUFFICES ASSUME NEW c \in Children, Live(pid[c])'
             PROVE  pid'[c] \in linked' /\ watched'[pid'[c]] = ref'[c]
  BY DEF ChildrenHeard
<1> DEFINE r == Cardinality(refs)
<1>1. awaiting \in Instances /\ awaiting[1] \in Children
  BY DEF Base, TypeOK, Instances
<1>2. /\ pid'[c] = IF c = awaiting[1] THEN awaiting ELSE pid[c]
      /\ ref'[c] = IF c = awaiting[1] THEN r ELSE ref[c]
      /\ \A i \in Instances : watched'[i] = IF i = awaiting THEN r ELSE watched[i]
      /\ UNCHANGED <<task, cancelled, linked>>
  BY DEF Adopt, Base, TypeOK
<1>3. CASE c = awaiting[1]
  \* The instance under way is linked unless it is told to exit.
  <2>1. Live(awaiting)
    BY <1>2, <1>3 DEF Live
  <2> QED
    BY <1>1, <1>2, <1>3, <2>1 DEF Base, UnderWay
<1>4. CASE c # awaiting[1]
  <2>1. Live(pid[c]) /\ pid'[c] = pid[c]
    BY <1>2, <1>4 DEF Live
  <2>2. pid[c] \in Instances /\ pid[c][1] = c
    BY <2>1 DEF Live, Base, TypeOK, OnRecord
  <2>3. pid[c] # awaiting
    BY <1>4, <2>2
  <2> QED
    BY <1>2, <1>4, <2>1, <2>2, <2>3 DEF ChildrenHeard
<1> QED
  BY <1>3, <1>4

\* Nothing is on record.
LEMMA SteadyGone ==
  ASSUME NEW how, Gone(how) PROVE \A c \in Children : Steady(c)
  BY DEF Gone, Steady

\* Nothing changed for the children.
LEMMA SteadyMail ==
  ASSUME UNCHANGED <<pid, ref, task, cancelled, linked, watched>>
  PROVE  \A c \in Children : Steady(c)
  BY DEF Steady, Live

\* A start given up leaves the record alone.
LEMMA SteadyAbort ==
  ASSUME Base, Running, NEW rest, Abort(rest)
  PROVE  \A c \in Children : Steady(c)
  BY SteadyGone, SteadyMail DEF Abort

\* Every step keeps ChildrenHeard.
LEMMA HeardNext ==
  ASSUME Base, ChildrenHeard, [Next]_vars
  PROVE  ChildrenHeard'
<1> USE NoneAssumption
<1>1. CASE Step
  <2>1. CASE StartNext
    <3>1. CASE Launch(Head(todo))
      BY <2>1, <3>1, SteadyLaunch, HeardKept DEF StartNext
    <3>2. CASE StopChildren("gave_up")
      BY <3>2, SteadyGone, HeardKept DEF StopChildren
    <3> QED
      BY <2>1, <3>1, <3>2 DEF StartNext
  <2>2. CASE Handshake
    <3>1. Running
      BY <2>2 DEF Handshake, Base, UnderWay
    <3>2. CASE Adopt(awaiting, Reinjected)
      BY <2>2, <3>2, HeardAdopt DEF Handshake
    <3>3. CASE Abort(Reinjected)
      BY <3>1, <3>3, SteadyAbort, HeardKept
    <3>4. CASE UNCHANGED <<pid, ref, task, cancelled, linked, watched>>
      BY <3>4, SteadyMail, HeardKept
    <3> QED
      BY <2>2, <3>2, <3>3, <3>4 DEF Handshake
  <2>3. CASE Timeout
    BY <2>3, SteadyAbort, HeardKept DEF Timeout, Base, UnderWay
  <2>4. CASE Receive
    <3>1. CASE StopChildren("stopped")
      BY <3>1, SteadyGone, HeardKept DEF StopChildren
    <3>2. ASSUME NEW dead \in Children, HandleChildExit(dead),
                 UNCHANGED <<task, linked, watched>>
          PROVE  ChildrenHeard'
      <4>1. cancelled \subseteq cancelled'
        BY <3>2 DEF HandleChildExit, StopVictims, CancelSet
      <4>2. \A c \in Children : pid'[c] # None => pid'[c] = pid[c] /\ ref'[c] = ref[c]
        BY <3>2 DEF HandleChildExit, StopVictims, Base, TypeOK
      <4>3. \A c \in Children : Steady(c)
        BY <3>2, <4>1, <4>2 DEF Steady, Live
      <4> QED
        BY <4>3, HeardKept
    <3>3. CASE UNCHANGED <<pid, ref, task, cancelled, linked, watched>>
      BY <3>3, SteadyMail, HeardKept
    <3> QED
      BY <2>4, <3>1, <3>2, <3>3, LeastChild DEF Receive, Heeded, Owners, supVars
  <2> QED
    BY <1>1, <2>1, <2>2, <2>3, <2>4 DEF Step
<1>2. ASSUME NEW i \in Instances, Child(i) \/ Fail(i) PROVE ChildrenHeard'
  <2>1. CASE InitOk(i)
    <3>1. \A c \in Children : Steady(c)
      BY <2>1 DEF InitOk, supVars, Steady, Live, Base, TypeOK
    <3> QED
      BY <3>1, HeardKept
  <2>2. ASSUME NEW reason \in EndReasons, NEW words, End(i, reason, words)
        PROVE  ChildrenHeard'
    BY <2>2, SteadyEnd, HeardKept
  <2> QED
    BY <1>2, <2>1, <2>2 DEF Child, Fail, InitError, Unwind, Crash, Return, EndReasons
<1>3. ASSUME NEW i \in Instances, NEW reason \in ExitSignals, Signal(i, reason)
      PROVE  ChildrenHeard'
  <2>1. /\ UNCHANGED <<pid, ref, task>> /\ cancelled' = cancelled \cup {i}
        /\ linked \ {i} \subseteq linked'
        /\ \A j \in Instances : j # i => watched'[j] = watched[j]
    BY <1>3 DEF Signal, ExitChild, CancelSet, supVars, Base, TypeOK
  <2>2. \A c \in Children : Steady(c)
    BY <2>1 DEF Steady, Live, Base, TypeOK
  <2> QED
    BY <2>2, HeardKept
<1>4. CASE EndSupervisor
  BY <1>4, SteadyGone, SteadyMail, HeardKept DEF EndSupervisor, Kill, RequestStop, supVars
<1>5. CASE UNCHANGED vars
  BY <1>5, SteadyMail, HeardKept DEF vars, supVars
<1> QED
  BY <1>1, <1>2, <1>3, <1>4, <1>5 DEF Next

-----------------------------------------------------------------------------
(* Prompt servers: what lives, and what is still to be started.            *)

\* Where nothing new lives, no child lives twice.
LEMMA OnceKept ==
  ASSUME AtMostOneLive, setup' = setup, \A i \in Instances : Live(i)' => Live(i)
  PROVE  AtMostOneLive'
<1>1. \A c \in Children, j \in 1 .. MaxStarts : <<c, j>> \in Instances
  BY DEF Instances
<1> QED
  BY <1>1 DEF AtMostOneLive, strategy

\* Steps that start nothing and keep the supervisor's records.
LEMMA ServedKept ==
  ASSUME Base, Base', Served, setup' = setup, UNCHANGED <<sup, pid, todo, awaiting>>,
         \A i \in Instances : Live(i)' => Live(i) /\ (task[i] = "up" => task'[i] = "up")
  PROVE  Served'
<1> USE DEF Served
<1>1. LivesAccounted'
  BY DEF LivesAccounted, Running
<1>2. SuffixDown'
  BY DEF SuffixDown
<1>3. AtMostOneLive'
  BY OnceKept
<1>4. NoOrphans'
  BY DEF NoOrphans, strategy
<1> QED
  BY <1>1, <1>2, <1>3, <1>4

\* The supervisor ends; unless it failed to start, all that lives is told to exit.
LEMMA ServedGone ==
  ASSUME Base, Served, setup' = setup, NEW how \in Ended, Gone(how),
         cancelled \subseteq cancelled',
         how # "failed" => \A i \in Instances : Live(i) => i \in cancelled'
  PROVE  Served'
<1>1. ~Running' /\ todo' = <<>> /\ task' = task /\ sup' = how
  BY DEF Gone, Running, Ended
<1>2. \A i \in Instances : Live(i)' => Live(i)
  BY <1>1 DEF Live
<1>3. LivesAccounted' /\ SuffixDown'
  BY <1>1 DEF LivesAccounted, SuffixDown
<1>4. AtMostOneLive'
  BY <1>2, OnceKept DEF Served
<1>5. NoOrphans'
  BY <1>1 DEF NoOrphans, Live
<1> QED
  BY <1>3, <1>4, <1>5 DEF Served

\* Where the supervisor runs, the two say that no child lives twice.
LEMMA AccountedOnce ==
  Base /\ Running /\ LivesAccounted /\ SuffixDown => AtMostOneLive /\ NoOrphans
<1> SUFFICES ASSUME Base, Running, LivesAccounted, SuffixDown
             PROVE  AtMostOneLive /\ NoOrphans
  OBVIOUS
<1>1. AtMostOneLive
  <2> SUFFICES ASSUME NEW c \in Children, NEW j \in 1 .. MaxStarts, NEW k \in 1 .. MaxStarts,
                      Live(<<c, j>>), Live(<<c, k>>)
               PROVE  j = k
    BY DEF AtMostOneLive
  <2>1. <<c, j>> \in Instances /\ <<c, k>> \in Instances /\ c \in Nat
    BY SupervisorAssumption DEF Instances, Children
  <2>2. \A i \in Instances : Live(i) /\ i[1] = c => i = awaiting \/ i = pid[c]
    BY DEF LivesAccounted
  <2>3. CASE awaiting = <<c, j>> \/ awaiting = <<c, k>>
    <3>1. todo # <<>> /\ Head(todo) = c
      BY <2>1, <2>3, NoneAssumption DEF Base, UnderWay
    <3>2. \A i \in Instances : i[1] = c /\ Live(i) => i = awaiting
      BY <2>1, <3>1 DEF SuffixDown
    <3>3. <<c, j>> = <<c, k>>
      BY <2>1, <3>2
    <3> QED
      BY <3>3
  <2>4. CASE ~(awaiting = <<c, j>> \/ awaiting = <<c, k>>)
    BY <2>1, <2>2, <2>4
  <2> QED
    BY <2>3, <2>4
<1>2. NoOrphans
  BY DEF NoOrphans, Running
<1> QED
  BY <1>1, <1>2

\* The child launched is the only live one of the suffix.
LEMMA ServedLaunch ==
  ASSUME Base, Base', Served, setup' = setup, Running, awaiting = None, todo # <<>>,
         Launch(Head(todo))
  PROVE  Served'
<1> DEFINE h == Head(todo)
           i == <<h, Started(h) + 1>>
<1>1. /\ h \in Children /\ h \in Nat
      /\ awaiting' = i /\ todo' = todo /\ sup' = sup /\ cancelled' = cancelled
      /\ task' = [task EXCEPT ![i] = "init"]
      /\ pid' = [pid EXCEPT ![h] = None]
  BY SupervisorAssumption DEF Launch, Base, TypeOK, Children
<1>2. i \in Instances /\ i[1] = h
  BY <1>1, NoneAssumption DEF Launch, Base, TypeOK
<1>3. Running'
  BY <1>1 DEF Running
<1>4. \A j \in Instances : j # i /\ Live(j)' => Live(j) /\ task'[j] = task[j]
  BY <1>1 DEF Live, Base, TypeOK
<1>5. \A j \in Instances : j[1] \in Children /\ j[1] \in Nat /\ j # None
  BY SupervisorAssumption, NoneAssumption DEF Instances, Children
<1>6. \A j \in Instances : Live(j) => j[1] < h /\ j = pid[j[1]] /\ task[j] = "up"
  BY <1>1, <1>5 DEF Served, LivesAccounted, SuffixDown
<1>7. LivesAccounted'
  <2> SUFFICES ASSUME NEW j \in Instances, Live(j)', j # i
               PROVE  j = pid'[j[1]] /\ task'[j] = "up"
    BY <1>1 DEF LivesAccounted
  <2>1. Live(j) /\ task'[j] = "up" /\ j[1] < h /\ j = pid[j[1]]
    BY <1>4, <1>6
  <2>2. pid'[j[1]] = pid[j[1]]
    BY <1>1, <1>5, <2>1 DEF Base, TypeOK
  <2> QED
    BY <2>1, <2>2
<1>8. SuffixDown'
  BY <1>1, <1>4, <1>5, <1>6 DEF Served, SuffixDown
<1>9. (Base /\ Running /\ LivesAccounted /\ SuffixDown => AtMostOneLive /\ NoOrphans)'
  BY AccountedOnce, PTL
<1> QED
  BY <1>3, <1>7, <1>8, <1>9 DEF Served

\* The child adopted leaves the suffix.
LEMMA ServedAdopt ==
  ASSUME Base, Base', Served, setup' = setup, Running, awaiting # None,
         task[awaiting] = "up", NEW rest, Adopt(awaiting, rest)
  PROVE  Served'
<1> DEFINE h == Head(todo)
<1>1. /\ todo # <<>> /\ awaiting \in Instances /\ awaiting[1] = h
      /\ h \in Children /\ h \in Nat /\ todo \in Seq(Nat)
  BY SupervisorAssumption DEF Base, TypeOK, UnderWay, Children
<1>2. /\ awaiting' = None /\ todo' = Tail(todo)
      /\ UNCHANGED <<task, cancelled>>
      /\ pid' = [pid EXCEPT ![h] = awaiting]
  BY <1>1 DEF Adopt
<1>3. Running'
  BY DEF Adopt, Running
<1>4. \A j \in Instances : Live(j)' <=> Live(j)
  BY <1>2 DEF Live
<1>5. \A j \in Instances : j[1] \in Children /\ j[1] \in Nat /\ j # None
  BY SupervisorAssumption, NoneAssumption DEF Instances, Children
<1>6. \A j \in Instances : Live(j) /\ j # awaiting =>
          j[1] < h /\ j = pid[j[1]] /\ task[j] = "up"
  BY <1>1, <1>5 DEF Served, LivesAccounted, SuffixDown
<1>7. LivesAccounted'
  <2> SUFFICES ASSUME NEW j \in Instances, Live(j)
               PROVE  j = pid'[j[1]] /\ task'[j] = "up"
    BY <1>4 DEF LivesAccounted
  <2>1. CASE j = awaiting
    BY <1>1, <1>2, <2>1 DEF Base, TypeOK
  <2>2. CASE j # awaiting
    <3>1. j[1] < h /\ j = pid[j[1]] /\ task[j] = "up"
      BY <1>6, <2>2
    <3>2. pid'[j[1]] = pid[j[1]]
      BY <1>1, <1>2, <1>5, <3>1 DEF Base, TypeOK
    <3> QED
      BY <1>2, <3>1, <3>2
  <2> QED
    BY <2>1, <2>2
<1>8. SuffixDown'
  <2> SUFFICES ASSUME todo' # <<>> PROVE SuffixDown'
    BY DEF SuffixDown
  <2>1. /\ Len(todo) \in Nat /\ Len(todo) >= 2 /\ Len(todo') = Len(todo) - 1
        /\ \A k \in 1 .. Len(todo') : todo'[k] = todo[k + 1]
        /\ Head(todo') = todo'[1]
    BY <1>1, <1>2
  <2>2. \A k \in 1 .. Len(todo) : todo[k] = h + k - 1
    BY <1>1 DEF Served, SuffixDown
  <2>3. Head(todo') = h + 1
    BY <1>1, <2>1, <2>2
  <2>4. \A k \in 1 .. Len(todo') : todo'[k] = Head(todo') + k - 1
    <3> SUFFICES ASSUME NEW k \in 1 .. Len(todo') PROVE todo'[k] = Head(todo') + k - 1
      OBVIOUS
    <3>1. k \in Nat /\ k + 1 \in 1 .. Len(todo) /\ todo'[k] = todo[k + 1]
      BY <2>1
    <3>2. todo[k + 1] = h + (k + 1) - 1
      BY <2>2, <3>1
    <3> QED
      BY <1>1, <2>3, <3>1, <3>2
  <2>5. Head(todo') + Len(todo') - 1 = N
    <3>1. h + Len(todo) - 1 = N
      BY <1>1 DEF Served, SuffixDown
    <3> HIDE DEF h
    <3> QED
      BY <1>1, <2>1, <2>3, <3>1
  <2>6. \A j \in Instances : j[1] >= Head(todo') => ~Live(j)'
    BY <1>1, <1>4, <1>5, <1>6, <2>3
  <2> QED
    BY <2>4, <2>5, <2>6 DEF SuffixDown
<1>9. (Base /\ Running /\ LivesAccounted /\ SuffixDown => AtMostOneLive /\ NoOrphans)'
  BY AccountedOnce, PTL
<1> QED
  BY <1>3, <1>7, <1>8, <1>9 DEF Served

\* A start that came to nothing has left nothing alive.
LEMMA ServedAbort ==
  ASSUME Base, Base', Served, setup' = setup, Running, ~Live(awaiting),
         NEW rest, Abort(rest)
  PROVE  Served'
<1>1. CASE sup = "starting"
  BY <1>1, ServedGone DEF Abort, Ended
<1>2. CASE sup # "starting"
  <2>1. /\ todo' = <<>> /\ awaiting' = None
        /\ UNCHANGED <<sup, pid, task, cancelled>>
    BY <1>2 DEF Abort
  <2>2. \A i \in Instances : Live(i)' <=> Live(i)
    BY <2>1 DEF Live
  <2>3. LivesAccounted' /\ SuffixDown' /\ Running'
    BY <2>1, <2>2 DEF Served, LivesAccounted, SuffixDown, Running
  <2>4. (Base /\ Running /\ LivesAccounted /\ SuffixDown => AtMostOneLive /\ NoOrphans)'
    BY AccountedOnce, PTL
  <2> QED
    BY <2>3, <2>4 DEF Served
<1> QED
  BY <1>1, <1>2

\* All that lives from the first victim on is told to exit.
LEMMA ServedHandleChildExit ==
  ASSUME Base, Base', Prompt, Served, setup' = setup,
         sup = "serving", awaiting = None, todo = <<>>,
         NEW dead \in Children, HandleChildExit(dead),
         UNCHANGED <<sup, refs, awaiting, buffered, recent, task, linked, watched>>
  PROVE  Served'
<1> DEFINE from == First(dead)
<1>1. from \in Children /\ from \in Nat /\ N \in Nat
  BY SupervisorAssumption DEF First, Children
<1>2. /\ StopVictims(from)
      /\ todo' = [k \in 1 .. N - from + 1 |-> from + k - 1]
  BY DEF Prompt, HandleChildExit, First
<1>3. \A j \in Instances : j[1] \in Children /\ j[1] \in 1 .. N /\ j # None
  BY NoneAssumption DEF Instances, Children
<1>4. \A j \in Instances : Live(j) => j = pid[j[1]] /\ task[j] = "up"
  BY <1>3 DEF Served, LivesAccounted, Running
<1>5. \A j \in Instances : Live(j)' => Live(j) /\ j[1] < from
  <2> SUFFICES ASSUME NEW j \in Instances, Live(j)'
               PROVE  Live(j) /\ j[1] < from
    OBVIOUS
  <2>1. cancelled \subseteq cancelled'
    BY <1>2 DEF StopVictims, CancelSet
  <2>2. Live(j)
    BY <2>1 DEF Live
  <2>3. ASSUME j[1] \in from .. N PROVE FALSE
    <3>1. j \in {pid[c] : c \in from .. N} \ {None}
      BY <1>3, <1>4, <2>2, <2>3
    <3>2. j \in cancelled'
      BY <1>2, <2>2, <3>1 DEF StopVictims, CancelSet, IsAlive, Live
    <3> QED
      BY <3>2 DEF Live
  <2> QED
    BY <1>1, <1>3, <2>2, <2>3
<1>6. LivesAccounted'
  <2> SUFFICES ASSUME NEW j \in Instances, Live(j)'
               PROVE  j = pid'[j[1]] /\ task'[j] = "up"
    BY DEF LivesAccounted
  <2>1. Live(j) /\ j[1] < from /\ j = pid[j[1]] /\ task[j] = "up"
    BY <1>4, <1>5
  <2>2. pid'[j[1]] = pid[j[1]]
    BY <1>1, <1>2, <1>3, <2>1 DEF StopVictims
  <2> QED
    BY <2>1, <2>2
<1>7. SuffixDown'
  <2>1. /\ Head(todo') = from /\ Len(todo') = N - from + 1
        /\ \A k \in 1 .. Len(todo') : todo'[k] = from + k - 1
    BY <1>1, <1>2, RemainingChildren
  <2>2. \A j \in Instances : j[1] >= from => ~Live(j)'
    BY <1>1, <1>3, <1>5
  <2> QED
    BY <1>1, <2>1, <2>2 DEF SuffixDown
<1>8. Running'
  BY DEF Running
<1>9. (Base /\ Running /\ LivesAccounted /\ SuffixDown => AtMostOneLive /\ NoOrphans)'
  BY AccountedOnce, PTL
<1> QED
  BY <1>6, <1>7, <1>8, <1>9 DEF Served

-----------------------------------------------------------------------------
(* Prompt servers: the one reply in the mailbox.                           *)

\* The replies of instances are told apart from each other and from the rest.
LEMMA ReplyFacts ==
  /\ \A i \in Instances : InitReply(INIT_OK(i)) /\ InitReply(INIT_ERROR(i))
                          /\ INIT_OK(i) # INIT_ERROR(i)
  /\ \A i, j \in Instances : INIT_OK(i) = INIT_OK(j) => i = j
  /\ \A r, reason : ~InitReply(DOWN(r, reason))
  /\ ~InitReply(NOTICE) /\ ~InitReply(STOP)
<1>1. \A i : INIT_OK(i).tag = "INIT_OK" /\ INIT_OK(i).inst = i
  BY DEF INIT_OK
<1>2. \A i : INIT_ERROR(i).tag = "INIT_ERROR" /\ INIT_ERROR(i).inst = i
  BY DEF INIT_ERROR
<1>3. \A r, reason : DOWN(r, reason).tag = "DOWN"
  BY DEF DOWN
<1>4. NOTICE.tag = "NOTICE" /\ STOP.tag = "STOP"
  BY DEF NOTICE, STOP
<1> HIDE DEF INIT_OK, INIT_ERROR
<1>5. \A i, j \in Instances : INIT_OK(i) = INIT_OK(j) => i = j
  BY <1>1
<1>6. \A i \in Instances : INIT_OK(i) # INIT_ERROR(i)
  BY <1>1, <1>2
<1> QED
  BY <1>1, <1>2, <1>3, <1>4, <1>5, <1>6 DEF InitReply

\* Two sequences without a reply make one without.
LEMMA SilentConcat ==
  ASSUME NEW s \in Seq(Messages), NEW t \in Seq(Messages), Silent(s), Silent(t)
  PROVE  Silent(s \o t)
<1> SUFFICES ASSUME NEW k \in DOMAIN (s \o t) PROVE ~InitReply((s \o t)[k])
  BY DEF Silent
<1>1. k \in 1 .. Len(s) + Len(t) /\ Len(s) \in Nat /\ Len(t) \in Nat
  BY SeqFacts
<1>2. CASE k <= Len(s)
  <2>1. (s \o t)[k] = s[k] /\ k \in DOMAIN s
    BY <1>1, <1>2
  <2> QED
    BY <2>1 DEF Silent
<1>3. CASE k > Len(s)
  <2>1. (s \o t)[k] = t[k - Len(s)] /\ k - Len(s) \in DOMAIN t
    BY <1>1, <1>3
  <2> QED
    BY <2>1 DEF Silent
<1> QED
  BY <1>1, <1>2, <1>3

\* Behind the only reply there is none.
LEMMA SilentTail ==
  ASSUME NEW s \in Seq(Messages), s # <<>>,
         \A k \in DOMAIN s : k # 1 => ~InitReply(s[k])
  PROVE  Silent(Tail(s))
<1> SUFFICES ASSUME NEW k \in DOMAIN Tail(s) PROVE ~InitReply(Tail(s)[k])
  BY DEF Silent
<1>1. Tail(s)[k] = s[k + 1] /\ k + 1 \in DOMAIN s /\ k + 1 # 1
  OBVIOUS
<1> QED
  BY <1>1

\* Messages that are no replies arrive; no instance starts or comes up.
LEMMA ReplyQuiet ==
  ASSUME Base, Base', OneReply, NEW t \in Seq(Messages), Silent(t),
         mailbox' = mailbox \o t \/ mailbox' = mailbox,
         UNCHANGED <<awaiting, buffered>>,
         awaiting # None =>
            task'[awaiting] = task[awaiting] \/ task'[awaiting] \in EndReasons
  PROVE  OneReply'
<1>1. mailbox \in Seq(Messages) /\ Len(mailbox) \in Nat /\ Len(t) \in Nat
  BY DEF Base, TypeOK
<1>2. CASE Silent(mailbox) /\ (awaiting # None => task[awaiting] # "up")
  <2>1. Silent(mailbox')
    BY <1>1, <1>2, SilentConcat
  <2> QED
    BY <1>2, <2>1 DEF OneReply, Silent, EndReasons, NORMAL, SHUTDOWN, CRASH
<1>3. ASSUME NEW k \in DOMAIN mailbox, ReplyAt(k) PROVE OneReply'
  <2>1. k \in DOMAIN mailbox' /\ mailbox'[k] = mailbox[k]
    BY <1>1
  <2>2. \A l \in DOMAIN mailbox' : l # k => ~InitReply(mailbox'[l])
    <3> SUFFICES ASSUME NEW l \in DOMAIN mailbox', l # k PROVE ~InitReply(mailbox'[l])
      OBVIOUS
    <3>1. CASE l \in DOMAIN mailbox
      BY <1>1, <1>3, <3>1 DEF ReplyAt
    <3>2. CASE l \notin DOMAIN mailbox
      <4>1. mailbox' = mailbox \o t
        BY <3>2
      <4>2. l \in 1 .. Len(mailbox) + Len(t) /\ l > Len(mailbox)
        BY <1>1, <3>2, <4>1, SeqFacts
      <4>3. mailbox'[l] = t[l - Len(mailbox)] /\ l - Len(mailbox) \in DOMAIN t
        BY <1>1, <4>1, <4>2, SeqFacts
      <4> QED
        BY <4>3 DEF Silent
    <3> QED
      BY <3>1, <3>2
  <2>3. ReplyAt(k)'
    BY <1>3, <2>1, <2>2 DEF ReplyAt, INIT_OK, INIT_ERROR, IsAlive, EndReasons, NORMAL, SHUTDOWN, CRASH
  <2> QED
    BY <2>1, <2>3 DEF OneReply, Silent
<1> QED
  BY <1>2, <1>3 DEF OneReply

\* The instance under way replies.
LEMMA ReplyArrives ==
  ASSUME Base, Base', OneReply, NEW m, NEW t \in Seq(Messages), Silent(t),
         awaiting # None, task[awaiting] = "init",
         \/ m = INIT_OK(awaiting) /\ task'[awaiting] = "up"
         \/ m = INIT_ERROR(awaiting) /\ task'[awaiting] \in EndReasons,
         mailbox' = mailbox \o (<<m>> \o t),
         UNCHANGED <<awaiting, buffered>>
  PROVE  OneReply'
<1>1. mailbox \in Seq(Messages) /\ Len(mailbox) \in Nat /\ Len(t) \in Nat
      /\ awaiting \in Instances
  BY DEF Base, TypeOK
<1>2. Silent(mailbox)
  BY DEF OneReply, ReplyAt, IsAlive
<1>3. m \in Messages /\ <<m>> \in Seq(Messages)
  BY <1>1, MessageTypes
<1> DEFINE u == <<m>> \o t
<1>k. PICK k \in Nat : k = Len(mailbox) + 1
  BY <1>1
<1>4. /\ u \in Seq(Messages) /\ Len(u) = Len(t) + 1
      /\ u[1] = m /\ \A l \in 2 .. Len(u) : u[l] = t[l - 1] /\ l - 1 \in DOMAIN t
  BY <1>1, <1>3
<1> HIDE DEF u
<1>5. mailbox' = mailbox \o u
  BY DEF u
<1>6. k \in DOMAIN mailbox' /\ mailbox'[k] = m
  BY <1>1, <1>4, <1>5, <1>k
<1>7. \A l \in DOMAIN mailbox' : l # k => ~InitReply(mailbox'[l])
  <2> SUFFICES ASSUME NEW l \in DOMAIN mailbox', l # k PROVE ~InitReply(mailbox'[l])
    OBVIOUS
  <2>1. CASE l \in DOMAIN mailbox
    BY <1>1, <1>2, <1>4, <1>5, <1>k, <2>1 DEF Silent
  <2>2. CASE l \notin DOMAIN mailbox
    <3>1. l \in 1 .. Len(mailbox) + Len(u) /\ l > Len(mailbox)
      BY <1>1, <1>4, <1>5, <1>k, <2>2, SeqFacts
    <3>2. l - Len(mailbox) \in 2 .. Len(u) /\ mailbox'[l] = u[l - Len(mailbox)]
      BY <1>1, <1>4, <1>5, <1>k, <3>1, SeqFacts
    <3> QED
      BY <1>4, <3>2 DEF Silent
  <2> QED
    BY <2>1, <2>2
<1>8. ReplyAt(k)'
  <2>1. \/ m = INIT_OK(awaiting') /\ task'[awaiting'] # "init"
        \/ m = INIT_ERROR(awaiting') /\ ~IsAlive(awaiting)'
    BY DEF IsAlive, EndReasons, NORMAL, SHUTDOWN, CRASH
  <2> QED
    BY <1>6, <1>7, <2>1 DEF ReplyAt, INIT_OK, INIT_ERROR
<1> QED
  BY <1>6, <1>8 DEF OneReply, Silent

\* The reply read is that of the instance under way; no other remains.
LEMMA ReplyRead ==
  ASSUME Base, OneReply, mailbox # <<>>, InitReply(Head(mailbox))
  PROVE  /\ Silent(Reinjected) /\ awaiting # None
         /\ \/ Head(mailbox) = INIT_OK(awaiting) /\ task[awaiting] # "init"
            \/ Head(mailbox) = INIT_ERROR(awaiting) /\ ~IsAlive(awaiting)
<1>1. /\ mailbox \in Seq(Messages) /\ buffered \in Seq(Messages)
      /\ 1 \in DOMAIN mailbox /\ Head(mailbox) = mailbox[1]
  BY DEF Base, TypeOK
<1>2. PICK k \in DOMAIN mailbox : ReplyAt(k)
  BY <1>1 DEF OneReply, Silent
<1>3. k = 1
  BY <1>1, <1>2 DEF ReplyAt
<1>4. Silent(Tail(mailbox))
  BY <1>1, <1>2, <1>3, SilentTail DEF ReplyAt
<1>5. Silent(Reinjected)
  <2>1. Tail(mailbox) \in Seq(Messages) /\ Silent(buffered)
    BY <1>1 DEF OneReply
  <2> QED
    BY <1>1, <1>4, <2>1, SilentConcat DEF Reinjected
<1> QED
  BY <1>1, <1>2, <1>3, <1>5 DEF ReplyAt

\* A message that is no reply is read.
LEMMA ReplyStays ==
  ASSUME Base, OneReply, mailbox # <<>>, ~InitReply(Head(mailbox)),
         mailbox' = Tail(mailbox), Silent(buffered'), UNCHANGED <<awaiting, task>>
  PROVE  OneReply'
<1>1. /\ mailbox \in Seq(Messages) /\ Head(mailbox) = mailbox[1] /\ Len(mailbox) \in Nat
  BY DEF Base, TypeOK
<1>2. CASE Silent(mailbox) /\ (awaiting # None => task[awaiting] # "up")
  BY <1>1, <1>2, SilentTail DEF OneReply, Silent
<1>3. ASSUME NEW k \in DOMAIN mailbox, ReplyAt(k) PROVE OneReply'
  <2>1. InitReply(mailbox[k])
    BY <1>3, ReplyFacts DEF ReplyAt, Base, TypeOK
  <2>2. k # 1 /\ k - 1 \in DOMAIN mailbox' /\ mailbox'[k - 1] = mailbox[k]
    BY <1>1, <1>3, <2>1
  <2>3. \A l \in DOMAIN mailbox' : l # k - 1 => ~InitReply(mailbox'[l])
    <3> SUFFICES ASSUME NEW l \in DOMAIN mailbox', l # k - 1 PROVE ~InitReply(mailbox'[l])
      OBVIOUS
    <3>1. mailbox'[l] = mailbox[l + 1] /\ l + 1 \in DOMAIN mailbox /\ l + 1 # k
      BY <1>1, <1>3
    <3> QED
      BY <1>3, <3>1 DEF ReplyAt
  <2>4. ReplyAt(k - 1)'
    BY <1>3, <2>2, <2>3 DEF ReplyAt, INIT_OK, INIT_ERROR, IsAlive
  <2> QED
    BY <2>2, <2>4 DEF OneReply, Silent
<1> QED
  BY <1>2, <1>3 DEF OneReply

-----------------------------------------------------------------------------
(* Prompt servers: every step.                                             *)

\* Notices, DOWNs and shutdown requests are no replies.
LEMMA SilentWords ==
  /\ Silent(<<>>) /\ Silent(<<NOTICE>>) /\ Silent(<<STOP>>)
  /\ \A r \in Refs, reason \in EndReasons : Silent(<<DOWN(r, reason)>>)
  BY ReplyFacts DEF Silent

\* What the end of an instance tells the supervisor besides its own words.
Obituary(i, reason) ==
    (IF i \in linked /\ reason = CRASH THEN <<NOTICE>> ELSE <<>>)
      \o (IF watched[i] # None THEN <<DOWN(watched[i], reason)>> ELSE <<>>)

\* An obituary holds no reply.
LEMMA ObituaryQuiet ==
  ASSUME Base, NEW i \in Instances, NEW reason \in EndReasons
  PROVE  Obituary(i, reason) \in Seq(Messages) /\ Silent(Obituary(i, reason))
<1> DEFINE a == IF i \in linked /\ reason = CRASH THEN <<NOTICE>> ELSE <<>>
           b == IF watched[i] # None THEN <<DOWN(watched[i], reason)>> ELSE <<>>
<1>1. a \in Seq(Messages) /\ Silent(a)
  BY SilentWords, MessageTypes
<1>2. b \in Seq(Messages) /\ Silent(b)
  BY SilentWords, MessageTypes DEF Base, TypeOK
<1> HIDE DEF a, b
<1>3. a \o b \in Seq(Messages) /\ Silent(a \o b)
  BY <1>1, <1>2, SilentConcat, SeqFacts
<1> QED
  BY <1>3 DEF a, b, Obituary

\* End, in the form the proofs use.
LEMMA EndShape ==
  ASSUME Base, NEW i \in Instances, NEW reason \in EndReasons,
         NEW words \in Seq(Messages), End(i, reason, words)
  PROVE  /\ UNCHANGED supVars
         /\ \A j \in Instances : task'[j] = IF j = i THEN reason ELSE task[j]
         /\ cancelled' = cancelled \ {i}
         /\ mailbox' = IF Running THEN mailbox \o (words \o Obituary(i, reason))
                                  ELSE mailbox
<1> DEFINE a == IF i \in linked /\ reason = CRASH THEN <<NOTICE>> ELSE <<>>
           b == IF watched[i] # None THEN <<DOWN(watched[i], reason)>> ELSE <<>>
<1>1. a \in Seq(Messages) /\ b \in Seq(Messages)
  BY MessageTypes DEF Base, TypeOK
<1>2. mailbox' = IF Running THEN mailbox \o ((words \o a) \o b) ELSE mailbox
  BY DEF End, Tell
<1> HIDE DEF a, b
<1>3. (words \o a) \o b = words \o (a \o b)
  BY <1>1, ConcatAssociative
<1>4. mailbox' = IF Running THEN mailbox \o (words \o Obituary(i, reason)) ELSE mailbox
  BY <1>2, <1>3 DEF a, b, Obituary
<1> QED
  BY <1>4 DEF End, Base, TypeOK

\* An instance ends, after its own words.
LEMMA PromptEnd ==
  ASSUME Base, Base', Served, OneReply, setup' = setup, NEW i \in Instances,
         NEW reason \in EndReasons, NEW words \in Seq(Messages), End(i, reason, words),
         \/ words = <<>>
         \/ words = <<INIT_ERROR(i)>> /\ task[i] = "init" /\ i \notin cancelled
  PROVE  Served' /\ OneReply'
<1>1. /\ UNCHANGED supVars
      /\ \A j \in Instances : task'[j] = IF j = i THEN reason ELSE task[j]
      /\ cancelled' = cancelled \ {i}
      /\ mailbox' = IF Running THEN mailbox \o (words \o Obituary(i, reason)) ELSE mailbox
  BY EndShape
<1>2. Served'
  <2>1. \A j \in Instances : Live(j)' => Live(j) /\ (task[j] = "up" => task'[j] = "up")
    BY <1>1 DEF Live, EndReasons, NORMAL, SHUTDOWN, CRASH
  <2> QED
    BY <1>1, <2>1, ServedKept DEF supVars
<1>3. Obituary(i, reason) \in Seq(Messages) /\ Silent(Obituary(i, reason))
  BY ObituaryQuiet
<1>4. awaiting # None => awaiting \in Instances
  BY DEF Base, TypeOK
<1>5. CASE ~Running \/ words = <<>>
  <2>1. <<>> \o Obituary(i, reason) = Obituary(i, reason)
    BY <1>3
  <2> QED
    BY <1>1, <1>2, <1>3, <1>4, <1>5, <2>1, ReplyQuiet DEF supVars
<1>6. CASE Running /\ words = <<INIT_ERROR(i)>> /\ task[i] = "init" /\ i \notin cancelled
  <2>1. Live(i)
    BY <1>6, NoneAssumption DEF Live
  <2>2. i = awaiting
    BY <1>6, <2>1 DEF Served, LivesAccounted
  <2>3. OneReply'
    BY <1>1, <1>3, <1>6, <2>2, ReplyArrives, NoneAssumption DEF supVars
  <2> QED
    BY <1>2, <2>3
<1> QED
  BY <1>5, <1>6

\* Only the instance under way can come up.
LEMMA PromptInitOk ==
  ASSUME Base, Base', Served, OneReply, setup' = setup, NEW i \in Instances, InitOk(i)
  PROVE  Served' /\ OneReply'
<1>1. /\ UNCHANGED supVars /\ cancelled' = cancelled
      /\ \A j \in Instances : task'[j] = IF j = i THEN "up" ELSE task[j]
      /\ mailbox' = IF Running THEN mailbox \o <<INIT_OK(i)>> ELSE mailbox
  BY DEF InitOk, Tell, Base, TypeOK
<1>2. Live(i) /\ task[i] = "init"
  BY NoneAssumption DEF InitOk, Live
<1>3. Served'
  BY <1>1, <1>2, ServedKept DEF supVars, Live
<1>4. CASE Running
  <2>1. i = awaiting /\ awaiting # None
    BY <1>2, <1>4, NoneAssumption DEF Served, LivesAccounted
  <2>2. <<INIT_OK(i)>> \o <<>> = <<INIT_OK(i)>>
    BY MessageTypes
  <2>3. mailbox' = mailbox \o (<<INIT_OK(i)>> \o <<>>)
    BY <1>1, <1>4, <2>2
  <2>4. <<>> \in Seq(Messages) /\ Silent(<<>>)
    BY SilentWords
  <2>5. OneReply'
    BY <1>1, <1>2, <2>1, <2>3, <2>4, ReplyArrives DEF supVars
  <2> QED
    BY <1>3, <2>5
<1>5. CASE ~Running
  <2>1. awaiting = None /\ <<>> \in Seq(Messages) /\ Silent(<<>>)
    BY <1>5, SilentWords DEF Base, UnderWay
  <2> QED
    BY <1>1, <1>3, <1>5, <2>1, ReplyQuiet DEF supVars
<1> QED
  BY <1>4, <1>5

\* An exit signal.
LEMMA PromptExitChild ==
  ASSUME Base, Base', Served, OneReply, setup' = setup, NEW i \in Instances,
         NEW reason \in ExitSignals, ExitChild(i, reason)
  PROVE  Served' /\ OneReply'
<1>1. UNCHANGED <<supVars, task>> /\ cancelled \subseteq cancelled'
  BY DEF ExitChild, CancelSet
<1>2. Served'
  BY <1>1, ServedKept DEF supVars, Live
<1> DEFINE a == IF i \in linked THEN <<NOTICE>> ELSE <<>>
           b == IF watched[i] # None THEN <<NOTICE>> ELSE <<>>
<1>3. /\ a \in Seq(Messages) /\ Silent(a)
      /\ b \in Seq(Messages) /\ Silent(b)
      /\ <<>> \in Seq(Messages) /\ Silent(<<>>)
  BY MessageTypes, SilentWords
<1>4. mailbox' = mailbox \/ mailbox' = mailbox \o (a \o b)
  BY DEF ExitChild, Tell
<1> HIDE DEF a, b
<1>5. a \o b \in Seq(Messages) /\ Silent(a \o b)
  BY <1>3, SilentConcat, SeqFacts
<1>6. OneReply'
  BY <1>1, <1>4, <1>5, ReplyQuiet DEF supVars
<1> QED
  BY <1>2, <1>6

\* The supervisor's process is gone.
LEMMA PromptGone ==
  ASSUME Base, Served, setup' = setup, NEW how \in Ended, Gone(how),
         cancelled \subseteq cancelled',
         how # "failed" => \A i \in Instances : Live(i) => i \in cancelled'
  PROVE  Served' /\ OneReply'
<1>1. OneReply'
  BY DEF Gone, OneReply, Silent
<1> QED
  BY <1>1, ServedGone

\* All that lives is on record, and so told to exit.
LEMMA PromptStopChildren ==
  ASSUME Base, Served, setup' = setup, Running, awaiting = None,
         NEW how \in Ended, StopChildren(how)
  PROVE  Served' /\ OneReply'
<1> DEFINE S == {pid[c] : c \in Children} \ {None}
<1>1. cancelled' = CancelSet(S) /\ Gone(how)
  BY DEF StopChildren
<1>2. cancelled \subseteq cancelled'
  BY <1>1 DEF CancelSet
<1>3. \A i \in Instances : Live(i) => i \in cancelled'
  <2> SUFFICES ASSUME NEW i \in Instances, Live(i) PROVE i \in cancelled'
    OBVIOUS
  <2>1. i = pid[i[1]] /\ i # None /\ i[1] \in Children
    BY NoneAssumption DEF Served, LivesAccounted, Instances
  <2>2. i \in S
    BY <2>1
  <2>3. IsAlive(i)
    BY DEF Live, IsAlive
  <2> HIDE DEF S
  <2> QED
    BY <1>1, <2>2, <2>3 DEF CancelSet
<1> QED
  BY <1>1, <1>2, <1>3, PromptGone

\* In a handshake with a prompt server, a start is given up only when nothing of
\* it lives.
LEMMA PromptAbort ==
  ASSUME Base, Base', Served, setup' = setup, Running, ~Live(awaiting),
         NEW rest \in Seq(Messages), Silent(rest), Abort(rest)
  PROVE  Served' /\ OneReply'
<1>1. Served'
  BY ServedAbort
<1>2. OneReply'
  <2>1. CASE sup = "starting"
    BY <2>1 DEF Abort, Gone, OneReply, Silent
  <2>2. CASE sup # "starting"
    BY <2>2 DEF Abort, OneReply, Silent
  <2> QED
    BY <2>1, <2>2
<1> QED
  BY <1>1, <1>2

\* Handshake as a whole.
LEMMA PromptHandshake ==
  ASSUME Base, Base', Prompt, Served, OneReply, setup' = setup, Handshake
  PROVE  Served' /\ OneReply'
<1> DEFINE m == Head(mailbox)
<1>1. Running /\ awaiting # None /\ mailbox # <<>> /\ awaiting \in Instances
  BY DEF Handshake, Base, TypeOK, UnderWay
<1>2. m \in Messages /\ Reinjected \in Seq(Messages)
  BY <1>1, MailTypes
<1>3. \A i \in Instances : Buffers(i)
  BY DEF Prompt, Buffers, Instances
<1>4. InitReply(m) =>
         /\ Silent(Reinjected)
         /\ \/ m = INIT_OK(awaiting) /\ task[awaiting] # "init"
            \/ m = INIT_ERROR(awaiting) /\ ~IsAlive(awaiting)
  BY <1>1, ReplyRead
<1>5. m = INIT_OK(awaiting) => InitReply(m) /\ m # INIT_ERROR(awaiting)
  BY <1>1, ReplyFacts
<1>6. CASE m = INIT_OK(awaiting) /\ IsAlive(awaiting) /\ Adopt(awaiting, Reinjected)
  <2>1. task[awaiting] = "up" /\ Silent(Reinjected)
    BY <1>4, <1>5, <1>6 DEF IsAlive
  <2>2. Served'
    BY <1>1, <1>6, <2>1, ServedAdopt
  <2>3. OneReply'
    BY <1>6, <2>1 DEF Adopt, OneReply, Silent
  <2> QED
    BY <2>2, <2>3
<1>7. CASE m = INIT_OK(awaiting) /\ ~IsAlive(awaiting) /\ Abort(Reinjected)
  BY <1>1, <1>2, <1>4, <1>5, <1>7, PromptAbort DEF Live, IsAlive
<1>8. CASE m # INIT_OK(awaiting) /\ InitReply(m) /\ Abort(Reinjected)
  BY <1>1, <1>2, <1>4, <1>8, PromptAbort DEF Live, IsAlive
<1>9. CASE /\ ~(InitReply(m) /\ Buffers(m.inst))
           /\ buffered' = Append(buffered, m) /\ mailbox' = Tail(mailbox)
           /\ UNCHANGED <<sup, refs, pid, ref, todo, awaiting, recent, task, cancelled,
                          linked, watched>>
  <2>1. ~InitReply(m)
    BY <1>1, <1>3, <1>4, <1>9 DEF INIT_OK, INIT_ERROR
  <2>2. Served'
    BY <1>9, ServedKept DEF Live
  <2>3. buffered \in Seq(Messages) /\ Silent(buffered)
    BY DEF Base, TypeOK, OneReply
  <2>4. Silent(buffered')
    BY <1>2, <1>9, <2>1, <2>3 DEF Silent
  <2>5. OneReply'
    BY <1>1, <1>9, <2>1, <2>4, ReplyStays
  <2> QED
    BY <2>2, <2>5
<1> QED
  BY <1>1, <1>3, <1>6, <1>7, <1>8, <1>9 DEF Handshake

\* A prompt server whose reply is not in the mailbox is on its way out.
LEMMA PromptTimeout ==
  ASSUME Base, Base', Prompt, Served, OneReply, setup' = setup, Timeout
  PROVE  Served' /\ OneReply'
<1>1. Running /\ awaiting # None /\ mailbox = <<>>
  BY DEF Timeout, Base, UnderWay
<1>2. task[awaiting] # "up"
  BY <1>1 DEF OneReply, ReplyAt
<1>3. ~Live(awaiting)
  BY <1>2 DEF Timeout, Prompt, Live
<1>4. buffered \in Seq(Messages) /\ Silent(buffered) /\ Abort(buffered)
  BY DEF Base, TypeOK, OneReply, Timeout
<1> QED
  BY <1>1, <1>3, <1>4, PromptAbort

\* Receive as a whole.
LEMMA PromptReceive ==
  ASSUME Base, Base', Prompt, Served, OneReply, setup' = setup, Receive
  PROVE  Served' /\ OneReply'
<1> DEFINE m == Head(mailbox)
<1>1. Running /\ sup = "serving" /\ awaiting = None /\ todo = <<>> /\ mailbox # <<>>
  BY DEF Receive, Running
<1>2. ~InitReply(m)
  BY <1>1, ReplyRead
<1>3. CASE StopChildren("stopped")
  BY <1>1, <1>3, PromptStopChildren DEF Ended
<1>4. CASE /\ Heeded(m)
           /\ HandleChildExit(Least(Owners(m.ref)))
           /\ mailbox' = Tail(mailbox)
           /\ UNCHANGED <<sup, refs, awaiting, buffered, recent, task, linked, watched>>
  <2>1. Least(Owners(m.ref)) \in Children
    BY <1>4, LeastChild DEF Heeded, Owners
  <2>2. Served'
    BY <1>1, <1>4, <2>1, ServedHandleChildExit
  <2>3. OneReply'
    BY <1>1, <1>2, <1>4, ReplyStays DEF OneReply, Silent
  <2> QED
    BY <2>2, <2>3
<1>5. CASE /\ mailbox' = Tail(mailbox)
           /\ UNCHANGED <<supVars, refs, task, cancelled, linked, watched>>
  <2>1. Served'
    BY <1>5, ServedKept DEF supVars, Live
  <2>2. OneReply'
    BY <1>1, <1>2, <1>5, ReplyStays DEF OneReply, Silent, supVars
  <2> QED
    BY <2>1, <2>2
<1> QED
  BY <1>3, <1>4, <1>5 DEF Receive

\* StartNext as a whole.
LEMMA PromptStartNext ==
  ASSUME Base, Base', Served, OneReply, setup' = setup, StartNext
  PROVE  Served' /\ OneReply'
<1>1. Running /\ awaiting = None /\ todo # <<>>
  BY DEF StartNext
<1>2. CASE Launch(Head(todo))
  <2>1. Served'
    BY <1>1, <1>2, ServedLaunch
  <2>2. Silent(mailbox) /\ Silent(buffered)
    BY <1>1 DEF OneReply, ReplyAt
  <2>3. awaiting' \in Instances /\ task'[awaiting'] = "init"
    <3>1. awaiting' = <<Head(todo), Started(Head(todo)) + 1>> /\ awaiting' # None
      BY <1>2, NoneAssumption, StartedCounts, SupervisorAssumption
         DEF Launch, Base, TypeOK, Instances
    <3>2. awaiting' \in Instances
      BY <3>1 DEF Base, TypeOK
    <3> QED
      BY <1>2, <3>1, <3>2 DEF Launch, Base, TypeOK
  <2>4. OneReply'
    BY <1>2, <2>2, <2>3 DEF Launch, OneReply, Silent
  <2> QED
    BY <2>1, <2>4
<1>3. CASE StopChildren("gave_up")
  BY <1>1, <1>3, PromptStopChildren DEF Ended
<1> QED
  BY <1>2, <1>3 DEF StartNext

\* Every step keeps PromptInv.
LEMMA PromptNext ==
  ASSUME Base, Base', ChildrenHeard, PromptInv, [Next]_vars
  PROVE  PromptInv'
<1> SUFFICES ASSUME Prompt, setup' = setup PROVE Served' /\ OneReply'
  <2>1. setup' = setup
    BY DEF Next, Step, Child, Fail, Signal, EndSupervisor, vars
  <2>2. Prompt' <=> Prompt
    BY <2>1 DEF Prompt, strategy
  <2> QED
    BY <2>1, <2>2 DEF PromptInv
<1>0. Served /\ OneReply
  BY DEF PromptInv
<1>1. CASE Step
  BY <1>0, <1>1, PromptStartNext, PromptHandshake, PromptTimeout, PromptReceive DEF Step
<1>2. ASSUME NEW i \in Instances, Child(i) PROVE Served' /\ OneReply'
  <2>1. CASE InitOk(i)
    BY <1>0, <2>1, PromptInitOk
  <2>2. CASE InitError(i)
    <3>1. <<INIT_ERROR(i)>> \in Seq(Messages) /\ NORMAL \in EndReasons
      BY MessageTypes DEF EndReasons
    <3> QED
      BY <1>0, <2>2, <3>1, PromptEnd DEF InitError
  <2>3. CASE Unwind(i)
    BY <1>0, <2>3, PromptEnd, EmptySeq DEF Unwind, EndReasons
  <2> QED
    BY <1>2, <2>1, <2>2, <2>3 DEF Child
<1>3. ASSUME NEW i \in Instances, Fail(i) PROVE Served' /\ OneReply'
  <2>1. End(i, CRASH, <<>>) \/ End(i, NORMAL, <<>>)
    BY <1>3 DEF Fail, Crash, Return
  <2> QED
    BY <1>0, <2>1, PromptEnd, EmptySeq DEF EndReasons
<1>4. ASSUME NEW i \in Instances, NEW reason \in ExitSignals, Signal(i, reason)
      PROVE  Served' /\ OneReply'
  BY <1>0, <1>4, PromptExitChild DEF Signal
<1>5. CASE EndSupervisor
  <2>1. CASE RequestStop
    <3>1. mailbox' = mailbox \o <<STOP>> /\ <<STOP>> \in Seq(Messages)
      BY <2>1, MessageTypes DEF RequestStop, Base, TypeOK
    <3>2. OneReply'
      BY <1>0, <2>1, <3>1, SilentWords, ReplyQuiet DEF RequestStop, supVars
    <3>3. Served'
      BY <1>0, <2>1, ServedKept DEF RequestStop, supVars, Live
    <3> QED
      BY <3>2, <3>3
  <2>2. CASE Kill
    <3>1. cancelled \subseteq cancelled'
      BY <2>2 DEF Kill, CancelSet
    <3>2. \A i \in Instances : Live(i) => i \in cancelled'
      <4> SUFFICES ASSUME NEW i \in Instances, Live(i) PROVE i \in cancelled'
        OBVIOUS
      <4>1. i = awaiting \/ i = pid[i[1]]
        BY <1>0, <2>2 DEF Served, LivesAccounted, Kill
      <4>2. i \in linked
        BY <4>1, NoneAssumption DEF Base, UnderWay, ChildrenHeard, Instances, Live
      <4> QED
        BY <2>2, <4>2 DEF Kill, CancelSet, IsAlive, Live
    <3> QED
      BY <1>0, <2>2, <3>1, <3>2, PromptGone DEF Kill, Ended
  <2> QED
    BY <1>5, <2>1, <2>2 DEF EndSupervisor
<1>6. CASE UNCHANGED vars
  <2>1. Served'
    BY <1>0, <1>6, ServedKept DEF vars, supVars, Live
  <2>2. OneReply'
    BY <1>0, <1>6, SilentWords, EmptySeq, ReplyQuiet DEF vars, supVars
  <2> QED
    BY <2>1, <2>2
<1> QED
  BY <1>1, <1>2, <1>3, <1>4, <1>5, <1>6 DEF Next

\* Nothing lives yet, and all children are to be started.
LEMMA PromptInit == Init /\ Base => PromptInv
<1> SUFFICES ASSUME Init, Base PROVE PromptInv
  OBVIOUS
<1>1. \A i \in Instances : ~Live(i)
  BY DEF Init, Live
<1>2. LivesAccounted
  BY <1>1 DEF LivesAccounted
<1>3. SuffixDown
  <2>1. Len(todo) = N /\ Head(todo) = 1 /\ \A k \in 1 .. Len(todo) : todo[k] = k
    BY SupervisorAssumption DEF Init, Children
  <2> QED
    BY <1>1, <2>1, SupervisorAssumption DEF SuffixDown
<1>4. AtMostOneLive /\ NoOrphans
  BY <1>2, <1>3, AccountedOnce DEF Init, Running
<1>5. OneReply
  BY DEF Init, OneReply, Silent
<1> QED
  BY <1>2, <1>3, <1>4, <1>5 DEF PromptInv, Served


-----------------------------------------------------------------------------
(* one_for_one: counting.                                                  *)

\* The charges of a sequence are finitely many.
LEMMA ChargesType ==
  ASSUME NEW s \in Seq(Messages)
  PROVE  /\ IsFiniteSet({k \in DOMAIN s : Charge(s[k])})
         /\ Charges(s) \in Nat
<1>1. IsFiniteSet(1 .. Len(s)) /\ DOMAIN s = 1 .. Len(s)
  BY FS_Interval
<1>2. {k \in DOMAIN s : Charge(s[k])} \in SUBSET (1 .. Len(s))
  BY <1>1
<1> QED
  BY <1>1, <1>2, FS_Subset, FS_CardinalityType DEF Charges

\* The charges of two sequences add up.
LEMMA ChargesConcat ==
  ASSUME NEW s \in Seq(Messages), NEW t \in Seq(Messages)
  PROVE  Charges(s \o t) = Charges(s) + Charges(t)
<1> DEFINE n == Len(s)
           A == {k \in DOMAIN s : Charge(s[k])}
           B == {k \in DOMAIN t : Charge(t[k])}
           C == {k \in DOMAIN (s \o t) : Charge((s \o t)[k])}
           f == [k \in B |-> k + n]
           D == {k \in C : k > n}
<1>1. /\ n \in Nat /\ Len(t) \in Nat /\ DOMAIN s = 1 .. n /\ DOMAIN t = 1 .. Len(t)
      /\ DOMAIN (s \o t) = 1 .. n + Len(t)
      /\ \A k \in 1 .. n + Len(t) : (s \o t)[k] = IF k <= n THEN s[k] ELSE t[k - n]
  BY SeqFacts
<1>2. IsFiniteSet(A) /\ IsFiniteSet(B) /\ Cardinality(A) \in Nat /\ Cardinality(B) \in Nat
  BY ChargesType DEF Charges
<1>3. \A k \in B : k + n \in D
  <2> SUFFICES ASSUME NEW k \in B PROVE k + n \in D
    OBVIOUS
  <2>1. k \in 1 .. Len(t) /\ Charge(t[k])
    BY <1>1
  <2>2. k + n \in 1 .. n + Len(t) /\ k + n > n /\ (k + n) - n = k
    BY <1>1, <2>1
  <2>3. (s \o t)[k + n] = t[k]
    BY <1>1, <2>2
  <2> QED
    BY <1>1, <2>1, <2>2, <2>3
<1>4. \A k \in D : k - n \in B /\ (k - n) + n = k
  <2> SUFFICES ASSUME NEW k \in D PROVE k - n \in B /\ (k - n) + n = k
    OBVIOUS
  <2>1. k \in 1 .. n + Len(t) /\ k > n /\ Charge((s \o t)[k])
    BY <1>1
  <2>2. k - n \in 1 .. Len(t) /\ (k - n) + n = k /\ (s \o t)[k] = t[k - n]
    BY <1>1, <2>1
  <2> QED
    BY <1>1, <2>1, <2>2
<1>5. A \cup D = C /\ A \cap D = {}
  BY <1>1
<1>6. ExistsBijection(B, D)
  <2>1. B \subseteq Nat /\ D \subseteq Nat
    BY <1>1
  <2> HIDE DEF B, D
  <2>2. f \in [B -> D]
    BY <1>3
  <2>3. \A a, b \in B : f[a] = f[b] => a = b
    BY <1>1, <2>1
  <2>4. \A d \in D : \E b \in B : f[b] = d
    BY <1>4
  <2>5. f \in Bijection(B, D)
    BY <2>2, <2>3, <2>4 DEF Bijection, Injection, Surjection, IsInjective
  <2> QED
    BY <2>5 DEF ExistsBijection
<1>7. IsFiniteSet(D) /\ Cardinality(D) = Cardinality(B)
  BY <1>2, <1>6, FS_Bijection
<1> HIDE DEF A, B, C, D
<1>8. Cardinality(C) = Cardinality(A) + Cardinality(B)
  <2>1. Cardinality(A \cup D) = Cardinality(A) + Cardinality(D) - Cardinality(A \cap D)
    BY <1>2, <1>7, FS_Union
  <2>2. Cardinality(A \cap D) = 0
    BY <1>5, FS_EmptySet
  <2>3. Cardinality(C) = Cardinality(A \cup D)
    BY <1>5
  <2> QED
    BY <1>2, <1>7, <2>1, <2>2, <2>3
<1> QED
  BY <1>8 DEF A, B, C, Charges

\* The charges of the shortest sequences.
LEMMA ChargesOne ==
  /\ Charges(<<>>) = 0
  /\ \A m \in Messages : Charges(<<m>>) = IF Charge(m) THEN 1 ELSE 0
<1>1. Charges(<<>>) = 0
  <2>1. {k \in DOMAIN <<>> : Charge(<<>>[k])} = {}
    OBVIOUS
  <2> QED
    BY <2>1, FS_EmptySet DEF Charges
<1>2. ASSUME NEW m \in Messages PROVE Charges(<<m>>) = IF Charge(m) THEN 1 ELSE 0
  <2>1. {k \in DOMAIN <<m>> : Charge(<<m>>[k])} = IF Charge(m) THEN {1} ELSE {}
    OBVIOUS
  <2> QED
    BY <2>1, FS_EmptySet, FS_Singleton DEF Charges
<1> QED
  BY <1>1, <1>2

\* Reading a message takes its charge.
LEMMA ChargesRead ==
  ASSUME NEW s \in Seq(Messages), s # <<>>
  PROVE  Charges(s) = Charges(Tail(s)) + IF Charge(Head(s)) THEN 1 ELSE 0
<1>1. /\ Head(s) \in Messages /\ <<Head(s)>> \in Seq(Messages) /\ Tail(s) \in Seq(Messages)
      /\ s = <<Head(s)>> \o Tail(s)
  OBVIOUS
<1>2. Charges(s) = Charges(<<Head(s)>>) + Charges(Tail(s))
  BY <1>1, ChargesConcat
<1>3. Charges(Tail(s)) \in Nat
  BY <1>1, ChargesType
<1> QED
  BY <1>1, <1>2, <1>3, ChargesOne

\* Only a DOWN that is not graceful is charged.
LEMMA NoCharge ==
  /\ \A i : ~Charge(INIT_OK(i)) /\ ~Charge(INIT_ERROR(i))
  /\ ~Charge(NOTICE) /\ ~Charge(STOP)
  /\ \A r : ~Charge(DOWN(r, SHUTDOWN))
  BY DEF Charge, INIT_OK, INIT_ERROR, NOTICE, STOP, DOWN

\* The instances that ended by themselves are finitely many.
LEMMA SelfEndedType ==
  IsFiniteSet(Instances) /\ IsFiniteSet(SelfEnded) /\ Cardinality(SelfEnded) \in Nat
<1>1. IsFiniteSet(1 .. MaxStarts) /\ IsFiniteSet(Children)
  BY FS_Interval, SupervisorAssumption DEF Children
<1>2. IsFiniteSet(Instances)
  BY <1>1, FS_Product DEF Instances
<1> QED
  BY <1>2, FS_Subset, FS_CardinalityType DEF SelfEnded

-----------------------------------------------------------------------------
(* one_for_one: every step pays.                                           *)

Counts ==
    /\ Owed \in {0, 1} /\ recent \in Nat /\ Len(todo) \in Nat /\ MaxRestarts \in Nat
    /\ Charges(mailbox) \in Nat /\ Charges(buffered) \in Nat
    /\ Cardinality(SelfEnded) \in Nat

\* All that is counted is a number.
LEMMA CountsType == Base => Counts
<1> SUFFICES ASSUME Base PROVE Counts
  OBVIOUS
<1>1. mailbox \in Seq(Messages) /\ buffered \in Seq(Messages)
  BY DEF Base, TypeOK
<1>2. Charges(mailbox) \in Nat /\ Charges(buffered) \in Nat
  BY <1>1, ChargesType
<1>3. Owed \in {0, 1} /\ recent \in Nat /\ Len(todo) \in Nat
  BY DEF Base, TypeOK, Owed
<1>4. MaxRestarts \in Nat
  BY SupervisorAssumption DEF Base, TypeOK, MaxRestarts
<1> QED
  BY <1>2, <1>3, <1>4, SelfEndedType DEF Counts

\* What ended by itself stays ended.
LEMMA EndedStays ==
  ASSUME \A i \in Instances : task[i] \in {NORMAL, CRASH} => task'[i] \in {NORMAL, CRASH}
  PROVE  /\ SelfEnded \subseteq SelfEnded'
         /\ Cardinality(SelfEnded) <= Cardinality(SelfEnded)'
<1>1. SelfEnded \subseteq SelfEnded'
  BY DEF SelfEnded
<1>2. SelfEnded' \in SUBSET Instances
  BY DEF SelfEnded
<1>3. IsFiniteSet(SelfEnded')
  BY <1>2, SelfEndedType, FS_Subset
<1> QED
  BY <1>1, <1>3, FS_Subset

\* The supervisor's records stand; nobody returns from the dead, and there are no
\* more charges than deaths.
LEMMA PaidKept ==
  ASSUME Base, Base', PaidInv, setup' = setup, UNCHANGED <<sup, todo, awaiting, recent>>,
         \A i \in Instances : task[i] \in {NORMAL, CRASH} => task'[i] \in {NORMAL, CRASH},
         NEW d \in Nat, Cardinality(SelfEnded) + d <= Cardinality(SelfEnded)',
         Running => Charges(mailbox)' + Charges(buffered)'
                      <= Charges(mailbox) + Charges(buffered) + d
  PROVE  PaidInv'
<1>1. Counts /\ Counts'
  BY CountsType, PTL
<1>2. Cardinality(SelfEnded) <= Cardinality(SelfEnded)'
  BY EndedStays
<1>3. /\ MaxRestarts' = MaxRestarts /\ strategy' = strategy
      /\ Owed' = Owed /\ (Running' <=> Running)
  BY DEF MaxRestarts, strategy, Owed, Running
<1>4. GivesUpJustified'
  <2>1. GivesUpJustified <=> (sup = "gave_up" /\ strategy = "one_for_one" =>
                                Cardinality(SelfEnded) > MaxRestarts)
    BY DEF GivesUpJustified, SelfEnded
  <2>2. GivesUpJustified' <=> (sup' = "gave_up" /\ strategy' = "one_for_one" =>
                                Cardinality(SelfEnded)' > MaxRestarts')
    BY DEF GivesUpJustified, SelfEnded
  <2> HIDE DEF MaxRestarts, strategy, SelfEnded
  <2> QED
    BY <1>1, <1>2, <1>3, <2>1, <2>2 DEF PaidInv, Counts
<1>5. Paid'
  <2> HIDE DEF Owed, Running, strategy, Charges, SelfEnded
  <2> QED
    BY <1>1, <1>3 DEF PaidInv, Paid, Debt, Counts
<1> QED
  BY <1>4, <1>5 DEF PaidInv

\* An end is charged once at most, a graceful one never.
LEMMA ObituaryCharges ==
  ASSUME Base, NEW i \in Instances, NEW reason \in EndReasons
  PROVE  /\ Charges(Obituary(i, reason)) \in {0, 1}
         /\ reason = SHUTDOWN => Charges(Obituary(i, reason)) = 0
<1> DEFINE a == IF i \in linked /\ reason = CRASH THEN <<NOTICE>> ELSE <<>>
           b == IF watched[i] # None THEN <<DOWN(watched[i], reason)>> ELSE <<>>
<1>1. a \in Seq(Messages) /\ Charges(a) = 0
  BY ChargesOne, NoCharge, MessageTypes
<1>2. /\ b \in Seq(Messages) /\ Charges(b) \in {0, 1}
      /\ reason = SHUTDOWN => Charges(b) = 0
  <2>1. CASE watched[i] = None
    BY <2>1, ChargesOne
  <2>2. CASE watched[i] # None
    <3>1. DOWN(watched[i], reason) \in Messages
      BY <2>2, MessageTypes DEF Base, TypeOK
    <3> QED
      BY <2>2, <3>1, ChargesOne, NoCharge
  <2> QED
    BY <2>1, <2>2
<1>3. Obituary(i, reason) = a \o b
  BY DEF Obituary
<1> HIDE DEF a, b
<1>4. Charges(a \o b) = Charges(a) + Charges(b)
  BY <1>1, <1>2, ChargesConcat
<1> QED
  BY <1>1, <1>2, <1>3, <1>4

\* Whoever ends by itself pays for the DOWN it sends.
LEMMA PaidEnd ==
  ASSUME Base, Base', PaidInv, setup' = setup, NEW i \in Instances,
         NEW reason \in EndReasons, NEW words \in Seq(Messages), Charges(words) = 0,
         IsAlive(i), End(i, reason, words)
  PROVE  PaidInv'
<1>1. /\ UNCHANGED supVars
      /\ \A j \in Instances : task'[j] = IF j = i THEN reason ELSE task[j]
      /\ mailbox' = IF Running THEN mailbox \o (words \o Obituary(i, reason)) ELSE mailbox
  BY EndShape
<1>2. /\ mailbox \in Seq(Messages) /\ Obituary(i, reason) \in Seq(Messages)
      /\ words \o Obituary(i, reason) \in Seq(Messages)
  BY ObituaryQuiet, SeqFacts DEF Base, TypeOK
<1>3. Charges(words \o Obituary(i, reason)) = Charges(Obituary(i, reason))
  BY <1>2, ChargesConcat, ObituaryCharges
<1>4. Running => Charges(mailbox') = Charges(mailbox) + Charges(Obituary(i, reason))
  BY <1>1, <1>2, <1>3, ChargesConcat
<1>5. task[i] \notin {NORMAL, CRASH}
  BY DEF IsAlive, NORMAL, CRASH
<1>6. \A j \in Instances : task[j] \in {NORMAL, CRASH} => task'[j] \in {NORMAL, CRASH}
  BY <1>1, <1>5
<1>7. Counts /\ Counts'
  BY CountsType, PTL
<1>8. buffered' = buffered /\ UNCHANGED <<sup, todo, awaiting, recent>>
  BY <1>1 DEF supVars
<1>9. CASE reason = SHUTDOWN
  <2>1. Cardinality(SelfEnded) + 0 <= Cardinality(SelfEnded)'
    BY <1>6, <1>7, EndedStays DEF Counts
  <2>2. Running => Charges(mailbox)' + Charges(buffered)'
                     <= Charges(mailbox) + Charges(buffered) + 0
    BY <1>4, <1>7, <1>8, <1>9, ObituaryCharges DEF Counts
  <2> QED
    BY <1>6, <1>8, <2>1, <2>2, PaidKept
<1>10. CASE reason # SHUTDOWN
  <2>1. SelfEnded' = SelfEnded \cup {i} /\ i \notin SelfEnded
    BY <1>1, <1>5, <1>10 DEF SelfEnded, EndReasons
  <2>2. Cardinality(SelfEnded') = Cardinality(SelfEnded) + 1
    BY <2>1, SelfEndedType, FS_AddElement
  <2>3. Cardinality(SelfEnded) + 1 <= Cardinality(SelfEnded)'
    BY <1>7, <2>2 DEF Counts
  <2>4. Running => Charges(mailbox)' + Charges(buffered)'
                     <= Charges(mailbox) + Charges(buffered) + 1
    BY <1>4, <1>7, <1>8, ObituaryCharges DEF Counts
  <2> QED
    BY <1>6, <1>8, <2>3, <2>4, PaidKept
<1> QED
  BY <1>9, <1>10

\* No end, and nothing new that is charged.
LEMMA PaidFree ==
  ASSUME Base, Base', PaidInv, setup' = setup, UNCHANGED <<sup, todo, awaiting, recent>>,
         \A i \in Instances : task[i] \in {NORMAL, CRASH} => task'[i] \in {NORMAL, CRASH},
         Running => Charges(mailbox)' + Charges(buffered)'
                      <= Charges(mailbox) + Charges(buffered)
  PROVE  PaidInv'
<1>1. Counts /\ Counts'
  BY CountsType, PTL
<1>2. Cardinality(SelfEnded) + 0 <= Cardinality(SelfEnded)'
  BY <1>1, EndedStays DEF Counts
<1>3. Running => Charges(mailbox)' + Charges(buffered)'
                   <= Charges(mailbox) + Charges(buffered) + 0
  BY <1>1 DEF Counts
<1> QED
  BY <1>2, <1>3, PaidKept

\* Messages arrive that are not charged.
LEMMA PaidTold ==
  ASSUME Base, Base', PaidInv, setup' = setup, UNCHANGED supVars,
         \A i \in Instances : task[i] \in {NORMAL, CRASH} => task'[i] \in {NORMAL, CRASH},
         NEW t \in Seq(Messages), Charges(t) = 0,
         mailbox' = mailbox \/ mailbox' = mailbox \o t
  PROVE  PaidInv'
<1>1. Counts /\ mailbox \in Seq(Messages)
  BY CountsType DEF Base, TypeOK
<1>2. Charges(mailbox') = Charges(mailbox)
  <2>1. Charges(mailbox \o t) = Charges(mailbox) + Charges(t)
    BY <1>1, ChargesConcat
  <2>2. Charges(mailbox) \in Nat
    BY <1>1 DEF Counts
  <2>3. Charges(mailbox \o t) = Charges(mailbox)
    BY <2>1, <2>2
  <2> QED
    BY <2>3
<1> QED
  BY <1>1, <1>2, PaidFree DEF supVars, Counts

\* The supervisor ends without giving up.
LEMMA PaidGone ==
  ASSUME NEW how \in Ended, how # "gave_up", Gone(how)
  PROVE  PaidInv'
  BY DEF Gone, PaidInv, GivesUpJustified, Paid, Running, Ended

\* The supervisor goes on, owing no more than before.
LEMMA PaidGoesOn ==
  ASSUME PaidInv, setup' = setup, task' = task, Running, sup' # "gave_up",
         strategy = "one_for_one" =>
            /\ sup' = "serving" => Len(todo') <= 1
            /\ Debt' \in Int /\ Debt \in Int /\ Debt' <= Debt,
         Base
  PROVE  PaidInv'
<1>1. SelfEnded' = SelfEnded /\ strategy' = strategy
  BY DEF SelfEnded, strategy
<1>2. Cardinality(SelfEnded) \in Nat
  BY SelfEndedType
<1>3. GivesUpJustified'
  BY DEF GivesUpJustified
<1> HIDE DEF Debt, SelfEnded, Running, strategy
<1>4. Paid'
  BY <1>1, <1>2 DEF PaidInv, Paid
<1> QED
  BY <1>3, <1>4 DEF PaidInv

\* Putting messages back charges nothing.
LEMMA PaidReinject ==
  ASSUME Base, mailbox # <<>>
  PROVE  /\ Charges(Reinjected) \in Nat
         /\ Charges(Reinjected) <= Charges(mailbox) + Charges(buffered)
<1>1. mailbox \in Seq(Messages) /\ buffered \in Seq(Messages) /\ Tail(mailbox) \in Seq(Messages)
  BY DEF Base, TypeOK
<1>2. Charges(Reinjected) = Charges(Tail(mailbox)) + Charges(buffered)
  BY <1>1, ChargesConcat DEF Reinjected
<1>3. Charges(mailbox) = Charges(Tail(mailbox)) + IF Charge(Head(mailbox)) THEN 1 ELSE 0
  BY <1>1, ChargesRead
<1>4. Charges(Tail(mailbox)) \in Nat /\ Charges(buffered) \in Nat
  BY <1>1, ChargesType
<1> QED
  BY <1>2, <1>3, <1>4

\* A child is put on record.
LEMMA PaidAdopt ==
  ASSUME Base, Base', PaidInv, setup' = setup, Running, awaiting # None, mailbox # <<>>,
         Adopt(awaiting, Reinjected)
  PROVE  PaidInv'
<1>1. Counts /\ Counts'
  BY CountsType, PTL
<1>2. /\ sup' = IF sup = "starting" /\ Tail(todo) # <<>> THEN "starting" ELSE "serving"
      /\ todo' = Tail(todo) /\ mailbox' = Reinjected /\ buffered' = <<>>
      /\ recent' = recent /\ task' = task
  BY DEF Adopt
<1>3. todo \in Seq(Children) /\ todo # <<>>
  BY DEF Base, TypeOK, UnderWay
<1>4. strategy = "one_for_one" /\ sup' = "serving" => todo' = <<>>
  BY <1>2, <1>3 DEF PaidInv, Paid, Running
<1>5. strategy = "one_for_one" => Debt' <= Debt /\ Debt' \in Int /\ Debt \in Int
  <2>1. Charges(Reinjected) <= Charges(mailbox) + Charges(buffered)
    BY PaidReinject
  <2>2. Charges(mailbox') = Charges(Reinjected) /\ Charges(buffered') = 0
    BY <1>2, ChargesOne
  <2>3. strategy = "one_for_one" => Owed' = 0
    BY <1>4 DEF Owed
  <2> QED
    BY <1>1, <1>2, <2>1, <2>2, <2>3 DEF Counts, Debt
<1>6. sup' # "gave_up"
  BY <1>2
<1> QED
  BY <1>2, <1>4, <1>5, <1>6, PaidGoesOn

\* A start is given up.
LEMMA PaidAbort ==
  ASSUME Base, Base', PaidInv, setup' = setup, Running, NEW rest,
         Charges(rest) <= Charges(mailbox) + Charges(buffered), Abort(rest)
  PROVE  PaidInv'
<1>1. CASE sup = "starting"
  BY <1>1, PaidGone DEF Abort, Ended
<1>2. CASE sup # "starting"
  <2>1. Counts /\ Counts'
    BY CountsType, PTL
  <2>2. /\ todo' = <<>> /\ buffered' = <<>> /\ mailbox' = rest
        /\ UNCHANGED <<sup, recent, task>>
    BY <1>2 DEF Abort
  <2>3. Owed' = 0 /\ Charges(buffered') = 0 /\ Charges(mailbox') = Charges(rest)
    BY <2>2, ChargesOne DEF Owed
  <2>4. Debt' <= Debt /\ Debt' \in Int /\ Debt \in Int
    BY <2>1, <2>2, <2>3 DEF Counts, Debt
  <2>5. sup' # "gave_up" /\ Len(todo') <= 1
    BY <1>2, <2>2 DEF Running
  <2> QED
    BY <2>2, <2>4, <2>5, PaidGoesOn
<1> QED
  BY <1>1, <1>2

\* Handshake as a whole.
LEMMA PaidHandshake ==
  ASSUME Base, Base', PaidInv, setup' = setup, Handshake
  PROVE  PaidInv'
<1>1. Running /\ awaiting # None /\ mailbox # <<>>
  BY DEF Handshake, Base, UnderWay
<1>2. CASE Adopt(awaiting, Reinjected)
  BY <1>1, <1>2, PaidAdopt
<1>3. CASE Abort(Reinjected)
  BY <1>1, <1>3, PaidAbort, PaidReinject
<1>4. CASE /\ buffered' = Append(buffered, Head(mailbox))
           /\ mailbox' = Tail(mailbox)
           /\ UNCHANGED <<sup, refs, pid, ref, todo, awaiting, recent, task, cancelled,
                          linked, watched>>
  <2> DEFINE m == Head(mailbox)
  <2>1. /\ m \in Messages /\ mailbox \in Seq(Messages) /\ buffered \in Seq(Messages)
        /\ <<m>> \in Seq(Messages) /\ buffered' = buffered \o <<m>>
    BY <1>1, <1>4 DEF Base, TypeOK
  <2>2. Charges(mailbox) = Charges(mailbox') + IF Charge(m) THEN 1 ELSE 0
    BY <1>1, <1>4, <2>1, ChargesRead
  <2>3. Charges(buffered') = Charges(buffered) + IF Charge(m) THEN 1 ELSE 0
    BY <2>1, ChargesConcat, ChargesOne
  <2>4. Counts /\ Counts'
    BY CountsType, PTL
  <2>5. Charges(mailbox)' + Charges(buffered)' <= Charges(mailbox) + Charges(buffered)
    BY <2>2, <2>3, <2>4 DEF Counts
  <2> QED
    BY <1>4, <2>5, PaidFree
<1> QED
  BY <1>2, <1>3, <1>4 DEF Handshake

\* The timeout of a handshake.
LEMMA PaidTimeout ==
  ASSUME Base, Base', PaidInv, setup' = setup, Timeout
  PROVE  PaidInv'
<1>1. Running /\ Abort(buffered)
  BY DEF Timeout, Base, UnderWay
<1>2. Charges(buffered) <= Charges(mailbox) + Charges(buffered)
  BY CountsType DEF Counts
<1> QED
  BY <1>1, <1>2, PaidAbort

\* A restart takes what is owed for it; giving up needs one more than allowed.
LEMMA PaidStartNext ==
  ASSUME Base, Base', PaidInv, setup' = setup, StartNext
  PROVE  PaidInv'
<1>1. Running /\ awaiting = None /\ todo # <<>>
  BY DEF StartNext
<1>2. Counts /\ Counts'
  BY CountsType, PTL
<1>3. strategy = "one_for_one" /\ sup = "serving" =>
         recent + 1 <= Cardinality(SelfEnded) /\ Len(todo) <= 1
  <2>1. sup = "serving" => Owed = 1
    BY <1>1 DEF Owed
  <2> QED
    BY <1>1, <1>2, <2>1 DEF PaidInv, Paid, Debt, Counts
<1>4. ASSUME Launch(Head(todo)), sup = "serving" => recent' <= recent + 1,
             sup = "starting" => recent' = recent
      PROVE  PaidInv'
  <2> DEFINE i == <<Head(todo), Started(Head(todo)) + 1>>
  <2>1. /\ UNCHANGED <<sup, mailbox, todo, buffered>> /\ awaiting' = i
        /\ task' = [task EXCEPT ![i] = "init"]
    BY <1>4 DEF Launch
  <2>2. i \in Instances
    <3>1. Head(todo) \in Children
      BY <1>1 DEF Base, TypeOK
    <3>2. Started(Head(todo)) + 1 \in 1 .. MaxStarts
      BY <1>4, <3>1, StartedCounts, SupervisorAssumption DEF Base, Launch
    <3> QED
      BY <3>1, <3>2 DEF Instances
  <2>3. awaiting' # None
    BY <2>1, <2>2, NoneAssumption
  <2>4. task[i] = "absent"
    <3>1. Head(todo) \in Children
      BY <1>1 DEF Base, TypeOK
    <3>2. Started(Head(todo)) + 1 \in 1 .. MaxStarts /\ Started(Head(todo)) \in Nat
      BY <1>4, <3>1, StartedCounts, SupervisorAssumption DEF Base, Launch
    <3>3. ~(Started(Head(todo)) + 1 <= Started(Head(todo)))
      BY <3>2
    <3> QED
      BY <2>2, <3>1, <3>2, <3>3, StartedCounts DEF Base
  <2>5. \A j \in Instances : task'[j] = IF j = i THEN "init" ELSE task[j]
    BY <2>1, <2>2 DEF Base, TypeOK
  <2>6. SelfEnded' = SelfEnded
    BY <2>2, <2>4, <2>5 DEF SelfEnded, NORMAL, CRASH
  <2>7. Debt' <= Debt
    <3>1. Owed' = 0 /\ (sup = "serving" => Owed = 1) /\ (sup = "starting" => Owed = 0)
      BY <1>1, <2>1, <2>3 DEF Owed
    <3>2. recent' <= recent + Owed
      BY <1>1, <1>2, <1>4, <3>1 DEF Running, Counts
    <3> QED
      BY <1>2, <2>1, <3>1, <3>2 DEF Debt, Counts
  <2>8. strategy' = strategy /\ Running'
    BY <1>1, <2>1 DEF strategy, Running
  <2>9. Paid'
    <3>1. Debt \in Nat
      BY <1>2 DEF Debt, Counts
    <3>2. Debt' \in Nat
      BY <1>2 DEF Debt, Counts
    <3> HIDE DEF Debt, SelfEnded, strategy, Running
    <3> QED
      BY <1>1, <1>2, <2>1, <2>6, <2>7, <2>8, <3>1, <3>2 DEF PaidInv, Paid, Counts
  <2>10. GivesUpJustified'
    BY <1>1, <2>1 DEF GivesUpJustified, Running
  <2> QED
    BY <2>9, <2>10 DEF PaidInv
<1>5. ASSUME sup = "serving", NEW kept \in IF setup.window_passes THEN 0 .. recent ELSE {recent},
             Exceeds(kept + 1), StopChildren("gave_up")
      PROVE  PaidInv'
  <2>1. kept \in Nat /\ kept <= recent
    BY <1>2 DEF Counts
  <2>2. kept + 1 > MaxRestarts
    BY <1>5 DEF Exceeds
  <2>3. strategy = "one_for_one" => Cardinality(SelfEnded) > MaxRestarts
    BY <1>2, <1>3, <1>5, <2>1, <2>2 DEF Counts
  <2>4. /\ SelfEnded' = SelfEnded /\ MaxRestarts' = MaxRestarts /\ strategy' = strategy
        /\ ~Running'
    BY <1>5 DEF StopChildren, Gone, SelfEnded, MaxRestarts, strategy, Running
  <2>5. GivesUpJustified'
    <3>1. GivesUpJustified' <=> (sup' = "gave_up" /\ strategy' = "one_for_one" =>
                                   Cardinality(SelfEnded)' > MaxRestarts')
      BY DEF GivesUpJustified, SelfEnded
    <3> HIDE DEF SelfEnded, MaxRestarts, strategy
    <3> QED
      BY <2>3, <2>4, <3>1
  <2> QED
    BY <2>4, <2>5 DEF PaidInv, Paid
<1>6. ASSUME sup = "serving", NEW kept \in IF setup.window_passes THEN 0 .. recent ELSE {recent},
             Launch(Head(todo)), recent' = kept + 1
      PROVE  PaidInv'
  BY <1>2, <1>4, <1>6 DEF Counts
<1>7. CASE sup = "starting" /\ Launch(Head(todo)) /\ UNCHANGED recent
  BY <1>4, <1>7
<1> QED
  BY <1>5, <1>6, <1>7 DEF StartNext

\* A restart owed is a charge read.
LEMMA PaidReceive ==
  ASSUME Base, Base', PaidInv, setup' = setup, Receive
  PROVE  PaidInv'
<1> DEFINE m == Head(mailbox)
<1>1. /\ Running /\ sup = "serving" /\ awaiting = None /\ todo = <<>> /\ mailbox # <<>>
      /\ mailbox \in Seq(Messages)
  BY DEF Receive, Running, Base, TypeOK
<1>2. Charges(mailbox) = Charges(Tail(mailbox)) + IF Charge(m) THEN 1 ELSE 0
  BY <1>1, ChargesRead
<1>3. Counts /\ Counts'
  BY CountsType, PTL
<1>4. CASE StopChildren("stopped")
  BY <1>4, PaidGone DEF StopChildren, Ended
<1>5. CASE /\ Heeded(m)
           /\ HandleChildExit(Least(Owners(m.ref)))
           /\ mailbox' = Tail(mailbox)
           /\ UNCHANGED <<sup, refs, awaiting, buffered, recent, task, linked, watched>>
  \* A restart is owed, and the message that asks for it is used up.
  <2>1. Charge(m)
    BY <1>5 DEF Heeded, Charge
  <2>2. strategy = "one_for_one" => Len(todo') <= 1
    <3>1. strategy = "one_for_one" => \E dead : todo' = <<dead>>
      BY <1>5 DEF HandleChildExit
    <3>2. \A x : Len(<<x>>) <= 1
      OBVIOUS
    <3> QED
      BY <3>1, <3>2
  <2>3. Owed = 0 /\ Owed' \in {0, 1} /\ Charges(mailbox) = Charges(mailbox') + 1
    BY <1>1, <1>2, <1>3, <1>5, <2>1 DEF Owed, Counts
  <2>4. Debt \in Int /\ Debt' \in Int /\ Debt' <= Debt
    BY <1>3, <1>5, <2>3 DEF Debt, Counts
  <2>5. sup' # "gave_up" /\ task' = task
    BY <1>1, <1>5
  <2> HIDE DEF Debt
  <2> QED
    BY <1>1, <2>2, <2>4, <2>5, PaidGoesOn
<1>6. CASE /\ mailbox' = Tail(mailbox)
           /\ UNCHANGED <<supVars, refs, task, cancelled, linked, watched>>
  <2>1. Charges(mailbox)' + Charges(buffered)' <= Charges(mailbox) + Charges(buffered)
    BY <1>2, <1>3, <1>6 DEF Counts, supVars
  <2> QED
    BY <1>6, <2>1, PaidFree DEF supVars
<1> QED
  BY <1>4, <1>5, <1>6 DEF Receive

\* Every step keeps PaidInv.
LEMMA PaidNext ==
  ASSUME Base, Base', PaidInv, [Next]_vars
  PROVE  PaidInv'
<1> USE EmptySeq, ChargesOne
<1>1. CASE Step
  BY <1>1, PaidStartNext, PaidHandshake, PaidTimeout, PaidReceive DEF Step
<1>2. ASSUME NEW i \in Instances, Child(i) PROVE PaidInv'
  <2>1. setup' = setup /\ IsAlive(i)
    BY <1>2, NoneAssumption DEF Child, InitOk, InitError, Unwind, IsAlive, Base, OnRecord
  <2>2. CASE InitOk(i)
    <3>1. <<INIT_OK(i)>> \in Seq(Messages) /\ Charges(<<INIT_OK(i)>>) = 0
      BY MessageTypes, NoCharge
    <3>2. \A j \in Instances : task[j] \in {NORMAL, CRASH} => task'[j] \in {NORMAL, CRASH}
      BY <2>2 DEF InitOk, Base, TypeOK, NORMAL, CRASH
    <3>3. UNCHANGED supVars /\ (mailbox' = mailbox \/ mailbox' = mailbox \o <<INIT_OK(i)>>)
      BY <2>2 DEF InitOk, Tell
    <3> QED
      BY <2>1, <3>1, <3>2, <3>3, PaidTold
  <2>3. CASE InitError(i)
    <3>1. <<INIT_ERROR(i)>> \in Seq(Messages) /\ Charges(<<INIT_ERROR(i)>>) = 0
      BY MessageTypes, NoCharge
    <3>2. End(i, NORMAL, <<INIT_ERROR(i)>>) /\ NORMAL \in EndReasons
      BY <2>3 DEF InitError, EndReasons
    <3> QED
      BY <2>1, <3>1, <3>2, PaidEnd
  <2>4. CASE Unwind(i)
    <3>1. End(i, SHUTDOWN, <<>>) /\ SHUTDOWN \in EndReasons
      BY <2>4 DEF Unwind, EndReasons
    <3> QED
      BY <2>1, <3>1, PaidEnd
  <2> QED
    BY <1>2, <2>2, <2>3, <2>4 DEF Child
<1>3. ASSUME NEW i \in Instances, Fail(i) PROVE PaidInv'
  <2>1. IsAlive(i) /\ setup' = setup
    BY <1>3, NoneAssumption DEF Fail, Crash, Return, IsAlive
  <2>2. End(i, CRASH, <<>>) \/ End(i, NORMAL, <<>>)
    BY <1>3 DEF Fail, Crash, Return
  <2> QED
    BY <2>1, <2>2, PaidEnd DEF EndReasons
<1>4. ASSUME NEW i \in Instances, NEW reason \in ExitSignals, Signal(i, reason)
      PROVE  PaidInv'
  <2> DEFINE a == IF i \in linked THEN <<NOTICE>> ELSE <<>>
             b == IF watched[i] # None THEN <<NOTICE>> ELSE <<>>
  <2>1. /\ a \in Seq(Messages) /\ Charges(a) = 0
        /\ b \in Seq(Messages) /\ Charges(b) = 0
    BY MessageTypes, NoCharge
  <2>2. mailbox' = mailbox \/ mailbox' = mailbox \o (a \o b)
    BY <1>4 DEF Signal, ExitChild, Tell
  <2> HIDE DEF a, b
  <2>3. a \o b \in Seq(Messages) /\ Charges(a \o b) = 0
    BY <2>1, ChargesConcat, SeqFacts
  <2>4. UNCHANGED <<setup, supVars, task>>
    BY <1>4 DEF Signal, ExitChild
  <2> QED
    BY <2>2, <2>3, <2>4, PaidTold
<1>5. CASE EndSupervisor
  <2>1. CASE RequestStop
    <3>1. mailbox' = mailbox \o <<STOP>> /\ <<STOP>> \in Seq(Messages) /\ Charges(<<STOP>>) = 0
      <4>1. STOP \in Messages /\ ~Charge(STOP)
        BY MessageTypes, NoCharge
      <4>2. mailbox' = Append(mailbox, STOP) /\ mailbox \in Seq(Messages)
        BY <2>1 DEF RequestStop, Base, TypeOK
      <4>3. mailbox' = mailbox \o <<STOP>>
        BY <4>1, <4>2, AppendIsConcat
      <4> QED
        BY <4>1, <4>3
    <3>2. UNCHANGED <<setup, supVars, task>>
      BY <1>5, <2>1 DEF EndSupervisor, RequestStop
    <3> QED
      BY <3>1, <3>2, PaidTold
  <2>2. CASE Kill
    BY <2>2, PaidGone DEF Kill, Ended
  <2> QED
    BY <1>5, <2>1, <2>2 DEF EndSupervisor
<1>6. CASE UNCHANGED vars
  <2>1. UNCHANGED <<setup, supVars, task, mailbox>>
    BY <1>6 DEF vars
  <2> QED
    BY <2>1, PaidTold
<1> QED
  BY <1>1, <1>2, <1>3, <1>4, <1>5, <1>6 DEF Next

\* Nothing is owed.
LEMMA PaidInit == Init /\ Base => PaidInv
<1> SUFFICES ASSUME Init, Base PROVE PaidInv
  OBVIOUS
<1>1. GivesUpJustified
  BY DEF Init, GivesUpJustified
<1>2. Charges(mailbox) = 0 /\ Charges(buffered) = 0 /\ Owed = 0 /\ recent = 0
  BY ChargesOne DEF Init, Owed
<1>3. Debt = 0
  BY <1>2 DEF Debt
<1>4. Debt <= Cardinality(SelfEnded)
  BY <1>3, SelfEndedType
<1> QED
  BY <1>1, <1>4 DEF Init, PaidInv, Paid

-----------------------------------------------------------------------------
(* The theorems.                                                           *)

\* The inductive invariant holds.
LEMMA IInvHolds == SafetySpec => []IInv
<1>1. Init => IInv
  BY BaseInit, PromptInit, PaidInit DEF Init, ChildrenHeard, Live, IInv
<1>2. IInv /\ [Next]_vars => IInv'
  BY BaseNext, HeardNext, PromptNext, PaidNext DEF IInv
<1> QED
  BY <1>1, <1>2, PTL DEF SafetySpec

\* Every variable keeps its type; in particular no more references are handed out
\* than there are instances, whatever is started, told to exit or forgotten.
THEOREM SupervisorTypes == SafetySpec => []TypeOK
<1>1. IInv => TypeOK
  BY DEF IInv, Base
<1> QED
  BY <1>1, IInvHolds, PTL

\* Under every strategy, with any kind of children and whatever fails or is slow:
\* a live child on record is linked, and monitored under the recorded reference.
THEOREM ChildrenAlwaysHeard == SafetySpec => []ChildrenHeard
<1>1. IInv => ChildrenHeard
  BY DEF IInv
<1> QED
  BY <1>1, IInvHolds, PTL

\* Under one_for_one the supervisor gives up only after more than max_restarts
\* instances ended by themselves, although it may blame the wrong child.
THEOREM GivesUpOnlyJustified == SafetySpec => []GivesUpJustified
<1>1. IInv => GivesUpJustified
  BY DEF IInv, PaidInv
<1> QED
  BY <1>1, IInvHolds, PTL

\* The children of a setup under one_for_all or rest_for_one are generic servers
\* whose init comes to an end within the five seconds of start_link.
PromptSetups ==
    \A s \in Setups :
        s.strategy # "one_for_one" =>
            "slow" \notin s.faults /\ \A c \in Children : s.kind[c] = "gen_server"

\* Where one_for_one is left out, all setups are prompt.
LEMMA PromptlyStrict ==
  PromptSetups /\ Base /\ PromptInv => AtMostOneLive /\ NoOrphans
  BY DEF PromptSetups, Base, TypeOK, PromptInv, Prompt, Served, strategy, AtMostOneLive, NoOrphans

\* one_for_all and rest_for_one over prompt servers: however crashes, restarts, exit
\* signals and late messages meet, no child runs twice.
THEOREM AtMostOneEverLives ==
  ASSUME PromptSetups PROVE SafetySpec => []AtMostOneLive
<1>1. IInv => AtMostOneLive
  BY PromptlyStrict DEF IInv
<1> QED
  BY <1>1, IInvHolds, PTL

\* one_for_all and rest_for_one over prompt servers: when the supervisor has stopped,
\* given up or been killed, no child lives that was not told to exit.
THEOREM NobodyOrphaned ==
  ASSUME PromptSetups PROVE SafetySpec => []NoOrphans
<1>1. IInv => NoOrphans
  BY PromptlyStrict DEF IInv
<1> QED
  BY <1>1, IInvHolds, PTL

\* one_for_all and rest_for_one over prompt servers: whenever a child is started,
\* nothing that is started after it lives.
THEOREM DependantsAlwaysDownFirst ==
  ASSUME PromptSetups PROVE SafetySpec => DependantsDownFirst
<1> DEFINE Ordered == \A c \in Children, k \in 1 .. MaxStarts :
          Launches(c, k) /\ strategy # "one_for_one" =>
            \A i \in Instances : i[1] > c => ~Live(i)
<1>1. IInv /\ [Next]_vars => Ordered
  <2> SUFFICES ASSUME Base, PromptInv, [Next]_vars,
                      NEW c \in Children, NEW k \in 1 .. MaxStarts,
                      Launches(c, k), strategy # "one_for_one",
                      NEW i \in Instances, i[1] > c, Live(i)
               PROVE  FALSE
    BY DEF IInv
  <2>1. Served
    BY DEF PromptSetups, Base, TypeOK, PromptInv, Prompt, strategy
  <2>2. awaiting' = <<c, k>> /\ awaiting' # awaiting /\ awaiting' # None
    BY NoneAssumption DEF Launches, Instances
  <2>3. StartNext /\ Launch(Head(todo))
    BY <2>2 DEF Next, Step, Child, Fail, Signal, EndSupervisor, vars, supVars, StartNext,
       Handshake, Timeout, Receive, StopChildren, Gone, Adopt, Abort, InitOk, InitError,
       Unwind, Crash, Return, End, ExitChild, RequestStop, Kill
  <2>4. awaiting = None /\ todo # <<>> /\ c = Head(todo) /\ c \in Nat
    BY <2>2, <2>3, SupervisorAssumption DEF StartNext, Launch, Children
  <2>5. i[1] \in Nat /\ i # None
    BY SupervisorAssumption, NoneAssumption DEF Instances, Children
  <2> QED
    BY <2>1, <2>4, <2>5 DEF Served, SuffixDown
<1> QED
  BY <1>1, IInvHolds, PTL DEF SafetySpec, DependantsDownFirst
=============================================================================
