---------------------- MODULE DynamicSupervisorProofs ----------------------
(***************************************************************************)
(* Proofs about the dynamic supervisor, for any children, strategies and   *)
(* bounds: the tables of children agree, no child that runs is off the     *)
(* record or outlives the supervisor but one whose start was given up, for *)
(* which there was a reason, and terminations are answered truthfully.     *)
(***************************************************************************)
EXTENDS DynamicSupervisor, FiniteSetTheorems, SequenceTheorems, WellFoundedInduction, TLAPS

-----------------------------------------------------------------------------
(* The inductive invariant.                                                *)

Statuses == {"absent", "init", "up", "killed"} \cup EndReasons

\* The tables of children.
Lists ==
    /\ StaticIds \subseteq known /\ known \subseteq Children
    /\ dynamic_children \in Seq(Dynamic) /\ IsInjective(dynamic_children)
    /\ ToSet(dynamic_children) = known \ StaticIds

\* The fields that only the supervisor's handlers write.
Fields ==
    /\ restart \in [Children -> RestartTypes \cup {StaticType}]
    /\ failures \in [Children -> 0 .. MaxRestarts]
    /\ pending_terminations \in [Children -> Clients \cup {None}]

\* The instances, and the messages and references about them.
Things ==
    /\ setup \in Setups /\ confused \in BOOLEAN
    /\ sup \in {"starting", "serving", "failed", "stopped", "gave_up"}
    /\ mailbox \in Seq(Messages) /\ buffered \in Seq(Messages)
    /\ refs \subseteq Refs /\ watched \in [Instances -> Refs \cup {None}]
    /\ task \in [Instances -> Statuses]
    /\ cancelled \subseteq Instances /\ given_up \subseteq Instances
    /\ pid \in [Children -> Instances \cup {None}] /\ ref \in [Children -> Refs \cup {None}]

\* Only what is up is cancelled or watched, and a reference is one that somebody is
\* watched by.
Watches ==
    /\ \A r \in refs : \E i \in Instances : watched[i] = r
    /\ \A i \in Instances : watched[i] # None => task[i] = "up" /\ i # awaiting /\ i \notin given_up
    /\ \A i \in cancelled : task[i] = "up"
    /\ \A i \in given_up : task[i] # "absent"

\* What is on record is an instance of a known child whose start succeeded.
Records ==
    /\ \A c \in Children : pid[c] # None =>
          c \in known /\ pid[c][1] = c /\ task[pid[c]] \notin {"absent", "init"}
    /\ \A c \in Children : ref[c] # None => pid[c] # None

\* The part of a start that is under way.
UnderWay ==
    /\ todo \in Seq(known) /\ IsInjective(todo) /\ adding \in Clients \cup {None}
    /\ awaiting \in Instances \cup {None}
    /\ awaiting # None => /\ todo # <<>> /\ awaiting[1] = Head(todo)
                          /\ task[awaiting] # "absent" /\ awaiting \notin given_up
    /\ sup = "starting" => todo # <<>> /\ adding = None
    /\ adding # None => \E c \in Dynamic : todo = <<c>> /\ pid[c] = None
    /\ ~Running => /\ todo = <<>> /\ adding = None /\ mailbox = <<>>
                   /\ \A i \in Instances : watched[i] = None

\* The messages with a word of an instance that has said it.
Said == {m \in Messages : m.tag \in {"INIT_OK", "INIT_ERROR"} =>
                              task[m.inst] \notin {"absent", "init"}}
Spoken == mailbox \in Seq(Said) /\ buffered \in Seq(Said)

\* The messages that are true: the child a DOWN means has ended as it says.
Truthful == {m \in Messages : m.tag = "DOWN" =>
                \A c \in Children : ref[c] = m.ref => pid[c] # None /\ task[pid[c]] = m.reason}

\* While references are clear, each means one child, messages are true, what runs is
\* accounted for, and what is to be started does not run.
Clear ==
    ~confused =>
        /\ \A c, d \in Children : ref[c] = ref[d] /\ ref[c] # None => c = d
        /\ mailbox \in Seq(Truthful) /\ buffered \in Seq(Truthful)
        /\ NoStrays /\ NoOrphans
        /\ \A k \in DOMAIN todo : ~IsAlive(pid[todo[k]])

\* Messages that are no server's word, and those that the one being started may say.
Quiet == {m \in Messages : ~ServerWord(m)}
WordOf(i) == {m \in {INIT_OK(i), INIT_ERROR(i)} :
                 i # None /\ task[i] # "init" /\ (m = INIT_ERROR(i) => ~IsAlive(i))}
OneOf(s, W) ==
    \/ s \in Seq(Quiet)
    \/ \E k \in DOMAIN s : s[k] \in W /\ \A j \in DOMAIN s : j # k => s[j] \in Quiet

\* Where no server is slow, only the one being started has yet to say its word, once.
Prompt ==
    "slow" \notin setup.faults =>
        /\ GivenUpSeldom
        /\ \A i \in Instances : task[i] = "init" /\ Server(i) => i = awaiting
        /\ buffered \in Seq(Quiet) /\ OneOf(mailbox, WordOf(awaiting))

DynamicIInv ==
    Lists /\ Fields /\ Things /\ Watches /\ Records /\ UnderWay /\ Spoken /\ Clear /\ Prompt

-----------------------------------------------------------------------------
(* Sets and sequences.                                                     *)

\* A non-empty set of numbers has a least one.
LEMMA LeastOf ==
    ASSUME NEW S \in SUBSET Nat, S # {}
    PROVE  \E x \in S : \A y \in S : x <= y
<1>1. PICK x \in S : \A y \in S : <<y, x>> \notin OpToRel(<, Nat)
  BY NatLessThanWellFounded, WFMin
<1>2. OpToRel(<, Nat) = {ss \in Nat \X Nat : ss[1] < ss[2]}
  BY DEF OpToRel
<1>3. \A y \in S : x <= y
  <2> SUFFICES ASSUME NEW y \in S PROVE x <= y
    OBVIOUS
  <2>1. <<y, x>> \in Nat \X Nat /\ x \in Nat /\ y \in Nat
    OBVIOUS
  <2>2. y < x => <<y, x>> \in {ss \in Nat \X Nat : ss[1] < ss[2]}
    BY <2>1
  <2>3. ~(y < x)
    BY <1>1, <1>2, <2>2
  <2> QED BY <2>1, <2>3
<1> QED BY <1>3

\* There are finitely many children, instances and references.
LEMMA FinitelyMany ==
    /\ IsFiniteSet(Children) /\ IsFiniteSet(Instances)
    /\ Cardinality(Instances) \in Nat /\ MaxStarts \in Nat
<1>1. Len(Static) \in Nat /\ DOMAIN Static = 1 .. Len(Static)
  BY DynamicSupervisorAssumption
<1>2. IsFiniteSet(StaticIds)
  <2>1. IsFiniteSet(1 .. Len(Static))
    BY <1>1, FS_Interval
  <2>2. Static \in Surjection(1 .. Len(Static), StaticIds)
    BY <1>1, DynamicSupervisorAssumption DEF Surjection, StaticIds, ToSet
  <2> QED BY <2>1, <2>2, FS_Surjection
<1>3. IsFiniteSet(Children)
  BY <1>2, FS_Union, DynamicSupervisorAssumption DEF Children
<1>4. MaxStarts \in Nat
  BY DynamicSupervisorAssumption
<1>5. IsFiniteSet(1 .. MaxStarts)
  BY <1>4, FS_Interval
<1>6. IsFiniteSet(Instances)
  BY <1>3, <1>5, FS_Product DEF Instances
<1> QED BY <1>3, <1>4, <1>6, FS_CardinalityType

-----------------------------------------------------------------------------
(* Sequences of messages.                                                  *)

\* Concatenation, head and tail.
LEMMA SeqFacts ==
  ASSUME NEW S, NEW s \in Seq(S), NEW t \in Seq(S)
  PROVE  /\ s \o t \in Seq(S)
         /\ DOMAIN (s \o t) = 1 .. (Len(s) + Len(t))
         /\ \A k \in DOMAIN (s \o t) :
               (s \o t)[k] = IF k <= Len(s) THEN s[k] ELSE t[k - Len(s)]
         /\ s # <<>> => /\ Head(s) = s[1] /\ Head(s) \in S
                        /\ Tail(s) \in Seq(S)
                        /\ DOMAIN Tail(s) = 1 .. (Len(s) - 1)
                        /\ \A k \in DOMAIN Tail(s) : Tail(s)[k] = s[k + 1]
  OBVIOUS

\* A sequence over a set is one over a larger set, and over any set its elements are in.
LEMMA SeqWiden ==
    ASSUME NEW S, NEW T, NEW s \in Seq(S), S \subseteq T
    PROVE  s \in Seq(T)
<1>1. Len(s) \in Nat /\ s \in [1 .. Len(s) -> T]
  BY SeqDef
<1> QED BY <1>1, SeqDef

\* A sequence over a set is one over any set that holds all of its elements.
LEMMA SeqOver ==
    ASSUME NEW S, NEW T, NEW s \in Seq(S), \A k \in DOMAIN s : s[k] \in T
    PROVE  s \in Seq(T)
<1>1. Len(s) \in Nat /\ DOMAIN s = 1 .. Len(s) /\ s \in [1 .. Len(s) -> S]
  BY SeqDef
<1>2. s \in [1 .. Len(s) -> T]
  BY <1>1
<1> QED BY <1>1, <1>2, SeqDef

\* A part of a sequence.
LEMMA PartOf ==
    ASSUME NEW S, NEW seq \in Seq(S),
           NEW a \in 1 .. Len(seq) + 1, NEW b \in 0 .. Len(seq)
    PROVE  /\ SubSeq(seq, a, b) \in Seq(S)
           /\ Len(SubSeq(seq, a, b)) = IF a <= b THEN b - a + 1 ELSE 0
           /\ \A j \in 1 .. Len(SubSeq(seq, a, b)) :
                 a + j - 1 \in a .. b /\ SubSeq(seq, a, b)[j] = seq[a + j - 1]
<1> DEFINE u == SubSeq(seq, a, b)
<1>1. Len(seq) \in Nat /\ DOMAIN seq = 1 .. Len(seq) /\ \A k \in 1 .. Len(seq) : seq[k] \in S
  BY ElementOfSeq, LenProperties
<1>2. a \in Int /\ b \in Int /\ \A k \in a .. b : seq[k] \in S
  BY <1>1
<1>3. /\ u \in Seq(S) /\ Len(u) = IF a <= b THEN b - a + 1 ELSE 0
      /\ \A j \in 1 .. b - a + 1 : u[j] = seq[a + j - 1]
  BY <1>2, SubSeqProperties
<1> HIDE DEF u
<1>4. \A j \in 1 .. Len(u) : j \in 1 .. b - a + 1 /\ a + j - 1 \in a .. b
  BY <1>2, <1>3
<1>5. \A j \in 1 .. Len(u) : u[j] = seq[a + j - 1]
  BY <1>3, <1>4
<1> QED BY <1>3, <1>4, <1>5 DEF u

\* The static children, then the dynamic ones.
LEMMA OrderIs ==
    ASSUME Lists
    PROVE  /\ Order \in Seq(known \cap Children)
           /\ \A c \in known : \E k \in 1 .. Len(Order) : Order[k] = c
           /\ IsInjective(Order)
<1> DEFINE S == known \cap Children
           d == dynamic_children
<1>1. /\ Static \in Seq(StaticIds) /\ IsInjective(Static) /\ StaticIds \cap Dynamic = {}
  BY DynamicSupervisorAssumption
<1>2. /\ StaticIds \subseteq known /\ known \subseteq Children
      /\ ToSet(d) = known \ StaticIds /\ IsInjective(d) /\ d \in Seq(Dynamic)
  BY DEF Lists
<1>3. /\ Len(Static) \in Nat /\ DOMAIN Static = 1 .. Len(Static)
      /\ Len(d) \in Nat /\ DOMAIN d = 1 .. Len(d)
  BY <1>1, <1>2
<1>4. /\ \A k \in 1 .. Len(Static) : Static[k] \in StaticIds
      /\ \A c \in StaticIds : \E k \in 1 .. Len(Static) : Static[k] = c
      /\ \A k \in 1 .. Len(d) : d[k] \in known \ StaticIds
      /\ \A c \in known \ StaticIds : \E k \in 1 .. Len(d) : d[k] = c
  BY <1>2, <1>3 DEF ToSet, StaticIds
<1>5. Static \in Seq(S) /\ d \in Seq(S)
  <2>1. \A k \in 1 .. Len(Static) : Static[k] \in S
    BY <1>2, <1>4
  <2>2. \A k \in 1 .. Len(d) : d[k] \in S
    BY <1>2, <1>4
  <2> HIDE DEF S, d
  <2> QED BY <2>1, <2>2, <1>1, <1>2 DEF d
<1>6. /\ Order \in Seq(S) /\ Len(Order) = Len(Static) + Len(d)
      /\ \A k \in 1 .. Len(Static) + Len(d) : Order[k] = IF k <= Len(Static) THEN Static[k]
                                                         ELSE d[k - Len(Static)]
  <2> HIDE DEF S, d
  <2>1. Order = Static \o d
    BY DEF Order, d
  <2> QED BY <1>5, <2>1, ConcatProperties
<1> HIDE DEF S, d
<1>9. ASSUME NEW c \in known PROVE \E k \in 1 .. Len(Order) : Order[k] = c
  <2>1. CASE c \in StaticIds
    <3>1. PICK k \in 1 .. Len(Static) : Static[k] = c
      BY <2>1, <1>4
    <3>2. k \in 1 .. Len(Order) /\ Order[k] = c
      BY <3>1, <1>3, <1>6
    <3> QED BY <3>2
  <2>2. CASE c \notin StaticIds
    <3>1. PICK k \in 1 .. Len(d) : d[k] = c
      BY <2>2, <1>4
    <3>2. /\ Len(Static) + k \in 1 .. Len(Order) /\ ~ (Len(Static) + k <= Len(Static))
          /\ (Len(Static) + k) - Len(Static) = k
      BY <3>1, <1>3, <1>6
    <3>3. Order[Len(Static) + k] = c
      BY <3>1, <3>2, <1>6
    <3> QED BY <3>2, <3>3
  <2> QED BY <2>1, <2>2
<1>10. IsInjective(Order)
  <2> SUFFICES ASSUME NEW i \in 1 .. Len(Order), NEW j \in 1 .. Len(Order), Order[i] = Order[j]
               PROVE  i = j
    BY <1>6, LenProperties DEF IsInjective
  <2> DEFINE n == Len(Static)
  <2>1. n \in Nat /\ i \in Nat /\ j \in Nat /\ Len(Order) = n + Len(d) /\ Len(d) \in Nat
    BY <1>3, <1>6
  <2>2. /\ \A k \in 1 .. n : Order[k] = Static[k] /\ Order[k] \in StaticIds
        /\ \A k \in 1 .. n + Len(d) : ~ (k <= n) => /\ k - n \in 1 .. Len(d)
                                                  /\ Order[k] = d[k - n] /\ Order[k] \notin StaticIds
    BY <1>3, <1>4, <1>6
  <2>3. /\ \A k, l \in 1 .. n : Static[k] = Static[l] => k = l
        /\ \A k, l \in 1 .. Len(d) : d[k] = d[l] => k = l
    BY <1>1, <1>2, <1>3 DEF IsInjective
  <2> HIDE DEF n
  <2>4. CASE i <= n /\ j <= n
    <3>1. i \in 1 .. n /\ j \in 1 .. n
      BY <2>1, <2>4
    <3> QED BY <3>1, <2>2, <2>3
  <2>5. CASE ~ (i <= n) /\ ~ (j <= n)
    <3>1. i - n = j - n
      BY <2>1, <2>2, <2>3, <2>5
    <3> QED BY <3>1, <2>1
  <2>6. CASE (i <= n) # (j <= n)
    <3>1. (Order[i] \in StaticIds) # (Order[j] \in StaticIds)
      BY <2>1, <2>2, <2>6
    <3> QED BY <3>1
  <2> QED BY <2>4, <2>5, <2>6
<1> QED BY <1>6, <1>9, <1>10 DEF S

\* The children a restart starts again are known, and but for the one that
\* ended among those it kills.
LEMMA RestartedIs ==
    ASSUME Lists, NEW c \in known
    PROVE  /\ Restarted(c) \in Seq(known \cap Children) /\ IsInjective(Restarted(c))
           /\ \A j \in 1 .. Len(Restarted(c)) :
                 Restarted(c)[j] = c \/ Restarted(c)[j] \in Killable(c)
           /\ Killable(c) \subseteq known \ {c}
<1>0. /\ Order \in Seq(known \cap Children)
      /\ \E k \in 1 .. Len(Order) : Order[k] = c
      /\ IsInjective(Order)
  BY OrderIs
<1>1. c \in Children /\ known \subseteq Children
  BY DEF Lists
<1>2. CASE strategy = "one_for_one"
  <2>1. Restarted(c) = <<c>> /\ Killable(c) = {}
    BY <1>2 DEF Restarted, Killable
  <2>2. /\ <<c>> \in Seq(known \cap Children) /\ IsInjective(<<c>>)
        /\ \A j \in 1 .. Len(<<c>>) : <<c>>[j] = c
    BY <1>1 DEF IsInjective
  <2> QED BY <2>1, <2>2
<1>3. CASE strategy = "one_for_all"
  <2>1. Restarted(c) = Order /\ Killable(c) = known \ {c}
    BY <1>3 DEF Restarted, Killable
  <2>2. \A j \in 1 .. Len(Order) : Order[j] \in known
    BY <1>0, ElementOfSeq
  <2> QED BY <2>1, <2>2, <1>0
<1>4. CASE strategy \notin {"one_for_one", "one_for_all"}
  <2>1. Restarted(c) = From(c) /\ Killable(c) = ToSet(From(c)) \ {c}
    BY <1>4 DEF Restarted, Killable
  <2> DEFINE n == Len(Order)
             k == CHOOSE k \in DOMAIN Order : Order[k] = c
  <2>2. n \in Nat /\ DOMAIN Order = 1 .. n
    BY <1>0, LenProperties
  <2>3. k \in 1 .. n
    BY <2>2, <1>0
  <2>4. From(c) = SubSeq(Order, k, n)
    BY DEF From
  <2> HIDE DEF k, n
  <2>5. k \in 1 .. Len(Order) + 1 /\ n \in 0 .. Len(Order)
    BY <2>2, <2>3 DEF n
  <2>6. From(c) \in Seq(known \cap Children) /\ IsInjective(From(c))
    <3> DEFINE u == SubSeq(Order, k, n)
    <3>1. /\ u \in Seq(known \cap Children)
          /\ \A j \in 1 .. Len(u) : k + j - 1 \in k .. n /\ u[j] = Order[k + j - 1]
      BY ONLY <2>5, <1>0, PartOf
    <3> HIDE DEF u
    <3>2. DOMAIN u = 1 .. Len(u) /\ Len(u) \in Nat
      BY <3>1, LenProperties
    <3>3. ASSUME NEW i \in 1 .. Len(u), NEW j \in 1 .. Len(u), u[i] = u[j] PROVE i = j
      <4>1. /\ k + i - 1 \in DOMAIN Order /\ k + j - 1 \in DOMAIN Order
            /\ Order[k + i - 1] = Order[k + j - 1]
        BY <3>1, <3>3, <2>2, <2>3
      <4>2. k + i - 1 = k + j - 1
        BY <4>1, <1>0 DEF IsInjective
      <4> QED BY <4>2, <3>2, <2>3
    <3> QED BY <2>4, <3>1, <3>2, <3>3 DEF IsInjective, u
  <2>7. /\ \A j \in 1 .. Len(From(c)) : From(c)[j] \in known
        /\ DOMAIN From(c) = 1 .. Len(From(c))
    BY <2>6, ElementOfSeq, LenProperties
  <2>8. \A j \in 1 .. Len(From(c)) : From(c)[j] \in ToSet(From(c))
    BY <2>7 DEF ToSet
  <2>9. ToSet(From(c)) \subseteq known
    BY <2>7 DEF ToSet
  <2> QED BY <2>1, <2>6, <2>8, <2>9
<1> QED BY <1>2, <1>3, <1>4

\* list.remove of a list without repetition.
LEMMA RemovedFirst ==
    ASSUME NEW S, NEW seq \in Seq(S), IsInjective(seq), NEW e
    PROVE  /\ RemoveFirst(seq, e) \in Seq(S) /\ IsInjective(RemoveFirst(seq, e))
           /\ ToSet(RemoveFirst(seq, e)) = ToSet(seq) \ {e}
<1> DEFINE n == Len(seq)
           u == RemoveFirst(seq, e)
<1>1. n \in Nat /\ DOMAIN seq = 1 .. n /\ \A j \in 1 .. n : seq[j] \in S
  BY ElementOfSeq, LenProperties
<1>2. CASE ~ \E i \in 1 .. n : seq[i] = e
  <2>1. u = seq
    BY <1>2 DEF RemoveFirst
  <2>2. e \notin ToSet(seq)
    BY <1>1, <1>2 DEF ToSet
  <2> QED BY <2>1, <2>2
<1>3. CASE \E i \in 1 .. n : seq[i] = e
  <2> DEFINE I == {i \in 1 .. n : seq[i] = e}
             k == Min(I)
  <2>1. I # {} /\ I \in SUBSET Nat
    BY <1>3
  <2>2. k \in I
    <3>1. \E x \in I : \A y \in I : x <= y
      <4> HIDE DEF I
      <4> QED BY <2>1, LeastOf
    <3> QED BY <3>1 DEF Min
  <2>3. u = SubSeq(seq, 1, k - 1) \o SubSeq(seq, k + 1, n)
    BY <1>3, <2>1 DEF RemoveFirst, RemoveAt, SelectInSeq
  <2>4. k \in 1 .. n /\ seq[k] = e
    BY <2>2
  <2> HIDE DEF k, I, u
  <2> DEFINE v == SubSeq(seq, 1, k - 1)
             w == SubSeq(seq, k + 1, n)
  <2>5. 1 \in 1 .. n + 1 /\ k - 1 \in 0 .. n /\ k + 1 \in 1 .. n + 1 /\ n \in 0 .. n /\ k \in Nat
    BY <2>4, <1>1
  <2>6. /\ v \in Seq(S) /\ Len(v) = IF 1 <= k - 1 THEN k - 1 - 1 + 1 ELSE 0
        /\ \A j \in 1 .. Len(v) : v[j] = seq[1 + j - 1]
    BY <2>5, PartOf
  <2>7. /\ w \in Seq(S) /\ Len(w) = IF k + 1 <= n THEN n - (k + 1) + 1 ELSE 0
        /\ \A j \in 1 .. Len(w) : w[j] = seq[k + 1 + j - 1]
    BY <2>5, PartOf
  <2> HIDE DEF v, w
  <2>8. u = v \o w
    BY <2>3 DEF v, w
  <2>9. Len(v) = k - 1 /\ Len(w) = n - k
    <3>1. n \in Nat /\ k \in Nat /\ 1 <= k /\ k <= n
      BY <1>1, <2>4
    <3>2. Len(v) = k - 1
      BY ONLY <3>1, <2>6
    <3>3. Len(w) = n - k
      BY ONLY <3>1, <2>7
    <3> QED BY <3>2, <3>3
  <2>10. /\ u \in Seq(S) /\ Len(u) = Len(v) + Len(w)
         /\ \A j \in 1 .. Len(v) + Len(w) : u[j] = IF j <= Len(v) THEN v[j] ELSE w[j - Len(v)]
    BY <2>6, <2>7, <2>8, ConcatProperties
  <2>11. Len(u) = n - 1 /\ DOMAIN u = 1 .. n - 1
    <3>1. Len(u) = n - 1
      BY <1>1, <2>5, <2>9, <2>10
    <3> QED BY <3>1, <2>10, LenProperties
  <2>12. ASSUME NEW j \in 1 .. n - 1 PROVE u[j] = IF j < k THEN seq[j] ELSE seq[j + 1]
    <3>1. j \in 1 .. Len(v) + Len(w)
      BY <1>1, <2>5, <2>9
    <3>2. CASE j < k
      <4>1. j <= Len(v) /\ j \in 1 .. Len(v) /\ 1 + j - 1 = j
        BY <3>2, <2>5, <2>9
      <4> QED BY <3>1, <3>2, <4>1, <2>6, <2>10
    <3>3. CASE ~ (j < k)
      <4>1. ~ (j <= Len(v)) /\ j - Len(v) \in 1 .. Len(w) /\ k + 1 + (j - Len(v)) - 1 = j + 1
        BY <3>3, <1>1, <2>5, <2>9
      <4> QED BY <3>1, <3>3, <4>1, <2>7, <2>10
    <3> QED BY <3>2, <3>3
  <2>13. IsInjective(u)
    <3>1. ASSUME NEW i \in 1 .. n - 1, NEW j \in 1 .. n - 1, u[i] = u[j] PROVE i = j
      <4>1. i \in 1 .. n /\ i + 1 \in 1 .. n /\ j \in 1 .. n /\ j + 1 \in 1 .. n
        BY <1>1
      <4>2. \A a, b \in 1 .. n : seq[a] = seq[b] => a = b
        BY <1>1 DEF IsInjective
      <4> QED BY <3>1, <4>1, <4>2, <2>5, <2>12
    <3> QED BY <3>1, <2>11 DEF IsInjective
  <2>14. ASSUME NEW x PROVE x \in ToSet(u) <=> x \in ToSet(seq) \ {e}
    <3>1. ASSUME x \in ToSet(u) PROVE x \in ToSet(seq) \ {e}
      <4>1. PICK j \in 1 .. n - 1 : u[j] = x
        BY <3>1, <2>11 DEF ToSet
      <4>2. PICK i \in 1 .. n : seq[i] = x /\ i # k
        BY <4>1, <1>1, <2>5, <2>12
      <4>3. x # e
        BY <4>2, <2>4, <1>1 DEF IsInjective
      <4> QED BY <4>2, <4>3, <1>1 DEF ToSet
    <3>2. ASSUME x \in ToSet(seq) \ {e} PROVE x \in ToSet(u)
      <4>1. PICK i \in 1 .. n : seq[i] = x
        BY <3>2, <1>1 DEF ToSet
      <4>2. i # k
        BY <4>1, <3>2, <2>4
      <4>3. CASE i < k
        <5>1. i \in 1 .. n - 1
          BY <4>3, <1>1, <2>4
        <5>2. u[i] = x
          BY <5>1, <4>1, <4>3, <2>12
        <5> QED BY <5>1, <5>2, <2>11 DEF ToSet
      <4>4. CASE ~ (i < k)
        <5>1. i - 1 \in 1 .. n - 1 /\ ~ (i - 1 < k) /\ (i - 1) + 1 = i
          BY <4>2, <4>4, <1>1, <2>4
        <5>2. u[i - 1] = x
          BY <5>1, <4>1, <2>12
        <5> QED BY <5>1, <5>2, <2>11 DEF ToSet
      <4> QED BY <4>3, <4>4
    <3> QED BY <3>1, <3>2
  <2> QED BY <2>10, <2>13, <2>14 DEF u
<1> QED BY <1>2, <1>3

\* The child that a DOWN is about is known, and the reference is its own.
LEMMA OwnerIs ==
    ASSUME Lists, NEW r, Owners(r) # {}
    PROVE  FirstOwner(r) \in known /\ ref[FirstOwner(r)] = r
<1> DEFINE I == {k \in DOMAIN Order : Order[k] \in Owners(r)}
<1>1. /\ Order \in Seq(known \cap Children) /\ \A c \in known : \E k \in 1 .. Len(Order) : Order[k] = c
  BY OrderIs
<1>2. DOMAIN Order = 1 .. Len(Order) /\ Len(Order) \in Nat
  BY <1>1, LenProperties
<1>3. I # {} /\ I \in SUBSET Nat
  <2>1. PICK c \in Owners(r) : TRUE
    OBVIOUS
  <2>2. c \in known
    BY <2>1 DEF Owners
  <2>3. PICK k \in 1 .. Len(Order) : Order[k] = c
    BY <2>2, <1>1
  <2> QED BY <2>1, <2>3, <1>2
<1>4. PICK k \in I : \A y \in I : k <= y
  <2> HIDE DEF I
  <2> QED BY <1>3, LeastOf
<1>5. \A j \in 1 .. k - 1 : Order[j] \notin Owners(r)
  <2> SUFFICES ASSUME NEW j \in 1 .. k - 1, Order[j] \in Owners(r) PROVE FALSE
    OBVIOUS
  <2>1. k \in 1 .. Len(Order)
    BY <1>2, <1>4
  <2>2. j \in 1 .. Len(Order) /\ ~ (k <= j)
    BY <2>1, <1>2
  <2> QED BY <2>2, <1>2, <1>4
<1>6. FirstOwner(r) \in Owners(r)
  BY <1>4, <1>5 DEF FirstOwner
<1> QED BY <1>6 DEF Owners

\* A child at the end of the list that is not in it.
LEMMA Appended ==
    ASSUME NEW S, NEW seq \in Seq(S), IsInjective(seq), NEW e \in S, e \notin ToSet(seq)
    PROVE  /\ Append(seq, e) \in Seq(S) /\ IsInjective(Append(seq, e))
           /\ ToSet(Append(seq, e)) = ToSet(seq) \cup {e}
<1> DEFINE n == Len(seq)
           u == Append(seq, e)
<1>1. /\ n \in Nat /\ DOMAIN seq = 1 .. n /\ u \in Seq(S) /\ DOMAIN u = 1 .. n + 1
      /\ \A k \in 1 .. n : u[k] = seq[k]
      /\ u[n + 1] = e
  OBVIOUS
<1> HIDE DEF u, n
<1>2. \A k \in 1 .. n : seq[k] # e
  BY <1>1 DEF ToSet
<1>3. \A j, k \in 1 .. n : seq[j] = seq[k] => j = k
  BY <1>1 DEF IsInjective
<1>4. ASSUME NEW j \in 1 .. n + 1, NEW k \in 1 .. n + 1, u[j] = u[k] PROVE j = k
  <2>1. (j \in 1 .. n \/ j = n + 1) /\ (k \in 1 .. n \/ k = n + 1)
    BY <1>1
  <2> QED BY <2>1, <1>1, <1>2, <1>3, <1>4
<1>5. ToSet(u) = ToSet(seq) \cup {e}
  <2>1. ToSet(u) = {u[k] : k \in 1 .. n + 1} /\ ToSet(seq) = {seq[k] : k \in 1 .. n}
    BY <1>1 DEF ToSet
  <2>2. \A k \in 1 .. n + 1 : k \in 1 .. n \/ k = n + 1
    BY <1>1
  <2>3. (\A k \in 1 .. n : k \in 1 .. n + 1) /\ n + 1 \in 1 .. n + 1
    BY <1>1
  <2> QED BY <2>1, <2>2, <2>3, <1>1
<1> QED BY <1>1, <1>4, <1>5 DEF IsInjective, u

-----------------------------------------------------------------------------
(* Messages and references.                                                *)

Mute == {m \in Messages : m.tag \notin {"INIT_OK", "INIT_ERROR"}}
Plain == {m \in Mute : m.tag # "DOWN"}

\* What the messages carry.
LEMMA MessageKinds ==
    ASSUME NEW m \in Messages
    PROVE  /\ m.tag = "DOWN" => m.ref \in Refs /\ m.reason \in EndReasons
           /\ m.tag = "ADD_CHILD" => m.child \in Children /\ m.restart \in RestartTypes /\ m.from \in Clients
           /\ m.tag = "TERMINATE_CHILD" => m.child \in Children /\ m.from \in Clients
           /\ m.tag \in {"INIT_OK", "INIT_ERROR"} =>
                 m.inst \in Instances /\ m \in {INIT_OK(m.inst), INIT_ERROR(m.inst)}
<1>1. CASE m \in Requests
  BY <1>1 DEF Requests, ADD_CHILD, TERMINATE_CHILD, QUERY
<1>2. CASE \E r \in Refs, reason \in EndReasons : m = DOWN(r, reason)
  BY <1>2 DEF DOWN
<1>3. CASE \E i \in Instances : m = INIT_OK(i) \/ m = INIT_ERROR(i)
  BY <1>3 DEF INIT_OK, INIT_ERROR
<1>4. CASE m \in {NOTICE, STOP}
  BY <1>4 DEF NOTICE, STOP
<1> QED BY <1>1, <1>2, <1>3, <1>4 DEF Messages

\* The messages that are made.
LEMMA MessageTypes ==
    /\ NOTICE \in Plain /\ STOP \in Plain
    /\ \A i \in Instances : INIT_OK(i) \in Messages /\ INIT_ERROR(i) \in Messages
    /\ \A r \in Refs, reason \in EndReasons : DOWN(r, reason) \in Messages
    /\ Requests \subseteq Plain
<1>1. \A m \in Requests : m.tag \in {"ADD_CHILD", "TERMINATE_CHILD", "QUERY"}
  BY DEF Requests, ADD_CHILD, TERMINATE_CHILD, QUERY
<1>2. NOTICE.tag = "NOTICE" /\ STOP.tag = "STOP"
  BY DEF NOTICE, STOP
<1> QED BY <1>1, <1>2 DEF Messages, Plain, Mute

\* A plain message says nothing of a child.
LEMMA PlainSays ==
    /\ Plain \subseteq Truthful /\ Plain \subseteq Mute /\ Mute \subseteq Messages
    /\ Mute \subseteq Quiet /\ Mute \subseteq Said /\ Mute \subseteq Said'
  BY DEF Plain, Mute, Truthful, Quiet, ServerWord, Said

\* A word says nothing of a child's end, a DOWN is no word.
LEMMA WordSays ==
    /\ \A i \in Instances : INIT_OK(i) \in Truthful /\ INIT_ERROR(i) \in Truthful
    /\ \A r \in Refs, reason \in EndReasons : DOWN(r, reason) \in Mute
<1>1. \A i \in Instances : INIT_OK(i).tag = "INIT_OK" /\ INIT_ERROR(i).tag = "INIT_ERROR"
  BY DEF INIT_OK, INIT_ERROR
<1>2. \A r \in Refs, reason \in EndReasons : DOWN(r, reason).tag = "DOWN"
  BY DEF DOWN
<1> QED BY <1>1, <1>2, MessageTypes DEF Truthful, Mute

\* What was said stays said.
LEMMA SaidKept ==
    ASSUME \A i \in Instances : task[i] \notin {"absent", "init"} => task'[i] \notin {"absent", "init"}
    PROVE  Said \subseteq Said'
  BY MessageKinds DEF Said

\* What was true stays true while nothing new is on record and the ended stay ended.
LEMMA TruthfulKept ==
    ASSUME \A c \in Children : ref'[c] # None => ref'[c] = ref[c] /\ pid'[c] = pid[c],
           \A c \in Children : pid[c] # None /\ task[pid[c]] \in EndReasons
                                  => task'[pid[c]] = task[pid[c]]
    PROVE  Truthful \subseteq Truthful'
<1> SUFFICES ASSUME NEW m \in Truthful PROVE m \in Truthful'
  OBVIOUS
<1>1. m \in Messages
  BY DEF Truthful
<1>2. ASSUME m.tag = "DOWN", NEW c \in Children, ref'[c] = m.ref
      PROVE  pid'[c] # None /\ task'[pid'[c]] = m.reason
  <2>1. m.ref # None /\ m.reason \in EndReasons
    BY <1>1, <1>2, MessageKinds, DynamicSupervisorAssumption
  <2>2. ref[c] = m.ref /\ pid'[c] = pid[c]
    BY <1>2, <2>1
  <2>3. pid[c] # None /\ task[pid[c]] = m.reason
    BY <1>2, <2>2 DEF Truthful
  <2> QED BY <2>1, <2>2, <2>3
<1> QED BY <1>1, <1>2 DEF Truthful

\* The setup does not change, nor does what a server's word is.
LEMMA QuietKept ==
    ASSUME setup' = setup
    PROVE  Quiet' = Quiet /\ \A i \in Instances : Server(i)' = Server(i)
  BY DEF Quiet, ServerWord, Server

\* One word at most, when quiet messages come after it ...
LEMMA OneMore ==
    ASSUME NEW W, NEW s \in Seq(Messages), OneOf(s, W), NEW t \in Seq(Quiet)
    PROVE  OneOf(s \o t, W)
<1>1. t \in Seq(Messages)
  BY SeqWiden DEF Quiet
<1>2. CASE s \in Seq(Quiet)
  BY <1>2, SeqFacts DEF OneOf
<1>3. ASSUME NEW k \in DOMAIN s, s[k] \in W, \A j \in DOMAIN s : j # k => s[j] \in Quiet
      PROVE  OneOf(s \o t, W)
  <2>1. /\ DOMAIN (s \o t) = 1 .. Len(s) + Len(t) /\ DOMAIN s = 1 .. Len(s)
        /\ DOMAIN t = 1 .. Len(t) /\ Len(s) \in Nat /\ Len(t) \in Nat
        /\ \A j \in DOMAIN (s \o t) : (s \o t)[j] = IF j <= Len(s) THEN s[j] ELSE t[j - Len(s)]
    BY <1>1, SeqFacts
  <2>2. \A j \in 1 .. Len(t) : t[j] \in Quiet
    BY ElementOfSeq
  <2>3. k \in DOMAIN (s \o t) /\ (s \o t)[k] \in W
    BY <1>3, <2>1
  <2>4. ASSUME NEW j \in DOMAIN (s \o t), j # k PROVE (s \o t)[j] \in Quiet
    <3>1. CASE j <= Len(s)
      BY <3>1, <2>1, <2>4, <1>3
    <3>2. CASE ~ (j <= Len(s))
      BY <3>2, <2>1, <2>2
    <3> QED BY <3>1, <3>2
  <2> QED BY <2>3, <2>4 DEF OneOf
<1> QED BY <1>2, <1>3 DEF OneOf

\* ... when it is said ...
LEMMA OneSaid ==
    ASSUME NEW W, NEW s \in Seq(Quiet), NEW w \in W
    PROVE  OneOf(s \o <<w>>, W)
<1> DEFINE n == Len(s)
           u == s \o <<w>>
<1>1. /\ n \in Nat /\ DOMAIN u = 1 .. n + 1 /\ u[n + 1] = w
      /\ \A j \in 1 .. n : u[j] = s[j] /\ s[j] \in Quiet
  OBVIOUS
<1> HIDE DEF u, n
<1>2. n + 1 \in DOMAIN u /\ \A j \in DOMAIN u : j # n + 1 => u[j] \in Quiet
  BY <1>1
<1> QED BY <1>1, <1>2 DEF OneOf, u

\* ... when a quiet one is read before it ...
LEMMA OneWaits ==
    ASSUME NEW W, NEW s \in Seq(Messages), s # <<>>, OneOf(s, W), Head(s) \in Quiet
    PROVE  OneOf(Tail(s), W)
<1>1. CASE s \in Seq(Quiet)
  BY <1>1, SeqFacts DEF OneOf
<1>2. ASSUME NEW k \in DOMAIN s, s[k] \in W, \A j \in DOMAIN s : j # k => s[j] \in Quiet
      PROVE  OneOf(Tail(s), W)
  <2>1. /\ DOMAIN s = 1 .. Len(s) /\ Len(s) \in Nat /\ Head(s) = s[1] /\ Tail(s) \in Seq(Messages)
        /\ DOMAIN Tail(s) = 1 .. Len(s) - 1
        /\ \A j \in 1 .. Len(s) - 1 : Tail(s)[j] = s[j + 1]
    OBVIOUS
  <2>2. CASE k = 1
    <3>1. \A j \in DOMAIN s : s[j] \in Quiet
      BY <2>1, <2>2, <1>2
    <3>2. \A j \in DOMAIN Tail(s) : j + 1 \in DOMAIN s /\ Tail(s)[j] = s[j + 1]
      BY <2>1
    <3>3. \A j \in DOMAIN Tail(s) : Tail(s)[j] \in Quiet
      BY <3>1, <3>2
    <3>4. Tail(s) \in Seq(Quiet)
      BY <2>1, <3>3, SeqOver
    <3> QED BY <3>4 DEF OneOf
  <2>3. CASE k # 1
    <3>1. k - 1 \in DOMAIN Tail(s) /\ Tail(s)[k - 1] \in W
      <4>1. k \in Nat /\ k - 1 \in 1 .. Len(s) - 1 /\ (k - 1) + 1 = k
        BY <2>1, <2>3, <1>2
      <4> QED BY <4>1, <2>1, <1>2
    <3>2. ASSUME NEW j \in DOMAIN Tail(s), j # k - 1 PROVE Tail(s)[j] \in Quiet
      <4>1. j + 1 \in DOMAIN s /\ j + 1 # k
        BY <2>1, <3>2, <1>2
      <4> QED BY <4>1, <2>1, <1>2
    <3> QED BY <3>1, <3>2 DEF OneOf
  <2> QED BY <2>2, <2>3
<1> QED BY <1>1, <1>2 DEF OneOf

\* ... and when it is read.
LEMMA OneRead ==
    ASSUME NEW W, NEW s \in Seq(Messages), s # <<>>, OneOf(s, W), Head(s) \notin Quiet
    PROVE  Head(s) \in W /\ Tail(s) \in Seq(Quiet)
<1>1. /\ DOMAIN s = 1 .. Len(s) /\ Len(s) \in Nat /\ Len(s) # 0 /\ Head(s) = s[1]
      /\ Tail(s) \in Seq(Messages) /\ DOMAIN Tail(s) = 1 .. Len(s) - 1
      /\ \A j \in 1 .. Len(s) - 1 : Tail(s)[j] = s[j + 1]
  OBVIOUS
<1>2. s \notin Seq(Quiet)
  BY SeqFacts
<1>3. PICK k \in DOMAIN s : s[k] \in W /\ \A j \in DOMAIN s : j # k => s[j] \in Quiet
  BY <1>2 DEF OneOf
<1>4. k = 1
  BY <1>1, <1>3
<1>5. \A j \in DOMAIN Tail(s) : Tail(s)[j] \in Quiet
  <2>1. \A j \in DOMAIN Tail(s) : j + 1 \in DOMAIN s /\ j + 1 # k /\ Tail(s)[j] = s[j + 1]
    BY <1>1, <1>4
  <2> QED BY <2>1, <1>3
<1> QED BY <1>1, <1>3, <1>4, <1>5, SeqOver

\* The next reference is in range.
LEMMA NextReference ==
    ASSUME DynamicIInv
    PROVE  Cardinality(refs) \in Refs /\ Cardinality(refs) # None
<1> DEFINE I == {watched[i] : i \in Instances}
<1>1. IsFiniteSet(I) /\ Cardinality(I) <= Cardinality(Instances)
  <2> DEFINE f == [i \in Instances |-> watched[i]]
  <2>1. f \in Surjection(Instances, I)
    BY DEF Surjection
  <2> QED BY <2>1, FinitelyMany, FS_Surjection
<1>2. refs \subseteq I
  BY DEF DynamicIInv, Watches
<1>3. IsFiniteSet(refs) /\ Cardinality(refs) <= Cardinality(I)
  BY <1>1, <1>2, FS_Subset
<1>4. Cardinality(refs) \in Nat /\ Cardinality(I) \in Nat
  BY <1>1, <1>3, FS_CardinalityType
<1>5. Cardinality(refs) \in Refs
  BY <1>1, <1>3, <1>4, FinitelyMany DEF Refs
<1> QED BY <1>5, DynamicSupervisorAssumption

-----------------------------------------------------------------------------
(* Children.                                                               *)

\* The words of an instance that ends.
Obituary(i, reason) ==
    (IF reason = CRASH THEN <<NOTICE>> ELSE <<>>)
      \o (IF watched[i] # None THEN <<DOWN(watched[i], reason)>> ELSE <<>>)

\* They are messages, and no server's init word.
LEMMA ObituaryQuiet ==
    ASSUME NEW i \in Instances, NEW reason \in EndReasons, watched \in [Instances -> Refs \cup {None}]
    PROVE  /\ Obituary(i, reason) \in Seq(Quiet) /\ Obituary(i, reason) \in Seq(Messages)
           /\ Obituary(i, reason) \in Seq(Said')
<1>1. NOTICE \in Mute
  BY MessageTypes, PlainSays
<1>2. watched[i] # None => DOWN(watched[i], reason) \in Mute
  BY WordSays
<1>3. Obituary(i, reason) \in Seq(Mute)
  <2>1. (IF reason = CRASH THEN <<NOTICE>> ELSE <<>>) \in Seq(Mute)
    BY <1>1
  <2>2. (IF watched[i] # None THEN <<DOWN(watched[i], reason)>> ELSE <<>>) \in Seq(Mute)
    BY <1>2
  <2> QED BY <2>1, <2>2, SeqFacts DEF Obituary
<1> QED BY <1>3, PlainSays, SeqWiden

\* While references are clear the obituary is true, of the child on record.
LEMMA ObituaryTrue ==
    ASSUME DynamicIInv, ~confused, NEW i \in Instances, NEW reason \in EndReasons,
           task' = [task EXCEPT ![i] = reason], pid' = pid, ref' = ref
    PROVE  Obituary(i, reason) \in Seq(Truthful')
<1>1. /\ watched \in [Instances -> Refs \cup {None}] /\ task \in [Instances -> Statuses]
      /\ pid \in [Children -> Instances \cup {None}]
  BY DEF DynamicIInv, Things
<1>2. NOTICE \in Truthful'
  BY MessageTypes DEF Plain, Mute, Truthful
<1>3. ASSUME watched[i] # None PROVE DOWN(watched[i], reason) \in Truthful'
  <2>1. /\ task[i] = "up" /\ i # awaiting /\ i \notin given_up /\ i # None
        /\ Running /\ NoStrays
        /\ \A c, d \in Children : ref[c] = ref[d] /\ ref[c] # None => c = d
    BY <1>3, DynamicSupervisorAssumption DEF DynamicIInv, Watches, UnderWay, Clear
  <2>2. i[1] \in known /\ pid[i[1]] = i /\ watched[i] = ref[i[1]] /\ ref[i[1]] # None
    BY <2>1 DEF NoStrays, IsAlive
  <2>3. i[1] \in Children
    BY <2>2 DEF DynamicIInv, Lists
  <2>4. \A c \in Children : ref[c] = watched[i] => pid[c] = i /\ task'[i] = reason /\ i # None
    BY <2>1, <2>2, <2>3, <1>1
  <2>5. /\ DOWN(watched[i], reason) \in Messages /\ DOWN(watched[i], reason).ref = watched[i]
        /\ DOWN(watched[i], reason).reason = reason
    BY <1>1, <1>3, MessageTypes DEF DOWN
  <2> HIDE DEF DOWN
  <2> QED BY <2>4, <2>5 DEF Truthful
<1>4. (IF reason = CRASH THEN <<NOTICE>> ELSE <<>>) \in Seq(Truthful')
  BY <1>2
<1>5. (IF watched[i] # None THEN <<DOWN(watched[i], reason)>> ELSE <<>>) \in Seq(Truthful')
  BY <1>3
<1> QED BY <1>4, <1>5, SeqFacts DEF Obituary

\* The end of an instance, after a word or none, keeps the invariant.
LEMMA EndKeeps ==
    ASSUME DynamicIInv, setup' = setup, NEW i \in Instances, NEW reason \in EndReasons,
           NEW words, End(i, reason, words),
           \/ words = <<>> /\ task[i] = "up"
           \/ words = <<INIT_ERROR(i)>> /\ task[i] = "init" /\ Server(i)
    PROVE  DynamicIInv'
<1> DEFINE own == Obituary(i, reason)
<1>1. /\ task' = [task EXCEPT ![i] = reason] /\ cancelled' = cancelled \ {i}
      /\ watched' = [watched EXCEPT ![i] = None] /\ refs' = refs \ {watched[i]}
      /\ UNCHANGED supVars
  BY DEF End
<1>2. /\ Lists /\ Fields /\ Things /\ Watches /\ Records /\ UnderWay /\ Spoken /\ Clear /\ Prompt
  BY DEF DynamicIInv
<1>3. /\ sup' = sup /\ known' = known /\ dynamic_children' = dynamic_children /\ restart' = restart
      /\ todo' = todo /\ adding' = adding /\ awaiting' = awaiting /\ buffered' = buffered
      /\ pid' = pid /\ ref' = ref /\ failures' = failures /\ given_up' = given_up
      /\ pending_terminations' = pending_terminations /\ confused' = confused
  BY <1>1 DEF supVars, tableVars, startVars
<1>4. /\ watched \in [Instances -> Refs \cup {None}] /\ task \in [Instances -> Statuses]
      /\ pid \in [Children -> Instances \cup {None}] /\ mailbox \in Seq(Messages)
      /\ reason \in Statuses /\ reason \notin {"init", "up", "absent", "killed"}
      /\ i # None
  BY <1>2, DynamicSupervisorAssumption DEF Things, Statuses, EndReasons, NORMAL, SHUTDOWN, CRASH
<1>5. /\ \A j \in Instances : task'[j] = IF j = i THEN reason ELSE task[j]
      /\ \A j \in Instances : watched'[j] = IF j = i THEN None ELSE watched[j]
      /\ \A j : IsAlive(j)' /\ j \in Instances => IsAlive(j) /\ j # i
      /\ \A j : IsAlive(j) /\ j \in Instances /\ j # i => IsAlive(j)'
      /\ task[i] \in {"init", "up"}
  BY <1>1, <1>4 DEF IsAlive
<1>6. own \in Seq(Quiet) /\ own \in Seq(Messages) /\ own \in Seq(Said')
  BY <1>4, ObituaryQuiet
<1>7. INIT_ERROR(i) \in Messages /\ words \in Seq(Messages)
  <2>1. INIT_ERROR(i) \in Messages
    BY MessageTypes
  <2>2. <<>> \in Seq(Messages) /\ <<INIT_ERROR(i)>> \in Seq(Messages)
    BY <2>1
  <2> QED BY <2>1, <2>2, Zenon
<1>8. mailbox' = IF Running THEN mailbox \o (words \o own) ELSE mailbox
  <2>1. mailbox' = IF Running
                     THEN mailbox \o (words \o (IF reason = CRASH THEN <<NOTICE>> ELSE <<>>)
                       \o (IF watched[i] # None THEN <<DOWN(watched[i], reason)>> ELSE <<>>))
                     ELSE mailbox
    BY DEF End, Tell
  <2>2. /\ (IF reason = CRASH THEN <<NOTICE>> ELSE <<>>) \in Seq(Messages)
        /\ (IF watched[i] # None THEN <<DOWN(watched[i], reason)>> ELSE <<>>) \in Seq(Messages)
    BY <1>4, MessageTypes DEF Plain, Mute
  <2>3. \A s, t, u \in Seq(Messages) : s \o t \o u = s \o (t \o u)
    OBVIOUS
  <2> QED BY <2>1, <2>2, <2>3, <1>7 DEF Obituary
<1> HIDE DEF own
<1>9. Lists' /\ Fields'
  BY <1>2, <1>3 DEF Lists, Fields
<1>10. Things'
  <2>1. mailbox' \in Seq(Messages)
    BY <1>4, <1>6, <1>7, <1>8, SeqFacts
  <2>2. task' \in [Instances -> Statuses] /\ watched' \in [Instances -> Refs \cup {None}]
    BY <1>1, <1>4
  <2> QED BY <2>1, <2>2, <1>1, <1>2, <1>3 DEF Things
<1>11. Watches'
  <2>1. ASSUME NEW r \in refs' PROVE \E j \in Instances : watched'[j] = r
    <3>1. r \in refs /\ r # watched[i]
      BY <2>1, <1>1
    <3>2. PICK j \in Instances : watched[j] = r
      BY <3>1, <1>2 DEF Watches
    <3> QED BY <3>1, <3>2, <1>5
  <2>2. \A j \in Instances : watched'[j] # None => task'[j] = "up" /\ j # awaiting' /\ j \notin given_up'
    BY <1>2, <1>3, <1>5 DEF Watches
  <2>3. /\ \A j \in cancelled' : task'[j] = "up"
        /\ \A j \in given_up' : task'[j] # "absent"
    <3>1. cancelled \subseteq Instances /\ given_up \subseteq Instances
      BY <1>2 DEF Things
    <3> QED BY <3>1, <1>1, <1>2, <1>3, <1>4, <1>5 DEF Watches
  <2> QED BY <2>1, <2>2, <2>3 DEF Watches
<1>12. Records'
  <2>1. ASSUME NEW c \in Children, pid[c] # None
        PROVE  c \in known /\ pid[c][1] = c /\ task'[pid[c]] \notin {"absent", "init"}
    <3>1. pid[c] \in Instances
      BY <2>1, <1>4
    <3>2. c \in known /\ pid[c][1] = c /\ task[pid[c]] \notin {"absent", "init"}
      BY <2>1, <1>2 DEF Records
    <3> QED BY <3>1, <3>2, <1>4, <1>5
  <2> QED BY <2>1, <1>2, <1>3 DEF Records
<1>13. UnderWay'
  <2>1. awaiting # None => task'[awaiting] # "absent"
    BY <1>2, <1>4, <1>5 DEF UnderWay
  <2>2. ~Running => mailbox' = <<>> /\ \A j \in Instances : watched'[j] = None
    BY <1>2, <1>5, <1>8 DEF UnderWay
  <2>3. Running' <=> Running
    BY <1>3 DEF Running
  <2> QED BY <2>1, <2>2, <2>3, <1>2, <1>3 DEF UnderWay
<1>14. Clear'
  <2> SUFFICES ASSUME ~confused
               PROVE  /\ mailbox' \in Seq(Truthful') /\ buffered' \in Seq(Truthful')
                      /\ NoStrays' /\ NoOrphans'
                      /\ \A c, d \in Children : ref'[c] = ref'[d] /\ ref'[c] # None => c = d
                      /\ \A k \in DOMAIN todo' : ~IsAlive(pid[todo[k]])'
    BY <1>3 DEF Clear
  <2>1. /\ mailbox \in Seq(Truthful) /\ buffered \in Seq(Truthful) /\ NoStrays /\ NoOrphans
        /\ \A c, d \in Children : ref[c] = ref[d] /\ ref[c] # None => c = d
        /\ \A k \in DOMAIN todo : ~IsAlive(pid[todo[k]])
    BY <1>2 DEF Clear
  <2>2. Truthful \subseteq Truthful'
    <3>1. ASSUME NEW c \in Children, pid[c] # None, task[pid[c]] \in EndReasons
          PROVE  task'[pid[c]] = task[pid[c]]
      <4>1. task[i] \notin EndReasons
        BY <1>5 DEF EndReasons, NORMAL, SHUTDOWN, CRASH
      <4>2. pid[c] \in Instances
        BY <3>1, <1>4
      <4> QED BY <4>1, <4>2, <3>1, <1>5
    <3> QED BY <3>1, <1>3, TruthfulKept
  <2>3. own \in Seq(Truthful')
    BY <1>1, <1>3, ObituaryTrue DEF own
  <2>4. words \in Seq(Truthful')
    <3>1. INIT_ERROR(i) \in Truthful'
      BY <2>2, WordSays
    <3>2. <<>> \in Seq(Truthful') /\ <<INIT_ERROR(i)>> \in Seq(Truthful')
      BY <3>1
    <3> QED BY <3>2, Zenon
  <2>5. mailbox \in Seq(Truthful') /\ buffered \in Seq(Truthful')
    BY <2>1, <2>2, SeqWiden
  <2>6. mailbox' \in Seq(Truthful')
    BY <2>3, <2>4, <2>5, <1>8, SeqFacts
  <2>7. NoStrays'
    BY <2>1, <1>3, <1>5 DEF NoStrays, Running
  <2>8. NoOrphans'
    BY <2>1, <1>1, <1>3, <1>5 DEF NoOrphans, Live
  <2>9. \A k \in DOMAIN todo' : ~IsAlive(pid[todo[k]])'
    <3>1. \A k \in DOMAIN todo : todo[k] \in Children
      BY <1>2 DEF UnderWay, Lists
    <3>2. \A c \in Children : IsAlive(pid[c])' => IsAlive(pid[c])
      BY <1>3, <1>4, <1>5 DEF IsAlive
    <3> QED BY <3>1, <3>2, <2>1, <1>3
  <2> QED BY <2>1, <2>5, <2>6, <2>7, <2>8, <2>9, <1>3
<1>15. Prompt'
  <2> SUFFICES ASSUME "slow" \notin setup.faults
               PROVE  /\ GivenUpSeldom'
                      /\ \A j \in Instances : task'[j] = "init" /\ Server(j)' => j = awaiting'
                      /\ buffered' \in Seq(Quiet') /\ OneOf(mailbox, WordOf(awaiting))'
    BY DEF Prompt
  <2>1. /\ GivenUpSeldom /\ buffered \in Seq(Quiet) /\ OneOf(mailbox, WordOf(awaiting))
        /\ \A j \in Instances : task[j] = "init" /\ Server(j) => j = awaiting
    BY <1>2 DEF Prompt
  <2>2. Quiet' = Quiet /\ \A j \in Instances : Server(j)' = Server(j)
    BY QuietKept
  <2>3. GivenUpSeldom'
    BY <2>1, <2>2, <1>2, <1>3 DEF GivenUpSeldom, Things
  <2>4. \A j \in Instances : task'[j] = "init" /\ Server(j)' => j = awaiting'
    BY <2>1, <2>2, <1>3, <1>4, <1>5
  <2>5. WordOf(awaiting) \subseteq WordOf(awaiting)'
    <3>1. awaiting # None => awaiting \in Instances
      BY <1>2 DEF UnderWay
    <3> QED BY <3>1, <1>3, <1>4, <1>5 DEF WordOf
  <2>6. OneOf(mailbox, WordOf(awaiting)')
    BY <2>1, <2>5 DEF OneOf
  <2>7. OneOf(mailbox', WordOf(awaiting)')
    <3>1. CASE ~Running
      BY <3>1, <2>6, <1>8
    <3>2. CASE Running /\ words = <<>>
      <4>1. mailbox' = mailbox \o own
        BY <3>2, <1>6, <1>8
      <4> QED BY <4>1, <2>6, <1>4, <1>6, OneMore
    <3>3. CASE Running /\ words = <<INIT_ERROR(i)>> /\ task[i] = "init" /\ Server(i)
      <4>1. i = awaiting
        BY <3>3, <2>1
      <4>2. mailbox \in Seq(Quiet)
        <5>1. WordOf(awaiting) = {}
          BY <4>1, <3>3 DEF WordOf
        <5> QED BY <5>1, <2>1 DEF OneOf
      <4>3. INIT_ERROR(i) \in WordOf(awaiting)'
        BY <4>1, <1>3, <1>4, <1>5 DEF WordOf
      <4>4. OneOf(mailbox \o <<INIT_ERROR(i)>>, WordOf(awaiting)')
        BY <4>2, <4>3, OneSaid
      <4>5. /\ mailbox \o <<INIT_ERROR(i)>> \in Seq(Messages)
            /\ mailbox' = (mailbox \o <<INIT_ERROR(i)>>) \o own
        BY <3>3, <1>4, <1>6, <1>7, <1>8
      <4> QED BY <4>4, <4>5, <1>6, OneMore
    <3> QED BY <3>1, <3>2, <3>3
  <2> QED BY <2>1, <2>2, <2>3, <2>4, <2>7, <1>3 DEF OneOf
<1>16. Spoken'
  <2>1. Said \subseteq Said'
    BY <1>4, <1>5, SaidKept
  <2>2. INIT_ERROR(i) \in Said'
    <3>1. INIT_ERROR(i).inst = i
      BY DEF INIT_ERROR
    <3> QED BY <3>1, <1>4, <1>5, <1>7 DEF Said
  <2>3. words \in Seq(Said')
    <3>1. <<>> \in Seq(Said') /\ <<INIT_ERROR(i)>> \in Seq(Said')
      BY <2>2
    <3> QED BY <3>1, Zenon
  <2>4. mailbox \in Seq(Said) /\ buffered' \in Seq(Said)
    BY <1>2, <1>3 DEF Spoken
  <2>5. mailbox \in Seq(Said') /\ buffered' \in Seq(Said')
    <3> HIDE DEF Said
    <3> QED BY <2>1, <2>4, SeqWiden
  <2> QED BY <2>3, <2>5, <1>6, <1>8, SeqFacts DEF Spoken
<1> QED BY <1>9, <1>10, <1>11, <1>12, <1>13, <1>14, <1>15, <1>16 DEF DynamicIInv

\* The first word of an instance keeps the invariant.
LEMMA InitOkKeeps ==
    ASSUME DynamicIInv, setup' = setup, NEW i \in Instances, InitOk(i)
    PROVE  DynamicIInv'
<1>1. /\ task[i] = "init" /\ task' = [task EXCEPT ![i] = "up"]
      /\ cancelled' = cancelled /\ watched' = watched /\ refs' = refs
      /\ mailbox' = IF Running THEN mailbox \o <<INIT_OK(i)>> ELSE mailbox
  BY DEF InitOk, Tell
<1>2. /\ Lists /\ Fields /\ Things /\ Watches /\ Records /\ UnderWay /\ Spoken /\ Clear /\ Prompt
  BY DEF DynamicIInv
<1>3. /\ sup' = sup /\ known' = known /\ dynamic_children' = dynamic_children /\ restart' = restart
      /\ todo' = todo /\ adding' = adding /\ awaiting' = awaiting /\ buffered' = buffered
      /\ pid' = pid /\ ref' = ref /\ failures' = failures /\ given_up' = given_up
      /\ pending_terminations' = pending_terminations /\ confused' = confused
  BY DEF InitOk, supVars, tableVars, startVars
<1>4. /\ task \in [Instances -> Statuses] /\ pid \in [Children -> Instances \cup {None}]
      /\ mailbox \in Seq(Messages)
      /\ "up" \in Statuses /\ i # None
  BY <1>2, DynamicSupervisorAssumption DEF Things, Statuses
<1>5. /\ \A j \in Instances : task'[j] = IF j = i THEN "up" ELSE task[j]
      /\ \A j : j \in Instances \/ j = None => (IsAlive(j)' <=> IsAlive(j))
  BY <1>1, <1>4 DEF IsAlive
<1>6. INIT_OK(i) \in Messages
  BY MessageTypes
<1>7. <<INIT_OK(i)>> \in Seq(Messages)
  BY <1>6
<1>9. Lists' /\ Fields'
  BY <1>2, <1>3 DEF Lists, Fields
<1>10. Things'
  <2>1. mailbox' \in Seq(Messages)
    BY <1>1, <1>4, <1>7, SeqFacts
  <2>2. task' \in [Instances -> Statuses]
    BY <1>1, <1>4
  <2> QED BY <2>1, <2>2, <1>1, <1>2, <1>3 DEF Things
<1>11. Watches'
  <2>1. cancelled \subseteq Instances /\ given_up \subseteq Instances
    BY <1>2 DEF Things
  <2> QED BY <2>1, <1>1, <1>2, <1>3, <1>5 DEF Watches
<1>12. Records'
  <2>1. ASSUME NEW c \in Children, pid[c] # None
        PROVE  c \in known /\ pid[c][1] = c /\ task'[pid[c]] \notin {"absent", "init"}
    <3>1. pid[c] \in Instances
      BY <2>1, <1>4
    <3>2. c \in known /\ pid[c][1] = c /\ task[pid[c]] \notin {"absent", "init"}
      BY <2>1, <1>2 DEF Records
    <3> QED BY <3>1, <3>2, <1>5
  <2> QED BY <2>1, <1>2, <1>3 DEF Records
<1>13. UnderWay'
  <2>1. awaiting # None => task'[awaiting] # "absent"
    BY <1>2, <1>5 DEF UnderWay
  <2>2. ~Running => mailbox' = <<>>
    BY <1>1, <1>2 DEF UnderWay
  <2>3. Running' <=> Running
    BY <1>3 DEF Running
  <2> QED BY <2>1, <2>2, <2>3, <1>1, <1>2, <1>3 DEF UnderWay
<1>14. Clear'
  <2> SUFFICES ASSUME ~confused
               PROVE  /\ mailbox' \in Seq(Truthful') /\ buffered' \in Seq(Truthful')
                      /\ NoStrays' /\ NoOrphans'
                      /\ \A c, d \in Children : ref'[c] = ref'[d] /\ ref'[c] # None => c = d
                      /\ \A k \in DOMAIN todo' : ~IsAlive(pid[todo[k]])'
    BY <1>3 DEF Clear
  <2>1. /\ mailbox \in Seq(Truthful) /\ buffered \in Seq(Truthful) /\ NoStrays /\ NoOrphans
        /\ \A c, d \in Children : ref[c] = ref[d] /\ ref[c] # None => c = d
        /\ \A k \in DOMAIN todo : ~IsAlive(pid[todo[k]])
    BY <1>2 DEF Clear
  <2>2. Truthful \subseteq Truthful'
    <3>1. ASSUME NEW c \in Children, pid[c] # None, task[pid[c]] \in EndReasons
          PROVE  task'[pid[c]] = task[pid[c]]
      <4>1. task[i] \notin EndReasons
        BY <1>1 DEF EndReasons, NORMAL, SHUTDOWN, CRASH
      <4>2. pid[c] \in Instances
        BY <3>1, <1>4
      <4> QED BY <4>1, <4>2, <3>1, <1>5
    <3> QED BY <3>1, <1>3, TruthfulKept
  <2>3. INIT_OK(i) \in Truthful'
    BY <2>2, WordSays
  <2>4. <<INIT_OK(i)>> \in Seq(Truthful')
    BY <2>3
  <2>5. mailbox \in Seq(Truthful') /\ buffered \in Seq(Truthful')
    BY <2>1, <2>2, SeqWiden
  <2>6. mailbox' \in Seq(Truthful')
    BY <2>4, <2>5, <1>1, SeqFacts
  <2>7. NoStrays'
    BY <2>1, <1>1, <1>3, <1>5 DEF NoStrays, Running
  <2>8. NoOrphans'
    BY <2>1, <1>1, <1>3, <1>5 DEF NoOrphans, Live
  <2>9. \A k \in DOMAIN todo' : ~IsAlive(pid[todo[k]])'
    <3>1. \A k \in DOMAIN todo : todo[k] \in Children
      BY <1>2 DEF UnderWay, Lists
    <3>2. \A c \in Children : IsAlive(pid[c])' => IsAlive(pid[c])
      BY <1>3, <1>4, <1>5 DEF IsAlive
    <3> QED BY <3>1, <3>2, <2>1, <1>3
  <2> QED BY <2>1, <2>5, <2>6, <2>7, <2>8, <2>9, <1>3
<1>15. Prompt'
  <2> SUFFICES ASSUME "slow" \notin setup.faults
               PROVE  /\ GivenUpSeldom'
                      /\ \A j \in Instances : task'[j] = "init" /\ Server(j)' => j = awaiting'
                      /\ buffered' \in Seq(Quiet') /\ OneOf(mailbox, WordOf(awaiting))'
    BY DEF Prompt
  <2>1. /\ GivenUpSeldom /\ buffered \in Seq(Quiet) /\ OneOf(mailbox, WordOf(awaiting))
        /\ \A j \in Instances : task[j] = "init" /\ Server(j) => j = awaiting
    BY <1>2 DEF Prompt
  <2>2. Quiet' = Quiet /\ \A j \in Instances : Server(j)' = Server(j)
    BY QuietKept
  <2>3. GivenUpSeldom'
    BY <2>1, <2>2, <1>2, <1>3 DEF GivenUpSeldom, Things
  <2>4. \A j \in Instances : task'[j] = "init" /\ Server(j)' => j = awaiting'
    BY <2>1, <2>2, <1>3, <1>5
  <2>5. WordOf(awaiting) \subseteq WordOf(awaiting)'
    <3>1. awaiting # None => awaiting \in Instances
      BY <1>2 DEF UnderWay
    <3> QED BY <3>1, <1>3, <1>5 DEF WordOf
  <2>6. OneOf(mailbox, WordOf(awaiting)')
    BY <2>1, <2>5 DEF OneOf
  <2>7. OneOf(mailbox', WordOf(awaiting)')
    <3>1. CASE ~Running
      BY <3>1, <2>6, <1>1
    <3>2. CASE Running /\ ~Server(i)
      <4>1. INIT_OK(i) \in Quiet
        BY <3>2, <1>6 DEF Quiet, ServerWord, INIT_OK
      <4>2. <<INIT_OK(i)>> \in Seq(Quiet) /\ mailbox' = mailbox \o <<INIT_OK(i)>>
        BY <4>1, <3>2, <1>1
      <4> QED BY <4>2, <2>6, <1>4, OneMore
    <3>3. CASE Running /\ Server(i)
      <4>1. i = awaiting
        BY <3>3, <2>1, <1>1
      <4>2. mailbox \in Seq(Quiet)
        <5>1. WordOf(awaiting) = {}
          BY <4>1, <1>1 DEF WordOf
        <5> QED BY <5>1, <2>1 DEF OneOf
      <4>3. INIT_OK(i) \in WordOf(awaiting)'
        <5>1. INIT_OK(i) # INIT_ERROR(i)
          BY DEF INIT_OK, INIT_ERROR
        <5> QED BY <5>1, <4>1, <1>3, <1>4, <1>5 DEF WordOf
      <4> QED BY <4>2, <4>3, <3>3, <1>1, OneSaid
    <3> QED BY <3>1, <3>2, <3>3
  <2> QED BY <2>1, <2>2, <2>3, <2>4, <2>7, <1>3 DEF OneOf
<1>16. Spoken'
  <2>1. Said \subseteq Said'
    BY <1>5, SaidKept
  <2>2. INIT_OK(i) \in Said'
    <3>1. INIT_OK(i).inst = i
      BY DEF INIT_OK
    <3> QED BY <3>1, <1>5, <1>6 DEF Said
  <2>3. <<INIT_OK(i)>> \in Seq(Said')
    BY <2>2
  <2>4. mailbox \in Seq(Said) /\ buffered' \in Seq(Said)
    BY <1>2, <1>3 DEF Spoken
  <2>5. mailbox \in Seq(Said') /\ buffered' \in Seq(Said')
    <3> HIDE DEF Said
    <3> QED BY <2>1, <2>4, SeqWiden
  <2> QED BY <2>3, <2>5, <1>1, SeqFacts DEF Spoken
<1> QED BY <1>9, <1>10, <1>11, <1>12, <1>13, <1>14, <1>15, <1>16 DEF DynamicIInv

\* The end of the supervisor keeps the invariant, if those left are accounted for.
LEMMA GoneKeeps ==
    ASSUME DynamicIInv, setup' = setup, Fields', NoOrphans',
           NEW how \in {"failed", "stopped", "gave_up"}, Gone(how),
           \A i \in cancelled' : i \in Instances /\ task[i] = "up",
           \A i \in given_up' : i \in Instances /\ task[i] # "absent",
           "slow" \notin setup.faults =>
               /\ GivenUpSeldom'
               /\ \A i \in Instances : ~ (task[i] = "init" /\ Server(i))
    PROVE  DynamicIInv'
<1>1. /\ sup' = how /\ mailbox' = <<>> /\ refs' = {}
      /\ watched' = [i \in Instances |-> None]
      /\ todo' = <<>> /\ adding' = None /\ awaiting' = None /\ buffered' = <<>>
      /\ known' = known /\ restart' = restart /\ dynamic_children' = dynamic_children
      /\ pid' = pid /\ ref' = ref /\ failures' = failures /\ confused' = confused /\ task' = task
  BY DEF Gone, tableVars
<1>2. /\ Lists /\ Things /\ Records /\ Clear /\ Prompt
  BY DEF DynamicIInv
<1>3. \A S : <<>> \in Seq(S)
  OBVIOUS
<1>4. ~Running'
  BY <1>1 DEF Running
<1>5. Lists'
  BY <1>1, <1>2 DEF Lists
<1>6. Things'
  <2>1. cancelled' \subseteq Instances /\ given_up' \subseteq Instances
    OBVIOUS
  <2> QED BY <2>1, <1>1, <1>2, <1>3 DEF Things
<1>7. Watches'
  BY <1>1 DEF Watches
<1>8. Records'
  BY <1>1, <1>2 DEF Records
<1>9. UnderWay'
  BY <1>1, <1>3, <1>4 DEF UnderWay, IsInjective
<1>10. Clear'
  <2>1. NoStrays'
    BY <1>4 DEF NoStrays
  <2>2. DOMAIN todo' = {}
    BY <1>1
  <2> QED BY <2>1, <2>2, <1>1, <1>2, <1>3 DEF Clear
<1>11. Prompt'
  <2>1. Quiet' = Quiet /\ \A j \in Instances : Server(j)' = Server(j)
    BY QuietKept
  <2>2. OneOf(<<>>, WordOf(awaiting)')
    BY <1>3 DEF OneOf
  <2> QED BY <2>1, <2>2, <1>1, <1>3 DEF Prompt, OneOf
<1>12. Spoken'
  BY <1>1, <1>3 DEF Spoken
<1> QED BY <1>5, <1>6, <1>7, <1>8, <1>9, <1>10, <1>11, <1>12 DEF DynamicIInv

\* Every child on record is told: what is left living was given up.
LEMMA StopLeaves ==
    ASSUME DynamicIInv, NEW how, StopChildren(how), given_up \subseteq given_up', Running,
           awaiting # None /\ IsAlive(awaiting) => awaiting \in given_up'
    PROVE  /\ NoOrphans'
           /\ \A i \in cancelled' : i \in Instances /\ task[i] = "up"
<1>1. /\ cancelled' = cancelled \cup {i \in {pid[c] : c \in known} : IsAlive(i)}
      /\ task' = task /\ confused' = confused /\ Gone(how)
  BY DEF StopChildren, Told, Gone
<1>2. /\ Lists /\ Things /\ Watches /\ Records /\ Clear
  BY DEF DynamicIInv
<1>3. known \subseteq Children /\ pid \in [Children -> Instances \cup {None}] /\ cancelled \subseteq Instances
      /\ None \notin Instances
  BY <1>2, DynamicSupervisorAssumption DEF Lists, Things
<1>4. ASSUME NEW i \in cancelled' PROVE i \in Instances /\ task[i] = "up"
  <2>1. CASE i \in cancelled
    BY <2>1, <1>2, <1>3 DEF Watches
  <2>2. ASSUME NEW c \in known, i = pid[c], IsAlive(i) PROVE i \in Instances /\ task[i] = "up"
    <3>1. i # None /\ task[i] \in {"init", "up"}
      BY <2>2 DEF IsAlive
    <3>2. pid[c] \in Instances /\ task[pid[c]] \notin {"absent", "init"}
      BY <3>1, <2>2, <1>2, <1>3 DEF Records
    <3> QED BY <3>1, <3>2, <2>2
  <2> QED BY <2>1, <2>2, <1>1
<1>5. ASSUME ~confused, NEW i \in Instances, IsAlive(i), i \notin cancelled'
      PROVE  i \in given_up'
  <2>1. \/ i = awaiting \/ i \in given_up
        \/ i[1] \in known /\ pid[i[1]] = i
    BY <1>2, <1>5 DEF Clear, NoStrays
  <2>2. ~ (i[1] \in known /\ pid[i[1]] = i)
    BY <1>1, <1>5
  <2> QED BY <2>1, <2>2, <1>3, <1>5
<1>6. \A i : IsAlive(i)' <=> IsAlive(i)
  BY <1>1 DEF IsAlive
<1> QED BY <1>1, <1>4, <1>5, <1>6 DEF NoOrphans, Live

\* After a start that failed the handler ends, and the invariant is kept.
LEMMA ResumeKeeps ==
    ASSUME DynamicIInv, setup' = setup, awaiting # None, NEW rest \in Seq(Messages), Resume(rest),
           rest \in Seq(Said), ~confused => rest \in Seq(Truthful),
           given_up' = given_up \cup {i \in {awaiting} : IsAlive(i)},
           pending_terminations' = pending_terminations,
           "slow" \notin setup.faults =>
               rest \in Seq(Quiet) /\ (Server(awaiting) => ~IsAlive(awaiting)),
           \/ adding # None /\ ForgetAdded(awaiting[1])
           \/ sup = "serving" /\ adding = None /\ UNCHANGED tableVars
    PROVE  DynamicIInv'
<1> DEFINE a == awaiting[1]
<1>1. /\ todo' = <<>> /\ adding' = None /\ awaiting' = None /\ buffered' = <<>>
      /\ mailbox' = rest
      /\ sup' = sup /\ pid' = pid /\ ref' = ref /\ failures' = failures /\ confused' = confused
      /\ refs' = refs /\ task' = task /\ cancelled' = cancelled /\ watched' = watched
  BY DEF Resume
<1>2. /\ Lists /\ Fields /\ Things /\ Watches /\ Records /\ UnderWay /\ Spoken /\ Clear /\ Prompt
  BY DEF DynamicIInv
<1>3. \A S : <<>> \in Seq(S)
  OBVIOUS
<1>4. /\ awaiting \in Instances /\ todo # <<>> /\ a = Head(todo) /\ task[awaiting] # "absent"
      /\ awaiting \notin given_up /\ Running /\ sup = "serving"
  BY <1>2 DEF UnderWay, Running
<1>5. adding # None => a \in Dynamic /\ pid[a] = None
  BY <1>2, <1>4 DEF UnderWay
<1>6. /\ known' \subseteq known
      /\ \A c \in Children : c \in known /\ pid[c] # None => c \in known'
      /\ Lists'
      /\ restart' \in [Children -> RestartTypes \cup {StaticType}]
  <2>1. CASE adding # None /\ ForgetAdded(a)
    <3>1. /\ known' = known \ {a} /\ dynamic_children' = RemoveFirst(dynamic_children, a)
          /\ restart' = [restart EXCEPT ![a] = StaticType]
      BY <2>1 DEF ForgetAdded
    <3>2. a \in Dynamic /\ pid[a] = None /\ StaticIds \cap Dynamic = {} /\ a \in Children
      BY <2>1, <1>5, DynamicSupervisorAssumption DEF Children
    <3>3. /\ StaticIds \subseteq known' /\ known' \subseteq Children
      BY <3>1, <3>2, <1>2 DEF Lists
    <3>4. /\ dynamic_children' \in Seq(Dynamic) /\ IsInjective(dynamic_children')
          /\ ToSet(dynamic_children') = ToSet(dynamic_children) \ {a}
      <4>1. dynamic_children \in Seq(Dynamic) /\ IsInjective(dynamic_children)
        BY <1>2 DEF Lists
      <4> QED BY <4>1, <3>1, RemovedFirst
    <3>5. ToSet(dynamic_children') = known' \ StaticIds
      BY <3>1, <3>4, <1>2 DEF Lists
    <3>6. Lists'
      BY <3>3, <3>4, <3>5 DEF Lists
    <3>7. restart' \in [Children -> RestartTypes \cup {StaticType}]
      BY <3>1, <1>2 DEF Fields
    <3> QED BY <3>1, <3>2, <3>6, <3>7
  <2>2. CASE UNCHANGED tableVars
    BY <2>2, <1>2 DEF tableVars, Lists, Fields
  <2> QED BY <2>1, <2>2
<1> HIDE DEF a
<1>7. Fields'
  BY <1>1, <1>2, <1>6 DEF Fields
<1>8. \A i \in given_up' : i \in given_up \/ (i = awaiting /\ IsAlive(awaiting))
  OBVIOUS
<1>9. Things'
  <2>1. given_up' \subseteq Instances
    BY <1>2, <1>4, <1>8 DEF Things
  <2> QED BY <2>1, <1>1, <1>2, <1>3 DEF Things
<1>10. Watches'
  BY <1>1, <1>2, <1>4, <1>8, DynamicSupervisorAssumption DEF Watches
<1>11. Records'
  BY <1>1, <1>2, <1>6 DEF Records
<1>12. UnderWay'
  <2>1. Running'
    BY <1>1, <1>4 DEF Running
  <2> QED BY <2>1, <1>1, <1>3, <1>4 DEF UnderWay, IsInjective
<1>13. \A i : IsAlive(i)' <=> IsAlive(i)
  BY <1>1 DEF IsAlive
<1>14. Clear'
  <2> SUFFICES ASSUME ~confused
               PROVE  /\ mailbox' \in Seq(Truthful') /\ buffered' \in Seq(Truthful')
                      /\ NoStrays' /\ NoOrphans'
                      /\ \A c, d \in Children : ref'[c] = ref'[d] /\ ref'[c] # None => c = d
                      /\ \A k \in DOMAIN todo' : ~IsAlive(pid[todo[k]])'
    BY <1>1 DEF Clear
  <2>1. /\ NoStrays
        /\ \A c, d \in Children : ref[c] = ref[d] /\ ref[c] # None => c = d
    BY <1>2 DEF Clear
  <2>2. Truthful' = Truthful
    BY <1>1 DEF Truthful
  <2>3. NoStrays'
    <3> SUFFICES ASSUME NEW i \in Instances, IsAlive(i)
                 PROVE  \/ i \in given_up'
                        \/ /\ i[1] \in known' /\ pid[i[1]] = i /\ watched[i] = ref[i[1]]
                           /\ ref[i[1]] # None
      BY <1>1, <1>13 DEF NoStrays
    <3>1. CASE i = awaiting
      BY <3>1
    <3>2. CASE i \in given_up
      BY <3>2
    <3>3. CASE i[1] \in known /\ pid[i[1]] = i /\ watched[i] = ref[i[1]] /\ ref[i[1]] # None
      <4>1. i[1] \in Children /\ pid[i[1]] # None
        BY <3>3, <1>2, DynamicSupervisorAssumption DEF Lists
      <4> QED BY <4>1, <3>3, <1>6
    <3> QED BY <3>1, <3>2, <3>3, <2>1, <1>4 DEF NoStrays
  <2>4. NoOrphans'
    BY <1>1, <1>4 DEF NoOrphans
  <2>5. DOMAIN todo' = {}
    BY <1>1
  <2> QED BY <2>1, <2>2, <2>3, <2>4, <2>5, <1>1, <1>3
<1>15. Prompt'
  <2> SUFFICES ASSUME "slow" \notin setup.faults
               PROVE  /\ GivenUpSeldom'
                      /\ \A j \in Instances : task'[j] = "init" /\ Server(j)' => j = awaiting'
                      /\ buffered' \in Seq(Quiet') /\ OneOf(mailbox, WordOf(awaiting))'
    BY DEF Prompt
  <2>1. /\ GivenUpSeldom /\ rest \in Seq(Quiet) /\ (Server(awaiting) => ~IsAlive(awaiting))
        /\ \A j \in Instances : task[j] = "init" /\ Server(j) => j = awaiting
    BY <1>2 DEF Prompt
  <2>2. Quiet' = Quiet /\ \A j \in Instances : Server(j)' = Server(j)
    BY QuietKept
  <2>3. GivenUpSeldom'
    <3>1. given_up \subseteq Instances
      BY <1>2 DEF Things
    <3> QED BY <3>1, <2>1, <2>2, <1>4, <1>8 DEF GivenUpSeldom
  <2>4. \A j \in Instances : ~ (task[j] = "init" /\ Server(j))
    BY <2>1, DynamicSupervisorAssumption DEF IsAlive
  <2>5. OneOf(rest, WordOf(awaiting)')
    BY <2>1, <2>2 DEF OneOf
  <2> QED BY <2>2, <2>3, <2>4, <2>5, <1>1, <1>3 DEF OneOf
<1>16. Spoken'
  BY <1>1, <1>3 DEF Spoken, Said
<1> QED BY <1>6, <1>7, <1>9, <1>10, <1>11, <1>12, <1>14, <1>15, <1>16 DEF DynamicIInv

\* A start that fails keeps the invariant.
LEMMA RaiseKeeps ==
    ASSUME DynamicIInv, setup' = setup, awaiting # None, NEW error, NEW rest \in Seq(Messages),
           Raise(error, rest),
           rest \in Seq(Said), ~confused => rest \in Seq(Truthful),
           "slow" \notin setup.faults =>
               rest \in Seq(Quiet) /\ (Server(awaiting) => ~IsAlive(awaiting))
    PROVE  DynamicIInv'
<1>1. /\ given_up' = given_up \cup {i \in {awaiting} : IsAlive(i)}
      /\ pending_terminations' = pending_terminations
  BY DEF Raise
<1>2. /\ Lists /\ Fields /\ Things /\ Watches /\ UnderWay /\ Prompt
  BY DEF DynamicIInv
<1>3. awaiting \in Instances /\ task[awaiting] # "absent" /\ Running
  BY <1>2 DEF UnderWay, Running
<1>4. \A i \in given_up' : i \in Instances /\ task[i] # "absent"
  BY <1>1, <1>2, <1>3 DEF Things, Watches
<1>5. ASSUME "slow" \notin setup.faults
      PROVE  GivenUpSeldom' /\ \A i \in Instances : ~ (task[i] = "init" /\ Server(i))
  <2>1. /\ GivenUpSeldom /\ (Server(awaiting) => ~IsAlive(awaiting))
        /\ \A j \in Instances : task[j] = "init" /\ Server(j) => j = awaiting
    BY <1>2, <1>5 DEF Prompt
  <2>2. \A j \in Instances : Server(j)' = Server(j)
    BY QuietKept
  <2>3. \A i \in given_up' : i \in given_up \/ (i = awaiting /\ IsAlive(awaiting))
    BY <1>1
  <2> QED BY <2>1, <2>2, <2>3, <1>3, <1>4 DEF GivenUpSeldom, IsAlive
<1>6. CASE Gone("failed") /\ UNCHANGED cancelled
  <2>1. /\ Fields' /\ NoOrphans'
    BY <1>1, <1>2, <1>6 DEF Gone, tableVars, Fields, NoOrphans
  <2>2. \A i \in cancelled' : i \in Instances /\ task[i] = "up"
    BY <1>2, <1>6 DEF Things, Watches
  <2> QED BY <2>1, <2>2, <1>4, <1>5, <1>6, GoneKeeps
<1>7. CASE StopChildren("gave_up")
  <2>1. Gone("gave_up") /\ Fields'
    BY <1>1, <1>2, <1>7 DEF StopChildren, Gone, tableVars, Fields
  <2>2. given_up \subseteq given_up' /\ (IsAlive(awaiting) => awaiting \in given_up')
    BY <1>1
  <2>3. NoOrphans' /\ \A i \in cancelled' : i \in Instances /\ task[i] = "up"
    BY <2>2, <1>3, <1>7, StopLeaves
  <2> QED BY <2>1, <2>3, <1>4, <1>5, GoneKeeps
<1>8. CASE Resume(rest) /\ \/ adding # None /\ ForgetAdded(awaiting[1])
                           \/ sup = "serving" /\ adding = None /\ UNCHANGED tableVars
  BY <1>1, <1>8, ResumeKeeps
<1> QED BY <1>6, <1>7, <1>8 DEF Raise

\* A new instance keeps the invariant.
LEMMA StartKeeps ==
    ASSUME DynamicIInv, setup' = setup, StartNext
    PROVE  DynamicIInv'
<1>1. /\ Running /\ awaiting = None /\ todo # <<>> /\ Fresh(Head(todo)) # {}
      /\ \E k \in Fresh(Head(todo)) : /\ task' = [task EXCEPT ![<<Head(todo), k>>] = "init"]
                                      /\ awaiting' = <<Head(todo), k>>
  BY DEF StartNext
<1>2. PICK k \in Fresh(Head(todo)) : /\ task' = [task EXCEPT ![<<Head(todo), k>>] = "init"]
                                     /\ awaiting' = <<Head(todo), k>>
  BY <1>1
<1> DEFINE i == <<Head(todo), k>>
<1>3. /\ Lists /\ Fields /\ Things /\ Watches /\ Records /\ UnderWay /\ Spoken /\ Clear /\ Prompt
  BY DEF DynamicIInv
<1>4. /\ sup' = sup /\ known' = known /\ dynamic_children' = dynamic_children /\ restart' = restart
      /\ todo' = todo /\ adding' = adding /\ buffered' = buffered /\ mailbox' = mailbox
      /\ pid' = pid /\ ref' = ref /\ failures' = failures /\ given_up' = given_up /\ refs' = refs
      /\ cancelled' = cancelled /\ watched' = watched
      /\ pending_terminations' = pending_terminations /\ confused' = confused
  BY DEF StartNext, tableVars
<1>5. /\ i \in Instances /\ i[1] = Head(todo) /\ task[i] = "absent" /\ i # None
  <2>1. Head(todo) \in Children
    BY <1>1, <1>3, SeqFacts DEF UnderWay, Lists
  <2> QED BY <2>1, DynamicSupervisorAssumption DEF Fresh, Instances
<1> HIDE DEF i
<1>6. /\ task \in [Instances -> Statuses] /\ pid \in [Children -> Instances \cup {None}]
      /\ "init" \in Statuses
      /\ task' = [task EXCEPT ![i] = "init"] /\ awaiting' = i
  BY <1>2, <1>3 DEF Things, Statuses, i
<1>7. /\ \A j \in Instances : task'[j] = IF j = i THEN "init" ELSE task[j]
      /\ \A j \in Instances : IsAlive(j)' => IsAlive(j) \/ j = i
      /\ \A j \in Instances : j # i => task'[j] = task[j]
  BY <1>5, <1>6 DEF IsAlive
<1>8. \A c \in Children : pid[c] # None => pid[c] \in Instances /\ pid[c] # i
  BY <1>3, <1>5, <1>6 DEF Records
<1>9. Lists' /\ Fields'
  BY <1>3, <1>4 DEF Lists, Fields
<1>10. Things'
  BY <1>3, <1>4, <1>6 DEF Things
<1>11. Watches'
  <2>1. cancelled \subseteq Instances /\ given_up \subseteq Instances
    BY <1>3 DEF Things
  <2>2. \A j \in Instances : watched'[j] # None => task'[j] = "up" /\ j # awaiting' /\ j \notin given_up'
    BY <1>3, <1>4, <1>5, <1>6, <1>7 DEF Watches
  <2> QED BY <2>1, <2>2, <1>3, <1>4, <1>5, <1>7 DEF Watches
<1>12. Records'
  BY <1>3, <1>4, <1>7, <1>8 DEF Records
<1>13. UnderWay'
  <2>1. i \notin given_up
    BY <1>3, <1>5 DEF Watches
  <2>2. Running'
    BY <1>1, <1>4 DEF Running
  <2>3. task'[i] = "init"
    BY <1>5, <1>7
  <2> QED BY <2>1, <2>2, <2>3, <1>1, <1>3, <1>4, <1>5, <1>6 DEF UnderWay
<1>14. Spoken'
  <2>1. Said \subseteq Said'
    BY <1>5, <1>7, SaidKept
  <2>2. mailbox' \in Seq(Said) /\ buffered' \in Seq(Said)
    BY <1>3, <1>4 DEF Spoken
  <2>3. mailbox' \in Seq(Said') /\ buffered' \in Seq(Said')
    <3> HIDE DEF Said
    <3> QED BY <2>1, <2>2, SeqWiden
  <2> QED BY <2>3 DEF Spoken
<1>15. Clear'
  <2> SUFFICES ASSUME ~confused
               PROVE  /\ mailbox' \in Seq(Truthful') /\ buffered' \in Seq(Truthful')
                      /\ NoStrays' /\ NoOrphans'
                      /\ \A c, d \in Children : ref'[c] = ref'[d] /\ ref'[c] # None => c = d
                      /\ \A n \in DOMAIN todo' : ~IsAlive(pid[todo[n]])'
    BY <1>4 DEF Clear
  <2>1. /\ mailbox \in Seq(Truthful) /\ buffered \in Seq(Truthful) /\ NoStrays
        /\ \A c, d \in Children : ref[c] = ref[d] /\ ref[c] # None => c = d
        /\ \A n \in DOMAIN todo : ~IsAlive(pid[todo[n]])
    BY <1>3 DEF Clear
  <2>2. Truthful \subseteq Truthful'
    BY <1>4, <1>7, <1>8, TruthfulKept
  <2>3. mailbox' \in Seq(Truthful') /\ buffered' \in Seq(Truthful')
    <3>1. mailbox \in Seq(Truthful') /\ buffered \in Seq(Truthful')
      BY <2>1, <2>2, SeqWiden
    <3> QED BY <3>1, <1>4
  <2>4. NoStrays'
    <3> SUFFICES ASSUME NEW j \in Instances, IsAlive(j)'
                 PROVE  \/ j = i \/ j \in given_up
                        \/ /\ j[1] \in known /\ pid[j[1]] = j /\ watched[j] = ref[j[1]]
                           /\ ref[j[1]] # None
      BY <1>4, <1>6 DEF NoStrays
    <3>1. IsAlive(j) \/ j = i
      BY <1>7
    <3>2. j # awaiting
      BY <1>1, DynamicSupervisorAssumption
    <3> QED BY <3>1, <3>2, <2>1, <1>1 DEF NoStrays
  <2>5. NoOrphans'
    BY <1>1, <1>4 DEF NoOrphans, Running
  <2>6. \A n \in DOMAIN todo' : ~IsAlive(pid[todo[n]])'
    <3>1. \A n \in DOMAIN todo : todo[n] \in Children
      BY <1>3 DEF UnderWay, Lists
    <3>2. \A c \in Children : IsAlive(pid[c])' => IsAlive(pid[c])
      BY <1>4, <1>7, <1>8 DEF IsAlive
    <3> QED BY <3>1, <3>2, <2>1, <1>4
  <2> QED BY <2>1, <2>3, <2>4, <2>5, <2>6, <1>4
<1>16. Prompt'
  <2> SUFFICES ASSUME "slow" \notin setup.faults
               PROVE  /\ GivenUpSeldom'
                      /\ \A j \in Instances : task'[j] = "init" /\ Server(j)' => j = awaiting'
                      /\ buffered' \in Seq(Quiet') /\ OneOf(mailbox, WordOf(awaiting))'
    BY DEF Prompt
  <2>1. /\ GivenUpSeldom /\ buffered \in Seq(Quiet) /\ OneOf(mailbox, WordOf(awaiting))
        /\ \A j \in Instances : task[j] = "init" /\ Server(j) => j = awaiting
    BY <1>3 DEF Prompt
  <2>2. Quiet' = Quiet /\ \A j \in Instances : Server(j)' = Server(j)
    BY QuietKept
  <2>3. GivenUpSeldom'
    BY <2>1, <2>2, <1>3, <1>4 DEF GivenUpSeldom, Things
  <2>4. \A j \in Instances : task'[j] = "init" /\ Server(j)' => j = awaiting'
    BY <2>1, <2>2, <1>1, <1>6, <1>7, DynamicSupervisorAssumption
  <2>5. mailbox \in Seq(Quiet)
    <3>1. WordOf(awaiting) = {}
      BY <1>1 DEF WordOf
    <3> QED BY <3>1, <2>1 DEF OneOf
  <2>6. OneOf(mailbox', WordOf(awaiting)')
    BY <2>5, <1>4 DEF OneOf
  <2> QED BY <2>1, <2>2, <2>3, <2>4, <2>6, <1>4 DEF OneOf
<1> QED BY <1>9, <1>10, <1>11, <1>12, <1>13, <1>14, <1>15, <1>16 DEF DynamicIInv

\* What is left to read when a start ends.
LEMMA RestIs ==
    ASSUME DynamicIInv, awaiting # None, mailbox # <<>>,
           ~Server(awaiting) \/ ServerWord(Head(mailbox))
    PROVE  /\ Reinjected \in Seq(Messages) /\ Reinjected \in Seq(Said)
           /\ ~confused => Reinjected \in Seq(Truthful)
           /\ "slow" \notin setup.faults =>
                 /\ Reinjected \in Seq(Quiet)
                 /\ Server(awaiting) => Head(mailbox) \in WordOf(awaiting)
<1>1. /\ mailbox \in Seq(Messages) /\ buffered \in Seq(Messages)
      /\ mailbox \in Seq(Said) /\ buffered \in Seq(Said)
      /\ ~confused => mailbox \in Seq(Truthful) /\ buffered \in Seq(Truthful)
      /\ awaiting \in Instances
  BY DEF DynamicIInv, Things, Spoken, Clear, UnderWay
<1>2. ASSUME NEW S, mailbox \in Seq(S), buffered \in Seq(S) PROVE Reinjected \in Seq(S)
  <2>1. Tail(mailbox) \in Seq(S)
    BY <1>2, SeqFacts
  <2> QED BY <2>1, <1>2, SeqFacts DEF Reinjected
<1>3. ASSUME "slow" \notin setup.faults
      PROVE  /\ Reinjected \in Seq(Quiet)
             /\ Server(awaiting) => Head(mailbox) \in WordOf(awaiting)
  <2>1. buffered \in Seq(Quiet) /\ OneOf(mailbox, WordOf(awaiting))
    BY <1>3 DEF DynamicIInv, Prompt
  <2>2. CASE Server(awaiting)
    <3>1. Head(mailbox) \notin Quiet
      BY <2>2 DEF Quiet
    <3>2. Head(mailbox) \in WordOf(awaiting) /\ Tail(mailbox) \in Seq(Quiet)
      BY <3>1, <2>1, <1>1, OneRead
    <3> QED BY <3>2, <2>1, SeqFacts DEF Reinjected
  <2>3. CASE ~Server(awaiting)
    <3>1. WordOf(awaiting) \subseteq Quiet
      <4>1. /\ INIT_OK(awaiting).inst = awaiting /\ INIT_ERROR(awaiting).inst = awaiting
            /\ INIT_OK(awaiting) \in Messages /\ INIT_ERROR(awaiting) \in Messages
        BY <1>1, MessageTypes DEF INIT_OK, INIT_ERROR
      <4> QED BY <4>1, <2>3 DEF WordOf, Quiet, ServerWord
    <3>2. mailbox \in Seq(Quiet)
      <4>1. CASE \E k \in DOMAIN mailbox : /\ mailbox[k] \in WordOf(awaiting)
                                           /\ \A j \in DOMAIN mailbox : j # k => mailbox[j] \in Quiet
        <5>1. \A j \in DOMAIN mailbox : mailbox[j] \in Quiet
          BY <4>1, <3>1
        <5> QED BY <5>1, <1>1, SeqOver
      <4> QED BY <4>1, <2>1 DEF OneOf
    <3> QED BY <3>2, <2>1, <2>3, <1>2
  <2> QED BY <2>2, <2>3
<1>4. /\ Reinjected \in Seq(Messages) /\ (~confused => Reinjected \in Seq(Truthful))
  BY <1>1, <1>2
<1>5. Reinjected \in Seq(Said)
  <2> HIDE DEF Said
  <2> QED BY <1>1, <1>2
<1> QED BY <1>3, <1>4, <1>5

\* A child that has come up keeps the invariant.
LEMMA AdoptKeeps ==
    ASSUME DynamicIInv, setup' = setup, awaiting # None, IsAlive(awaiting),
           mailbox # <<>>, Head(mailbox) = INIT_OK(awaiting),
           NEW rest \in Seq(Messages), Adopt(awaiting, rest),
           rest \in Seq(Said), ~confused => rest \in Seq(Truthful),
           "slow" \notin setup.faults => rest \in Seq(Quiet)
    PROVE  DynamicIInv'
<1> DEFINE i == awaiting
           c == awaiting[1]
           r == Cardinality(refs)
<1>1. /\ refs' = refs \cup {r} /\ watched' = [watched EXCEPT ![i] = r]
      /\ pid' = [pid EXCEPT ![c] = i] /\ ref' = [ref EXCEPT ![c] = r]
      /\ confused' = (confused \/ Ambiguous(c, r, rest))
      /\ todo' = Tail(todo) /\ adding' = None /\ awaiting' = None /\ buffered' = <<>>
      /\ mailbox' = rest
      /\ sup' = IF sup = "starting" /\ Tail(todo) # <<>> THEN "starting" ELSE "serving"
      /\ known' = known /\ dynamic_children' = dynamic_children /\ restart' = restart
      /\ failures' = failures /\ given_up' = given_up
      /\ pending_terminations' = pending_terminations
      /\ task' = task /\ cancelled' = cancelled
  BY DEF Adopt, tableVars
<1>2. /\ Lists /\ Fields /\ Things /\ Watches /\ Records /\ UnderWay /\ Spoken /\ Clear /\ Prompt
  BY DEF DynamicIInv
<1>3. r \in Refs /\ r # None
  BY NextReference
<1>4. /\ i \in Instances /\ todo # <<>> /\ c = Head(todo) /\ i \notin given_up
      /\ Running /\ c \in known /\ c \in Children
  <2>1. i \in Instances /\ todo # <<>> /\ c = Head(todo) /\ i \notin given_up /\ Running
    BY <1>2 DEF UnderWay
  <2>2. Head(todo) \in known
    BY <2>1, <1>2, SeqFacts DEF UnderWay
  <2> QED BY <2>1, <2>2, <1>2 DEF Lists
<1>5. task[i] = "up"
  <2>1. INIT_OK(i) \in Said /\ INIT_OK(i).inst = i /\ INIT_OK(i).tag = "INIT_OK"
    <3>1. INIT_OK(i).inst = i /\ INIT_OK(i).tag = "INIT_OK"
      BY DEF INIT_OK
    <3>2. Head(mailbox) \in Said
      <4> HIDE DEF Said
      <4> QED BY <1>2, SeqFacts DEF Spoken
    <3> QED BY <3>1, <3>2
  <2> QED BY <2>1 DEF Said, IsAlive
<1> HIDE DEF i, c, r
<1>6. /\ watched \in [Instances -> Refs \cup {None}] /\ pid \in [Children -> Instances \cup {None}]
      /\ ref \in [Children -> Refs \cup {None}] /\ refs \subseteq Refs
      /\ \A j \in Instances : j # None
      /\ \A x \in Refs : x # None
  BY <1>2, DynamicSupervisorAssumption DEF Things
<1>7. /\ \A j \in Instances : watched'[j] = IF j = i THEN r ELSE watched[j]
      /\ \A d \in Children : pid'[d] = IF d = c THEN i ELSE pid[d]
      /\ \A d \in Children : ref'[d] = IF d = c THEN r ELSE ref[d]
      /\ \A j : IsAlive(j)' <=> IsAlive(j)
  BY <1>1, <1>6 DEF IsAlive
<1>8. /\ Tail(todo) \in Seq(known) /\ IsInjective(Tail(todo))
      /\ \A k \in DOMAIN Tail(todo) : Tail(todo)[k] \in Children /\ Tail(todo)[k] # c
                                      /\ \E l \in DOMAIN todo : Tail(todo)[k] = todo[l]
  <2>1. /\ todo \in Seq(known) /\ IsInjective(todo) /\ known \subseteq Children
    BY <1>2 DEF UnderWay, Lists
  <2>2. /\ Len(todo) \in Nat /\ DOMAIN todo = 1 .. Len(todo) /\ Len(todo) # 0 /\ c = todo[1]
        /\ Tail(todo) \in Seq(known) /\ DOMAIN Tail(todo) = 1 .. Len(todo) - 1
        /\ \A k \in DOMAIN Tail(todo) : Tail(todo)[k] = todo[k + 1]
    BY <2>1, <1>4
  <2>3. \A k, l \in DOMAIN todo : todo[k] = todo[l] => k = l
    BY <2>1 DEF IsInjective
  <2>4. \A k \in DOMAIN Tail(todo) : /\ k + 1 \in DOMAIN todo /\ 1 \in DOMAIN todo /\ k + 1 # 1
                                     /\ k \in Nat
    BY <2>2
  <2>5. \A k \in DOMAIN Tail(todo) : Tail(todo)[k] # c
    BY <2>2, <2>3, <2>4
  <2>6. \A k \in DOMAIN Tail(todo) : todo[k + 1] \in known
    BY <2>1, <2>4, ElementOfSeq, <2>2
  <2>7. \A k, l \in DOMAIN Tail(todo) : Tail(todo)[k] = Tail(todo)[l] => k = l
    <3> SUFFICES ASSUME NEW k \in DOMAIN Tail(todo), NEW l \in DOMAIN Tail(todo),
                        Tail(todo)[k] = Tail(todo)[l]
                 PROVE  k = l
      OBVIOUS
    <3>1. todo[k + 1] = todo[l + 1]
      BY <2>2
    <3>2. k + 1 = l + 1
      BY <3>1, <2>3, <2>4
    <3> QED BY <3>2, <2>4
  <2> QED BY <2>1, <2>2, <2>4, <2>5, <2>6, <2>7 DEF IsInjective
<1>9. Lists' /\ Fields'
  BY <1>1, <1>2 DEF Lists, Fields
<1>10. Things'
  <2>1. confused' \in BOOLEAN
    BY <1>1, <1>2 DEF Things, Ambiguous
  <2>2. \A S : <<>> \in Seq(S)
    OBVIOUS
  <2>3. /\ refs' \subseteq Refs /\ watched' \in [Instances -> Refs \cup {None}]
        /\ pid' \in [Children -> Instances \cup {None}] /\ ref' \in [Children -> Refs \cup {None}]
    BY <1>1, <1>3, <1>4, <1>6
  <2>4. sup' \in {"starting", "serving"}
    BY <1>1
  <2> QED BY <2>1, <2>2, <2>3, <2>4, <1>1, <1>2 DEF Things
<1>11. Watches'
  <2>1. ASSUME NEW x \in refs' PROVE \E j \in Instances : watched'[j] = x
    <3>1. CASE x = r
      BY <3>1, <1>4, <1>7
    <3>2. CASE x \in refs
      <4>1. PICK j \in Instances : watched[j] = x
        BY <3>2, <1>2 DEF Watches
      <4>2. j # i
        BY <4>1, <3>2, <1>2, <1>6 DEF Watches, i
      <4> QED BY <4>1, <4>2, <1>7
    <3> QED BY <3>1, <3>2, <2>1, <1>1
  <2>2. \A j \in Instances : watched'[j] # None => task'[j] = "up" /\ j # awaiting' /\ j \notin given_up'
    BY <1>1, <1>2, <1>4, <1>5, <1>6, <1>7 DEF Watches
  <2> QED BY <2>1, <2>2, <1>1, <1>2 DEF Watches
<1>12. Records'
  <2>1. i[1] = c
    BY DEF i, c
  <2> QED BY <2>1, <1>1, <1>2, <1>4, <1>5, <1>6, <1>7 DEF Records
<1>13. UnderWay'
  <2>1. Running'
    BY <1>1 DEF Running
  <2> QED BY <2>1, <1>1, <1>8 DEF UnderWay
<1>14. Spoken'
  BY <1>1 DEF Spoken, Said
<1>15. Clear'
  <2> SUFFICES ASSUME ~confused, ~Ambiguous(c, r, rest)
               PROVE  /\ mailbox' \in Seq(Truthful') /\ buffered' \in Seq(Truthful')
                      /\ NoStrays' /\ NoOrphans'
                      /\ \A d, e \in Children : ref'[d] = ref'[e] /\ ref'[d] # None => d = e
                      /\ \A k \in DOMAIN todo' : ~IsAlive(pid[todo[k]])'
    BY <1>1 DEF Clear
  <2>1. /\ NoStrays /\ rest \in Seq(Truthful)
        /\ \A d, e \in Children : ref[d] = ref[e] /\ ref[d] # None => d = e
        /\ \A k \in DOMAIN todo : ~IsAlive(pid[todo[k]])
    BY <1>2 DEF Clear
  <2>2. /\ \A d \in known \ {c} : ref[d] # r
        /\ \A k \in DOMAIN rest : rest[k].tag = "DOWN" => rest[k].ref # r
    BY DEF Ambiguous
  <2>3. \A d \in Children : ref[d] = r => d = c
    <3>1. \A d \in Children : ref[d] # None => d \in known
      BY <1>2 DEF Records
    <3> QED BY <3>1, <2>2, <1>3
  <2>4. \A m \in Truthful : (m.tag = "DOWN" => m.ref # r) => m \in Truthful'
    <3> SUFFICES ASSUME NEW m \in Truthful, m.tag = "DOWN" => m.ref # r PROVE m \in Truthful'
      OBVIOUS
    <3>1. ASSUME m.tag = "DOWN", NEW d \in Children, ref'[d] = m.ref
          PROVE  pid'[d] # None /\ task'[pid'[d]] = m.reason
      <4>1. d # c /\ ref[d] = m.ref
        BY <3>1, <1>7
      <4>2. pid[d] # None /\ task[pid[d]] = m.reason
        BY <4>1, <3>1 DEF Truthful
      <4> QED BY <4>1, <4>2, <1>1, <1>7
    <3>2. m \in Messages
      BY DEF Truthful
    <3> QED BY <3>1, <3>2 DEF Truthful
  <2>5. mailbox' \in Seq(Truthful') /\ buffered' \in Seq(Truthful')
    <3>1. \A k \in DOMAIN rest : rest[k] \in Truthful
      BY <2>1, ElementOfSeq, LenProperties
    <3>2. \A k \in DOMAIN rest : rest[k] \in Truthful'
      BY <3>1, <2>2, <2>4
    <3>3. rest \in Seq(Truthful')
      BY <3>2, SeqOver
    <3> QED BY <3>3, <1>1
  <2>6. NoStrays'
    <3> SUFFICES ASSUME NEW j \in Instances, IsAlive(j)
                 PROVE  \/ j \in given_up'
                        \/ /\ j[1] \in known' /\ pid'[j[1]] = j /\ watched'[j] = ref'[j[1]]
                           /\ ref'[j[1]] # None
      BY <1>7 DEF NoStrays
    <3>1. CASE j = i
      <4>1. j[1] = c
        BY <3>1 DEF i, c
      <4> QED BY <4>1, <3>1, <1>1, <1>3, <1>4, <1>7
    <3>2. CASE j # i
      <4>1. CASE j \in given_up
        BY <4>1, <1>1
      <4>2. CASE j[1] \in known /\ pid[j[1]] = j /\ watched[j] = ref[j[1]] /\ ref[j[1]] # None
        <5>1. j[1] # c
          <6>1. 1 \in DOMAIN todo /\ todo[1] = c
            BY <1>2, <1>4 DEF UnderWay
          <6> QED BY <6>1, <4>2, <2>1
        <5>2. j[1] \in Children
          BY <4>2, <1>2 DEF Lists
        <5> QED BY <5>1, <5>2, <4>2, <3>2, <1>1, <1>7
      <4> QED BY <4>1, <4>2, <3>2, <2>1, <1>4 DEF NoStrays, i
    <3> QED BY <3>1, <3>2
  <2>7. NoOrphans'
    BY <1>1 DEF NoOrphans
  <2>8. \A d, e \in Children : ref'[d] = ref'[e] /\ ref'[d] # None => d = e
    BY <2>1, <2>3, <1>7
  <2>9. ASSUME NEW k \in DOMAIN todo' PROVE ~IsAlive(pid[todo[k]])'
    <3>1. /\ Tail(todo)[k] \in Children /\ Tail(todo)[k] # c
          /\ \E l \in DOMAIN todo : Tail(todo)[k] = todo[l]
      BY <1>1, <1>8
    <3>2. ~IsAlive(pid[Tail(todo)[k]])
      BY <3>1, <2>1
    <3>3. pid'[todo'[k]] = pid[Tail(todo)[k]]
      BY <3>1, <1>1, <1>7
    <3> QED BY <3>2, <3>3, <1>1 DEF IsAlive
  <2> QED BY <2>5, <2>6, <2>7, <2>8, <2>9
<1>16. Prompt'
  <2> SUFFICES ASSUME "slow" \notin setup.faults
               PROVE  /\ GivenUpSeldom'
                      /\ \A j \in Instances : task'[j] = "init" /\ Server(j)' => j = awaiting'
                      /\ buffered' \in Seq(Quiet') /\ OneOf(mailbox, WordOf(awaiting))'
    BY DEF Prompt
  <2>1. /\ GivenUpSeldom /\ rest \in Seq(Quiet)
        /\ \A j \in Instances : task[j] = "init" /\ Server(j) => j = i
    BY <1>2 DEF Prompt, i
  <2>2. Quiet' = Quiet /\ \A j \in Instances : Server(j)' = Server(j)
    BY QuietKept
  <2>3. GivenUpSeldom'
    BY <2>1, <2>2, <1>1, <1>2 DEF GivenUpSeldom, Things
  <2>4. \A j \in Instances : ~ (task'[j] = "init" /\ Server(j)')
    BY <2>1, <2>2, <1>1, <1>5
  <2>5. OneOf(mailbox', WordOf(awaiting)') /\ <<>> \in Seq(Quiet)
    BY <2>1, <1>1 DEF OneOf
  <2> QED BY <2>2, <2>3, <2>4, <2>5, <1>1 DEF OneOf
<1> QED BY <1>9, <1>10, <1>11, <1>12, <1>13, <1>14, <1>15, <1>16 DEF DynamicIInv

\* A message that is kept for later keeps the invariant.
LEMMA BufferKeeps ==
    ASSUME DynamicIInv, setup' = setup, awaiting # None, mailbox # <<>>,
           Server(awaiting), ~ServerWord(Head(mailbox)),
           buffered' = Append(buffered, Head(mailbox)), mailbox' = Tail(mailbox),
           UNCHANGED <<sup, tableVars, todo, adding, awaiting, pid, ref, failures, confused,
                       given_up, pending_terminations, refs, instVars>>
    PROVE  DynamicIInv'
<1>1. /\ sup' = sup /\ known' = known /\ dynamic_children' = dynamic_children /\ restart' = restart
      /\ todo' = todo /\ adding' = adding /\ awaiting' = awaiting
      /\ pid' = pid /\ ref' = ref /\ failures' = failures /\ given_up' = given_up
      /\ refs' = refs /\ task' = task /\ cancelled' = cancelled /\ watched' = watched
      /\ pending_terminations' = pending_terminations /\ confused' = confused
  BY DEF tableVars, instVars
<1>2. /\ Lists /\ Fields /\ Things /\ Watches /\ Records /\ UnderWay /\ Spoken /\ Clear /\ Prompt
  BY DEF DynamicIInv
<1>3. ASSUME NEW S, mailbox \in Seq(S), buffered \in Seq(S)
      PROVE  mailbox' \in Seq(S) /\ buffered' \in Seq(S)
  <2>1. Tail(mailbox) \in Seq(S) /\ Head(mailbox) \in S
    BY <1>3, SeqFacts
  <2> QED BY <2>1, <1>3
<1>4. /\ mailbox \in Seq(Messages) /\ buffered \in Seq(Messages)
      /\ mailbox \in Seq(Said) /\ buffered \in Seq(Said)
      /\ ~confused => mailbox \in Seq(Truthful) /\ buffered \in Seq(Truthful)
  BY <1>2 DEF Things, Spoken, Clear
<1>5. Lists' /\ Fields' /\ Watches' /\ Records' /\ UnderWay'
  <2>1. Running
    BY <1>2 DEF UnderWay, Running
  <2> QED BY <2>1, <1>1, <1>2 DEF Lists, Fields, Watches, Records, UnderWay, Running
<1>6. Things'
  <2>1. mailbox' \in Seq(Messages) /\ buffered' \in Seq(Messages)
    BY <1>3, <1>4
  <2> QED BY <2>1, <1>1, <1>2 DEF Things
<1>7. Spoken'
  <2>1. Said' = Said
    BY <1>1 DEF Said
  <2>2. mailbox' \in Seq(Said) /\ buffered' \in Seq(Said)
    <3> HIDE DEF Said
    <3> QED BY <1>3, <1>4
  <2> QED BY <2>1, <2>2 DEF Spoken
<1>8. Clear'
  <2>1. Truthful' = Truthful
    BY <1>1 DEF Truthful
  <2>2. ~confused => mailbox' \in Seq(Truthful) /\ buffered' \in Seq(Truthful)
    <3> HIDE DEF Truthful
    <3> QED BY <1>3, <1>4
  <2>3. NoStrays' = NoStrays /\ NoOrphans' = NoOrphans
    BY <1>1 DEF NoStrays, NoOrphans, Running, IsAlive, Live
  <2>4. \A i : IsAlive(i)' <=> IsAlive(i)
    BY <1>1 DEF IsAlive
  <2> QED BY <2>1, <2>2, <2>3, <2>4, <1>1, <1>2 DEF Clear
<1>9. Prompt'
  <2> SUFFICES ASSUME "slow" \notin setup.faults
               PROVE  /\ GivenUpSeldom'
                      /\ \A j \in Instances : task'[j] = "init" /\ Server(j)' => j = awaiting'
                      /\ buffered' \in Seq(Quiet') /\ OneOf(mailbox, WordOf(awaiting))'
    BY DEF Prompt
  <2>1. /\ GivenUpSeldom /\ buffered \in Seq(Quiet) /\ OneOf(mailbox, WordOf(awaiting))
        /\ \A j \in Instances : task[j] = "init" /\ Server(j) => j = awaiting
    BY <1>2 DEF Prompt
  <2>2. Quiet' = Quiet /\ \A j \in Instances : Server(j)' = Server(j)
    BY QuietKept
  <2>3. GivenUpSeldom'
    BY <2>1, <2>2, <1>1, <1>2 DEF GivenUpSeldom, Things
  <2>4. Head(mailbox) \in Quiet
    BY <1>4, SeqFacts DEF Quiet
  <2>5. buffered' \in Seq(Quiet) /\ OneOf(mailbox', WordOf(awaiting))
    BY <2>1, <2>4, <1>4, OneWaits
  <2>6. WordOf(awaiting)' = WordOf(awaiting)
    BY <1>1 DEF WordOf, IsAlive
  <2> QED BY <2>1, <2>2, <2>3, <2>5, <2>6, <1>1 DEF OneOf
<1> QED BY <1>5, <1>6, <1>7, <1>8, <1>9 DEF DynamicIInv

\* Each step of a handshake keeps the invariant.
LEMMA HandshakeKeeps ==
    ASSUME DynamicIInv, setup' = setup, Handshake \/ Timeout
    PROVE  DynamicIInv'
<1>1. awaiting # None /\ awaiting \in Instances
  BY DEF Handshake, Timeout, DynamicIInv, UnderWay
<1>2. CASE Timeout
  <2>1. /\ Raise("TimeoutError", buffered) /\ "slow" \in setup.faults
        /\ buffered \in Seq(Messages) /\ buffered \in Seq(Said)
        /\ ~confused => buffered \in Seq(Truthful)
    BY <1>2 DEF Timeout, DynamicIInv, Things, Spoken, Clear
  <2> HIDE DEF Said, Truthful
  <2> QED BY <1>1, <2>1, RaiseKeeps
<1>3. CASE Handshake
  <2> DEFINE m == Head(mailbox)
  <2>1. mailbox # <<>>
    BY <1>3 DEF Handshake
  <2>2. ASSUME ~Server(awaiting) \/ ServerWord(m)
        PROVE  /\ Reinjected \in Seq(Messages) /\ Reinjected \in Seq(Said)
               /\ ~confused => Reinjected \in Seq(Truthful)
               /\ "slow" \notin setup.faults =>
                     Reinjected \in Seq(Quiet) /\ (Server(awaiting) => m \in WordOf(awaiting))
    BY <1>1, <2>1, <2>2, RestIs
  <2>3. m = INIT_OK(awaiting) => ~Server(awaiting) \/ ServerWord(m)
    BY DEF ServerWord, INIT_OK
  <2>4. CASE m = INIT_OK(awaiting) /\ IsAlive(awaiting) /\ Adopt(awaiting, Reinjected)
    <3> HIDE DEF m
    <3> QED BY <1>1, <2>1, <2>2, <2>3, <2>4, AdoptKeeps DEF m
  <2>5. CASE m = INIT_OK(awaiting) /\ ~IsAlive(awaiting) /\ Raise("ProcessNotFoundError", Reinjected)
    <3> HIDE DEF m
    <3> QED BY <1>1, <2>2, <2>3, <2>5, RaiseKeeps
  <2>6. CASE /\ m # INIT_OK(awaiting) /\ (~Server(awaiting) \/ ServerWord(m))
             /\ Raise("RuntimeError", Reinjected)
    <3>1. m \in WordOf(awaiting) => ~IsAlive(awaiting)
      BY <2>6 DEF WordOf
    <3> HIDE DEF m
    <3> QED BY <3>1, <1>1, <2>2, <2>6, RaiseKeeps
  <2>7. CASE /\ Server(awaiting) /\ ~ServerWord(m)
             /\ buffered' = Append(buffered, m) /\ mailbox' = Tail(mailbox)
             /\ UNCHANGED <<sup, tableVars, todo, adding, awaiting, pid, ref, failures, confused,
                            given_up, pending_terminations, refs, instVars, clientVars>>
    BY <1>1, <2>1, <2>7, BufferKeeps
  <2> QED BY <1>3, <2>4, <2>5, <2>6, <2>7 DEF Handshake
<1> QED BY <1>2, <1>3

-----------------------------------------------------------------------------
(* The handlers.                                                           *)

\* What is left to read while a message is handled.
LEMMA ReadingIs ==
    ASSUME DynamicIInv, sup = "serving", awaiting = None, todo = <<>>, mailbox # <<>>
    PROVE  /\ Head(mailbox) \in Messages /\ Tail(mailbox) \in Seq(Messages)
           /\ Tail(mailbox) \in Seq(Said) /\ adding = None /\ Running
           /\ ~confused => Head(mailbox) \in Truthful /\ Tail(mailbox) \in Seq(Truthful)
           /\ "slow" \notin setup.faults =>
                 /\ Tail(mailbox) \in Seq(Quiet) /\ GivenUpSeldom
                 /\ \A i \in Instances : ~ (task[i] = "init" /\ Server(i))
<1>1. /\ mailbox \in Seq(Messages) /\ mailbox \in Seq(Said)
      /\ ~confused => mailbox \in Seq(Truthful)
  BY DEF DynamicIInv, Things, Spoken, Clear
<1>2. ASSUME NEW S, mailbox \in Seq(S) PROVE Head(mailbox) \in S /\ Tail(mailbox) \in Seq(S)
  BY <1>2, SeqFacts
<1>3. adding = None
  BY DEF DynamicIInv, UnderWay
<1>4. ASSUME "slow" \notin setup.faults
      PROVE  /\ Tail(mailbox) \in Seq(Quiet) /\ GivenUpSeldom
             /\ \A i \in Instances : ~ (task[i] = "init" /\ Server(i))
  <2>1. /\ OneOf(mailbox, WordOf(awaiting)) /\ GivenUpSeldom
        /\ \A i \in Instances : task[i] = "init" /\ Server(i) => i = awaiting
    BY <1>4 DEF DynamicIInv, Prompt
  <2>2. WordOf(awaiting) = {}
    BY DEF WordOf
  <2>3. mailbox \in Seq(Quiet)
    BY <2>1, <2>2 DEF OneOf
  <2>4. Tail(mailbox) \in Seq(Quiet)
    BY <2>3, <1>2
  <2> QED BY <2>1, <2>4, DynamicSupervisorAssumption
<1>5. Tail(mailbox) \in Seq(Said)
  <2> HIDE DEF Said
  <2> QED BY <1>1, <1>2
<1>6. ~confused => Head(mailbox) \in Truthful /\ Tail(mailbox) \in Seq(Truthful)
  <2> HIDE DEF Truthful
  <2> QED BY <1>1, <1>2
<1> QED BY <1>1, <1>2, <1>3, <1>4, <1>5, <1>6 DEF Running

\* A handler that starts or kills nothing keeps the invariant, when the tables agree
\* after it and it takes only the ended off the record.
LEMMA HandledKeeps ==
    ASSUME DynamicIInv, setup' = setup,
           sup = "serving", awaiting = None, todo = <<>>, mailbox # <<>>, mailbox' = Tail(mailbox),
           UNCHANGED <<sup, awaiting, buffered, refs, task, watched, given_up, confused>>,
           Lists', Fields',
           pid' \in [Children -> Instances \cup {None}], ref' \in [Children -> Refs \cup {None}],
           \A c \in Children : pid'[c] # None => pid'[c] = pid[c] /\ c \in known' /\ ref'[c] = ref[c],
           \A c \in Children : ref'[c] # None => ref'[c] = ref[c] /\ pid'[c] # None,
           ~confused => \A c \in Children : IsAlive(pid[c]) => pid'[c] # None,
           \A i \in cancelled' : i \in Instances /\ task[i] = "up",
           \/ todo' = <<>> /\ adding' = None
           \/ adding' \in Clients /\ \E c \in Dynamic \cap known' : todo' = <<c>> /\ pid'[c] = None
    PROVE  DynamicIInv'
<1>1. /\ sup' = sup /\ awaiting' = awaiting /\ buffered' = buffered /\ refs' = refs /\ task' = task
      /\ watched' = watched /\ given_up' = given_up /\ confused' = confused
  OBVIOUS
<1>2. /\ Things /\ Watches /\ Records /\ UnderWay /\ Spoken /\ Clear /\ Prompt
  BY DEF DynamicIInv
<1>3. /\ Tail(mailbox) \in Seq(Messages) /\ Tail(mailbox) \in Seq(Said) /\ Running
      /\ ~confused => Tail(mailbox) \in Seq(Truthful)
      /\ "slow" \notin setup.faults =>
            /\ Tail(mailbox) \in Seq(Quiet) /\ GivenUpSeldom
            /\ \A i \in Instances : ~ (task[i] = "init" /\ Server(i))
  BY ReadingIs
<1>4. Things'
  <2>1. cancelled' \subseteq Instances
    OBVIOUS
  <2> QED BY <2>1, <1>1, <1>2, <1>3 DEF Things
<1>5. Watches'
  BY <1>1, <1>2 DEF Watches
<1>6. Records'
  BY <1>1, <1>2 DEF Records
<1>7. UnderWay'
  <2>1. Running'
    BY <1>1 DEF Running
  <2>2. /\ todo' \in Seq(known') /\ IsInjective(todo') /\ adding' \in Clients \cup {None}
        /\ adding' # None => \E c \in Dynamic : todo' = <<c>> /\ pid'[c] = None
    <3>1. CASE todo' = <<>> /\ adding' = None
      BY <3>1 DEF IsInjective
    <3>2. ASSUME adding' \in Clients, NEW c \in Dynamic \cap known', todo' = <<c>>, pid'[c] = None
          PROVE  todo' \in Seq(known') /\ IsInjective(todo')
      <4>1. <<c>> \in Seq(known') /\ IsInjective(<<c>>)
        BY DEF IsInjective
      <4> QED BY <4>1, <3>2
    <3> QED BY <3>1, <3>2
  <2> QED BY <2>1, <2>2, <1>1 DEF UnderWay
<1>8. Spoken'
  <2>1. Said' = Said
    BY <1>1 DEF Said
  <2>2. mailbox' \in Seq(Said) /\ buffered' \in Seq(Said)
    BY <1>1, <1>2, <1>3 DEF Spoken
  <2> QED BY <2>1, <2>2 DEF Spoken
<1>9. Clear'
  <2> SUFFICES ASSUME ~confused
               PROVE  /\ mailbox' \in Seq(Truthful') /\ buffered' \in Seq(Truthful')
                      /\ NoStrays' /\ NoOrphans'
                      /\ \A c, d \in Children : ref'[c] = ref'[d] /\ ref'[c] # None => c = d
                      /\ \A k \in DOMAIN todo' : ~IsAlive(pid[todo[k]])'
    BY <1>1 DEF Clear
  <2>1. /\ buffered \in Seq(Truthful) /\ NoStrays
        /\ \A c, d \in Children : ref[c] = ref[d] /\ ref[c] # None => c = d
    BY <1>2 DEF Clear
  <2>2. Truthful \subseteq Truthful'
    BY <1>1, TruthfulKept
  <2>3. mailbox' \in Seq(Truthful') /\ buffered' \in Seq(Truthful')
    <3>1. Tail(mailbox) \in Seq(Truthful') /\ buffered \in Seq(Truthful')
      BY <2>1, <2>2, <1>3, SeqWiden
    <3> QED BY <3>1, <1>1
  <2>4. NoStrays'
    <3> SUFFICES ASSUME NEW i \in Instances, IsAlive(i)
                 PROVE  \/ i \in given_up
                        \/ /\ i[1] \in known' /\ pid'[i[1]] = i /\ watched[i] = ref'[i[1]]
                           /\ ref'[i[1]] # None
      BY <1>1 DEF NoStrays, IsAlive
    <3>1. \/ i \in given_up
          \/ /\ i[1] \in known /\ pid[i[1]] = i /\ watched[i] = ref[i[1]] /\ ref[i[1]] # None
      BY <2>1, <1>3, DynamicSupervisorAssumption DEF NoStrays
    <3>2. i[1] \in known => i[1] \in Children
      BY DEF DynamicIInv, Lists
    <3> QED BY <3>1, <3>2
  <2>5. NoOrphans'
    BY <1>1 DEF NoOrphans
  <2>6. \A k \in DOMAIN todo' : ~IsAlive(pid[todo[k]])'
    <3>1. CASE todo' = <<>>
      BY <3>1
    <3>2. ASSUME NEW c \in Dynamic, todo' = <<c>>, pid'[c] = None
          PROVE  \A k \in DOMAIN todo' : ~IsAlive(pid[todo[k]])'
      <4>1. \A k \in DOMAIN todo' : todo'[k] = c
        BY <3>2
      <4> QED BY <3>2, <4>1 DEF IsAlive
    <3> QED BY <3>1, <3>2
  <2>7. \A c, d \in Children : ref'[c] = ref'[d] /\ ref'[c] # None => c = d
    BY <2>1
  <2> QED BY <2>3, <2>4, <2>5, <2>6, <2>7
<1>10. Prompt'
  <2> SUFFICES ASSUME "slow" \notin setup.faults
               PROVE  /\ GivenUpSeldom'
                      /\ \A j \in Instances : task'[j] = "init" /\ Server(j)' => j = awaiting'
                      /\ buffered' \in Seq(Quiet') /\ OneOf(mailbox, WordOf(awaiting))'
    BY DEF Prompt
  <2>1. Quiet' = Quiet /\ \A j \in Instances : Server(j)' = Server(j)
    BY QuietKept
  <2>2. GivenUpSeldom'
    BY <2>1, <1>1, <1>2, <1>3 DEF GivenUpSeldom, Things
  <2>3. buffered \in Seq(Quiet) /\ OneOf(mailbox', WordOf(awaiting)')
    BY <1>2, <1>3 DEF Prompt, OneOf
  <2> QED BY <2>1, <2>2, <2>3, <1>1, <1>3 DEF OneOf
<1> QED BY <1>4, <1>5, <1>6, <1>7, <1>8, <1>9, <1>10 DEF DynamicIInv

\* A restart, up to the first start, keeps the invariant.
LEMMA RestartKeeps ==
    ASSUME DynamicIInv, setup' = setup,
           sup = "serving", awaiting = None, todo = <<>>, mailbox # <<>>,
           NEW c \in known, ~confused => ~IsAlive(pid[c]),
           NEW kept \in Nat, kept + 1 <= MaxRestarts, Restart(c, kept),
           pending_terminations' \in [Children -> Clients \cup {None}], given_up' = given_up
    PROVE  DynamicIInv'
<1> DEFINE S == {i \in {pid[d] : d \in Killable(c)} : IsAlive(i)}
           notices == [k \in 1 .. 2 * Cardinality(S) |-> NOTICE]
<1>1. /\ todo' = Restarted(c) /\ failures' = [failures EXCEPT ![c] = kept + 1]
      /\ sup' = sup /\ known' = known /\ dynamic_children' = dynamic_children /\ restart' = restart
      /\ adding' = adding /\ awaiting' = awaiting /\ buffered' = buffered
      /\ pid' = pid /\ ref' = ref /\ confused' = confused
      /\ task' = [i \in Instances |-> IF i \in S THEN "killed" ELSE task[i]]
      /\ cancelled' = cancelled \ S
      /\ watched' = [i \in Instances |-> IF i \in S THEN None ELSE watched[i]]
      /\ refs' = refs \ {watched[i] : i \in S}
      /\ mailbox' = Tail(mailbox) \o notices
  BY DEF Restart, Kill, tableVars
<1>2. /\ Lists /\ Fields /\ Things /\ Watches /\ Records /\ UnderWay /\ Spoken /\ Clear /\ Prompt
  BY DEF DynamicIInv
<1>3. /\ Tail(mailbox) \in Seq(Messages) /\ Tail(mailbox) \in Seq(Said) /\ Running /\ adding = None
      /\ ~confused => Tail(mailbox) \in Seq(Truthful)
      /\ "slow" \notin setup.faults =>
            /\ Tail(mailbox) \in Seq(Quiet) /\ GivenUpSeldom
            /\ \A i \in Instances : ~ (task[i] = "init" /\ Server(i))
  BY ReadingIs
<1>4. /\ Restarted(c) \in Seq(known) /\ IsInjective(Restarted(c))
      /\ \A k \in DOMAIN Restarted(c) : Restarted(c)[k] = c \/ Restarted(c)[k] \in Killable(c)
      /\ Killable(c) \subseteq known /\ known \subseteq Children
  <2>1. /\ Restarted(c) \in Seq(known \cap Children) /\ IsInjective(Restarted(c))
        /\ \A k \in 1 .. Len(Restarted(c)) : Restarted(c)[k] = c \/ Restarted(c)[k] \in Killable(c)
        /\ Killable(c) \subseteq known \ {c}
    BY <1>2, RestartedIs
  <2>2. known \cap Children \subseteq known /\ DOMAIN Restarted(c) = 1 .. Len(Restarted(c))
    BY <2>1, LenProperties
  <2>3. Restarted(c) \in Seq(known)
    BY <2>1, <2>2, SeqWiden
  <2> QED BY <2>1, <2>2, <2>3, <1>2 DEF Lists
<1>5. \A i \in S : i \in Instances /\ task[i] = "up"
  <2> SUFFICES ASSUME NEW d \in Killable(c), IsAlive(pid[d])
               PROVE  pid[d] \in Instances /\ task[pid[d]] = "up"
    OBVIOUS
  <2>1. d \in Children /\ pid[d] # None
    BY <1>4 DEF IsAlive
  <2> QED BY <2>1, <1>2 DEF Records, Things, IsAlive
<1>6. \A T : NOTICE \in T => notices \in Seq(T)
  <2>1. IsFiniteSet(S)
    BY <1>5, FinitelyMany, FS_Subset
  <2>2. Cardinality(S) \in Nat
    BY <2>1, FS_CardinalityType
  <2> HIDE DEF S
  <2>3. 2 * Cardinality(S) \in Nat
    BY <2>2
  <2> QED BY <2>3
<1>7. NOTICE \in Messages /\ NOTICE \in Said' /\ NOTICE \in Truthful' /\ NOTICE \in Quiet
  <2>1. NOTICE \in Plain
    BY MessageTypes
  <2>2. NOTICE \in Truthful'
    BY <2>1 DEF Plain, Mute, Truthful
  <2> QED BY <2>1, <2>2, PlainSays
<1> HIDE DEF notices
<1>8. notices \in Seq(Messages) /\ notices \in Seq(Said') /\ notices \in Seq(Truthful') /\ notices \in Seq(Quiet)
  <2> HIDE DEF Said, Truthful, Quiet
  <2> QED BY <1>6, <1>7
<1>9. /\ \A i \in Instances : task'[i] = IF i \in S THEN "killed" ELSE task[i]
      /\ \A i \in Instances : watched'[i] = IF i \in S THEN None ELSE watched[i]
      /\ \A d \in Killable(c) : IsAlive(pid[d]) => pid[d] \in S
  BY <1>1
<1> HIDE DEF S
<1>10. Lists' /\ Fields'
  <2>1. c \in Children /\ kept + 1 \in 0 .. MaxRestarts
    BY <1>4, DynamicSupervisorAssumption
  <2> QED BY <2>1, <1>1, <1>2 DEF Lists, Fields
<1>11. Things'
  <2>1. mailbox' \in Seq(Messages)
    BY <1>1, <1>3, <1>8, SeqFacts
  <2>2. "killed" \in Statuses
    BY DEF Statuses
  <2>3. task' \in [Instances -> Statuses] /\ watched' \in [Instances -> Refs \cup {None}]
    BY <2>2, <1>1, <1>2 DEF Things
  <2> QED BY <2>1, <2>3, <1>1, <1>2 DEF Things
<1>12. Watches'
  <2>1. ASSUME NEW x \in refs' PROVE \E j \in Instances : watched'[j] = x
    <3>1. PICK j \in Instances : watched[j] = x
      BY <1>1, <1>2 DEF Watches
    <3>2. j \notin S
      BY <3>1, <1>1
    <3> QED BY <3>1, <3>2, <1>9
  <2>2. given_up \subseteq Instances /\ cancelled \subseteq Instances
    BY <1>2 DEF Things
  <2> QED BY <2>1, <2>2, <1>1, <1>2, <1>9 DEF Watches
<1>13. Records'
  BY <1>1, <1>2, <1>9 DEF Records, Things
<1>14. UnderWay'
  <2>1. Running'
    BY <1>1 DEF Running
  <2> QED BY <2>1, <1>1, <1>3, <1>4 DEF UnderWay
<1>15. Spoken'
  <2>1. Said \subseteq Said'
    BY <1>9, SaidKept
  <2>2. Tail(mailbox) \in Seq(Said') /\ buffered \in Seq(Said')
    <3>1. buffered \in Seq(Said)
      BY <1>2 DEF Spoken
    <3> HIDE DEF Said
    <3> QED BY <2>1, <3>1, <1>3, SeqWiden
  <2>3. mailbox' \in Seq(Said')
    BY <2>2, <1>1, <1>8, SeqFacts
  <2> QED BY <2>2, <2>3, <1>1 DEF Spoken
<1>16. Clear'
  <2> SUFFICES ASSUME ~confused
               PROVE  /\ mailbox' \in Seq(Truthful') /\ buffered' \in Seq(Truthful')
                      /\ NoStrays' /\ NoOrphans'
                      /\ \A d, e \in Children : ref'[d] = ref'[e] /\ ref'[d] # None => d = e
                      /\ \A k \in DOMAIN todo' : ~IsAlive(pid[todo[k]])'
    BY <1>1 DEF Clear
  <2>1. /\ buffered \in Seq(Truthful) /\ NoStrays
        /\ \A d, e \in Children : ref[d] = ref[e] /\ ref[d] # None => d = e
    BY <1>2 DEF Clear
  <2>2. Truthful \subseteq Truthful'
    <3>1. \A d \in Children : pid[d] # None /\ task[pid[d]] \in EndReasons => task'[pid[d]] = task[pid[d]]
      BY <1>2, <1>5, <1>9 DEF Things, EndReasons, NORMAL, SHUTDOWN, CRASH
    <3> QED BY <3>1, <1>1, TruthfulKept
  <2>3. Tail(mailbox) \in Seq(Truthful') /\ buffered \in Seq(Truthful')
    BY <2>1, <2>2, <1>3, SeqWiden
  <2>4. mailbox' \in Seq(Truthful')
    BY <2>3, <1>1, <1>8, SeqFacts
  <2>5. \A i \in Instances : IsAlive(i)' => IsAlive(i) /\ i \notin S
    BY <1>9 DEF IsAlive
  <2>6. NoStrays'
    <3> SUFFICES ASSUME NEW i \in Instances, IsAlive(i)'
                 PROVE  \/ i \in given_up
                        \/ /\ i[1] \in known /\ pid[i[1]] = i /\ watched'[i] = ref[i[1]]
                           /\ ref[i[1]] # None
      BY <1>1 DEF NoStrays
    <3>1. IsAlive(i) /\ i \notin S
      BY <2>5
    <3>2. watched'[i] = watched[i]
      BY <3>1, <1>9
    <3>3. i # awaiting
      BY DynamicSupervisorAssumption
    <3> QED BY <3>1, <3>2, <3>3, <2>1, <1>3 DEF NoStrays
  <2>7. NoOrphans'
    BY <1>1 DEF NoOrphans
  <2>8. ASSUME NEW d \in Children, d = c \/ d \in Killable(c) PROVE ~IsAlive(pid[d])'
    <3>1. ~IsAlive(pid[d]) \/ pid[d] \in S
      BY <2>8, <1>9
    <3>2. ASSUME IsAlive(pid[d])' PROVE FALSE
      <4>1. pid[d] # None /\ pid[d] \in Instances
        BY <3>2, <1>1, <1>2 DEF IsAlive, Things
      <4>2. IsAlive(pid[d]) /\ pid[d] \notin S
        BY <4>1, <3>2, <2>5, <1>1 DEF IsAlive
      <4> QED BY <4>2, <3>1
    <3> QED BY <3>2
  <2>9. \A k \in DOMAIN todo' : ~IsAlive(pid[todo[k]])'
    <3>1. \A k \in DOMAIN todo' : todo'[k] \in Children /\ (todo'[k] = c \/ todo'[k] \in Killable(c))
      BY <1>1, <1>4, ElementOfSeq, LenProperties
    <3> QED BY <3>1, <2>8 DEF IsAlive
  <2> QED BY <2>1, <2>3, <2>4, <2>6, <2>7, <2>9, <1>1
<1>17. Prompt'
  <2> SUFFICES ASSUME "slow" \notin setup.faults
               PROVE  /\ GivenUpSeldom'
                      /\ \A j \in Instances : task'[j] = "init" /\ Server(j)' => j = awaiting'
                      /\ buffered' \in Seq(Quiet') /\ OneOf(mailbox, WordOf(awaiting))'
    BY DEF Prompt
  <2>1. Quiet' = Quiet /\ \A j \in Instances : Server(j)' = Server(j)
    BY QuietKept
  <2>2. GivenUpSeldom'
    BY <2>1, <1>1, <1>2, <1>3 DEF GivenUpSeldom, Things
  <2>3. mailbox' \in Seq(Quiet)
    BY <1>1, <1>3, <1>8, SeqFacts
  <2>4. buffered \in Seq(Quiet) /\ OneOf(mailbox', WordOf(awaiting)')
    BY <2>3, <1>2 DEF Prompt, OneOf
  <2>5. \A j \in Instances : ~ (task'[j] = "init" /\ Server(j)')
    BY <2>1, <1>3, <1>9
  <2> QED BY <2>1, <2>2, <2>4, <2>5, <1>1 DEF OneOf
<1> QED BY <1>10, <1>11, <1>12, <1>13, <1>14, <1>15, <1>16, <1>17 DEF DynamicIInv

\* The end of the supervisor in a handler keeps the invariant.
LEMMA StoppedKeeps ==
    ASSUME DynamicIInv, setup' = setup,
           sup = "serving", awaiting = None, todo = <<>>, mailbox # <<>>,
           NEW how \in {"stopped", "gave_up"}, StopChildren(how),
           pending_terminations' \in [Children -> Clients \cup {None}], given_up' = given_up
    PROVE  DynamicIInv'
<1>1. Gone(how) /\ Fields'
  BY DEF StopChildren, Gone, tableVars, Fields, DynamicIInv
<1>2. /\ Running
      /\ "slow" \notin setup.faults =>
            GivenUpSeldom /\ \A i \in Instances : ~ (task[i] = "init" /\ Server(i))
  BY ReadingIs
<1>3. NoOrphans' /\ \A i \in cancelled' : i \in Instances /\ task[i] = "up"
  BY <1>2, StopLeaves
<1>4. given_up \subseteq Instances /\ \A i \in given_up' : i \in Instances /\ task[i] # "absent"
  BY DEF DynamicIInv, Things, Watches
<1>5. \A i \in Instances : Server(i)' = Server(i)
  BY QuietKept
<1>6. "slow" \notin setup.faults => GivenUpSeldom'
  BY <1>2, <1>4, <1>5 DEF GivenUpSeldom
<1> QED BY <1>1, <1>2, <1>3, <1>4, <1>6, GoneKeeps

\* The DOWN of the child on record keeps the invariant.
LEMMA DownKeeps ==
    ASSUME DynamicIInv, setup' = setup,
           sup = "serving", awaiting = None, todo = <<>>, mailbox # <<>>,
           Head(mailbox).tag = "DOWN", HandleDown(Head(mailbox)), given_up' = given_up
    PROVE  DynamicIInv'
<1> DEFINE m == Head(mailbox)
           c == FirstOwner(m.ref)
<1>1. /\ Lists /\ Fields /\ Things /\ Watches /\ Records
      /\ known \subseteq Children /\ StaticIds \subseteq known
      /\ pid \in [Children -> Instances \cup {None}] /\ ref \in [Children -> Refs \cup {None}]
      /\ failures \in [Children -> 0 .. MaxRestarts]
      /\ restart \in [Children -> RestartTypes \cup {StaticType}]
      /\ pending_terminations \in [Children -> Clients \cup {None}]
  BY DEF DynamicIInv, Lists, Fields, Things
<1>2. /\ m \in Messages /\ (~confused => m \in Truthful) /\ m.reason \in EndReasons /\ adding = None
  <2>1. /\ Head(mailbox) \in Messages /\ (~confused => Head(mailbox) \in Truthful) /\ adding = None
    BY ReadingIs
  <2> QED BY <2>1, MessageKinds
<1>3. \A i \in cancelled : i \in Instances /\ task[i] = "up"
  BY <1>1 DEF Things, Watches
<1> HIDE DEF m, c
<1>4. CASE Owners(m.ref) = {}
  <2>1. /\ mailbox' = Tail(mailbox)
        /\ UNCHANGED <<sup, startVars, pid, ref, failures, confused, refs, task, watched>>
        /\ UNCHANGED <<tableVars, pending_terminations, cancelled>>
    BY <1>4 DEF HandleDown, Ignore, m
  <2>2. Lists' /\ Fields'
    BY <2>1, <1>1 DEF Lists, Fields, tableVars
  <2>3. /\ \A d \in Children : pid[d] # None => d \in known
        /\ \A d \in Children : ref[d] # None => pid[d] # None
        /\ \A d \in Children : IsAlive(pid[d]) => pid[d] # None
    BY <1>1 DEF Records, IsAlive
  <2> QED BY <2>1, <2>2, <2>3, <1>1, <1>2, <1>3, HandledKeeps DEF startVars, tableVars
<1>5. CASE Owners(m.ref) # {}
  <2>1. c \in known /\ ref[c] = m.ref /\ c \in Children
    BY <1>1, <1>5, OwnerIs DEF c
  <2>2. Answered(c) /\ HandleChildExit(c, m.reason)
    BY <1>5 DEF HandleDown, m, c
  <2>3. pending_terminations' \in [Children -> Clients \cup {None}]
    BY <2>1, <2>2, <1>1 DEF Answered
  <2>4. ~confused => ~IsAlive(pid[c])
    <3>1. ~confused => task[pid[c]] = m.reason
      BY <2>1, <1>2 DEF Truthful, m
    <3> QED BY <3>1, <1>2 DEF IsAlive, EndReasons, NORMAL, SHUTDOWN, CRASH
  <2>5. CASE Drop(c)
    <3>1. /\ known' = known \ ({c} \cap Dynamic)
          /\ dynamic_children' = RemoveFirst(dynamic_children, c)
          /\ pid' = [pid EXCEPT ![c] = None] /\ ref' = [ref EXCEPT ![c] = None]
          /\ restart' = [restart EXCEPT ![c] = StaticType]
          /\ failures' = IF c \in Dynamic THEN [failures EXCEPT ![c] = 0] ELSE failures
          /\ mailbox' = Tail(mailbox)
          /\ UNCHANGED <<sup, todo, adding, awaiting, buffered, confused, refs, task, watched>>
          /\ cancelled' = cancelled
      BY <2>5 DEF Drop, startVars, instVars
    <3>2. Lists'
      <4>1. /\ dynamic_children \in Seq(Dynamic) /\ IsInjective(dynamic_children)
            /\ ToSet(dynamic_children) = known \ StaticIds
            /\ StaticIds \cap Dynamic = {} /\ Children = StaticIds \cup Dynamic
        BY <1>1, DynamicSupervisorAssumption DEF Lists, Children
      <4>2. /\ dynamic_children' \in Seq(Dynamic) /\ IsInjective(dynamic_children')
            /\ ToSet(dynamic_children') = (known \ StaticIds) \ {c}
        BY <4>1, <3>1, RemovedFirst
      <4>3. StaticIds \subseteq known' /\ known' \subseteq Children
        BY <3>1, <4>1, <1>1
      <4>4. known' \ StaticIds = (known \ StaticIds) \ {c}
        BY <3>1, <4>1, <1>1, <2>1
      <4> QED BY <4>2, <4>3, <4>4 DEF Lists
    <3>3. Fields'
      <4>1. 0 \in 0 .. MaxRestarts
        BY DynamicSupervisorAssumption
      <4> QED BY <4>1, <3>1, <2>3, <1>1 DEF Fields
    <3>4. /\ pid' \in [Children -> Instances \cup {None}] /\ ref' \in [Children -> Refs \cup {None}]
          /\ \A d \in Children : pid'[d] = IF d = c THEN None ELSE pid[d]
          /\ \A d \in Children : ref'[d] = IF d = c THEN None ELSE ref[d]
      BY <3>1, <1>1
    <3>5. /\ \A d \in Children : pid'[d] # None => pid'[d] = pid[d] /\ d \in known' /\ ref'[d] = ref[d]
          /\ \A d \in Children : ref'[d] # None => ref'[d] = ref[d] /\ pid'[d] # None
      BY <3>1, <3>4, <1>1 DEF Records
    <3>6. ~confused => \A d \in Children : IsAlive(pid[d]) => pid'[d] # None
      BY <3>4, <2>4 DEF IsAlive
    <3> QED BY <3>1, <3>2, <3>3, <3>4, <3>5, <3>6, <1>2, <1>3, HandledKeeps
  <2>6. CASE StopChildren("gave_up")
    BY <2>3, <2>6, StoppedKeeps
  <2>7. ASSUME NEW kept \in IF WindowPasses THEN 0 .. failures[c] ELSE {failures[c]},
               kept + 1 <= MaxRestarts, Restart(c, kept)
        PROVE  DynamicIInv'
    <3>1. kept \in Nat
      <4>1. failures[c] \in 0 .. MaxRestarts /\ MaxRestarts \in Nat
        BY <2>1, <1>1, DynamicSupervisorAssumption
      <4> QED BY <4>1, <2>7
    <3> QED BY <3>1, <2>1, <2>3, <2>4, <2>7, RestartKeeps
  <2> QED BY <2>2, <2>5, <2>6, <2>7 DEF HandleChildExit
<1> QED BY <1>4, <1>5

\* The message at the head is handled.
LEMMA ReceiveKeeps ==
    ASSUME DynamicIInv, setup' = setup, Receive
    PROVE  DynamicIInv'
<1> DEFINE m == Head(mailbox)
<1>1. /\ sup = "serving" /\ awaiting = None /\ todo = <<>> /\ mailbox # <<>> /\ given_up' = given_up
  BY DEF Receive
<1>2. /\ m \in Messages /\ adding = None
  BY <1>1, ReadingIs
<1>3. /\ Lists /\ Fields /\ Things /\ Watches /\ Records
      /\ known \subseteq Children /\ StaticIds \subseteq known
      /\ pid \in [Children -> Instances \cup {None}] /\ ref \in [Children -> Refs \cup {None}]
      /\ failures \in [Children -> 0 .. MaxRestarts]
      /\ restart \in [Children -> RestartTypes \cup {StaticType}]
      /\ pending_terminations \in [Children -> Clients \cup {None}]
      /\ \A i \in cancelled : i \in Instances /\ task[i] = "up"
      /\ \A d \in Children : pid[d] # None => d \in known /\ pid[d] \in Instances
                                             /\ task[pid[d]] \notin {"absent", "init"}
      /\ \A d \in Children : ref[d] # None => pid[d] # None
      /\ \A d \in Children : IsAlive(pid[d]) => pid[d] # None
  BY DEF DynamicIInv, Lists, Fields, Things, Watches, Records, IsAlive
\* Nothing is started, and nothing changes on record.
<1>4. ASSUME mailbox' = Tail(mailbox),
             UNCHANGED <<sup, startVars, pid, ref, failures, confused, refs, task, watched, tableVars>>,
             pending_terminations' \in [Children -> Clients \cup {None}],
             \A i \in cancelled' : i \in Instances /\ task[i] = "up"
      PROVE  DynamicIInv'
  <2>1. /\ sup' = sup /\ known' = known /\ dynamic_children' = dynamic_children /\ restart' = restart
        /\ todo' = todo /\ adding' = adding /\ awaiting' = awaiting /\ buffered' = buffered
        /\ pid' = pid /\ ref' = ref /\ failures' = failures /\ confused' = confused
        /\ refs' = refs /\ task' = task /\ watched' = watched
    BY <1>4 DEF startVars, tableVars
  <2>2. Lists' /\ Fields'
    BY <2>1, <1>3, <1>4 DEF Lists, Fields
  <2> HIDE DEF m
  <2> QED BY <2>1, <2>2, <1>1, <1>2, <1>3, <1>4, HandledKeeps
<1> HIDE DEF m
<1>5. CASE m.tag = "DOWN" /\ HandleDown(m)
  BY <1>1, <1>5, DownKeeps DEF m
<1>6. CASE m.tag = "ADD_CHILD" /\ AddChild(m)
  <2> DEFINE c == m.child
  <2>1. c \in Children /\ m.restart \in RestartTypes /\ m.from \in Clients
    BY <1>2, <1>6, MessageKinds
  <2> HIDE DEF c
  <2>2. /\ mailbox' = Tail(mailbox)
        /\ UNCHANGED <<sup, awaiting, buffered, pid, ref, failures, confused, refs, task, watched>>
        /\ cancelled' = cancelled /\ pending_terminations' = pending_terminations
    BY <1>6 DEF AddChild, instVars
  <2>3. CASE UNCHANGED <<tableVars, todo, adding>>
    BY <2>2, <2>3, <1>3, <1>4 DEF startVars
  <2>4. CASE /\ c \notin known /\ known' = known \cup {c}
             /\ restart' = [restart EXCEPT ![c] = m.restart]
             /\ dynamic_children' = Append(dynamic_children, c)
             /\ todo' = <<c>> /\ adding' = m.from
    <3>1. c \in Dynamic \cap known' /\ pid[c] = None
      BY <2>1, <2>4, <1>3 DEF Children
    <3>2. Lists'
      <4>1. /\ dynamic_children \in Seq(Dynamic) /\ IsInjective(dynamic_children)
            /\ ToSet(dynamic_children) = known \ StaticIds
        BY <1>3 DEF Lists
      <4>2. c \notin ToSet(dynamic_children) /\ c \notin StaticIds
        BY <4>1, <2>4, <1>3
      <4>3. /\ dynamic_children' \in Seq(Dynamic) /\ IsInjective(dynamic_children')
            /\ ToSet(dynamic_children') = (known \ StaticIds) \cup {c}
        BY <4>1, <4>2, <3>1, <2>4, Appended
      <4>4. known' \ StaticIds = (known \ StaticIds) \cup {c}
        BY <4>2, <2>4
      <4> QED BY <4>3, <4>4, <2>1, <2>4, <1>3 DEF Lists
    <3>3. Fields'
      BY <2>1, <2>2, <2>4, <1>3 DEF Fields
    <3>4. \A d \in Children : pid'[d] # None => pid'[d] = pid[d] /\ d \in known' /\ ref'[d] = ref[d]
      BY <2>2, <2>4, <1>3
    <3>5. given_up' = given_up /\ adding' \in Clients /\ pid'[c] = None
      BY <1>1, <2>1, <2>2, <2>4, <3>1
    <3> QED BY <3>1, <3>2, <3>3, <3>4, <3>5, <2>2, <2>4, <1>1, <1>3, HandledKeeps
  <2> QED BY <1>6, <2>3, <2>4 DEF AddChild, c
<1>7. CASE m.tag = "TERMINATE_CHILD" /\ TerminateChild(m)
  <2> DEFINE c == m.child
  <2>1. c \in Children /\ m.from \in Clients
    BY <1>2, <1>7, MessageKinds
  <2>2. /\ mailbox' = Tail(mailbox)
        /\ UNCHANGED <<sup, startVars, pid, ref, failures, confused, refs, task, watched, tableVars>>
    BY <1>7 DEF TerminateChild, Ignore
  <2>3. \/ cancelled' = cancelled /\ pending_terminations' = pending_terminations
        \/ /\ IsAlive(pid[c]) /\ cancelled' = cancelled \cup {i \in {pid[c]} : IsAlive(i)}
           /\ pending_terminations' = [pending_terminations EXCEPT ![c] = m.from]
    BY <1>7 DEF TerminateChild, Told
  <2> HIDE DEF c
  <2>4. pending_terminations' \in [Children -> Clients \cup {None}]
    BY <2>1, <2>3, <1>3
  <2>5. \A i \in cancelled' : i \in Instances /\ task[i] = "up"
    <3>1. IsAlive(pid[c]) => pid[c] \in Instances /\ task[pid[c]] = "up"
      BY <2>1, <1>3 DEF IsAlive
    <3> QED BY <3>1, <2>3, <1>3
  <2> QED BY <2>2, <2>4, <2>5, <1>4
<1>8. CASE Query(m) \/ Unread(m)
  <2>1. /\ mailbox' = Tail(mailbox)
        /\ UNCHANGED <<sup, startVars, pid, ref, failures, confused, refs, task, watched, tableVars>>
        /\ cancelled' = cancelled /\ pending_terminations' = pending_terminations
    BY <1>8 DEF Query, Unread, Ignore
  <2> QED BY <2>1, <1>3, <1>4
<1>9. CASE StopChildren("stopped") /\ UNCHANGED <<inbox, pending_terminations>>
  <2>1. pending_terminations' \in [Children -> Clients \cup {None}]
    BY <1>3, <1>9
  <2> QED BY <2>1, <1>1, <1>9, StoppedKeeps
<1> QED BY <1>5, <1>6, <1>7, <1>8, <1>9 DEF Receive, m

-----------------------------------------------------------------------------
(* Clients, and the whole specification.                                   *)

\* A request in the mailbox, or a step of a client alone, keeps the invariant.
LEMMA ClientKeeps ==
    ASSUME DynamicIInv, UNCHANGED <<setup, supVars, refs, instVars>>,
           \/ mailbox' = mailbox
           \/ Running /\ \E m \in Plain : mailbox' = Append(mailbox, m)
    PROVE  DynamicIInv'
<1>1. /\ sup' = sup /\ known' = known /\ dynamic_children' = dynamic_children /\ restart' = restart
      /\ todo' = todo /\ adding' = adding /\ awaiting' = awaiting /\ buffered' = buffered
      /\ pid' = pid /\ ref' = ref /\ failures' = failures /\ given_up' = given_up
      /\ refs' = refs /\ task' = task /\ cancelled' = cancelled /\ watched' = watched
      /\ pending_terminations' = pending_terminations /\ confused' = confused /\ setup' = setup
  BY DEF supVars, tableVars, startVars, instVars
<1>2. /\ Lists /\ Fields /\ Things /\ Watches /\ Records /\ UnderWay /\ Spoken /\ Clear /\ Prompt
  BY DEF DynamicIInv
<1>3. ASSUME NEW S, mailbox \in Seq(S), Plain \subseteq S PROVE mailbox' \in Seq(S)
  <2>1. CASE mailbox' = mailbox
    BY <2>1, <1>3
  <2>2. ASSUME NEW m \in Plain, mailbox' = Append(mailbox, m) PROVE mailbox' \in Seq(S)
    <3>1. m \in S
      BY <1>3
    <3> QED BY <3>1, <2>2, <1>3
  <2> QED BY <2>1, <2>2
<1>4. Lists' /\ Fields' /\ Watches' /\ Records' /\ UnderWay'
  <2>1. ~Running => mailbox' = mailbox
    OBVIOUS
  <2> QED BY <2>1, <1>1, <1>2 DEF Lists, Fields, Watches, Records, UnderWay, Running
<1>5. Plain \subseteq Messages /\ Plain \subseteq Said /\ Plain \subseteq Truthful /\ Plain \subseteq Quiet
  BY PlainSays
<1>6. Things'
  <2>1. mailbox' \in Seq(Messages)
    BY <1>2, <1>3, <1>5 DEF Things
  <2> QED BY <2>1, <1>1, <1>2 DEF Things
<1>7. Spoken'
  <2>1. Said' = Said /\ mailbox \in Seq(Said) /\ buffered \in Seq(Said)
    BY <1>1, <1>2 DEF Said, Spoken
  <2>2. mailbox' \in Seq(Said)
    <3> HIDE DEF Said
    <3> QED BY <2>1, <1>3, <1>5
  <2> QED BY <2>1, <2>2, <1>1 DEF Spoken
<1>8. Clear'
  <2>1. Truthful' = Truthful
    BY <1>1 DEF Truthful
  <2>2. ~confused => mailbox' \in Seq(Truthful)
    <3>1. ~confused => mailbox \in Seq(Truthful)
      BY <1>2 DEF Clear
    <3> HIDE DEF Truthful
    <3> QED BY <3>1, <1>3, <1>5
  <2>3. NoStrays' = NoStrays /\ NoOrphans' = NoOrphans
    BY <1>1 DEF NoStrays, NoOrphans, Running, IsAlive, Live
  <2>4. \A i : IsAlive(i)' <=> IsAlive(i)
    BY <1>1 DEF IsAlive
  <2> QED BY <2>1, <2>2, <2>3, <2>4, <1>1, <1>2 DEF Clear
<1>9. Prompt'
  <2> SUFFICES ASSUME "slow" \notin setup.faults
               PROVE  /\ GivenUpSeldom'
                      /\ \A j \in Instances : task'[j] = "init" /\ Server(j)' => j = awaiting'
                      /\ buffered' \in Seq(Quiet') /\ OneOf(mailbox, WordOf(awaiting))'
    BY DEF Prompt
  <2>1. /\ GivenUpSeldom /\ buffered \in Seq(Quiet) /\ OneOf(mailbox, WordOf(awaiting))
        /\ \A j \in Instances : task[j] = "init" /\ Server(j) => j = awaiting
        /\ mailbox \in Seq(Messages)
    BY <1>2 DEF Prompt, Things
  <2>2. Quiet' = Quiet /\ \A j \in Instances : Server(j)' = Server(j)
    BY <1>1, QuietKept
  <2>3. GivenUpSeldom'
    BY <2>1, <2>2, <1>1, <1>2 DEF GivenUpSeldom, Things
  <2>4. OneOf(mailbox', WordOf(awaiting))
    <3>1. ASSUME NEW m \in Plain, mailbox' = Append(mailbox, m)
          PROVE  OneOf(mailbox', WordOf(awaiting))
      <4>1. <<m>> \in Seq(Quiet) /\ mailbox' = mailbox \o <<m>>
        BY <3>1, <2>1, <1>5
      <4> QED BY <4>1, <2>1, OneMore
    <3> QED BY <3>1, <2>1
  <2>5. WordOf(awaiting)' = WordOf(awaiting)
    BY <1>1 DEF WordOf, IsAlive
  <2> QED BY <2>1, <2>2, <2>3, <2>4, <2>5, <1>1 DEF OneOf
<1> QED BY <1>4, <1>6, <1>7, <1>8, <1>9 DEF DynamicIInv

\* The initial states satisfy the invariant.
LEMMA InitHolds == Init => DynamicIInv
<1> SUFFICES ASSUME Init PROVE DynamicIInv
  OBVIOUS
<1>1. /\ setup \in Setups /\ sup = IF Static = <<>> THEN "serving" ELSE "starting"
      /\ mailbox = <<>> /\ refs = {} /\ known = StaticIds
      /\ dynamic_children = <<>> /\ cancelled = {} /\ confused = FALSE /\ given_up = {}
      /\ restart = [c \in Children |-> StaticType] /\ failures = [c \in Children |-> 0]
      /\ pid = [c \in Children |-> None] /\ ref = [c \in Children |-> None]
      /\ pending_terminations = [c \in Children |-> None]
      /\ todo = Static /\ adding = None /\ awaiting = None /\ buffered = <<>>
      /\ task = [i \in Instances |-> "absent"] /\ watched = [i \in Instances |-> None]
  BY DEF Init
<1>2. /\ Static \in Seq(StaticIds) /\ IsInjective(Static) /\ 0 \in 0 .. MaxRestarts
  BY DynamicSupervisorAssumption
<1>3. \A S : <<>> \in Seq(S)
  OBVIOUS
<1>4. Lists
  <2>1. IsInjective(<<>>) /\ ToSet(<<>>) = {}
    BY DEF IsInjective, ToSet
  <2>2. StaticIds \subseteq Children /\ StaticIds \ StaticIds = {}
    BY DEF Children
  <2> QED BY <2>1, <2>2, <1>1, <1>3 DEF Lists
<1>5. Fields
  BY <1>1, <1>2 DEF Fields
<1>6. Things
  <2>1. sup \in {"starting", "serving"}
    BY <1>1
  <2>2. /\ task \in [Instances -> Statuses] /\ watched \in [Instances -> Refs \cup {None}]
        /\ pid \in [Children -> Instances \cup {None}] /\ ref \in [Children -> Refs \cup {None}]
    BY <1>1 DEF Statuses
  <2> QED BY <2>1, <2>2, <1>1, <1>3 DEF Things
<1>7. Watches /\ Records
  BY <1>1 DEF Watches, Records
<1>8. UnderWay
  <2>1. Running /\ (sup = "starting" => todo # <<>>)
    BY <1>1 DEF Running
  <2> QED BY <2>1, <1>1, <1>2 DEF UnderWay
<1>9. Spoken
  BY <1>1, <1>3 DEF Spoken
<1>10. Clear
  <2>1. \A i \in Instances : ~IsAlive(i)
    BY <1>1 DEF IsAlive
  <2>2. NoStrays /\ NoOrphans
    BY <2>1 DEF NoStrays, NoOrphans, Live
  <2>3. \A k \in DOMAIN todo : ~IsAlive(pid[todo[k]])
    <3>1. \A k \in DOMAIN todo : todo[k] \in Children
      BY <1>1, <1>2 DEF Children
    <3> QED BY <3>1, <1>1 DEF IsAlive
  <2> QED BY <2>2, <2>3, <1>1, <1>3 DEF Clear
<1>11. Prompt
  <2>1. OneOf(mailbox, WordOf(awaiting)) /\ buffered \in Seq(Quiet)
    BY <1>1, <1>3 DEF OneOf
  <2> QED BY <2>1, <1>1 DEF Prompt, GivenUpSeldom
<1> QED BY <1>4, <1>5, <1>6, <1>7, <1>8, <1>9, <1>10, <1>11 DEF DynamicIInv

\* Every step keeps it: one case for each action.
LEMMA StepKeeps == DynamicIInv /\ [Next]_vars => DynamicIInv'
<1> SUFFICES ASSUME DynamicIInv, [Next]_vars PROVE DynamicIInv'
  OBVIOUS
<1>1. /\ NORMAL \in EndReasons /\ SHUTDOWN \in EndReasons /\ CRASH \in EndReasons
  BY DEF EndReasons
<1>2. CASE Step
  BY <1>2, StartKeeps, HandshakeKeeps, ReceiveKeeps DEF Step
<1>3. ASSUME NEW i \in Instances, Child(i) PROVE DynamicIInv'
  <2>1. setup' = setup
    BY <1>3 DEF Child
  <2>2. CASE InitOk(i)
    BY <2>1, <2>2, InitOkKeeps
  <2>3. CASE InitError(i)
    <3>1. End(i, NORMAL, <<INIT_ERROR(i)>>) /\ task[i] = "init" /\ Server(i)
      BY <2>3 DEF InitError, Server
    <3> QED BY <3>1, <2>1, <1>1, EndKeeps
  <2>4. CASE Unwind(i)
    <3>1. End(i, SHUTDOWN, <<>>) /\ task[i] = "up"
      BY <2>4 DEF Unwind, DynamicIInv, Watches
    <3> QED BY <3>1, <2>1, <1>1, EndKeeps
  <2> QED BY <1>3, <2>2, <2>3, <2>4 DEF Child
<1>4. ASSUME NEW i \in Instances, Fail(i), setup' = setup PROVE DynamicIInv'
  <2>1. task[i] = "up" /\ \E reason \in EndReasons : End(i, reason, <<>>)
    BY <1>4, <1>1 DEF Fail
  <2> QED BY <2>1, <1>4, EndKeeps
<1>5. ASSUME NEW a \in Clients, Client(a) PROVE DynamicIInv'
  <2>1. setup' = setup
    BY <1>5 DEF Client
  <2>2. CASE TakeReply(a) \/ StopWaiting(a)
    BY <2>1, <2>2, ClientKeeps DEF TakeReply, StopWaiting
  <2>3. ASSUME NEW m \in MayAsk(a), Ask(a, m) PROVE DynamicIInv'
    <3>1. m \in Plain
      <4>1. m \in Requests
        BY DEF MayAsk, Requests, Children
      <4> QED BY <4>1, MessageTypes
    <3>2. Running /\ mailbox' = Append(mailbox, m) /\ UNCHANGED <<supVars, refs, instVars>>
      BY <2>3 DEF Ask
    <3> QED BY <3>1, <3>2, <2>1, ClientKeeps
  <2> QED BY <1>5, <2>2, <2>3 DEF Client
<1>6. CASE RequestStop /\ UNCHANGED setup
  <2>1. STOP \in Plain
    BY MessageTypes
  <2>2. Running /\ mailbox' = Append(mailbox, STOP) /\ UNCHANGED <<supVars, refs, instVars>>
    BY <1>6 DEF RequestStop
  <2> QED BY <2>1, <2>2, <1>6, ClientKeeps
<1>7. CASE UNCHANGED vars
  BY <1>7, ClientKeeps DEF vars
<1> QED BY <1>2, <1>3, <1>4, <1>5, <1>6, <1>7 DEF Next

\* The invariant holds in every state of every behaviour of the dynamic supervisor.
THEOREM DynamicInductive == Spec => []DynamicIInv
  BY InitHolds, StepKeeps, PTL DEF Spec

\* The invariant accounts for every instance.
LEMMA InvariantAccounts == DynamicIInv => ChildrenAccounted
<1> SUFFICES ASSUME DynamicIInv PROVE ChildrenAccounted
  OBVIOUS
<1>1. /\ Lists /\ Fields /\ Things /\ UnderWay /\ Clear /\ Prompt
  BY DEF DynamicIInv
<1>2. TablesAgree
  BY <1>1 DEF TablesAgree, Lists, Fields, Things, UnderWay
<1>3. NoStrays /\ NoOrphans
  BY <1>1 DEF Clear, NoStrays, NoOrphans
<1>4. GivenUpSeldom
  BY <1>1 DEF Prompt, GivenUpSeldom
<1> QED BY <1>2, <1>3, <1>4 DEF ChildrenAccounted

\* The tables of children always agree; while references are clear every child that
\* runs is being started, on record and watched, or one whose start was given up; none
\* else outlives the supervisor; and no server is given up alive unless it was slow:
\* for any children, restart types, strategies, faults and bounds, whatever arrives
\* in the middle of a start.
THEOREM ChildrenAlwaysAccounted == Spec => []ChildrenAccounted
  BY DynamicInductive, InvariantAccounts, PTL

\* Only the DOWN of a child answers its termination.
LEMMA AnswerHonest ==
    ASSUME DynamicIInv, [Next]_vars, NEW c \in Children, ~confused,
           pending_terminations[c] # None, pending_terminations'[c] = None
    PROVE  pid[c] # None /\ task[pid[c]] \in EndReasons
<1>1. pending_terminations \in [Children -> Clients \cup {None}] /\ Lists
  BY DEF DynamicIInv, Fields
<1>2. pending_terminations' # pending_terminations
  OBVIOUS
<1>3. Receive
  BY <1>2 DEF Next, Step, Child, Client, StartNext, Handshake, Timeout, Raise, Adopt, InitOk, InitError,
              Fail, Unwind, End, TakeReply, StopWaiting, Ask, RequestStop, supVars, vars
<1> DEFINE m == Head(mailbox)
<1>4. m \in Messages /\ (~confused => m \in Truthful)
  BY <1>3, ReadingIs DEF Receive
<1> HIDE DEF m
<1>5. CASE m.tag = "DOWN" /\ HandleDown(m)
  <2> DEFINE x == FirstOwner(m.ref)
  <2>1. Owners(m.ref) # {} /\ Answered(x)
    BY <1>2, <1>5 DEF HandleDown
  <2>2. x \in known /\ ref[x] = m.ref
    BY <2>1, <1>1, OwnerIs
  <2> HIDE DEF x
  <2>3. x = c
    BY <2>1, <1>1 DEF Answered
  <2>4. m.reason \in EndReasons
    BY <1>4, <1>5, MessageKinds
  <2> QED BY <2>2, <2>3, <2>4, <1>4, <1>5 DEF Truthful
<1>6. CASE m.tag = "ADD_CHILD" /\ AddChild(m)
  BY <1>2, <1>6 DEF AddChild
<1>7. CASE m.tag = "TERMINATE_CHILD" /\ TerminateChild(m)
  <2>1. m.from \in Clients /\ None \notin Clients /\ m.child \in Children
    BY <1>4, <1>7, MessageKinds, DynamicSupervisorAssumption
  <2>2. pending_terminations' = [pending_terminations EXCEPT ![m.child] = m.from]
    BY <1>2, <1>7 DEF TerminateChild
  <2> QED BY <2>1, <2>2, <1>1
<1>8. CASE Query(m) \/ Unread(m) \/ UNCHANGED <<inbox, pending_terminations>>
  BY <1>2, <1>8 DEF Query, Unread
<1> QED BY <1>3, <1>5, <1>6, <1>7, <1>8 DEF Receive, m

\* While references are clear a termination is answered only when the instance on
\* record has ended, whatever the strategy and whatever else the mailbox holds.
THEOREM TerminationsAlwaysHonest == Spec => TerminationsHonest
<1>1. DynamicIInv /\ [Next]_vars =>
         [\A c \in Children :
             pending_terminations[c] # None /\ pending_terminations'[c] = None /\ ~confused
             => pid[c] # None /\ task[pid[c]] \in EndReasons]_vars
  BY AnswerHonest
<1> QED BY <1>1, DynamicInductive, PTL DEF Spec, TerminationsHonest
=============================================================================
