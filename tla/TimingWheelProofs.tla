------------------------- MODULE TimingWheelProofs -------------------------
(***************************************************************************)
(* Proofs about TimingWheel, for any timers and delays, any number and     *)
(* length of slots, and ticks however late.                                *)
(***************************************************************************)
EXTENDS TimingWheel, FiniteSetTheorems, SequenceTheorems, TLAPS

USE WheelAssumption

-----------------------------------------------------------------------------
(* The inductive invariant.                                                *)

Entries == [ref : Refs, expiry_ms : Nat, cancelled : BOOLEAN]
Located == DOMAIN timer_index

TypeOK ==
    /\ clock \in Nat /\ current_time_ms \in Nat /\ current_slot \in Slots
    /\ wheel \in [Slots -> Seq(Entries)]
    /\ timer_index \in [Located -> [slot : Slots, index : Nat \ {0}]]
    /\ born \in [Used -> [delay : Nat, at : Nat, ticks : Nat]]
    /\ sending \in Seq(Refs)

\* The index says where a timer is.
EntryOf(r) == wheel[timer_index[r].slot][timer_index[r].index]
IndexSound ==
    \A r \in Located :
        /\ timer_index[r].index \in DOMAIN wheel[timer_index[r].slot]
        /\ EntryOf(r).ref = r /\ ~EntryOf(r).cancelled

\* A timer that is in the wheel and not cancelled is where the index says.
IndexComplete ==
    \A s \in Slots : \A i \in DOMAIN wheel[s] :
        ~wheel[s][i].cancelled =>
            /\ wheel[s][i].ref \in Located
            /\ timer_index[wheel[s][i].ref].slot = s
            /\ timer_index[wheel[s][i].ref].index = i

\* A reference that is in the wheel or has fired is in use; one that has fired
\* is no longer in the index.
RefsUsed ==
    /\ \A s \in Slots : \A i \in DOMAIN wheel[s] : wheel[s][i].ref \in Used
    /\ Located \subseteq Used /\ Fired \subseteq Used
    /\ Located \intersect Fired = {}

\* When a timer's tick comes: k ticks after it was set the wheel is at its
\* slot, and the time has advanced by a tick each time at least.
TicksOf(r) == born[r].delay \div tick_ms
OnTime(r) ==
    /\ born[r].ticks <= TicksOf(r)
    /\ \E m \in Nat : current_slot + (TicksOf(r) - born[r].ticks)
                         = timer_index[r].slot + m * num_slots
    /\ EntryOf(r).expiry_ms + born[r].ticks * tick_ms
          <= current_time_ms + born[r].delay
    /\ born[r].at <= clock
    /\ born[r].ticks >= 1 =>
          current_time_ms >= born[r].at + (born[r].ticks - 1) * tick_ms
AllOnTime == \A r \in Located : OnTime(r)

IndexInv == TypeOK /\ IndexSound /\ IndexComplete /\ RefsUsed
IInv == IndexInv /\ AllOnTime

-----------------------------------------------------------------------------
(* The lists tick makes.                                                   *)

\* Counting the members up to each numbers a finite set of naturals.
Rank(S, p) == Cardinality({q \in S : q <= p})

\* The rank of a member is one of the numbers up to the size of the set.
LEMMA RankRange ==
    ASSUME NEW S \in SUBSET Nat, IsFiniteSet(S), NEW p \in S
    PROVE  Rank(S, p) \in 1 .. Cardinality(S)
<1> DEFINE U == {q \in S : q <= p}
<1>1. U \subseteq S /\ p \in U
  OBVIOUS
<1>2. IsFiniteSet(U) /\ Cardinality(U) <= Cardinality(S)
  BY <1>1, FS_Subset
<1>3. Cardinality(U) \in Nat /\ Cardinality(S) \in Nat
  BY <1>2, FS_CardinalityType
<1>4. Cardinality(U) # 0
  BY <1>1, <1>2, FS_EmptySet
<1> QED BY <1>2, <1>3, <1>4 DEF Rank

\* Of two members the smaller has the smaller rank.
LEMMA RankGrows ==
    ASSUME NEW S \in SUBSET Nat, IsFiniteSet(S), NEW p \in S, NEW q \in S, p < q
    PROVE  Rank(S, p) # Rank(S, q)
<1> DEFINE U == {x \in S : x <= p}
           V == {x \in S : x <= q}
<1>0. p \in Nat /\ q \in Nat
  OBVIOUS
<1>1. U \subseteq V /\ q \in V /\ q \notin U /\ V \subseteq S
  <2>1. \A x \in S : x <= p => x <= q
    <3> SUFFICES ASSUME NEW x \in S, x <= p PROVE x <= q
      OBVIOUS
    <3>1. x \in Nat
      OBVIOUS
    <3> QED BY <1>0, <3>1
  <2>2. U \subseteq V
    BY <2>1
  <2>3. q \in V /\ q \notin U
    BY <1>0
  <2> QED BY <2>2, <2>3
<1>2. IsFiniteSet(V)
  BY <1>1, FS_Subset
<1>3. Cardinality(U) < Cardinality(V)
  <2> HIDE DEF U, V
  <2>1. U # V
    BY <1>1
  <2>2. Cardinality(U) <= Cardinality(V) /\ (Cardinality(U) = Cardinality(V) => U = V)
    BY <1>1, <1>2, FS_Subset
  <2>3. IsFiniteSet(U)
    BY <1>1, <1>2, FS_Subset
  <2>4. Cardinality(U) \in Nat /\ Cardinality(V) \in Nat
    BY <1>2, <2>3, FS_CardinalityType
  <2> QED BY <2>1, <2>2, <2>4
<1>4. IsFiniteSet(U)
  BY <1>1, <1>2, FS_Subset
<1>5. Cardinality(U) \in Nat /\ Cardinality(V) \in Nat
  BY <1>2, <1>4, FS_CardinalityType
<1> QED BY <1>3, <1>5 DEF Rank

\* Every number up to the size of the set is the rank of one member.
LEMMA RankOnto ==
    ASSUME NEW S \in SUBSET Nat, IsFiniteSet(S)
    PROVE  \A i \in 1 .. Cardinality(S) : \E p \in S : Rank(S, p) = i
<1> DEFINE n == Cardinality(S)
           f == [p \in S |-> Rank(S, p)]
<1>1. n \in Nat
  BY FS_CardinalityType
<1>2. f \in [S -> 1 .. n]
  BY RankRange
<1>3. \A p, q \in S : f[p] = f[q] => p = q
  <2> SUFFICES ASSUME NEW p \in S, NEW q \in S, p # q PROVE f[p] # f[q]
    OBVIOUS
  <2>1. p < q \/ q < p
    OBVIOUS
  <2> QED BY <2>1, RankGrows
<1>4. f \in Injection(S, 1 .. n)
  BY <1>2, <1>3 DEF Injection, IsInjective
<1>5. IsFiniteSet(1 .. n) /\ Cardinality(1 .. n) = n
  BY <1>1, FS_Interval
<1>6. f \in Surjection(S, 1 .. n)
  BY <1>4, <1>5, FS_Injection
<1> QED BY <1>6 DEF Surjection

\* What Picked makes of a list: an entry for each position picked, no two from
\* the same position.
LEMMA PickedEntries ==
    ASSUME NEW T, NEW slot \in Seq(T), NEW S \in SUBSET DOMAIN slot
    PROVE  /\ Picked(slot, S) \in Seq(T)
           /\ \E pos \in [DOMAIN Picked(slot, S) -> S] :
                /\ \A i \in DOMAIN Picked(slot, S) : Picked(slot, S)[i] = slot[pos[i]]
                /\ \A i, j \in DOMAIN Picked(slot, S) : pos[i] = pos[j] => i = j
                /\ \A p \in S : \E i \in DOMAIN Picked(slot, S) : pos[i] = p
<1> DEFINE n == Cardinality(S)
           pos == [i \in 1 .. n |-> CHOOSE p \in S : Rank(S, p) = i]
           P == Picked(slot, S)
<1>1. S \in SUBSET Nat /\ IsFiniteSet(S) /\ n \in Nat
  <2>1. DOMAIN slot = 1 .. Len(slot) /\ Len(slot) \in Nat
    OBVIOUS
  <2>2. IsFiniteSet(1 .. Len(slot))
    BY <2>1, FS_Interval
  <2>3. IsFiniteSet(S)
    BY <2>1, <2>2, FS_Subset
  <2> QED BY <2>1, <2>3, FS_CardinalityType
<1>2. \A i \in 1 .. n : pos[i] \in S /\ Rank(S, pos[i]) = i
  BY <1>1, RankOnto
<1>3. P = [i \in 1 .. n |-> slot[pos[i]]]
  BY DEF Picked, Rank
<1>4. \A i \in 1 .. n : slot[pos[i]] \in T
  BY <1>2
<1>5. P \in Seq(T) /\ DOMAIN P = 1 .. n
  <2> HIDE DEF pos, n
  <2>1. [i \in 1 .. n |-> slot[pos[i]]] \in Seq(T)
    BY <1>1, <1>4
  <2> QED BY <1>3, <2>1
<1>6. pos \in [1 .. n -> S]
  BY <1>2
<1>7. \A p \in S : \E i \in 1 .. n : pos[i] = p
  <2> SUFFICES ASSUME NEW p \in S PROVE \E i \in 1 .. n : pos[i] = p
    OBVIOUS
  <2> DEFINE i == Rank(S, p)
  <2>1. i \in 1 .. n
    BY <1>1, RankRange
  <2>2. pos[i] \in S /\ Rank(S, pos[i]) = Rank(S, p)
    BY <1>2, <2>1
  <2>3. pos[i] = p
    <3>1. ~(pos[i] < p) /\ ~(p < pos[i])
      BY <1>1, <2>2, RankGrows
    <3> QED BY <1>1, <2>2, <3>1
  <2> QED BY <2>1, <2>3
<1>8. \A i \in DOMAIN P : P[i] = slot[pos[i]]
  BY <1>3
<1>9. \A i, j \in 1 .. n : pos[i] = pos[j] => i = j
  BY <1>2
<1>10. pos \in [DOMAIN P -> S]
  BY <1>5, <1>6
<1>11. /\ \A i, j \in DOMAIN P : pos[i] = pos[j] => i = j
       /\ \A p \in S : \E i \in DOMAIN P : pos[i] = p
  BY <1>5, <1>7, <1>9
<1> HIDE DEF pos, n
<1> QED BY <1>5, <1>8, <1>10, <1>11

-----------------------------------------------------------------------------
(* What each action does to the timers that are pending.                   *)

\* What both functions of the index have in common.
LEMMA AtFunction ==
    ASSUME NEW f, NEW x, NEW v
    PROVE  /\ DOMAIN At(f, x, v) = DOMAIN f \union {x}
           /\ At(f, x, v)[x] = v
           /\ \A y \in DOMAIN f : y # x => At(f, x, v)[y] = f[y]
BY DEF At

\* A slot is one of the wheel's.
LEMMA TargetSlotIsSlot ==
    ASSUME current_slot \in Slots, NEW d \in Nat
    PROVE  TargetSlot(d) \in Slots
<1>1. d \div tick_ms \in Nat
  OBVIOUS
<1>2. current_slot + d \div tick_ms \in Nat
  BY <1>1 DEF Slots
<1> QED BY <1>2 DEF TargetSlot, Slots

\* Initially nothing is pending.
LEMMA InitIndex == Init => IInv
<1> SUFFICES ASSUME Init PROVE IInv
  OBVIOUS
<1>1. Located = {} /\ Used = {} /\ DOMAIN sending = {}
  BY DEF Init, Located, Used
<1>2. TypeOK
  <2>1. current_slot \in Slots
    BY DEF Init, Slots
  <2>2. timer_index \in [Located -> [slot : Slots, index : Nat \ {0}]]
    BY <1>1 DEF Init, Located
  <2>3. born \in [Used -> [delay : Nat, at : Nat, ticks : Nat]]
    BY <1>1 DEF Init, Used
  <2> QED BY <2>1, <2>2, <2>3 DEF Init, TypeOK
<1>3. Fired = {}
  BY <1>1 DEF Init, Fired, ToSet
<1>4. \A s \in Slots : DOMAIN wheel[s] = {}
  BY DEF Init
<1> QED BY <1>1, <1>2, <1>3, <1>4
        DEF IInv, IndexInv, IndexSound, IndexComplete, RefsUsed, AllOnTime

\* insert adds a timer at the end of its slot and moves no other.
LEMMA InsertEffect ==
    ASSUME IndexInv, NEW r \in Refs, NEW d \in Delays, Insert(r, d)
    PROVE  /\ IndexInv'
           /\ Located' = Located \union {r} /\ r \notin Located
           /\ \A q \in Located : /\ timer_index'[q] = timer_index[q]
                                 /\ EntryOf(q)' = EntryOf(q)
           /\ timer_index'[r].slot = TargetSlot(d)
           /\ EntryOf(r)'.expiry_ms = current_time_ms + d
<1> DEFINE s == TargetSlot(d)
           i == Len(wheel[s]) + 1
           timer == [ref |-> r, expiry_ms |-> current_time_ms + d,
                     cancelled |-> FALSE]
<1> USE DEF IndexInv
<1>1. /\ r \notin Used
      /\ wheel' = [wheel EXCEPT ![s] = Append(@, timer)]
      /\ timer_index' = At(timer_index, r, [slot |-> s, index |-> i])
      /\ born' = At(born, r, [delay |-> d, at |-> clock, ticks |-> 0])
      /\ UNCHANGED <<clock, current_time_ms, current_slot, sending, delivered>>
  BY DEF Insert
<1>2. d \in Nat /\ s \in Slots
  BY TargetSlotIsSlot DEF TypeOK
<1>3. wheel[s] \in Seq(Entries) /\ timer \in Entries
  <2>1. current_time_ms + d \in Nat
    BY <1>2 DEF TypeOK
  <2>2. timer \in Entries
    BY <2>1 DEF Entries
  <2> QED BY <1>2, <2>2 DEF TypeOK
<1> HIDE DEF s, timer
<1>4. i \in Nat \ {0}
  BY <1>3
<1>5. r \notin Located
  BY <1>1 DEF RefsUsed
<1>6. Located' = Located \union {r} /\ Used' = Used \union {r}
  BY <1>1, AtFunction DEF Located, Used
<1>7. /\ timer_index'[r] = [slot |-> s, index |-> i]
      /\ \A q \in Located : timer_index'[q] = timer_index[q]
  BY <1>1, <1>5 DEF At, Located
<1>8. /\ born'[r] = [delay |-> d, at |-> clock, ticks |-> 0]
      /\ \A q \in Used : born'[q] = born[q]
  BY <1>1 DEF At, Used
<1>9. /\ wheel'[s] \in Seq(Entries) /\ DOMAIN wheel'[s] = DOMAIN wheel[s] \union {i}
      /\ wheel'[s][i] = timer
      /\ \A j \in DOMAIN wheel[s] : wheel'[s][j] = wheel[s][j]
      /\ i \notin DOMAIN wheel[s]
  <2>1. wheel'[s] = Append(wheel[s], timer)
    BY <1>1, <1>2 DEF TypeOK
  <2> QED BY <1>3, <2>1
<1>10. \A u \in Slots : u # s => wheel'[u] = wheel[u]
  BY <1>1 DEF TypeOK
<1> HIDE DEF i
<1>11. TypeOK'
  <2>1. wheel' \in [Slots -> Seq(Entries)]
    BY <1>1, <1>9, <1>10 DEF TypeOK
  <2>2. timer_index' \in [Located' -> [slot : Slots, index : Nat \ {0}]]
    <3>1. \A q \in Located' : timer_index'[q] \in [slot : Slots, index : Nat \ {0}]
      BY <1>2, <1>4, <1>6, <1>7 DEF TypeOK
    <3>2. timer_index' = [q \in Located' |-> timer_index'[q]]
      BY <1>1 DEF At, Located
    <3> QED BY <3>1, <3>2
  <2>3. born' \in [Used' -> [delay : Nat, at : Nat, ticks : Nat]]
    <3>1. \A q \in Used' : born'[q] \in [delay : Nat, at : Nat, ticks : Nat]
      BY <1>2, <1>6, <1>8 DEF TypeOK
    <3>2. born' = [q \in Used' |-> born'[q]]
      BY <1>1 DEF At, Used
    <3> QED BY <3>1, <3>2
  <2> QED BY <1>1, <2>1, <2>2, <2>3 DEF TypeOK
<1>12. /\ EntryOf(r)' = timer
       /\ \A q \in Located : EntryOf(q)' = EntryOf(q)
  <2>1. EntryOf(r)' = timer
    BY <1>7, <1>9 DEF EntryOf
  <2>2. ASSUME NEW q \in Located PROVE EntryOf(q)' = EntryOf(q)
    <3>1. timer_index[q].slot \in Slots /\ timer_index[q].index \in DOMAIN wheel[timer_index[q].slot]
      BY DEF TypeOK, IndexSound
    <3> QED BY <1>7, <1>9, <1>10, <3>1 DEF EntryOf
  <2> QED BY <2>1, <2>2
<1>13. IndexSound'
  <2> SUFFICES ASSUME NEW q \in Located'
               PROVE  /\ timer_index'[q].index \in DOMAIN wheel'[timer_index'[q].slot]
                      /\ EntryOf(q)'.ref = q /\ ~EntryOf(q)'.cancelled
    BY DEF IndexSound
  <2>1. CASE q = r
    BY <1>7, <1>9, <1>12, <2>1 DEF timer
  <2>2. CASE q \in Located
    <3>1. timer_index[q].slot \in Slots /\ timer_index[q].index \in DOMAIN wheel[timer_index[q].slot]
      BY <2>2 DEF TypeOK, IndexSound
    <3>2. EntryOf(q).ref = q /\ ~EntryOf(q).cancelled
      BY <2>2 DEF IndexSound
    <3> QED BY <1>7, <1>9, <1>10, <1>12, <2>2, <3>1, <3>2
  <2> QED BY <1>6, <2>1, <2>2
<1>14. IndexComplete'
  <2> SUFFICES ASSUME NEW u \in Slots, NEW j \in DOMAIN wheel'[u],
                      ~wheel'[u][j].cancelled
               PROVE  /\ wheel'[u][j].ref \in Located'
                      /\ timer_index'[wheel'[u][j].ref].slot = u
                      /\ timer_index'[wheel'[u][j].ref].index = j
    BY DEF IndexComplete
  <2>1. CASE u = s /\ j = i
    BY <1>6, <1>7, <1>9, <2>1 DEF timer
  <2>2. CASE j \in DOMAIN wheel[u] /\ wheel'[u][j] = wheel[u][j]
    <3>1. /\ wheel[u][j].ref \in Located
          /\ timer_index[wheel[u][j].ref].slot = u
          /\ timer_index[wheel[u][j].ref].index = j
      BY <2>2 DEF IndexComplete
    <3> QED BY <1>6, <1>7, <2>2, <3>1
  <2> QED BY <1>9, <1>10, <2>1, <2>2
<1>15. RefsUsed'
  <2>1. Fired' = Fired
    BY <1>1 DEF Fired
  <2>2. \A u \in Slots : \A j \in DOMAIN wheel'[u] : wheel'[u][j].ref \in Used'
    BY <1>6, <1>9, <1>10 DEF RefsUsed, timer
  <2>3. Located' \subseteq Used' /\ Fired' \subseteq Used' /\ Located' \intersect Fired' = {}
    BY <1>1, <1>6, <2>1 DEF RefsUsed
  <2> QED BY <2>2, <2>3 DEF RefsUsed
<1> QED BY <1>5, <1>6, <1>7, <1>11, <1>12, <1>13, <1>14, <1>15 DEF s, timer

\* cancel marks the timer and no other.
LEMMA CancelEffect ==
    ASSUME IndexInv, NEW r \in Refs, Cancel(r)
    PROVE  /\ IndexInv'
           /\ r \in Located /\ Located' = Located \ {r}
           /\ \A q \in Located' : /\ timer_index'[q] = timer_index[q]
                                  /\ EntryOf(q)' = EntryOf(q)
<1> DEFINE s == timer_index[r].slot
           i == timer_index[r].index
<1> USE DEF IndexInv
<1>1. r \in Located /\ s \in Slots /\ i \in DOMAIN wheel[s]
      /\ wheel[s][i].ref = r /\ wheel[s] \in Seq(Entries)
  BY DEF Cancel, Located, TypeOK, IndexSound, EntryOf
<1>2. /\ wheel' = [wheel EXCEPT ![s][i].cancelled = TRUE]
      /\ timer_index' = [q \in Located \ {r} |-> timer_index[q]]
      /\ UNCHANGED <<clock, current_time_ms, current_slot, sending, delivered, born>>
  <2>1. i <= Len(wheel[s])
    BY <1>1
  <2> QED BY <2>1 DEF Cancel, Located
<1> HIDE DEF s, i
<1>3. Located' = Located \ {r} /\ \A q \in Located' : timer_index'[q] = timer_index[q]
  BY <1>2 DEF Located
<1>4. /\ wheel'[s] \in Seq(Entries) /\ DOMAIN wheel'[s] = DOMAIN wheel[s]
      /\ wheel'[s][i].cancelled /\ wheel'[s][i].ref = r
      /\ \A j \in DOMAIN wheel[s] : j # i => wheel'[s][j] = wheel[s][j]
  <2>1. wheel'[s] = [wheel[s] EXCEPT ![i].cancelled = TRUE]
    BY <1>1, <1>2 DEF TypeOK
  <2>2. wheel'[s] = [wheel[s] EXCEPT ![i] = [wheel[s][i] EXCEPT !.cancelled = TRUE]]
    BY <2>1
  <2>3. wheel[s][i] \in Entries
    BY <1>1
  <2>4. [wheel[s][i] EXCEPT !.cancelled = TRUE] \in Entries
    BY <2>3 DEF Entries
  <2>5. wheel'[s] \in Seq(Entries)
    BY <1>1, <2>2, <2>4, ExceptSeq
  <2>6. /\ [wheel[s][i] EXCEPT !.cancelled = TRUE].cancelled
        /\ [wheel[s][i] EXCEPT !.cancelled = TRUE].ref = r
    BY <1>1, <2>3 DEF Entries
  <2> QED BY <1>1, <2>2, <2>5, <2>6
<1>5. \A u \in Slots : u # s => wheel'[u] = wheel[u]
  BY <1>2 DEF TypeOK
<1>6. TypeOK'
  <2>1. wheel' \in [Slots -> Seq(Entries)]
    BY <1>2, <1>4, <1>5 DEF TypeOK
  <2>2. timer_index' \in [Located' -> [slot : Slots, index : Nat \ {0}]]
    BY <1>2, <1>3 DEF TypeOK
  <2>3. Used' = Used
    BY <1>2 DEF Used
  <2> QED BY <1>2, <2>1, <2>2, <2>3 DEF TypeOK
<1>7. ASSUME NEW q \in Located'
      PROVE  /\ timer_index'[q] = timer_index[q]
             /\ timer_index[q].index \in DOMAIN wheel'[timer_index[q].slot]
             /\ wheel'[timer_index[q].slot][timer_index[q].index] = EntryOf(q)
  <2>1. q \in Located /\ q # r /\ timer_index'[q] = timer_index[q]
    BY <1>3
  <2>2. /\ timer_index[q].slot \in Slots
        /\ timer_index[q].index \in DOMAIN wheel[timer_index[q].slot]
        /\ wheel[timer_index[q].slot][timer_index[q].index].ref = q
    BY <2>1 DEF TypeOK, IndexSound, EntryOf
  <2>3. timer_index[q].slot # s \/ timer_index[q].index # i
    BY <1>1, <2>1, <2>2
  <2> QED BY <1>4, <1>5, <2>1, <2>2, <2>3 DEF EntryOf
<1>8. \A q \in Located' : EntryOf(q)' = EntryOf(q)
  BY <1>7 DEF EntryOf
<1>9. IndexSound'
  <2> SUFFICES ASSUME NEW q \in Located'
               PROVE  /\ timer_index'[q].index \in DOMAIN wheel'[timer_index'[q].slot]
                      /\ EntryOf(q)'.ref = q /\ ~EntryOf(q)'.cancelled
    BY DEF IndexSound
  <2> QED BY <1>3, <1>7, <1>8 DEF IndexSound
<1>10. IndexComplete'
  <2> SUFFICES ASSUME NEW u \in Slots, NEW j \in DOMAIN wheel'[u],
                      ~wheel'[u][j].cancelled
               PROVE  /\ wheel'[u][j].ref \in Located'
                      /\ timer_index'[wheel'[u][j].ref].slot = u
                      /\ timer_index'[wheel'[u][j].ref].index = j
    BY DEF IndexComplete
  <2>1. j \in DOMAIN wheel[u] /\ wheel'[u][j] = wheel[u][j] /\ (u # s \/ j # i)
    BY <1>4, <1>5
  <2>2. /\ wheel[u][j].ref \in Located
        /\ timer_index[wheel[u][j].ref].slot = u
        /\ timer_index[wheel[u][j].ref].index = j
    BY <2>1 DEF IndexComplete
  <2>3. wheel[u][j].ref # r
    BY <2>1, <2>2 DEF s, i
  <2> QED BY <1>3, <2>1, <2>2, <2>3
<1>11. RefsUsed'
  <2>1. Fired' = Fired /\ Used' = Used
    BY <1>2 DEF Fired, Used
  <2>2. \A u \in Slots : \A j \in DOMAIN wheel'[u] :
            j \in DOMAIN wheel[u] /\ wheel'[u][j].ref = wheel[u][j].ref
    BY <1>1, <1>4, <1>5
  <2>3. Located' \subseteq Used' /\ Located' \intersect Fired' = {}
    BY <1>3, <2>1 DEF RefsUsed
  <2> QED BY <2>1, <2>2, <2>3 DEF RefsUsed
<1> QED BY <1>1, <1>3, <1>6, <1>8, <1>9, <1>10, <1>11

\* The clock and the tasks that send leave the wheel as it is.
LEMMA OtherEffect ==
    ASSUME IndexInv,
           TimePasses \/ Send \/ UNCHANGED vars
    PROVE  /\ IndexInv'
           /\ UNCHANGED <<current_time_ms, current_slot, wheel, timer_index, born>>
           /\ Fired' = Fired /\ clock' >= clock
<1> USE DEF IndexInv
<1>1. /\ UNCHANGED <<current_time_ms, current_slot, wheel, timer_index, born>>
      /\ clock' \in Nat /\ clock' >= clock
  BY DEF TimePasses, Send, vars, TypeOK
<1>2. sending' \in Seq(Refs) /\ Fired' = Fired
  <2>1. CASE UNCHANGED <<sending, delivered>>
    BY <2>1 DEF TypeOK, Fired
  <2>2. CASE Send
    <3>1. /\ sending \in Seq(Refs) /\ sending # <<>>
          /\ delivered' = delivered \union {Head(sending)} /\ sending' = Tail(sending)
      BY <2>2 DEF Send, TypeOK
    <3>2. /\ Head(sending) = sending[1] /\ Tail(sending) \in Seq(Refs)
          /\ DOMAIN sending = 1 .. Len(sending) /\ Len(sending) \in Nat \ {0}
          /\ Len(Tail(sending)) = Len(sending) - 1
          /\ \A k \in 1 .. Len(sending) - 1 : Tail(sending)[k] = sending[k + 1]
      BY <3>1
    <3>3. ToSet(sending) = {Head(sending)} \union ToSet(Tail(sending))
      <4>1. ASSUME NEW x \in ToSet(sending)
            PROVE  x \in {Head(sending)} \union ToSet(Tail(sending))
        <5>1. PICK k \in 1 .. Len(sending) : x = sending[k]
          BY <3>2 DEF ToSet
        <5>2. CASE k = 1
          BY <3>2, <5>1, <5>2
        <5>3. CASE k # 1
          <6>1. k - 1 \in 1 .. Len(sending) - 1 /\ (k - 1) + 1 = k
            BY <3>2, <5>3
          <6>2. x = Tail(sending)[k - 1] /\ k - 1 \in DOMAIN Tail(sending)
            BY <3>2, <5>1, <6>1
          <6> QED BY <6>2 DEF ToSet
        <5> QED BY <5>2, <5>3
      <4>2. ASSUME NEW x \in {Head(sending)} \union ToSet(Tail(sending))
            PROVE  x \in ToSet(sending)
        <5>1. CASE x = Head(sending)
          BY <3>2, <5>1 DEF ToSet
        <5>2. CASE x \in ToSet(Tail(sending))
          <6>1. PICK k \in DOMAIN Tail(sending) : x = Tail(sending)[k]
            BY <5>2 DEF ToSet
          <6>2. k \in 1 .. Len(sending) - 1
            BY <3>2, <6>1
          <6>3. k + 1 \in DOMAIN sending /\ x = sending[k + 1]
            BY <3>2, <6>1, <6>2
          <6> QED BY <6>3 DEF ToSet
        <5> QED BY <5>1, <5>2
      <4> QED BY <4>1, <4>2
    <3> QED BY <3>1, <3>2, <3>3 DEF Fired
  <2> QED BY <2>1, <2>2 DEF TimePasses, vars
<1>3. Located' = Located /\ Used' = Used /\ \A q : EntryOf(q)' = EntryOf(q)
  BY <1>1 DEF Located, Used, EntryOf
<1>4. TypeOK'
  BY <1>1, <1>2, <1>3 DEF TypeOK
<1>5. IndexSound' /\ IndexComplete'
  BY <1>1, <1>3 DEF IndexSound, IndexComplete
<1>6. RefsUsed'
  BY <1>1, <1>2, <1>3 DEF RefsUsed
<1> QED BY <1>1, <1>2, <1>4, <1>5, <1>6

-----------------------------------------------------------------------------
(* A tick.                                                                 *)

\* The timers of a slot that fire at time t, and the others that are not cancelled.
Firing(slot, t)  == {i \in DOMAIN slot : ~slot[i].cancelled /\ slot[i].expiry_ms <= t}
Waiting(slot, t) == {i \in DOMAIN slot : ~slot[i].cancelled /\ slot[i].expiry_ms > t}

\* What two lists hold together.
LEMMA ToSetConcat ==
    ASSUME NEW T, NEW a \in Seq(T), NEW b \in Seq(T)
    PROVE  ToSet(a \o b) = ToSet(a) \union ToSet(b)
<1>1. /\ Len(a \o b) = Len(a) + Len(b) /\ Len(a) \in Nat /\ Len(b) \in Nat
      /\ DOMAIN (a \o b) = 1 .. Len(a) + Len(b)
      /\ DOMAIN a = 1 .. Len(a) /\ DOMAIN b = 1 .. Len(b)
      /\ \A k \in 1 .. Len(a) + Len(b) :
            (a \o b)[k] = IF k <= Len(a) THEN a[k] ELSE b[k - Len(a)]
  OBVIOUS
<1>2. ASSUME NEW x \in ToSet(a \o b) PROVE x \in ToSet(a) \union ToSet(b)
  <2>1. PICK k \in 1 .. Len(a) + Len(b) : x = (a \o b)[k]
    BY <1>1 DEF ToSet
  <2>2. CASE k <= Len(a)
    <3>1. k \in DOMAIN a /\ x = a[k]
      BY <1>1, <2>1, <2>2
    <3> QED BY <3>1 DEF ToSet
  <2>3. CASE ~(k <= Len(a))
    <3>1. k - Len(a) \in DOMAIN b /\ x = b[k - Len(a)]
      BY <1>1, <2>1, <2>3
    <3> QED BY <3>1 DEF ToSet
  <2> QED BY <2>2, <2>3
<1>3. ASSUME NEW x \in ToSet(a) PROVE x \in ToSet(a \o b)
  <2>1. PICK k \in 1 .. Len(a) : x = a[k]
    BY <1>1 DEF ToSet
  <2>2. k \in DOMAIN (a \o b) /\ x = (a \o b)[k]
    BY <1>1, <2>1
  <2> QED BY <2>2 DEF ToSet
<1>4. ASSUME NEW x \in ToSet(b) PROVE x \in ToSet(a \o b)
  <2>1. PICK k \in 1 .. Len(b) : x = b[k]
    BY <1>1 DEF ToSet
  <2>2. /\ k + Len(a) \in 1 .. Len(a) + Len(b) /\ ~(k + Len(a) <= Len(a))
        /\ (k + Len(a)) - Len(a) = k
    BY <1>1, <2>1
  <2>3. k + Len(a) \in DOMAIN (a \o b) /\ x = (a \o b)[k + Len(a)]
    BY <1>1, <2>1, <2>2
  <2> QED BY <2>3 DEF ToSet
<1> QED BY <1>2, <1>3, <1>4

\* What Picked picks, as a set.
LEMMA PickedSet ==
    ASSUME NEW T, NEW slot \in Seq(T), NEW S \in SUBSET DOMAIN slot
    PROVE  /\ Picked(slot, S) \in Seq(T)
           /\ ToSet(Picked(slot, S)) = {slot[p] : p \in S}
<1> DEFINE P == Picked(slot, S)
<1>1. P \in Seq(T)
  BY PickedEntries
<1>2. PICK pos \in [DOMAIN P -> S] :
         /\ \A i \in DOMAIN P : P[i] = slot[pos[i]]
         /\ \A p \in S : \E i \in DOMAIN P : pos[i] = p
  BY PickedEntries
<1> HIDE DEF P
<1>3. ToSet(P) = {slot[p] : p \in S}
  BY <1>2 DEF ToSet
<1> QED BY <1>1, <1>3 DEF P

\* The references tick hands out are those of the timers that fire.
LEMMA FiredRefs ==
    ASSUME NEW slot \in Seq(Entries), NEW t \in Nat
    PROVE  /\ RefsOf(ExpiredOf(slot, t)) \in Seq(Refs)
           /\ ToSet(RefsOf(ExpiredOf(slot, t))) = {slot[i].ref : i \in Firing(slot, t)}
<1> DEFINE E == ExpiredOf(slot, t)
<1>1. Firing(slot, t) \in SUBSET DOMAIN slot
  BY DEF Firing
<1>2. E = Picked(slot, Firing(slot, t))
  BY DEF ExpiredOf, Firing
<1>3. E \in Seq(Entries) /\ ToSet(E) = {slot[i] : i \in Firing(slot, t)}
  BY <1>1, <1>2, PickedSet
<1> HIDE DEF E
<1>4. RefsOf(E) \in Seq(Refs)
  <2>1. E \in [1 .. Len(E) -> Entries] /\ Len(E) \in Nat
    BY <1>3
  <2>2. \A i \in 1 .. Len(E) : E[i].ref \in Refs
    BY <2>1 DEF Entries
  <2>3. [i \in 1 .. Len(E) |-> E[i].ref] \in Seq(Refs)
    BY <2>1, <2>2
  <2> QED BY <2>1, <2>3 DEF RefsOf
<1>5. ToSet(RefsOf(E)) = {e.ref : e \in ToSet(E)}
  BY DEF ToSet, RefsOf
<1>6. ToSet(RefsOf(E)) = {slot[i].ref : i \in Firing(slot, t)}
  BY <1>3, <1>5
<1> QED BY <1>4, <1>6 DEF E

\* The timers that fire at a tick, now.
FiringNow == {wheel[current_slot][i].ref : i \in Firing(wheel[current_slot], clock)}

\* They are those of the index that are in the current slot and have expired.
LEMMA FiringNowIndexed ==
    ASSUME IndexInv
    PROVE  /\ FiringNow \subseteq Located
           /\ \A r \in Located :
                r \in FiringNow <=> /\ timer_index[r].slot = current_slot
                                    /\ EntryOf(r).expiry_ms <= clock
<1> DEFINE slot == wheel[current_slot]
<1> USE DEF IndexInv
<1>1. current_slot \in Slots
  BY DEF TypeOK
<1>2. ASSUME NEW i \in Firing(slot, clock)
      PROVE  /\ slot[i].ref \in Located
             /\ timer_index[slot[i].ref].slot = current_slot
             /\ EntryOf(slot[i].ref).expiry_ms <= clock
  <2>1. i \in DOMAIN slot /\ ~slot[i].cancelled /\ slot[i].expiry_ms <= clock
    BY DEF Firing
  <2>2. /\ slot[i].ref \in Located
        /\ timer_index[slot[i].ref].slot = current_slot
        /\ timer_index[slot[i].ref].index = i
    BY <1>1, <2>1 DEF IndexComplete
  <2>3. EntryOf(slot[i].ref) = slot[i]
    BY <2>2 DEF EntryOf
  <2> QED BY <2>1, <2>2, <2>3
<1>3. ASSUME NEW r \in Located, timer_index[r].slot = current_slot,
             EntryOf(r).expiry_ms <= clock
      PROVE  r \in FiringNow
  <2>1. /\ timer_index[r].index \in DOMAIN slot /\ slot[timer_index[r].index] = EntryOf(r)
        /\ EntryOf(r).ref = r /\ ~EntryOf(r).cancelled
    BY <1>3 DEF IndexSound, EntryOf
  <2>2. timer_index[r].index \in Firing(slot, clock)
    BY <1>3, <2>1 DEF Firing
  <2> QED BY <2>1, <2>2 DEF FiringNow
<1> QED BY <1>2, <1>3 DEF FiringNow

\* A tick takes the timers that fire out of the index and keeps track of those
\* that wait, wherever they end up.
LEMMA TickEffect ==
    ASSUME IndexInv, Tick
    PROVE  /\ IndexInv'
           /\ Located' = Located \ FiringNow
           /\ \A q \in Located' : /\ timer_index'[q].slot = timer_index[q].slot
                                  /\ EntryOf(q)' = EntryOf(q)
           /\ Fired' = Fired \union FiringNow
<1> DEFINE slot == wheel[current_slot]
           R == RemainingOf(slot, clock)
           E == ExpiredOf(slot, clock)
           F == RefsOf(E)
<1> USE DEF IndexInv
<1>1. /\ current_time_ms' = clock /\ clock' = clock
      /\ wheel' = [wheel EXCEPT ![current_slot] = R]
      /\ timer_index' = Reindexed(R, E)
      /\ current_slot' = (current_slot + 1) % num_slots
      /\ delivered' = delivered \union (ToSet(F) \intersect Sleeps)
      /\ sending' = sending \o Picked(F, {i \in DOMAIN F : F[i] \notin Sleeps})
      /\ born' = [r \in Used |-> IF r \in Located
                                 THEN [born[r] EXCEPT !.ticks = @ + 1]
                                 ELSE born[r]]
  BY DEF Tick, Located
<1>2. current_slot \in Slots /\ slot \in Seq(Entries) /\ clock \in Nat
  BY DEF TypeOK
<1>3. F \in Seq(Refs) /\ ToSet(F) = FiringNow
  BY <1>2, FiredRefs DEF FiringNow
<1>4. R = Picked(slot, Waiting(slot, clock)) /\ Waiting(slot, clock) \in SUBSET DOMAIN slot
  BY DEF RemainingOf, Waiting
<1>5. R \in Seq(Entries)
  BY <1>2, <1>4, PickedEntries
<1>6. PICK pos \in [DOMAIN R -> Waiting(slot, clock)] :
         /\ \A i \in DOMAIN R : R[i] = slot[pos[i]]
         /\ \A i, j \in DOMAIN R : pos[i] = pos[j] => i = j
         /\ \A p \in Waiting(slot, clock) : \E i \in DOMAIN R : pos[i] = p
  BY <1>2, <1>4, PickedEntries
<1> HIDE DEF R, E, F
<1>7. Located' = Located \ FiringNow
  BY <1>1, <1>3 DEF Reindexed, Located, F
<1>8. /\ wheel'[current_slot] = R
      /\ \A s \in Slots : s # current_slot => wheel'[s] = wheel[s]
  BY <1>1, <1>2 DEF TypeOK
\* What remains is found in the index, under the old position.
<1>9. ASSUME NEW i \in DOMAIN R
      PROVE  /\ pos[i] \in DOMAIN slot /\ R[i] = slot[pos[i]]
             /\ ~R[i].cancelled
             /\ R[i].ref \in Located'
             /\ timer_index[R[i].ref].slot = current_slot
             /\ timer_index[R[i].ref].index = pos[i]
  <2>1. /\ pos[i] \in DOMAIN slot /\ R[i] = slot[pos[i]]
        /\ ~slot[pos[i]].cancelled /\ slot[pos[i]].expiry_ms > clock
    BY <1>6 DEF Waiting
  <2>2. /\ R[i].ref \in Located
        /\ timer_index[R[i].ref].slot = current_slot
        /\ timer_index[R[i].ref].index = pos[i]
    BY <1>2, <2>1 DEF IndexComplete
  <2>3. EntryOf(R[i].ref) = R[i]
    BY <2>1, <2>2 DEF EntryOf
  <2>4. R[i].ref \notin FiringNow
    <3>1. R[i].expiry_ms \in Nat
      <4>1. R[i] \in Entries
        BY <1>5
      <4> QED BY <4>1 DEF Entries
    <3>2. ~(EntryOf(R[i].ref).expiry_ms <= clock)
      BY <1>2, <2>1, <2>3, <3>1
    <3> QED BY <2>2, <3>2, FiringNowIndexed
  <2> QED BY <1>7, <2>1, <2>2, <2>4
<1>10. \A i, j \in DOMAIN R : R[i].ref = R[j].ref => i = j
  BY <1>6, <1>9
\* A timer of the current slot that does not fire remains, and moves.
<1>11. ASSUME NEW q \in Located', timer_index[q].slot = current_slot
       PROVE  /\ timer_index'[q].slot = current_slot
              /\ timer_index'[q].index \in DOMAIN R
              /\ R[timer_index'[q].index] = EntryOf(q)
              /\ R[timer_index'[q].index].ref = q
  <2>1. q \in Located /\ q \notin FiringNow
    BY <1>7
  <2>2. /\ timer_index[q].index \in DOMAIN slot /\ EntryOf(q) = slot[timer_index[q].index]
        /\ EntryOf(q).ref = q /\ ~EntryOf(q).cancelled
    BY <1>11, <2>1 DEF IndexSound, EntryOf
  <2>3. EntryOf(q).expiry_ms > clock
    <3>1. EntryOf(q).expiry_ms \in Nat
      <4>1. EntryOf(q) \in Entries
        BY <1>2, <2>2
      <4> QED BY <4>1 DEF Entries
    <3>2. ~(EntryOf(q).expiry_ms <= clock)
      BY <1>11, <2>1, FiringNowIndexed
    <3> QED BY <1>2, <3>1, <3>2
  <2>4. timer_index[q].index \in Waiting(slot, clock)
    BY <2>2, <2>3 DEF Waiting
  <2>5. PICK i \in DOMAIN R : pos[i] = timer_index[q].index
    BY <1>6, <2>4
  <2>6. R[i] = EntryOf(q) /\ R[i].ref = q
    BY <1>6, <2>2, <2>5
  <2>7. (CHOOSE j \in DOMAIN R : R[j].ref = q) = i
    BY <1>10, <2>6
  <2>8. timer_index'[q] = [timer_index[q] EXCEPT !.index = i]
    <3>1. q \in DOMAIN timer_index \ ToSet(RefsOf(E))
      BY <1>3, <2>1 DEF Located, F
    <3>2. \E j \in DOMAIN R : R[j].ref = q
      BY <2>6
    <3> QED BY <1>1, <2>7, <3>1, <3>2 DEF Reindexed
  <2>9. timer_index[q] \in [slot : Slots, index : Nat \ {0}]
    BY <2>1 DEF TypeOK
  <2>10. timer_index'[q].slot = current_slot /\ timer_index'[q].index = i
    BY <1>11, <2>8, <2>9
  <2> QED BY <2>6, <2>10
\* A timer of another slot stays where it is.
<1>12. ASSUME NEW q \in Located', timer_index[q].slot # current_slot
       PROVE  timer_index'[q] = timer_index[q]
  <2>1. ~\E i \in DOMAIN R : R[i].ref = q
    BY <1>9, <1>12
  <2>2. q \in DOMAIN timer_index \ ToSet(RefsOf(E))
    BY <1>3, <1>7 DEF Located, F
  <2> QED BY <1>1, <2>1, <2>2 DEF Reindexed
<1>13. ASSUME NEW q \in Located'
       PROVE  /\ timer_index'[q].slot = timer_index[q].slot
              /\ timer_index'[q] \in [slot : Slots, index : Nat \ {0}]
              /\ timer_index'[q].index \in DOMAIN wheel'[timer_index'[q].slot]
              /\ EntryOf(q)' = EntryOf(q)
  <2>1. q \in Located /\ timer_index[q] \in [slot : Slots, index : Nat \ {0}]
        /\ timer_index[q].index \in DOMAIN wheel[timer_index[q].slot]
    BY <1>7 DEF TypeOK, IndexSound
  <2>2. CASE timer_index[q].slot = current_slot
    <3>1. timer_index'[q].index \in Nat \ {0}
      BY <1>5, <1>11, <2>2
    <3>2. timer_index'[q] = [timer_index[q] EXCEPT !.index = timer_index'[q].index]
      <4>1. q \in DOMAIN timer_index \ ToSet(RefsOf(E))
        BY <1>3, <1>7 DEF Located, F
      <4>2. timer_index'[q] = timer_index[q]
            \/ \E i : timer_index'[q] = [timer_index[q] EXCEPT !.index = i]
        BY <1>1, <4>1 DEF Reindexed
      <4> QED BY <2>1, <4>2
    <3>3. timer_index'[q] \in [slot : Slots, index : Nat \ {0}]
      BY <2>1, <3>1, <3>2
    <3>4. EntryOf(q)' = EntryOf(q)
      BY <1>8, <1>11, <2>2 DEF EntryOf
    <3> QED BY <1>8, <1>11, <2>2, <3>3, <3>4
  <2>3. CASE timer_index[q].slot # current_slot
    BY <1>8, <1>12, <2>1, <2>3 DEF EntryOf
  <2> QED BY <2>2, <2>3
<1>14. Used' = Used
  BY <1>1 DEF Used
<1>15. /\ sending' \in Seq(Refs)
       /\ Fired' = Fired \union FiringNow
  <2> DEFINE S == {i \in DOMAIN F : F[i] \notin Sleeps}
  <2>1. Picked(F, S) \in Seq(Refs) /\ ToSet(Picked(F, S)) = {F[i] : i \in S}
    BY <1>3, PickedSet
  <2>2. sending \in Seq(Refs)
    BY DEF TypeOK
  <2>3. sending' \in Seq(Refs) /\ ToSet(sending') = ToSet(sending) \union ToSet(Picked(F, S))
    <3> DEFINE P == Picked(F, S)
    <3>1. sending' = sending \o P /\ P \in Seq(Refs)
      BY <1>1, <2>1
    <3> HIDE DEF P
    <3>2. sending \o P \in Seq(Refs)
      BY <2>2, <3>1
    <3>3. ToSet(sending \o P) = ToSet(sending) \union ToSet(P)
      BY <2>2, <3>1, ToSetConcat
    <3>4. ToSet(sending') = ToSet(sending \o P)
      BY <3>1 DEF ToSet
    <3> QED BY <3>1, <3>2, <3>3, <3>4 DEF P
  <2>4. ToSet(F) = (ToSet(F) \intersect Sleeps) \union {F[i] : i \in S}
    BY DEF ToSet
  <2> HIDE DEF S
  <2> QED BY <1>1, <1>3, <2>1, <2>3, <2>4 DEF Fired
<1>16. TypeOK'
  <2>1. wheel' \in [Slots -> Seq(Entries)]
    BY <1>1, <1>5 DEF TypeOK
  <2>2. timer_index' \in [Located' -> [slot : Slots, index : Nat \ {0}]]
    <3>1. timer_index' = [q \in Located' |-> timer_index'[q]]
      BY <1>1 DEF Reindexed, Located
    <3> QED BY <1>13, <3>1
  <2>3. born' \in [Used' -> [delay : Nat, at : Nat, ticks : Nat]]
    <3> SUFFICES ASSUME NEW r \in Used
                 PROVE  born'[r] \in [delay : Nat, at : Nat, ticks : Nat]
      BY <1>1, <1>14
    <3>1. born[r] \in [delay : Nat, at : Nat, ticks : Nat]
      BY DEF TypeOK
    <3>2. [born[r] EXCEPT !.ticks = @ + 1] \in [delay : Nat, at : Nat, ticks : Nat]
      BY <3>1
    <3> QED BY <1>1, <3>1, <3>2
  <2>4. current_slot' \in Slots
    BY <1>1, <1>2 DEF Slots
  <2> QED BY <1>1, <1>2, <1>15, <2>1, <2>2, <2>3, <2>4 DEF TypeOK
<1>17. IndexSound'
  <2>1. \A q \in Located' : EntryOf(q).ref = q /\ ~EntryOf(q).cancelled
    BY <1>7 DEF IndexSound
  <2> SUFFICES ASSUME NEW q \in Located'
               PROVE  /\ timer_index'[q].index \in DOMAIN wheel'[timer_index'[q].slot]
                      /\ EntryOf(q)'.ref = q /\ ~EntryOf(q)'.cancelled
    BY DEF IndexSound
  <2> QED BY <1>13, <2>1
<1>18. IndexComplete'
  <2> SUFFICES ASSUME NEW s \in Slots, NEW i \in DOMAIN wheel'[s],
                      ~wheel'[s][i].cancelled
               PROVE  /\ wheel'[s][i].ref \in Located'
                      /\ timer_index'[wheel'[s][i].ref].slot = s
                      /\ timer_index'[wheel'[s][i].ref].index = i
    BY DEF IndexComplete
  <2>1. CASE s = current_slot
    <3>1. i \in DOMAIN R /\ wheel'[s][i] = R[i]
      BY <1>8, <2>1
    <3>2. R[i].ref \in Located' /\ timer_index[R[i].ref].slot = current_slot
      BY <1>9, <3>1
    <3>3. /\ timer_index'[R[i].ref].slot = current_slot
          /\ timer_index'[R[i].ref].index \in DOMAIN R
          /\ R[timer_index'[R[i].ref].index].ref = R[i].ref
      BY <1>11, <3>2
    <3>4. timer_index'[R[i].ref].index = i
      BY <1>10, <3>1, <3>3
    <3> QED BY <2>1, <3>1, <3>2, <3>3, <3>4
  <2>2. CASE s # current_slot
    <3>1. wheel'[s] = wheel[s]
      BY <1>8, <2>2
    <3>2. /\ wheel[s][i].ref \in Located
          /\ timer_index[wheel[s][i].ref].slot = s
          /\ timer_index[wheel[s][i].ref].index = i
      BY <3>1 DEF IndexComplete
    <3>3. wheel[s][i].ref \notin FiringNow
      BY <2>2, <3>2, FiringNowIndexed
    <3> QED BY <1>7, <1>12, <2>2, <3>1, <3>2, <3>3
  <2> QED BY <2>1, <2>2
<1>19. RefsUsed'
  <2>1. FiringNow \subseteq Located
    BY FiringNowIndexed
  <2>2. \A s \in Slots : \A i \in DOMAIN wheel'[s] : wheel'[s][i].ref \in Used'
    <3> SUFFICES ASSUME NEW s \in Slots, NEW i \in DOMAIN wheel'[s]
                 PROVE  wheel'[s][i].ref \in Used
      BY <1>14
    <3>1. CASE s = current_slot
      BY <1>7, <1>8, <1>9, <3>1 DEF RefsUsed
    <3>2. CASE s # current_slot
      BY <1>8, <3>2 DEF RefsUsed
    <3> QED BY <3>1, <3>2
  <2>3. Located' \subseteq Used' /\ Fired' \subseteq Used' /\ Located' \intersect Fired' = {}
    BY <1>7, <1>14, <1>15, <2>1 DEF RefsUsed
  <2> QED BY <2>2, <2>3 DEF RefsUsed
<1> QED BY <1>7, <1>13, <1>15, <1>16, <1>17, <1>18, <1>19

-----------------------------------------------------------------------------
(* The index is exact and the wheel is a timer service.                    *)

\* What is pending is what the index holds.
LEMMA PendingIs == IndexInv => Pending = [r \in Located |-> EntryOf(r).expiry_ms]
<1> SUFFICES ASSUME IndexInv PROVE Pending = [r \in Located |-> EntryOf(r).expiry_ms]
  OBVIOUS
<1> USE DEF IndexInv
<1> DEFINE RefAt(x) == wheel[x[1]][x[2]].ref
           Place(r) == <<timer_index[r].slot, timer_index[r].index>>
<1>1. ASSUME NEW x \in Live
      PROVE  RefAt(x) \in Located /\ x = Place(RefAt(x))
  <2>1. PICK s \in Slots : \E i \in DOMAIN wheel[s] : x = <<s, i>> /\ ~wheel[s][i].cancelled
    BY DEF Live
  <2> QED BY <2>1 DEF IndexComplete
<1>2. ASSUME NEW r \in Located
      PROVE  /\ Place(r) \in Live /\ RefAt(Place(r)) = r
             /\ wheel[Place(r)[1]][Place(r)[2]] = EntryOf(r)
  <2>1. /\ timer_index[r].slot \in Slots
        /\ timer_index[r].index \in DOMAIN wheel[timer_index[r].slot]
        /\ EntryOf(r).ref = r /\ ~EntryOf(r).cancelled
    BY DEF TypeOK, IndexSound
  <2> QED BY <2>1 DEF Live, EntryOf
<1>3. {RefAt(x) : x \in Live} = Located
  BY <1>1, <1>2
<1>4. ASSUME NEW r \in Located
      PROVE  (CHOOSE y \in Live : RefAt(y) = r) = Place(r)
  BY <1>1, <1>2
<1>5. Pending = [r \in {RefAt(x) : x \in Live} |->
                    LET x == CHOOSE y \in Live : RefAt(y) = r
                    IN wheel[x[1]][x[2]].expiry_ms]
  BY DEF Pending
<1> HIDE DEF Place, RefAt
<1> QED BY <1>2, <1>3, <1>4, <1>5

\* The wheel and its index stay consistent.
LEMMA IndexInductive == IndexInv /\ [Next]_vars => IndexInv'
<1> SUFFICES ASSUME IndexInv, [Next]_vars PROVE IndexInv'
  OBVIOUS
<1>1. ASSUME NEW r \in Refs, NEW d \in Delays, Insert(r, d) PROVE IndexInv'
  BY <1>1, InsertEffect
<1>2. ASSUME NEW r \in Refs, Cancel(r) PROVE IndexInv'
  BY <1>2, CancelEffect
<1>3. CASE Tick
  BY <1>3, TickEffect
<1>4. CASE TimePasses \/ Send \/ UNCHANGED vars
  BY <1>4, OtherEffect
<1> QED BY <1>1, <1>2, <1>3, <1>4 DEF Next

\* IndexInv holds throughout.
LEMMA IndexAlways == Spec => []IndexInv
<1>1. Init => IndexInv
  BY InitIndex DEF IInv
<1> QED BY <1>1, IndexInductive, PTL DEF Spec

\* A timer that is pending is found where the index says, and read_timer tells
\* the time left to it; nothing else is in the index.
THEOREM IndexAlwaysExact == Spec => []IndexExact
<1>1. ASSUME IndexInv PROVE IndexExact
  <2>1. Pending = [r \in Located |-> EntryOf(r).expiry_ms]
    BY <1>1, PendingIs
  <2>2. DOMAIN timer_index = DOMAIN Pending
    BY <2>1 DEF Located
  <2>3. ASSUME NEW r \in Located
        PROVE  /\ timer_index[r].index \in DOMAIN wheel[timer_index[r].slot]
               /\ wheel[timer_index[r].slot][timer_index[r].index].ref = r
               /\ ReadTimer(r) = IF Pending[r] <= current_time_ms THEN 0
                                 ELSE Pending[r] - current_time_ms
    <3>1. /\ timer_index[r].index \in DOMAIN wheel[timer_index[r].slot]
          /\ EntryOf(r).ref = r /\ ~EntryOf(r).cancelled
      BY <1>1 DEF IndexInv, IndexSound
    <3>2. wheel[timer_index[r].slot] \in Seq(Entries)
      BY <1>1 DEF IndexInv, TypeOK
    <3>3. ~(timer_index[r].index > Len(wheel[timer_index[r].slot]))
      BY <3>1, <3>2
    <3>4. Pending[r] = EntryOf(r).expiry_ms
      BY <2>1
    <3> QED BY <3>1, <3>3, <3>4 DEF ReadTimer, EntryOf, Located
  <2> QED BY <2>2, <2>3 DEF IndexExact, Located
<1> QED BY <1>1, IndexAlways, PTL

\* The timers that fire at a tick fire together in the service, when they are
\* due and for the first time; insert and cancel are the service's own.
LEMMA StepKeepsPromise ==
    IndexInv /\ IndexInv' /\ [Next]_vars => [ServiceStep]_<<Pending, Used, Fired>>
<1> SUFFICES ASSUME IndexInv, IndexInv', [Next]_vars
             PROVE  [ServiceStep]_<<Pending, Used, Fired>>
  OBVIOUS
<1>1. Pending = [r \in Located |-> EntryOf(r).expiry_ms]
  BY PendingIs
<1>2. Pending' = [r \in Located' |-> EntryOf(r)'.expiry_ms]
  <2>1. (IndexInv => Pending = [r \in Located |-> EntryOf(r).expiry_ms])'
    BY PendingIs, PTL
  <2> QED BY <2>1
<1>3. ASSUME NEW r \in Refs, NEW d \in Delays, Insert(r, d)
      PROVE  Service!Set(r, current_time_ms + d)
  <2>1. /\ Located' = Located \union {r} /\ r \notin Located
        /\ \A q \in Located : EntryOf(q)' = EntryOf(q)
        /\ EntryOf(r)'.expiry_ms = current_time_ms + d
    BY <1>3, InsertEffect
  <2>2. r \notin Used /\ Used' = Used \union {r} /\ Fired' = Fired
    BY <1>3, AtFunction DEF Insert, Used, Fired
  <2>3. Pending' = [q \in DOMAIN Pending \union {r} |->
                       IF q = r THEN current_time_ms + d ELSE Pending[q]]
    BY <1>1, <1>2, <2>1
  <2> QED BY <2>2, <2>3 DEF Service!Set
<1>4. ASSUME NEW r \in Refs, Cancel(r)
      PROVE  Service!Cancel(r)
  <2>1. /\ r \in Located /\ Located' = Located \ {r}
        /\ \A q \in Located' : EntryOf(q)' = EntryOf(q)
    BY <1>4, CancelEffect
  <2>2. Used' = Used /\ Fired' = Fired
    BY <1>4 DEF Cancel, Used, Fired
  <2>3. r \in DOMAIN Pending /\ Pending' = [q \in DOMAIN Pending \ {r} |-> Pending[q]]
    BY <1>1, <1>2, <2>1
  <2> QED BY <2>2, <2>3 DEF Service!Cancel, Service!Without
<1>5. CASE Tick
  <2>1. /\ Located' = Located \ FiringNow
        /\ \A q \in Located' : EntryOf(q)' = EntryOf(q)
        /\ Fired' = Fired \union FiringNow
    BY <1>5, TickEffect
  <2>2. Used' = Used
    BY <1>5 DEF Tick, Used
  <2>3. FiringNow \subseteq Located /\ \A r \in FiringNow : Pending[r] <= clock
    BY <1>1, FiringNowIndexed
  <2>4. Fired' \ Fired = FiringNow
    BY <2>1, <2>3 DEF IndexInv, RefsUsed
  <2>5. Pending' = [q \in DOMAIN Pending \ FiringNow |-> Pending[q]]
    BY <1>1, <1>2, <2>1
  <2>6. FiringNow \subseteq {r \in DOMAIN Pending : Pending[r] <= clock}
    BY <1>1, <2>3
  <2>7. Service!Fire(FiringNow, clock)
    BY <2>1, <2>2, <2>5, <2>6 DEF Service!Fire, Service!Without
  <2> QED BY <2>4, <2>7 DEF ServiceStep
<1>6. CASE TimePasses \/ Send \/ UNCHANGED vars
  <2>1. wheel' = wheel /\ born' = born /\ Fired' = Fired
    BY <1>6, OtherEffect
  <2> QED BY <2>1 DEF Pending, Live, Used
<1> QED BY <1>3, <1>4, <1>5, <1>6 DEF Next, ServiceStep

\* The wheel refines the timer service: a timer fires once, never after it was
\* cancelled and never before it expires.
THEOREM WheelKeepsTimerPromise == Spec => KeepsTimerPromise
<1>1. Init => Service!Init
  <2> SUFFICES ASSUME Init PROVE Service!Init
    OBVIOUS
  <2>1. Located = {} /\ Used = {} /\ DOMAIN sending = {} /\ delivered = {}
    BY DEF Init, Located, Used
  <2>2. Pending = [r \in {} |-> EntryOf(r).expiry_ms]
    BY <2>1, InitIndex, PendingIs DEF IInv
  <2>3. Pending = <<>>
    BY <2>2
  <2>4. Fired = {}
    BY <2>1 DEF Fired, ToSet
  <2> QED BY <2>1, <2>3, <2>4 DEF Service!Init
<1> QED BY <1>1, IndexAlways, StepKeepsPromise, PTL DEF Spec, KeepsTimerPromise

-----------------------------------------------------------------------------
(* Timers fire at the tick their delay selects.                            *)

\* Division with remainder.
LEMMA Division ==
    ASSUME NEW a \in Nat, NEW n \in Nat \ {0}
    PROVE  /\ a % n \in Nat /\ a % n < n /\ a \div n \in Nat
           /\ (a \div n) * n \in Nat
           /\ a = (a \div n) * n + (a % n)
<1>1. a % n \in 0 .. n - 1
  OBVIOUS
<1>2. a \div n \in Nat
  OBVIOUS
<1>3. a = n * (a \div n) + (a % n)
  OBVIOUS
<1>4. n * (a \div n) = (a \div n) * n /\ (a \div n) * n \in Nat
  BY <1>2
<1> QED BY <1>1, <1>2, <1>3, <1>4

\* Whole ticks in a delay.
LEMMA WholeTicks ==
    ASSUME NEW d \in Nat
    PROVE  /\ d \div tick_ms \in Nat
           /\ (d \div tick_ms) * tick_ms <= d
           /\ d < (d \div tick_ms) * tick_ms + tick_ms
<1> DEFINE p == (d \div tick_ms) * tick_ms
<1>1. /\ d % tick_ms \in Nat /\ d % tick_ms < tick_ms /\ d \div tick_ms \in Nat
      /\ p \in Nat /\ d = p + (d % tick_ms)
  BY Division
<1> HIDE DEF p
<1>2. p <= d /\ d < p + tick_ms
  BY <1>1
<1> QED BY <1>1, <1>2 DEF p

\* One more or one less of a product.
LEMMA Products ==
    ASSUME NEW n \in Nat, NEW k \in Nat
    PROVE  /\ n * k \in Nat
           /\ (n + 1) * k = n * k + k
           /\ n # 0 => (n - 1) * k = n * k - k /\ n * k >= k
OBVIOUS

\* A timer that no step touches stays on time.
LEMMA OnTimeFrame ==
    ASSUME TypeOK, NEW q \in Located, q \in Used, OnTime(q), clock' \in Nat,
           timer_index'[q].slot = timer_index[q].slot, EntryOf(q)' = EntryOf(q),
           born'[q] = born[q], current_slot' = current_slot,
           current_time_ms' = current_time_ms, clock' >= clock
    PROVE  OnTime(q)'
<1>1. TicksOf(q)' = TicksOf(q)
  BY DEF TicksOf
<1>2. born[q].at \in Nat /\ clock \in Nat
  BY DEF TypeOK
<1>3. born'[q].at <= clock'
  BY <1>2 DEF OnTime
<1>4. \E m \in Nat : current_slot' + (TicksOf(q)' - born'[q].ticks)
                         = timer_index'[q].slot + m * num_slots
  BY <1>1 DEF OnTime
<1>5. /\ born'[q].ticks <= TicksOf(q)'
      /\ EntryOf(q)'.expiry_ms + born'[q].ticks * tick_ms
            <= current_time_ms' + born'[q].delay
      /\ born'[q].ticks >= 1 =>
            current_time_ms' >= born'[q].at + (born'[q].ticks - 1) * tick_ms
  BY <1>1 DEF OnTime
<1> QED BY <1>3, <1>4, <1>5 DEF OnTime

\* A timer starts on time.
LEMMA InsertOnTime ==
    ASSUME IndexInv, NEW r \in Refs, NEW d \in Delays, Insert(r, d)
    PROVE  OnTime(r)'
<1> DEFINE k == d \div tick_ms
           c == current_slot + k
<1>1. /\ d \in Nat /\ current_slot \in Nat /\ clock \in Nat /\ current_time_ms \in Nat
  BY DEF IndexInv, TypeOK, Slots
<1>2. k \in Nat
  BY <1>1, WholeTicks
<1>3. /\ timer_index'[r].slot = TargetSlot(d)
      /\ EntryOf(r)'.expiry_ms = current_time_ms + d
  BY InsertEffect
<1>4. /\ born'[r] = [delay |-> d, at |-> clock, ticks |-> 0]
      /\ UNCHANGED <<clock, current_time_ms, current_slot>>
  BY DEF Insert, At
<1>5. TicksOf(r)' = k
  BY <1>4 DEF TicksOf
<1>6. TargetSlot(d) = c % num_slots
  BY DEF TargetSlot
<1> HIDE DEF k
<1>7. c \in Nat
  BY <1>1, <1>2
<1> HIDE DEF c
<1>8. /\ c \div num_slots \in Nat /\ c % num_slots \in Nat
      /\ (c \div num_slots) * num_slots \in Nat
      /\ c = (c \div num_slots) * num_slots + (c % num_slots)
  BY <1>7, Division
<1>9. current_slot + (k - 0) = TargetSlot(d) + (c \div num_slots) * num_slots
  BY <1>1, <1>2, <1>6, <1>8 DEF c
<1>10. \E m \in Nat : current_slot' + (TicksOf(r)' - born'[r].ticks)
                         = timer_index'[r].slot + m * num_slots
  <2>1. born'[r].ticks = 0
    BY <1>4
  <2>2. current_slot' + (TicksOf(r)' - born'[r].ticks)
           = timer_index'[r].slot + (c \div num_slots) * num_slots
    BY <1>3, <1>4, <1>5, <1>9, <2>1
  <2> QED BY <1>8, <2>2
<1>11. 0 * tick_ms = 0
  OBVIOUS
<1>12. born'[r].ticks <= TicksOf(r)'
  BY <1>2, <1>4, <1>5
<1>13. EntryOf(r)'.expiry_ms + born'[r].ticks * tick_ms
          <= current_time_ms' + born'[r].delay
  BY <1>1, <1>3, <1>4, <1>11
<1>14. born'[r].at <= clock' /\ ~(born'[r].ticks >= 1)
  BY <1>1, <1>4
<1> QED BY <1>10, <1>12, <1>13, <1>14 DEF OnTime

\* What a tick knows of a timer of the index: before its tick it is not due at
\* this slot in this revolution; at its tick it is, and has expired.
LEMMA OwnTick ==
    ASSUME IndexInv, NEW q \in Located, OnTime(q),
           clock >= current_time_ms + tick_ms, born[q].ticks = TicksOf(q)
    PROVE  q \in FiringNow
<1> DEFINE k == TicksOf(q)
           s == timer_index[q].slot
           e == EntryOf(q).expiry_ms
           d == born[q].delay
<1>1. /\ s \in Nat /\ current_slot \in Nat /\ s < num_slots /\ current_slot < num_slots
      /\ d \in Nat /\ clock \in Nat /\ current_time_ms \in Nat
  BY DEF IndexInv, TypeOK, RefsUsed, Slots
<1>2. e \in Nat
  <2>1. EntryOf(q) \in Entries
    BY DEF IndexInv, TypeOK, IndexSound, EntryOf
  <2> QED BY <2>1 DEF Entries
<1>3. k \in Nat /\ k * tick_ms \in Nat /\ d < k * tick_ms + tick_ms
  BY <1>1, WholeTicks, Products DEF TicksOf
<1>4. PICK m \in Nat : current_slot + (k - born[q].ticks) = s + m * num_slots
  BY DEF OnTime
<1>5. e + k * tick_ms <= current_time_ms + d
  BY DEF OnTime
<1> HIDE DEF k, s, e, d
<1>6. current_slot = s
  <2>1. born[q].ticks = k
    BY DEF k
  <2>2. current_slot = s + m * num_slots /\ m * num_slots \in Nat
    BY <1>1, <1>3, <1>4, <2>1, Products
  <2>3. m # 0 => m * num_slots >= num_slots
    BY Products
  <2>4. m = 0
    BY <1>1, <2>2, <2>3
  <2>5. 0 * num_slots = 0
    OBVIOUS
  <2> QED BY <1>1, <2>2, <2>4, <2>5
<1>7. e <= clock
  <2> DEFINE p == k * tick_ms
  <2>1. p \in Nat /\ d < p + tick_ms /\ e + p <= current_time_ms + d
    BY <1>3, <1>5
  <2> HIDE DEF p
  <2> QED BY <1>1, <1>2, <2>1
<1> QED BY <1>6, <1>7, FiringNowIndexed DEF s, e

\* A tick brings the timers that wait a tick nearer.
LEMMA TickOnTime ==
    ASSUME IInv, Tick, NEW q \in Located'
    PROVE  OnTime(q)'
<1> DEFINE k == TicksOf(q)
           n == born[q].ticks
           s == timer_index[q].slot
           e == EntryOf(q).expiry_ms
           d == born[q].delay
           a == born[q].at
<1>1. q \in Located /\ q \notin FiringNow /\ q \in Used
      /\ timer_index'[q].slot = s /\ EntryOf(q)' = EntryOf(q)
  BY TickEffect DEF IInv, IndexInv, RefsUsed
<1>2. /\ clock >= current_time_ms + tick_ms /\ current_time_ms' = clock
      /\ clock' = clock /\ current_slot' = (current_slot + 1) % num_slots
      /\ born'[q] = [born[q] EXCEPT !.ticks = @ + 1]
  BY <1>1 DEF Tick, Located
<1>3. /\ s \in Nat /\ current_slot \in Nat /\ s < num_slots /\ current_slot < num_slots
      /\ born[q] \in [delay : Nat, at : Nat, ticks : Nat]
      /\ clock \in Nat /\ current_time_ms \in Nat
  BY <1>1 DEF IInv, IndexInv, TypeOK, Slots
<1>4. e \in Nat
  <2>1. EntryOf(q) \in Entries
    BY <1>1 DEF IInv, IndexInv, TypeOK, IndexSound, EntryOf
  <2> QED BY <2>1 DEF Entries
<1>5. d \in Nat /\ a \in Nat /\ n \in Nat
  BY <1>3
<1>6. k \in Nat
  BY <1>5, WholeTicks DEF TicksOf
<1>7. OnTime(q)
  BY <1>1 DEF IInv, AllOnTime
<1>8. PICK m \in Nat : current_slot + (k - n) = s + m * num_slots
  BY <1>7 DEF OnTime
<1>9. n <= k /\ e + n * tick_ms <= current_time_ms + d /\ a <= clock
      /\ (n >= 1 => current_time_ms >= a + (n - 1) * tick_ms)
  BY <1>7 DEF OnTime
<1>10. n # k
  BY <1>1, <1>2, <1>7, OwnTick DEF IInv
<1>11. /\ born'[q].delay = d /\ born'[q].at = a /\ born'[q].ticks = n + 1
  BY <1>2, <1>3
<1>12. TicksOf(q)' = k
  BY <1>11 DEF TicksOf
<1>13. EntryOf(q)'.expiry_ms = e
  BY <1>1
<1> HIDE DEF k, n, s, e, d, a
<1>14. n + 1 <= k
  BY <1>5, <1>6, <1>9, <1>10
<1>15. e + (n + 1) * tick_ms <= clock + d
  <2> DEFINE p == n * tick_ms
  <2>1. p \in Nat /\ (n + 1) * tick_ms = p + tick_ms
    BY <1>5, Products
  <2>2. e + p <= current_time_ms + d
    BY <1>9
  <2> HIDE DEF p
  <2>3. e + (p + tick_ms) <= clock + d
    BY <1>2, <1>3, <1>4, <1>5, <2>1, <2>2
  <2> QED BY <2>1, <2>3
<1>16. clock >= a + ((n + 1) - 1) * tick_ms
  <2>0. (n + 1) - 1 = n
    BY <1>5
  <2>1. CASE n = 0
    <3>1. n * tick_ms = 0
      BY <2>1
    <3> QED BY <1>3, <1>5, <1>9, <2>0, <3>1
  <2>2. CASE n # 0
    <3> DEFINE p == n * tick_ms
    <3>1. p \in Nat /\ (n - 1) * tick_ms = p - tick_ms
      BY <1>5, <2>2, Products
    <3>2. current_time_ms >= a + (p - tick_ms)
      BY <1>5, <1>9, <2>2, <3>1
    <3> HIDE DEF p
    <3>3. clock >= a + p
      BY <1>2, <1>3, <1>5, <3>1, <3>2
    <3> QED BY <2>0, <3>3 DEF p
  <2> QED BY <2>1, <2>2
<1>17. \E j \in Nat : current_slot' + (k - (n + 1)) = s + j * num_slots
  <2> DEFINE p == m * num_slots
  <2>1. p \in Nat /\ (m # 0 => (m - 1) * num_slots = p - num_slots)
    BY Products
  <2>2. current_slot + (k - n) = s + p
    BY <1>8
  <2>3. m = 0 => p = 0
    OBVIOUS
  <2>4. CASE current_slot + 1 = num_slots
    <3>1. current_slot' = 0
      BY <1>2, <1>3, <2>4
    <3> HIDE DEF p
    <3>2. m # 0
      BY <1>3, <1>5, <1>6, <1>14, <2>2, <2>3, <2>4
    <3>3. 0 + (k - (n + 1)) = s + (p - num_slots)
      BY <1>3, <1>5, <1>6, <2>1, <2>2, <2>4
    <3>4. m - 1 \in Nat /\ 0 + (k - (n + 1)) = s + (m - 1) * num_slots
      BY <2>1, <3>2, <3>3
    <3> QED BY <3>1, <3>4
  <2>5. CASE current_slot + 1 # num_slots
    <3>1. current_slot' = current_slot + 1
      BY <1>2, <1>3, <2>5
    <3> HIDE DEF p
    <3>2. (current_slot + 1) + (k - (n + 1)) = s + p
      BY <1>3, <1>5, <1>6, <2>1, <2>2
    <3> QED BY <3>1, <3>2 DEF p
  <2> QED BY <2>4, <2>5
<1> QED BY <1>1, <1>2, <1>3, <1>5, <1>6, <1>9, <1>11, <1>12, <1>13, <1>14, <1>15,
           <1>16, <1>17 DEF OnTime, s

\* Every timer stays on time.
LEMMA WheelInductive == IInv /\ [Next]_vars => IInv'
<1> SUFFICES ASSUME IInv, [Next]_vars PROVE IInv'
  OBVIOUS
<1> USE DEF IInv
<1>1. IndexInv'
  BY IndexInductive
<1>2. \A q \in Located : q \in Used /\ OnTime(q)
  BY DEF IndexInv, RefsUsed, AllOnTime
<1>3. TypeOK /\ clock' \in Nat
  BY <1>1 DEF IndexInv, TypeOK
<1>4. ASSUME NEW r \in Refs, NEW d \in Delays, Insert(r, d)
      PROVE  AllOnTime'
  <2>1. /\ Located' = Located \union {r}
        /\ \A q \in Located : timer_index'[q] = timer_index[q] /\ EntryOf(q)' = EntryOf(q)
    BY <1>4, InsertEffect
  <2>2. /\ UNCHANGED <<clock, current_time_ms, current_slot>>
        /\ \A q \in Used : born'[q] = born[q]
    BY <1>4 DEF Insert, At, Used
  <2>3. clock \in Nat
    BY <1>3 DEF TypeOK
  <2>4. clock' >= clock
    BY <2>2, <2>3
  <2>5. \A q \in Located : OnTime(q)'
    BY <1>2, <1>3, <2>1, <2>2, <2>4, OnTimeFrame
  <2> QED BY <1>4, <2>1, <2>5, InsertOnTime DEF AllOnTime
<1>5. ASSUME NEW r \in Refs, Cancel(r)
      PROVE  AllOnTime'
  <2>1. /\ Located' \subseteq Located
        /\ \A q \in Located' : timer_index'[q] = timer_index[q] /\ EntryOf(q)' = EntryOf(q)
    BY <1>5, CancelEffect
  <2>2. UNCHANGED <<clock, current_time_ms, current_slot, born>>
    BY <1>5 DEF Cancel
  <2>3. clock \in Nat
    BY <1>3 DEF TypeOK
  <2>4. clock' >= clock
    BY <2>2, <2>3
  <2>5. \A q \in Located' : OnTime(q)'
    BY <1>2, <1>3, <2>1, <2>2, <2>4, OnTimeFrame
  <2> QED BY <2>5 DEF AllOnTime
<1>6. CASE Tick
  <2>1. \A q \in Located' : OnTime(q)'
    BY <1>6, TickOnTime
  <2> QED BY <1>1, <2>1 DEF AllOnTime
<1>7. CASE TimePasses \/ Send \/ UNCHANGED vars
  <2>1. /\ UNCHANGED <<current_time_ms, current_slot, wheel, timer_index, born>>
        /\ clock' >= clock
    BY <1>7, OtherEffect
  <2>2. Located' = Located /\ \A q \in Located : EntryOf(q)' = EntryOf(q)
    BY <2>1 DEF Located, EntryOf
  <2>3. \A q \in Located : OnTime(q)'
    BY <1>2, <1>3, <2>1, <2>2, OnTimeFrame
  <2>4. \A q \in Located' : OnTime(q)'
    BY <2>2, <2>3
  <2> QED BY <1>1, <2>4 DEF AllOnTime
<1> QED BY <1>1, <1>4, <1>5, <1>6, <1>7 DEF Next

\* IInv holds throughout.
LEMMA WheelAlways == Spec => []IInv
BY InitIndex, WheelInductive, PTL DEF Spec

\* A timer that fires within the wheel's reach fires at its own tick.
LEMMA FiresAtOwnTick ==
    ASSUME IInv, Tick, NEW r \in FiringNow, born[r].delay < tick_ms * num_slots
    PROVE  clock + tick_ms > born[r].at + born[r].delay
<1> DEFINE k == TicksOf(r)
           n == born[r].ticks
           d == born[r].delay
           a == born[r].at
<1>1. r \in Located /\ r \in Used /\ timer_index[r].slot = current_slot
  BY FiringNowIndexed DEF IInv, IndexInv, RefsUsed
<1>2. OnTime(r)
  BY <1>1 DEF IInv, AllOnTime
<1>3. /\ d \in Nat /\ a \in Nat /\ n \in Nat /\ clock \in Nat /\ current_time_ms \in Nat
      /\ current_slot \in Nat
  BY <1>1 DEF IInv, IndexInv, TypeOK, Slots
<1>4. k \in Nat /\ k * tick_ms <= d /\ d < k * tick_ms + tick_ms
  BY <1>3, WholeTicks DEF TicksOf
<1>5. PICK m \in Nat : current_slot + (k - n) = current_slot + m * num_slots
  BY <1>1, <1>2 DEF OnTime
<1>6. n <= k /\ a <= clock /\ (n >= 1 => current_time_ms >= a + (n - 1) * tick_ms)
  BY <1>2 DEF OnTime
<1>7. clock >= current_time_ms + tick_ms
  BY DEF Tick
<1>8. d < tick_ms * num_slots
  OBVIOUS
<1> HIDE DEF k, n, d, a
<1>9. k < num_slots
  <2> SUFFICES ASSUME k >= num_slots PROVE FALSE
    BY <1>4
  <2>1. PICK j \in Nat : k = num_slots + j
    <3>1. k - num_slots \in Nat /\ k = num_slots + (k - num_slots)
      BY <1>4
    <3> QED BY <3>1
  <2>2. k * tick_ms = tick_ms * num_slots + j * tick_ms
    BY <2>1
  <2>3. j * tick_ms \in Nat /\ tick_ms * num_slots \in Nat /\ k * tick_ms \in Nat
    BY <1>4, <2>1, Products
  <2> QED BY <1>3, <1>4, <1>8, <2>2, <2>3
<1>10. n = k
  <2> DEFINE p == m * num_slots
  <2>1. p \in Nat /\ (m # 0 => p >= num_slots) /\ (m = 0 => p = 0)
    BY Products
  <2>2. k - n = p
    BY <1>3, <1>4, <1>5, <2>1
  <2> HIDE DEF p
  <2> QED BY <1>3, <1>4, <1>6, <1>9, <2>1, <2>2
<1>11. CASE k = 0
  <2>1. k * tick_ms = 0
    BY <1>11
  <2> QED BY <1>3, <1>4, <1>6, <2>1 DEF d, a
<1>12. CASE k # 0
  <2> DEFINE p == k * tick_ms
  <2>1. p \in Nat /\ (k - 1) * tick_ms = p - tick_ms
    BY <1>4, <1>12, Products
  <2>2. current_time_ms >= a + (p - tick_ms)
    BY <1>4, <1>6, <1>10, <1>12, <2>1
  <2>3. d < p + tick_ms
    BY <1>4
  <2> HIDE DEF p
  <2>4. clock + tick_ms > a + d
    BY <1>3, <1>7, <2>1, <2>2, <2>3
  <2> QED BY <2>4 DEF d, a
<1> QED BY <1>11, <1>12

\* A timer whose delay is within the wheel's reach is not cut short by more
\* than a tick, and whatever its delay no timer waits past its own tick.
THEOREM WheelIsPunctual == Spec => Punctual
<1>1. IInv => LateByTicksOnly
  BY DEF IInv, AllOnTime, OnTime, LateByTicksOnly, TicksOf, Located
<1>2. IInv /\ [Next]_vars =>
        [\A r \in Fired' \ Fired :
            born[r].delay < tick_ms * num_slots =>
               clock + tick_ms > born[r].at + born[r].delay]_vars
  <2> SUFFICES ASSUME IInv, [Next]_vars, NEW r \in Fired' \ Fired,
                      born[r].delay < tick_ms * num_slots
               PROVE  clock + tick_ms > born[r].at + born[r].delay
    OBVIOUS
  <2>1. CASE Tick
    BY <2>1, TickEffect, FiresAtOwnTick DEF IInv
  <2>2. ASSUME NEW q \in Refs, NEW d \in Delays, Insert(q, d) PROVE FALSE
    BY <2>2 DEF Insert, Fired
  <2>3. ASSUME NEW q \in Refs, Cancel(q) PROVE FALSE
    BY <2>3 DEF Cancel, Fired
  <2>4. CASE TimePasses \/ Send \/ UNCHANGED vars
    BY <2>4, OtherEffect DEF IInv
  <2> QED BY <2>1, <2>2, <2>3, <2>4 DEF Next
<1>3. Spec => []LateByTicksOnly
  BY <1>1, WheelAlways, PTL
<1>4. Spec => NeverEarly
  BY <1>2, WheelAlways, PTL DEF Spec, NeverEarly
<1> QED BY <1>3, <1>4, PTL DEF Punctual
=============================================================================
