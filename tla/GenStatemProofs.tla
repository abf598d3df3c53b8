------------------------- MODULE GenStatemProofs -------------------------
(***************************************************************************)
(* Proofs about GenStatem, for any clients, casts, mail, results, lists of *)
(* actions and bounds: no event is lost or doubled, and only the present   *)
(* state's timeout can fire.                                               *)
(***************************************************************************)
EXTENDS GenStatem, FiniteSetTheorems, SequenceTheorems, WellFoundedInduction, TLAPS

USE StatemAssumption

-----------------------------------------------------------------------------
(* The inductive invariant.                                                *)

Callers == Clients \union {None}
Identities == ({"call"} \X Clients) \union ({"cast"} \X Casts)
                \union ({"internal", "state_timeout"} \X Nat)
Events == [type : {"call", "cast", "internal", "state_timeout"},
           id : Identities, from : Callers]
TimerRecords == [at : {"live", "cancelled", "sending", "sent"}, in : Nat]

TypeOK ==
    /\ starter \in {"waiting", "ok", "error", "timeout"}
    /\ starter_mailbox \in Seq(Mail \union {"ok", "error"})
    /\ buffered_messages \in Seq(Mail)
    /\ machine \in {"init", "loop", "ended", "stop", "crash"}
    /\ mailbox \in Seq(Events) /\ postponed_events \in Seq(Events)
    /\ state_name \in Nat /\ internal \in Nat
    /\ timers \in Seq(TimerRecords)
    /\ state_timeout_ref \in {None} \union DOMAIN timers
    /\ call \in [Clients -> {"idle", "waiting", "answered", "timed_out", "not_found"}]
    /\ replies \in [Clients -> Nat]
    /\ accepted \subseteq ({"mail"} \X Mail) \union Identities
    /\ done \subseteq accepted

\* The events of a list, and that none is in it twice.
Ids(s) == {s[i].id : i \in DOMAIN s}
Once(s) == \A i, j \in DOMAIN s : s[i].id = s[j].id => i = j

\* An event that a step may send was not sent before.
Fresh ==
    /\ \A k \in Nat : <<"internal", k>> \in accepted => k < internal
    /\ \A i \in Nat : <<"state_timeout", i>> \in accepted =>
           i \in DOMAIN timers /\ timers[i].at = "sent"
    /\ \A c \in Clients : <<"call", c>> \in accepted => call[c] # "idle"

\* While the machine runs, what it was sent and is not done with waits in
\* the mailbox or in the list of postponed events, once.
Sent == {y \in accepted : y[1] # "mail"}
Waiting ==
    Alive => /\ Once(mailbox) /\ Once(postponed_events)
             /\ Ids(mailbox) \cap Ids(postponed_events) = {}
             /\ Ids(mailbox) \union Ids(postponed_events) = Sent \ done

\* What is postponed was last postponed in the present state.
Held ==
    \A i \in DOMAIN postponed_events : held[postponed_events[i].id] = state_name

\* A timer that can fire is the one to cancel, and of the present state.
Current(ts, ref, state) ==
    \A i \in DOMAIN ts : ts[i].at = "live" => i = ref /\ ts[i].in = state
Timeouts ==
    /\ machine = "init" => timers = <<>> /\ state_name = 1
    /\ Alive => Current(timers, state_timeout_ref, state_name)

\* The starter's mail, in its mailbox or buffered, once.
Mails(s) == {s[i] : i \in DOMAIN s} \cap Mail
Single(s) == \A i, j \in DOMAIN s : s[i] = s[j] /\ s[i] \in Mail => i = j
Handshake ==
    /\ Single(starter_mailbox) /\ Single(buffered_messages)
    /\ Mails(starter_mailbox) \cap Mails(buffered_messages) = {}
    /\ Mails(starter_mailbox) \union Mails(buffered_messages)
         = {m \in Mail : <<"mail", m>> \in accepted}
    /\ starter # "waiting" => buffered_messages = <<>>

IInv == TypeOK /\ Fresh /\ Waiting /\ Held /\ Timeouts /\ Handshake

-----------------------------------------------------------------------------
(* Lists of events and of mail.                                            *)

\* The rest of a list, its first event gone.
LEMMA OnceTail ==
    ASSUME NEW S, NEW s \in Seq(S), s # <<>>, Once(s)
    PROVE  /\ Once(Tail(s))
           /\ Head(s).id \in Ids(s)
           /\ Ids(Tail(s)) = Ids(s) \ {Head(s).id}
<1>1. Len(s) \in Nat /\ Len(s) > 0 /\ DOMAIN s = 1 .. Len(s)
  OBVIOUS
<1>2. DOMAIN Tail(s) = 1 .. Len(s) - 1
  BY <1>1
<1>3. \A i \in 1 .. Len(s) - 1 : Tail(s)[i] = s[i + 1]
  BY <1>1
<1>4. Head(s) = s[1] /\ 1 \in DOMAIN s
  BY <1>1
<1>5. Once(Tail(s))
  <2> SUFFICES ASSUME NEW i \in 1 .. Len(s) - 1, NEW j \in 1 .. Len(s) - 1,
                      Tail(s)[i].id = Tail(s)[j].id
               PROVE  i = j
    BY <1>2 DEF Once
  <2>1. s[i + 1].id = s[j + 1].id /\ i + 1 \in DOMAIN s /\ j + 1 \in DOMAIN s
    BY <1>1, <1>3
  <2>2. i + 1 = j + 1
    BY <2>1 DEF Once
  <2> QED BY <2>2
<1>6. Ids(Tail(s)) \subseteq Ids(s) \ {Head(s).id}
  <2> SUFFICES ASSUME NEW i \in 1 .. Len(s) - 1
               PROVE  Tail(s)[i].id \in Ids(s) /\ Tail(s)[i].id # s[1].id
    BY <1>2, <1>4 DEF Ids
  <2>1. i + 1 \in DOMAIN s /\ i + 1 # 1 /\ Tail(s)[i] = s[i + 1]
    BY <1>1, <1>3
  <2>2. s[i + 1].id # s[1].id
    BY <2>1, <1>4 DEF Once
  <2> QED BY <2>1, <2>2 DEF Ids
<1>7. ASSUME NEW y \in Ids(s), y # Head(s).id
      PROVE  y \in Ids(Tail(s))
  <2>1. PICK i \in DOMAIN s : y = s[i].id
    BY DEF Ids
  <2>2. i # 1
    BY <2>1, <1>4, <1>7
  <2>3. i - 1 \in 1 .. Len(s) - 1 /\ (i - 1) + 1 = i
    BY <2>2, <1>1
  <2>4. Tail(s)[i - 1] = s[i]
    BY <2>3, <1>3
  <2> QED BY <2>1, <2>3, <2>4, <1>2 DEF Ids
<1>8. Head(s).id \in Ids(s)
  BY <1>4 DEF Ids
<1> QED BY <1>5, <1>6, <1>7, <1>8

\* Two lists without a common event, one after the other.
LEMMA OnceConcat ==
    ASSUME NEW S, NEW s \in Seq(S), NEW t \in Seq(S)
    PROVE  /\ Ids(s \o t) = Ids(s) \union Ids(t)
           /\ Once(s) /\ Once(t) /\ Ids(s) \cap Ids(t) = {} => Once(s \o t)
<1>1. /\ Len(s) \in Nat /\ DOMAIN s = 1 .. Len(s)
      /\ Len(t) \in Nat /\ DOMAIN t = 1 .. Len(t)
      /\ DOMAIN (s \o t) = 1 .. Len(s) + Len(t)
  OBVIOUS
<1>2. \A i \in 1 .. Len(s) + Len(t) :
          (s \o t)[i] = IF i <= Len(s) THEN s[i] ELSE t[i - Len(s)]
  OBVIOUS
<1> DEFINE u == s \o t
<1>3. \A i \in DOMAIN s : i \in DOMAIN u /\ u[i] = s[i]
  BY <1>1, <1>2
<1>4. \A i \in DOMAIN t : i + Len(s) \in DOMAIN u /\ u[i + Len(s)] = t[i]
  <2> SUFFICES ASSUME NEW i \in 1 .. Len(t)
               PROVE  i + Len(s) \in DOMAIN u /\ u[i + Len(s)] = t[i]
    BY <1>1
  <2>1. i + Len(s) \in 1 .. Len(s) + Len(t) /\ ~(i + Len(s) <= Len(s))
        /\ (i + Len(s)) - Len(s) = i
    BY <1>1
  <2> QED BY <2>1, <1>1, <1>2
<1>5. \A i \in DOMAIN u :
          \/ i \in DOMAIN s /\ u[i] = s[i]
          \/ ~(i \in DOMAIN s) /\ i - Len(s) \in DOMAIN t /\ u[i] = t[i - Len(s)]
  BY <1>1, <1>2
<1>6. u = s \o t /\ DOMAIN u \subseteq Nat
  BY <1>1
<1> HIDE DEF u
<1>7. Ids(u) = Ids(s) \union Ids(t)
  <2>1. Ids(s) \subseteq Ids(u)
    BY <1>3 DEF Ids
  <2>2. Ids(t) \subseteq Ids(u)
    BY <1>4 DEF Ids
  <2>3. ASSUME NEW i \in DOMAIN u PROVE u[i].id \in Ids(s) \union Ids(t)
    BY <1>5 DEF Ids
  <2> QED BY <2>1, <2>2, <2>3 DEF Ids
<1>8. ASSUME Once(s), Once(t), Ids(s) \cap Ids(t) = {},
             NEW i \in DOMAIN u, NEW j \in DOMAIN u, u[i].id = u[j].id
      PROVE  i = j
  <2>0. i \in Nat /\ j \in Nat
    BY <1>6
  <2>1. CASE i \in DOMAIN s /\ j \in DOMAIN s
    BY <2>1, <1>3, <1>8 DEF Once
  <2>2. CASE i \in DOMAIN s /\ ~(j \in DOMAIN s)
    <3>1. u[i].id \in Ids(s) /\ u[j].id \in Ids(t)
      BY <2>2, <1>5 DEF Ids
    <3> QED BY <3>1, <1>8
  <2>3. CASE ~(i \in DOMAIN s) /\ j \in DOMAIN s
    <3>1. u[j].id \in Ids(s) /\ u[i].id \in Ids(t)
      BY <2>3, <1>5 DEF Ids
    <3> QED BY <3>1, <1>8
  <2>4. CASE ~(i \in DOMAIN s) /\ ~(j \in DOMAIN s)
    <3>1. i - Len(s) \in DOMAIN t /\ j - Len(s) \in DOMAIN t
          /\ t[i - Len(s)].id = t[j - Len(s)].id
      BY <2>4, <1>5, <1>8
    <3>2. i - Len(s) = j - Len(s)
      BY <3>1, <1>8 DEF Once
    <3> QED BY <3>2, <2>0, <1>1
  <2> QED BY <2>1, <2>2, <2>3, <2>4
<1> QED BY <1>6, <1>7, <1>8 DEF Once

\* A list of one event.
LEMMA OnceOne ==
    ASSUME NEW S, NEW e \in S
    PROVE  <<e>> \in Seq(S) /\ Once(<<e>>) /\ Ids(<<e>>) = {e.id}
<1>1. DOMAIN <<e>> = {1} /\ <<e>>[1] = e
  OBVIOUS
<1>2. <<e>> \in Seq(S)
  OBVIOUS
<1> QED BY <1>1, <1>2 DEF Once, Ids

\* A new event at the end of a list.
LEMMA OnceAppend ==
    ASSUME NEW S, NEW s \in Seq(S), NEW e \in S
    PROVE  /\ Append(s, e) \in Seq(S)
           /\ Ids(Append(s, e)) = Ids(s) \union {e.id}
           /\ Once(s) /\ e.id \notin Ids(s) => Once(Append(s, e))
<1>1. Append(s, e) = s \o <<e>> /\ Append(s, e) \in Seq(S)
  BY AppendIsConcat, AppendProperties
<1>2. <<e>> \in Seq(S) /\ Once(<<e>>) /\ Ids(<<e>>) = {e.id}
  BY OnceOne
<1> DEFINE t == <<e>>
<1>3. t \in Seq(S) /\ Once(t) /\ Ids(t) = {e.id} /\ Append(s, e) = s \o t
  BY <1>1, <1>2
<1> HIDE DEF t
<1>4. /\ Ids(s \o t) = Ids(s) \union Ids(t)
      /\ Once(s) /\ Once(t) /\ Ids(s) \cap Ids(t) = {} => Once(s \o t)
  BY <1>3, OnceConcat
<1>5. e.id \notin Ids(s) => Ids(s) \cap Ids(t) = {}
  BY <1>3
<1> QED BY <1>1, <1>3, <1>4, <1>5

\* Every event is at most once in such a list.
LEMMA OnceCounts ==
    ASSUME NEW S, NEW s \in Seq(S), Once(s), NEW x
    PROVE  Occurrences(x, s) = IF x \in Ids(s) THEN 1 ELSE 0
<1> DEFINE I == {i \in DOMAIN s : s[i].id = x}
<1>1. CASE x \in Ids(s)
  <2>1. PICK i \in DOMAIN s : s[i].id = x
    BY <1>1 DEF Ids
  <2>2. I = {i}
    BY <2>1 DEF Once
  <2>3. Cardinality({i}) = 1
    BY FS_Singleton
  <2> QED BY <1>1, <2>2, <2>3 DEF Occurrences
<1>2. CASE x \notin Ids(s)
  <2>1. I = {}
    BY <1>2 DEF Ids
  <2>2. Cardinality({}) = 0
    BY FS_EmptySet
  <2> QED BY <1>2, <2>1, <2>2 DEF Occurrences
<1> QED BY <1>1, <1>2

\* The same of mail: the rest of a list, its first message gone.
LEMMA SingleTail ==
    ASSUME NEW S, NEW s \in Seq(S), s # <<>>, Single(s)
    PROVE  /\ Single(Tail(s)) /\ Head(s) \in S /\ Tail(s) \in Seq(S)
           /\ Mails(s) = Mails(Tail(s)) \union ({Head(s)} \cap Mail)
           /\ Head(s) \in Mail => Head(s) \notin Mails(Tail(s))
<1>1. Len(s) \in Nat /\ Len(s) > 0 /\ DOMAIN s = 1 .. Len(s)
  OBVIOUS
<1>2. DOMAIN Tail(s) = 1 .. Len(s) - 1
  BY <1>1
<1>3. \A i \in 1 .. Len(s) - 1 : Tail(s)[i] = s[i + 1]
  BY <1>1
<1>4. Head(s) = s[1] /\ 1 \in DOMAIN s
  BY <1>1
<1>5. Single(Tail(s))
  <2> SUFFICES ASSUME NEW i \in 1 .. Len(s) - 1, NEW j \in 1 .. Len(s) - 1,
                      Tail(s)[i] = Tail(s)[j], Tail(s)[i] \in Mail
               PROVE  i = j
    BY <1>2 DEF Single
  <2>1. s[i + 1] = s[j + 1] /\ i + 1 \in DOMAIN s /\ j + 1 \in DOMAIN s
        /\ s[i + 1] \in Mail
    BY <1>1, <1>3
  <2>2. i + 1 = j + 1
    BY <2>1 DEF Single
  <2> QED BY <2>2
<1>6. ASSUME NEW i \in 1 .. Len(s) - 1, Tail(s)[i] \in Mail
      PROVE  Tail(s)[i] \in Mails(s) /\ Tail(s)[i] # s[1]
  <2>1. i + 1 \in DOMAIN s /\ i + 1 # 1 /\ Tail(s)[i] = s[i + 1]
    BY <1>1, <1>3
  <2>2. s[i + 1] # s[1]
    BY <2>1, <1>4, <1>6 DEF Single
  <2> QED BY <2>1, <2>2, <1>6 DEF Mails
<1>7. ASSUME NEW y \in Mails(s), y # Head(s)
      PROVE  y \in Mails(Tail(s))
  <2>1. PICK i \in DOMAIN s : y = s[i]
    BY DEF Mails
  <2>2. i # 1
    BY <2>1, <1>4, <1>7
  <2>3. i - 1 \in 1 .. Len(s) - 1 /\ (i - 1) + 1 = i
    BY <2>2, <1>1
  <2>4. Tail(s)[i - 1] = s[i]
    BY <2>3, <1>3
  <2> QED BY <2>1, <2>3, <2>4, <1>2 DEF Mails
<1>8. Mails(Tail(s)) \subseteq Mails(s)
  BY <1>6, <1>2 DEF Mails
<1>9. {Head(s)} \cap Mail \subseteq Mails(s)
  BY <1>4 DEF Mails
<1>10. Mails(s) \subseteq Mails(Tail(s)) \union ({Head(s)} \cap Mail)
  BY <1>7 DEF Mails
<1>11. Head(s) \in Mail => Head(s) \notin Mails(Tail(s))
  <2> SUFFICES ASSUME NEW i \in 1 .. Len(s) - 1, Tail(s)[i] = Head(s), Head(s) \in Mail
               PROVE  FALSE
    BY <1>2 DEF Mails
  <2> QED BY <1>4, <1>6
<1>12. Head(s) \in S /\ Tail(s) \in Seq(S)
  OBVIOUS
<1> QED BY <1>5, <1>8, <1>9, <1>10, <1>11, <1>12

\* Two lists without a common message, one after the other.
LEMMA SingleConcat ==
    ASSUME NEW S, NEW s \in Seq(S), NEW t \in Seq(S)
    PROVE  /\ s \o t \in Seq(S)
           /\ Mails(s \o t) = Mails(s) \union Mails(t)
           /\ Single(s) /\ Single(t) /\ Mails(s) \cap Mails(t) = {} => Single(s \o t)
<1>1. /\ Len(s) \in Nat /\ DOMAIN s = 1 .. Len(s)
      /\ Len(t) \in Nat /\ DOMAIN t = 1 .. Len(t)
      /\ DOMAIN (s \o t) = 1 .. Len(s) + Len(t)
  OBVIOUS
<1>2. \A i \in 1 .. Len(s) + Len(t) :
          (s \o t)[i] = IF i <= Len(s) THEN s[i] ELSE t[i - Len(s)]
  OBVIOUS
<1>0. s \o t \in Seq(S)
  OBVIOUS
<1> DEFINE u == s \o t
<1>3. \A i \in DOMAIN s : i \in DOMAIN u /\ u[i] = s[i]
  BY <1>1, <1>2
<1>4. \A i \in DOMAIN t : i + Len(s) \in DOMAIN u /\ u[i + Len(s)] = t[i]
  <2> SUFFICES ASSUME NEW i \in 1 .. Len(t)
               PROVE  i + Len(s) \in DOMAIN u /\ u[i + Len(s)] = t[i]
    BY <1>1
  <2>1. i + Len(s) \in 1 .. Len(s) + Len(t) /\ ~(i + Len(s) <= Len(s))
        /\ (i + Len(s)) - Len(s) = i
    BY <1>1
  <2> QED BY <2>1, <1>1, <1>2
<1>5. \A i \in DOMAIN u :
          \/ i \in DOMAIN s /\ u[i] = s[i]
          \/ ~(i \in DOMAIN s) /\ i - Len(s) \in DOMAIN t /\ u[i] = t[i - Len(s)]
  BY <1>1, <1>2
<1>6. u = s \o t /\ DOMAIN u \subseteq Nat
  BY <1>1
<1> HIDE DEF u
<1>7. Mails(u) = Mails(s) \union Mails(t)
  <2>1. Mails(s) \subseteq Mails(u)
    BY <1>3 DEF Mails
  <2>2. Mails(t) \subseteq Mails(u)
    BY <1>4 DEF Mails
  <2>3. ASSUME NEW i \in DOMAIN u, u[i] \in Mail PROVE u[i] \in Mails(s) \union Mails(t)
    BY <1>5, <2>3 DEF Mails
  <2> QED BY <2>1, <2>2, <2>3 DEF Mails
<1>8. ASSUME Single(s), Single(t), Mails(s) \cap Mails(t) = {},
             NEW i \in DOMAIN u, NEW j \in DOMAIN u, u[i] = u[j], u[i] \in Mail
      PROVE  i = j
  <2>0. i \in Nat /\ j \in Nat
    BY <1>6
  <2>1. CASE i \in DOMAIN s /\ j \in DOMAIN s
    BY <2>1, <1>3, <1>8 DEF Single
  <2>2. CASE i \in DOMAIN s /\ ~(j \in DOMAIN s)
    <3>1. u[i] \in Mails(s) /\ u[j] \in Mails(t)
      BY <2>2, <1>5, <1>8 DEF Mails
    <3> QED BY <3>1, <1>8
  <2>3. CASE ~(i \in DOMAIN s) /\ j \in DOMAIN s
    <3>1. u[j] \in Mails(s) /\ u[i] \in Mails(t)
      BY <2>3, <1>5, <1>8 DEF Mails
    <3> QED BY <3>1, <1>8
  <2>4. CASE ~(i \in DOMAIN s) /\ ~(j \in DOMAIN s)
    <3>1. i - Len(s) \in DOMAIN t /\ j - Len(s) \in DOMAIN t
          /\ t[i - Len(s)] = t[j - Len(s)] /\ t[i - Len(s)] \in Mail
      BY <2>4, <1>5, <1>8
    <3>2. i - Len(s) = j - Len(s)
      BY <3>1, <1>8 DEF Single
    <3> QED BY <3>2, <2>0, <1>1
  <2> QED BY <2>1, <2>2, <2>3, <2>4
<1> QED BY <1>0, <1>6, <1>7, <1>8 DEF Single

\* A message at the end of a list.
LEMMA SingleAppend ==
    ASSUME NEW S, NEW s \in Seq(S), NEW m \in S
    PROVE  /\ Append(s, m) \in Seq(S)
           /\ Mails(Append(s, m)) = Mails(s) \union ({m} \cap Mail)
           /\ Single(s) /\ m \notin Mails(s) => Single(Append(s, m))
<1>1. Append(s, m) = s \o <<m>> /\ Append(s, m) \in Seq(S)
  BY AppendIsConcat, AppendProperties
<1>2. DOMAIN <<m>> = {1} /\ <<m>>[1] = m /\ <<m>> \in Seq(S)
  OBVIOUS
<1>3. Single(<<m>>) /\ Mails(<<m>>) = {m} \cap Mail
  BY <1>2 DEF Single, Mails
<1>4. Mails(s) \cap ({m} \cap Mail) = {} <=> m \notin Mails(s)
  BY DEF Mails
<1> DEFINE t == <<m>>
<1>5. t \in Seq(S) /\ Single(t) /\ Mails(t) = {m} \cap Mail /\ Append(s, m) = s \o t
  BY <1>1, <1>2, <1>3
<1> HIDE DEF t
<1>6. /\ Mails(s \o t) = Mails(s) \union Mails(t)
      /\ Single(s) /\ Single(t) /\ Mails(s) \cap Mails(t) = {} => Single(s \o t)
  BY <1>5, SingleConcat
<1> QED BY <1>1, <1>4, <1>5, <1>6

\* How often a message is in such a list.
LEMMA SingleCounts ==
    ASSUME NEW S, NEW s \in Seq(S), Single(s), NEW m \in Mail
    PROVE  Cardinality({i \in DOMAIN s : s[i] = m}) = IF m \in Mails(s) THEN 1 ELSE 0
<1> DEFINE I == {i \in DOMAIN s : s[i] = m}
<1>1. CASE m \in Mails(s)
  <2>1. PICK i \in DOMAIN s : s[i] = m
    BY <1>1 DEF Mails
  <2>2. I = {i}
    BY <2>1 DEF Single
  <2>3. Cardinality({i}) = 1
    BY FS_Singleton
  <2> QED BY <1>1, <2>2, <2>3
<1>2. CASE m \notin Mails(s)
  <2>1. I = {}
    BY <1>2 DEF Mails
  <2>2. Cardinality({}) = 0
    BY FS_EmptySet
  <2> QED BY <1>2, <2>1, <2>2
<1> QED BY <1>1, <1>2

-----------------------------------------------------------------------------
(* The invariant gives the properties.                                     *)

\* No event is lost or doubled.
LEMMA WaitingOnce ==
    ASSUME TypeOK, Waiting, machine = "loop", NEW x \in accepted, x[1] # "mail"
    PROVE  Occurrences(x, mailbox) + Occurrences(x, postponed_events)
               = IF x \in done THEN 0 ELSE 1
<1>1. /\ Once(mailbox) /\ Once(postponed_events)
      /\ Ids(mailbox) \cap Ids(postponed_events) = {}
      /\ Ids(mailbox) \union Ids(postponed_events) = Sent \ done
  BY DEF Waiting, Alive
<1>2. x \in Sent
  BY DEF Sent
<1>3. mailbox \in Seq(Events) /\ postponed_events \in Seq(Events)
  BY DEF TypeOK
<1>4. /\ Occurrences(x, mailbox) = IF x \in Ids(mailbox) THEN 1 ELSE 0
      /\ Occurrences(x, postponed_events) = IF x \in Ids(postponed_events) THEN 1 ELSE 0
  BY <1>1, <1>3, OnceCounts
<1> QED BY <1>1, <1>2, <1>4

\* The invariant implies NothingLost.
LEMMA InvNothingLost ==
    IInv => NothingLost
<1> SUFFICES ASSUME IInv PROVE NothingLost
  OBVIOUS
<1> USE DEF IInv
<1>1. ASSUME machine = "loop", NEW x \in {y \in accepted : y[1] # "mail"}
      PROVE  Occurrences(x, mailbox) + Occurrences(x, postponed_events)
               = IF x \in done THEN 0 ELSE 1
  BY <1>1, WaitingOnce
<1>2. \A e \in ToSet(postponed_events) : held[e.id] = state_name
  BY DEF Held, ToSet
<1>3. ASSUME NEW m \in Mail, <<"mail", m>> \in accepted
      PROVE  Cardinality({i \in DOMAIN starter_mailbox : starter_mailbox[i] = m})
            + Cardinality({i \in DOMAIN buffered_messages : buffered_messages[i] = m}) = 1
  <2>1. /\ m \in Mails(starter_mailbox) \union Mails(buffered_messages)
        /\ Mails(starter_mailbox) \cap Mails(buffered_messages) = {}
        /\ Single(starter_mailbox) /\ Single(buffered_messages)
    BY <1>3 DEF Handshake
  <2>2. starter_mailbox \in Seq(Mail \union {"ok", "error"}) /\ buffered_messages \in Seq(Mail)
    BY DEF TypeOK
  <2>3. /\ Cardinality({i \in DOMAIN starter_mailbox : starter_mailbox[i] = m})
              = IF m \in Mails(starter_mailbox) THEN 1 ELSE 0
        /\ Cardinality({i \in DOMAIN buffered_messages : buffered_messages[i] = m})
              = IF m \in Mails(buffered_messages) THEN 1 ELSE 0
    BY <2>1, <2>2, SingleCounts
  <2> QED BY <2>1, <2>3
<1> QED BY <1>1, <1>2, <1>3 DEF NothingLost, Handshake

\* The invariant implies OneTimeout.
LEMMA InvOneTimeout ==
    IInv => OneTimeout
BY DEF IInv, Timeouts, Current, OneTimeout, Alive

-----------------------------------------------------------------------------
(* What the loop does with the actions of a result.                        *)

\* Cancelling the timer that can fire leaves none; one that has sent its
\* message stays.
LEMMA CancelLeavesNone ==
    ASSUME NEW ts \in Seq(TimerRecords), NEW ref \in {None} \union DOMAIN ts,
           NEW state, Current(ts, ref, state)
    PROVE  LET c == CancelIn(ts, ref)
           IN /\ c \in Seq(TimerRecords) /\ Len(c) = Len(ts)
              /\ \A i \in DOMAIN ts : c[i].at # "live"
              /\ \A i \in DOMAIN ts : ts[i].at = "sent" => c[i].at = "sent"
<1>1. DOMAIN ts = 1 .. Len(ts) /\ \A i \in DOMAIN ts : ts[i] \in TimerRecords
  OBVIOUS
<1>2. CASE ref # None /\ ts[ref].at = "live"
  <2> DEFINE c == [ts EXCEPT ![ref].at = "cancelled"]
  <2>1. CancelIn(ts, ref) = c /\ ref \in DOMAIN ts
    BY <1>2 DEF CancelIn
  <2>2. \A i \in DOMAIN ts : c[i] = IF i = ref THEN [ts[ref] EXCEPT !.at = "cancelled"] ELSE ts[i]
    BY <2>1
  <2>3. [ts[ref] EXCEPT !.at = "cancelled"] \in TimerRecords
        /\ [ts[ref] EXCEPT !.at = "cancelled"].at = "cancelled"
    BY <2>1, <1>1 DEF TimerRecords
  <2>4. c \in Seq(TimerRecords) /\ Len(c) = Len(ts)
    BY <1>1, <2>1, <2>3
  <2>5. \A i \in DOMAIN ts : c[i].at # "live"
    BY <2>2, <2>3 DEF Current
  <2>6. \A i \in DOMAIN ts : ts[i].at = "sent" => c[i].at = "sent"
    BY <2>2, <1>2
  <2> HIDE DEF c
  <2> QED BY <2>1, <2>4, <2>5, <2>6
<1>3. CASE ~(ref # None /\ ts[ref].at = "live")
  <2>1. CancelIn(ts, ref) = ts
    BY <1>3 DEF CancelIn
  <2>2. \A i \in DOMAIN ts : ts[i].at # "live"
    BY <1>3, <1>1 DEF Current
  <2> QED BY <2>1, <2>2
<1> QED BY <1>2, <1>3

\* A timer that is set is then the only one that can fire.
LEMMA SetLeavesOne ==
    ASSUME NEW ts \in Seq(TimerRecords), NEW ref \in {None} \union DOMAIN ts,
           NEW state \in Nat, Current(ts, ref, state)
    PROVE  LET c == SetIn(ts, ref, state)
           IN /\ c \in Seq(TimerRecords) /\ Len(c) = Len(ts) + 1
              /\ Current(c, Len(ts) + 1, state)
              /\ \A i \in DOMAIN ts : ts[i].at = "sent" => c[i].at = "sent"
<1> DEFINE d == CancelIn(ts, ref)
           r == [at |-> "live", in |-> state]
           c == Append(d, r)
<1>1. /\ d \in Seq(TimerRecords) /\ Len(d) = Len(ts)
      /\ \A i \in DOMAIN ts : d[i].at # "live"
      /\ \A i \in DOMAIN ts : ts[i].at = "sent" => d[i].at = "sent"
  BY CancelLeavesNone
<1>2. SetIn(ts, ref, state) = c
  BY DEF SetIn
<1>3. r \in TimerRecords /\ r.in = state
  BY DEF TimerRecords
<1>4. DOMAIN ts = 1 .. Len(ts) /\ Len(ts) \in Nat
  OBVIOUS
<1> HIDE DEF d, r
<1>5. /\ c \in Seq(TimerRecords) /\ Len(c) = Len(ts) + 1 /\ DOMAIN c = 1 .. Len(ts) + 1
      /\ \A i \in 1 .. Len(ts) : c[i] = d[i]
      /\ c[Len(ts) + 1] = r
  BY <1>1, <1>3, <1>4, AppendProperties
<1> HIDE DEF c
<1>6. Current(c, Len(ts) + 1, state)
  <2> SUFFICES ASSUME NEW i \in 1 .. Len(ts) + 1, c[i].at = "live"
               PROVE  i = Len(ts) + 1 /\ c[i].in = state
    BY <1>5 DEF Current
  <2>1. ~(i \in 1 .. Len(ts))
    BY <1>1, <1>4, <1>5
  <2>2. i = Len(ts) + 1
    BY <2>1, <1>4
  <2> QED BY <2>2, <1>3, <1>5
<1> QED BY <1>1, <1>2, <1>4, <1>5, <1>6

\* The local variables of a turn, and how they may differ from those it
\* began with: new internal events, and other timers.
LocalVars ==
    [mailbox : Seq(Events), state : Nat, timers : Seq(TimerRecords),
     ref : {None} \union Nat, internal : Nat, postpone : BOOLEAN,
     caller : Callers, from_ : Callers, old : Callers, to : Seq(Clients)]
Internals(a, b) == {<<"internal", k>> : k \in {n \in Nat : a <= n /\ n < b}}
KeepSent(ts, us) ==
    /\ Len(ts) <= Len(us)
    /\ \A i \in DOMAIN ts : ts[i].at = "sent" => us[i].at = "sent"
Unused(l) == \A k \in Nat : <<"internal", k>> \in Ids(l.mailbox) => k < l.internal
Proceeds(l0, l) ==
    /\ l \in LocalVars /\ l.state = l0.state
    /\ l0.internal <= l.internal
    /\ Once(l.mailbox)
    /\ Ids(l.mailbox) = Ids(l0.mailbox) \union Internals(l0.internal, l.internal)
    /\ l.ref \in {None} \union DOMAIN l.timers
    /\ Current(l.timers, l.ref, l.state)
    /\ KeepSent(l0.timers, l.timers)

\* One action keeps to that.
LEMMA ActProceeds ==
    ASSUME NEW l0 \in LocalVars, Unused(l0), NEW l, Proceeds(l0, l), NEW a
    PROVE  Proceeds(l0, Act(l, a))
<1> DEFINE n == Act(l, a)
<1>0. /\ l \in LocalVars /\ l.state = l0.state /\ l0.internal <= l.internal
      /\ Once(l.mailbox)
      /\ Ids(l.mailbox) = Ids(l0.mailbox) \union Internals(l0.internal, l.internal)
      /\ l.ref \in {None} \union DOMAIN l.timers
      /\ Current(l.timers, l.ref, l.state) /\ KeepSent(l0.timers, l.timers)
  BY DEF Proceeds
<1>t. /\ l.mailbox \in Seq(Events) /\ l.state \in Nat /\ l.timers \in Seq(TimerRecords)
      /\ l.internal \in Nat /\ l.caller \in Callers /\ l.old \in Callers
      /\ l.to \in Seq(Clients) /\ l.from_ \in Callers /\ l.postpone \in BOOLEAN
      /\ l.ref \in {None} \union Nat /\ l0.internal \in Nat
      /\ l0.timers \in Seq(TimerRecords)
  BY <1>0 DEF LocalVars
<1>1. CASE a = "reply" /\ l.caller # None
  <2>1. n = [l EXCEPT !.to = Append(@, l.caller)]
    BY <1>1 DEF Act
  <2>2. l.caller \in Clients /\ Append(l.to, l.caller) \in Seq(Clients)
    BY <1>1, <1>t DEF Callers
  <2>3. n \in LocalVars /\ n.mailbox = l.mailbox /\ n.state = l.state
        /\ n.timers = l.timers /\ n.ref = l.ref /\ n.internal = l.internal
    BY <2>1, <2>2, <1>0 DEF LocalVars
  <2> QED BY <2>3, <1>0 DEF Proceeds
<1>2. CASE a = "reply_old" /\ l.old # None
  <2>1. n = [l EXCEPT !.to = Append(@, l.old), !.from_ = l.old]
    BY <1>2 DEF Act
  <2>2. l.old \in Clients /\ Append(l.to, l.old) \in Seq(Clients)
    BY <1>2, <1>t DEF Callers
  <2>3. n \in LocalVars /\ n.mailbox = l.mailbox /\ n.state = l.state
        /\ n.timers = l.timers /\ n.ref = l.ref /\ n.internal = l.internal
    BY <2>1, <2>2, <1>0, <1>t DEF LocalVars
  <2> QED BY <2>3, <1>0 DEF Proceeds
<1>3. CASE a = "timeout" /\ Len(l.timers) < MaxTimers
  <2> DEFINE ts == SetIn(l.timers, l.ref, l.state)
             k == Len(l.timers) + 1
  <2>1. n = [l EXCEPT !.timers = ts, !.ref = k]
    BY <1>3 DEF Act
  <2>2. /\ ts \in Seq(TimerRecords) /\ Len(ts) = k /\ Current(ts, k, l.state)
        /\ \A i \in DOMAIN l.timers : l.timers[i].at = "sent" => ts[i].at = "sent"
    <3> DEFINE us == l.timers
               r  == l.ref
               st == l.state
    <3>1. us \in Seq(TimerRecords) /\ r \in {None} \union DOMAIN us /\ st \in Nat
          /\ Current(us, r, st)
      BY <1>0, <1>t
    <3> HIDE DEF us, r, st
    <3>2. LET c == SetIn(us, r, st)
          IN /\ c \in Seq(TimerRecords) /\ Len(c) = Len(us) + 1
             /\ Current(c, Len(us) + 1, st)
             /\ \A i \in DOMAIN us : us[i].at = "sent" => c[i].at = "sent"
      BY <3>1, SetLeavesOne
    <3> QED BY <3>2 DEF us, r, st
  <2>3. k \in Nat /\ Len(l.timers) <= k
    BY <1>t
  <2>4. KeepSent(l0.timers, ts)
    <3>1. /\ Len(l0.timers) <= Len(l.timers)
          /\ \A i \in DOMAIN l0.timers : l0.timers[i].at = "sent" => l.timers[i].at = "sent"
      BY <1>0 DEF KeepSent
    <3>2. DOMAIN l0.timers \subseteq DOMAIN l.timers
      BY <3>1, <1>t
    <3>3. Len(l0.timers) <= Len(ts)
      BY <3>1, <2>2, <1>t
    <3>4. \A i \in DOMAIN l0.timers : l0.timers[i].at = "sent" => ts[i].at = "sent"
      BY <3>1, <3>2, <2>2
    <3> QED BY <3>3, <3>4 DEF KeepSent
  <2>5. k \in DOMAIN ts
    BY <2>2, <2>3, <1>t
  <2> HIDE DEF ts, k
  <2>6. n \in LocalVars /\ n.mailbox = l.mailbox /\ n.state = l.state
        /\ n.timers = ts /\ n.ref = k /\ n.internal = l.internal
    BY <2>1, <2>2, <2>3, <1>0 DEF LocalVars
  <2> QED BY <2>2, <2>4, <2>5, <2>6, <1>0 DEF Proceeds
<1>4. CASE a = "postpone"
  <2>1. n = [l EXCEPT !.postpone = TRUE]
    BY <1>4 DEF Act
  <2>2. n \in LocalVars /\ n.mailbox = l.mailbox /\ n.state = l.state
        /\ n.timers = l.timers /\ n.ref = l.ref /\ n.internal = l.internal
    BY <2>1, <1>0 DEF LocalVars
  <2> QED BY <2>2, <1>0 DEF Proceeds
<1>5. CASE a = "internal" /\ l.internal < MaxInternal
  <2> DEFINE e == Event("internal", l.internal, None)
             q == Append(l.mailbox, e)
             k == l.internal + 1
  <2>1. n = [l EXCEPT !.internal = k, !.mailbox = q]
    BY <1>5 DEF Act
  <2>2. e \in Events /\ e.id = <<"internal", l.internal>>
    BY <1>t DEF Event, Events, Identities, Callers
  <2>3. e.id \notin Ids(l.mailbox)
    <3>1. e.id \notin Ids(l0.mailbox)
      <4>1. ~(l.internal < l0.internal)
        BY <1>0, <1>t
      <4> QED BY <4>1, <2>2, <1>t DEF Unused
    <3>2. e.id \notin Internals(l0.internal, l.internal)
      BY <2>2, <1>t DEF Internals
    <3> QED BY <3>1, <3>2, <1>0
  <2> HIDE DEF e
  <2>4. q \in Seq(Events) /\ Once(q) /\ Ids(q) = Ids(l.mailbox) \union {e.id}
    <3> DEFINE s == l.mailbox
    <3>1. s \in Seq(Events) /\ Once(s) /\ e.id \notin Ids(s) /\ e \in Events
      BY <2>2, <2>3, <1>0, <1>t
    <3> HIDE DEF s
    <3>2. /\ Append(s, e) \in Seq(Events) /\ Once(Append(s, e))
          /\ Ids(Append(s, e)) = Ids(s) \union {e.id}
      BY <3>1, OnceAppend
    <3> QED BY <3>2 DEF s
  <2>5. Internals(l0.internal, k) = Internals(l0.internal, l.internal) \union {e.id}
    <3>1. {x \in Nat : l0.internal <= x /\ x < k}
            = {x \in Nat : l0.internal <= x /\ x < l.internal} \union {l.internal}
      BY <1>0, <1>t
    <3> QED BY <3>1, <2>2 DEF Internals
  <2>6. k \in Nat /\ l0.internal <= k
    BY <1>0, <1>t
  <2> HIDE DEF q, k
  <2>7. n \in LocalVars /\ n.mailbox = q /\ n.state = l.state
        /\ n.timers = l.timers /\ n.ref = l.ref /\ n.internal = k
    BY <2>1, <2>4, <2>6, <1>0 DEF LocalVars
  <2> QED BY <2>4, <2>5, <2>6, <2>7, <1>0 DEF Proceeds
<1>6. CASE n = l
  BY <1>6
<1>7. n = l \/ (a = "reply" /\ l.caller # None) \/ (a = "reply_old" /\ l.old # None)
      \/ (a = "timeout" /\ Len(l.timers) < MaxTimers) \/ a = "postpone"
      \/ (a = "internal" /\ l.internal < MaxInternal)
  BY DEF Act
<1> QED BY <1>1, <1>2, <1>3, <1>4, <1>5, <1>6, <1>7

\* A set of naturals that is not empty has a least member.
LEMMA LeastOf ==
    ASSUME NEW S \in SUBSET Nat, S # {}
    PROVE  \E x \in S : \A y \in S : x <= y
<1>1. PICK x \in S : \A y \in S : <<y, x>> \notin OpToRel(<, Nat)
  BY NatLessThanWellFounded, WFMin
<1>2. OpToRel(<, Nat) = {ss \in Nat \X Nat : ss[1] < ss[2]}
  BY DEF OpToRel
<1>3. \A y \in S : x <= y
  <2> SUFFICES ASSUME NEW y \in S PROVE x <= y
    OBVIOUS
  <2>1. <<y, x>> \in Nat \X Nat /\ x \in Nat /\ y \in Nat
    OBVIOUS
  <2>2. y < x => <<y, x>> \in {ss \in Nat \X Nat : ss[1] < ss[2]}
    BY <2>1
  <2>3. ~(y < x)
    BY <1>1, <1>2, <2>2
  <2> QED BY <2>1, <2>3
<1> QED BY <1>3

\* After so many actions the variables are those of the actions one by one.
After(g, l, actions, m) ==
    g = [k \in 0 .. m |-> IF k = 0 THEN l ELSE Act(g[k - 1], actions[k])]

\* There is such a function for every list of actions.
LEMMA AfterExists ==
    ASSUME NEW l, NEW actions, NEW n \in Nat
    PROVE  \E g : After(g, l, actions, n)
<1> DEFINE Bad == {m \in Nat : ~ \E g : After(g, l, actions, m)}
<1>1. SUFFICES ASSUME Bad # {} PROVE FALSE
  OBVIOUS
<1>2. PICK m \in Bad : \A y \in Bad : m <= y
  BY <1>1, LeastOf
<1>3. m # 0
  <2> DEFINE g == [k \in 0 .. 0 |-> l]
  <2>1. \A k \in 0 .. 0 : k = 0
    OBVIOUS
  <2>2. g = [k \in 0 .. 0 |-> IF k = 0 THEN l ELSE Act(g[k - 1], actions[k])]
    BY <2>1
  <2>3. After(g, l, actions, 0)
    BY <2>2 DEF After
  <2> QED BY <2>3
<1>4. m - 1 \in Nat /\ m - 1 \notin Bad
  BY <1>2, <1>3
<1>5. PICK g : After(g, l, actions, m - 1)
  BY <1>4
<1> DEFINE h == [k \in 0 .. m |-> IF k = 0 THEN l ELSE Act(g[k - 1], actions[k])]
<1>6. ASSUME NEW k \in 0 .. m - 1 PROVE h[k] = g[k]
  <2>1. k \in 0 .. m
    BY <1>4
  <2>2. h[k] = IF k = 0 THEN l ELSE Act(g[k - 1], actions[k])
    BY <2>1
  <2>3. g[k] = IF k = 0 THEN l ELSE Act(g[k - 1], actions[k])
    BY <1>5 DEF After
  <2> QED BY <2>2, <2>3
<1>7. ASSUME NEW k \in 0 .. m
      PROVE  (IF k = 0 THEN l ELSE Act(g[k - 1], actions[k]))
               = (IF k = 0 THEN l ELSE Act(h[k - 1], actions[k]))
  <2>1. CASE k = 0
    BY <2>1
  <2>2. CASE k # 0
    <3>1. k - 1 \in 0 .. m - 1
      BY <2>2, <1>4
    <3> QED BY <3>1, <1>6
  <2> QED BY <2>1, <2>2
<1>8. h = [k \in 0 .. m |-> IF k = 0 THEN l ELSE Act(h[k - 1], actions[k])]
  BY <1>7
<1>9. After(h, l, actions, m)
  BY <1>8 DEF After
<1> QED BY <1>2, <1>9

\* All the actions of a result keep to what one does.
LEMMA ActedProceeds ==
    ASSUME NEW l0 \in LocalVars, Unused(l0), Proceeds(l0, l0),
           NEW actions \in ActionLists
    PROVE  Proceeds(l0, Acted(l0, actions))
<1> DEFINE n == Len(actions)
           g == CHOOSE g : After(g, l0, actions, n)
<1>1. n \in Nat
  BY DEF ActionKinds
<1>2. Acted(l0, actions) = g[n]
  BY DEF Acted, After
<1>3. After(g, l0, actions, n)
  BY <1>1, AfterExists
<1> HIDE DEF g, n
<1>4. \A k \in 0 .. n : g[k] = IF k = 0 THEN l0 ELSE Act(g[k - 1], actions[k])
  BY <1>3 DEF After
<1> DEFINE Bad == {k \in 0 .. n : ~ Proceeds(l0, g[k])}
<1>5. Bad = {}
  <2> SUFFICES ASSUME Bad # {} PROVE FALSE
    OBVIOUS
  <2>0. Bad \in SUBSET Nat
    BY <1>1
  <2>1. PICK k \in Bad : \A y \in Bad : k <= y
    <3> HIDE DEF Bad
    <3> QED BY <2>0, LeastOf
  <2>2. k # 0
    BY <1>1, <1>4
  <2>3. k - 1 \in 0 .. n /\ k - 1 \notin Bad
    BY <2>1, <2>2, <1>1
  <2>4. Proceeds(l0, g[k - 1]) /\ g[k] = Act(g[k - 1], actions[k])
    BY <2>2, <2>3, <1>4
  <2>5. Proceeds(l0, g[k])
    BY <2>4, ActProceeds
  <2> QED BY <2>1, <2>5
<1> QED BY <1>1, <1>2, <1>5

-----------------------------------------------------------------------------
(* The start.                                                              *)

\* The first states.
LEMMA InitInv ==
    Init => IInv
<1> SUFFICES ASSUME Init PROVE IInv
  OBVIOUS
<1> USE DEF Init
<1>0. DOMAIN <<>> = {}
  OBVIOUS
<1>1. TypeOK
  BY DEF TypeOK
<1>2. Fresh
  BY DEF Fresh
<1>3. Ids(<<>>) = {} /\ Once(<<>>) /\ Mails(<<>>) = {} /\ Single(<<>>)
  BY <1>0 DEF Ids, Once, Mails, Single
<1>4. Waiting
  BY <1>3 DEF Waiting, Sent
<1>5. Held
  BY <1>0 DEF Held
<1>6. Timeouts
  BY <1>0 DEF Timeouts, Current
<1>7. Handshake
  BY <1>3 DEF Handshake
<1> QED BY <1>1, <1>2, <1>4, <1>5, <1>6, <1>7 DEF IInv

\* Others send to the starter.
LEMMA DisturbKeeps ==
    ASSUME IInv, NEW m \in Mail, Disturb(m)
    PROVE  IInv'
<1> USE DEF Disturb, IInv
<1>1. TypeOK'
  BY DEF TypeOK, loop_vars, client_vars
<1>2. Fresh'
  BY DEF Fresh, loop_vars, client_vars
<1>3. Waiting'
  <2>1. Sent' = Sent
    BY DEF Sent
  <2>2. UNCHANGED <<machine, mailbox, postponed_events, done>> /\ Waiting
    BY DEF loop_vars
  <2> HIDE DEF Disturb, IInv
  <2> QED BY ONLY <2>1, <2>2 DEF Waiting, Alive, Ids, Once
<1>4. Held' /\ Timeouts'
  BY DEF Held, Timeouts, Current, Alive, loop_vars
<1>5. Handshake'
  <2> DEFINE S == Mail \union {"ok", "error"}
  <2>1. starter_mailbox \in Seq(S) /\ m \in S
    BY DEF TypeOK
  <2>2. m \notin Mails(starter_mailbox) /\ m \notin Mails(buffered_messages)
    BY DEF Handshake
  <2>3. /\ Mails(Append(starter_mailbox, m)) = Mails(starter_mailbox) \union ({m} \cap Mail)
        /\ Single(Append(starter_mailbox, m))
    BY <2>1, <2>2, SingleAppend DEF Handshake
  <2>4. {x \in Mail : <<"mail", x>> \in accepted'}
           = {x \in Mail : <<"mail", x>> \in accepted} \union {m}
    OBVIOUS
  <2> QED BY <2>2, <2>3, <2>4 DEF Handshake, Mails, Single
<1> QED BY <1>1, <1>2, <1>3, <1>4, <1>5

\* What the starter's own steps leave alone.
LEMMA StarterOnly ==
    ASSUME IInv, UNCHANGED <<machine, mailbox, timers, accepted, loop_vars, client_vars>>
    PROVE  Fresh' /\ Waiting' /\ Held' /\ Timeouts'
BY DEF IInv, Fresh, Waiting, Sent, Held, Timeouts, Current, Alive, Ids, Once,
       loop_vars, client_vars

\* The end of a start: what was buffered is behind what is left.
LEMMA StartedKeeps ==
    ASSUME IInv, starter = "waiting", NEW outcome \in {"ok", "error", "timeout"},
           NEW rest \in Seq(Mail \union {"ok", "error"}),
           Single(rest), Mails(rest) = Mails(starter_mailbox),
           Started(outcome, rest), accepted' = accepted
    PROVE  /\ Handshake' /\ starter' \in {"waiting", "ok", "error", "timeout"}
           /\ starter_mailbox' \in Seq(Mail \union {"ok", "error"})
           /\ buffered_messages' \in Seq(Mail)
<1> DEFINE S == Mail \union {"ok", "error"}
<1>1. buffered_messages \in Seq(Mail)
  BY DEF IInv, TypeOK
<1>2. buffered_messages \in Seq(S)
  BY <1>1
<1>3. /\ Single(buffered_messages)
      /\ Mails(rest) \cap Mails(buffered_messages) = {}
      /\ Mails(rest) \union Mails(buffered_messages) = {m \in Mail : <<"mail", m>> \in accepted}
  BY DEF IInv, Handshake
<1> HIDE DEF S
<1>4. /\ rest \o buffered_messages \in Seq(S) /\ Single(rest \o buffered_messages)
      /\ Mails(rest \o buffered_messages) = Mails(rest) \union Mails(buffered_messages)
  <2>1. rest \in Seq(S)
    BY DEF S
  <2> QED BY <1>2, <1>3, <2>1, SingleConcat
<1>5. DOMAIN <<>> = {}
  OBVIOUS
<1>6. Mails(<<>>) = {} /\ Single(<<>>) /\ <<>> \in Seq(Mail)
  BY <1>5 DEF Mails, Single
<1> DEFINE w == rest \o buffered_messages
<1>7. starter_mailbox' = w /\ buffered_messages' = <<>> /\ starter' = outcome
  BY DEF Started
<1>8. /\ Single(w) /\ w \in Seq(S)
      /\ Mails(w) = {m \in Mail : <<"mail", m>> \in accepted}
  BY <1>3, <1>4
<1> HIDE DEF w
<1>9. /\ Mails(starter_mailbox)' = Mails(w) /\ Mails(buffered_messages)' = {}
      /\ Single(starter_mailbox)' /\ Single(buffered_messages)'
  BY <1>6, <1>7, <1>8 DEF Mails, Single
<1> QED BY <1>6, <1>7, <1>8, <1>9 DEF Handshake, S

\* The starter takes a message.
LEMMA StarterReceivesKeeps ==
    ASSUME IInv, StarterReceives
    PROVE  IInv'
<1> DEFINE m == Head(starter_mailbox)
           rest == Tail(starter_mailbox)
           S == Mail \union {"ok", "error"}
<1>0. /\ starter = "waiting" /\ starter_mailbox # <<>>
      /\ UNCHANGED <<machine, mailbox, timers, accepted, loop_vars, client_vars>>
  BY DEF StarterReceives
<1>1. Fresh' /\ Waiting' /\ Held' /\ Timeouts'
  BY <1>0, StarterOnly
<1>2. starter_mailbox \in Seq(S) /\ Single(starter_mailbox)
  BY DEF IInv, TypeOK, Handshake
<1>3. /\ Single(rest) /\ m \in S /\ rest \in Seq(S)
      /\ Mails(starter_mailbox) = Mails(rest) \union ({m} \cap Mail)
      /\ m \in Mail => m \notin Mails(rest)
  <2> HIDE DEF S
  <2> QED BY <1>0, <1>2, SingleTail
<1> HIDE DEF rest
<1>4. CASE m \in {"ok", "error"} /\ Started(m, rest)
  <2>1. Mails(rest) = Mails(starter_mailbox)
    BY <1>3, <1>4
  <2>2. /\ Handshake' /\ starter' \in {"waiting", "ok", "error", "timeout"}
        /\ starter_mailbox' \in Seq(Mail \union {"ok", "error"})
        /\ buffered_messages' \in Seq(Mail)
    <3>1. m \in {"ok", "error", "timeout"} /\ rest \in Seq(Mail \union {"ok", "error"})
          /\ Single(rest) /\ starter = "waiting" /\ accepted' = accepted /\ Started(m, rest)
      BY <1>0, <1>3, <1>4
    <3> HIDE DEF m
    <3> QED BY <2>1, <3>1, StartedKeeps
  <2>3. TypeOK'
    BY <2>2, <1>0 DEF IInv, TypeOK, loop_vars, client_vars
  <2> QED BY <1>1, <2>2, <2>3 DEF IInv
<1>5. CASE /\ m \in Mail /\ buffered_messages' = Append(buffered_messages, m)
           /\ starter_mailbox' = rest /\ UNCHANGED starter
  <2>1. buffered_messages \in Seq(Mail) /\ Single(buffered_messages)
        /\ m \notin Mails(buffered_messages)
        /\ Mails(rest) \cap Mails(buffered_messages) = {}
    BY <1>3, <1>5 DEF IInv, TypeOK, Handshake
  <2>2. /\ Append(buffered_messages, m) \in Seq(Mail)
        /\ Mails(Append(buffered_messages, m)) = Mails(buffered_messages) \union ({m} \cap Mail)
        /\ Single(Append(buffered_messages, m))
    BY <2>1, <1>5, SingleAppend
  <2>3. TypeOK'
    BY <1>0, <1>3, <1>5, <2>2 DEF IInv, TypeOK, loop_vars, client_vars
  <2> HIDE DEF m
  <2>4. /\ Mails(starter_mailbox)' = Mails(rest) /\ Single(starter_mailbox)'
        /\ Mails(buffered_messages)' = Mails(buffered_messages) \union {m}
        /\ Single(buffered_messages)'
    BY <1>3, <1>5, <2>2 DEF Mails, Single
  <2>5. Handshake'
    BY <1>0, <1>3, <1>5, <2>1, <2>4 DEF IInv, Handshake
  <2> QED BY <1>1, <2>3, <2>5 DEF IInv
<1> QED BY <1>4, <1>5 DEF StarterReceives, rest

\* The starter gives up.
LEMMA StarterTimeoutKeeps ==
    ASSUME IInv, StarterTimeout
    PROVE  IInv'
<1>0. /\ starter = "waiting" /\ starter_mailbox = <<>> /\ Started("timeout", <<>>)
      /\ UNCHANGED <<machine, mailbox, timers, accepted, loop_vars, client_vars>>
  BY DEF StarterTimeout
<1>1. Fresh' /\ Waiting' /\ Held' /\ Timeouts'
  BY <1>0, StarterOnly
<1>2. starter_mailbox \in Seq(Mail \union {"ok", "error"}) /\ Single(starter_mailbox)
  BY DEF IInv, TypeOK, Handshake
<1>3. Started("timeout", starter_mailbox) /\ accepted' = accepted
  BY <1>0
<1>4. /\ Handshake' /\ starter' \in {"waiting", "ok", "error", "timeout"}
      /\ starter_mailbox' \in Seq(Mail \union {"ok", "error"})
      /\ buffered_messages' \in Seq(Mail)
  BY <1>0, <1>2, <1>3, StartedKeeps
<1>5. TypeOK'
  BY <1>4, <1>0 DEF IInv, TypeOK, loop_vars, client_vars
<1> QED BY <1>1, <1>4, <1>5 DEF IInv

\* The machine runs init and answers its starter.
LEMMA RunInitKeeps ==
    ASSUME IInv, RunInit
    PROVE  IInv'
<1> DEFINE S == Mail \union {"ok", "error"}
<1>0. /\ machine = "init" /\ timers = <<>> /\ state_name = 1
      /\ UNCHANGED <<starter, buffered_messages, mailbox, state_name,
                   postponed_events, internal, accepted, done, held, client_vars>>
  BY DEF RunInit, IInv, Timeouts
<1>1. PICK r \in InitResults :
          /\ machine' = IF r = "error" THEN "ended" ELSE "loop"
          /\ starter_mailbox' =
                Append(starter_mailbox, IF r = "error" THEN "error" ELSE "ok")
          /\ timers' = IF r = "timeout" THEN SetIn(timers, None, 1) ELSE timers
          /\ state_timeout_ref' = IF r = "timeout" THEN 1 ELSE None
  BY DEF RunInit
<1> DEFINE answer == IF r = "error" THEN "error" ELSE "ok"
<1>2. answer \in S /\ answer \notin Mail
  OBVIOUS
<1>3. starter_mailbox \in Seq(S)
  BY DEF IInv, TypeOK
<1>4. /\ starter_mailbox' \in Seq(S) /\ Single(starter_mailbox)'
      /\ Mails(starter_mailbox)' = Mails(starter_mailbox)
  <2> HIDE DEF S
  <2> DEFINE u == Append(starter_mailbox, answer)
  <2>1. /\ u \in Seq(S) /\ Mails(u) = Mails(starter_mailbox) \union ({answer} \cap Mail)
        /\ answer \notin Mails(starter_mailbox) /\ Single(u)
    BY <1>2, <1>3, SingleAppend DEF IInv, Handshake, Mails
  <2>2. starter_mailbox' = u
    BY <1>1
  <2> HIDE DEF u, answer
  <2>3. Mails(starter_mailbox)' = Mails(u) /\ (Single(starter_mailbox)' <=> Single(u))
    BY <2>2 DEF Mails, Single
  <2> QED BY <1>2, <2>1, <2>2, <2>3
<1>5. Handshake'
  BY <1>0, <1>4 DEF IInv, Handshake, Mails, Single
<1>6. /\ timers' \in Seq(TimerRecords) /\ state_timeout_ref' \in {None} \union DOMAIN timers'
      /\ Current(timers', state_timeout_ref', 1)
  <2>1. DOMAIN <<>> = {} /\ Len(<<>>) = 0 /\ <<>> \in Seq(TimerRecords)
    OBVIOUS
  <2>2. Current(<<>>, None, 1)
    BY <2>1 DEF Current
  <2>3. CASE r = "timeout"
    <3> DEFINE ts == timers
    <3>1. ts \in Seq(TimerRecords) /\ Len(ts) = 0 /\ Current(ts, None, 1)
          /\ None \in {None} \union DOMAIN ts /\ 1 \in Nat
      BY <1>0, <2>1, <2>2
    <3> HIDE DEF ts
    <3>2. LET c == SetIn(ts, None, 1)
          IN /\ c \in Seq(TimerRecords) /\ Len(c) = Len(ts) + 1
             /\ Current(c, Len(ts) + 1, 1)
      BY <3>1, SetLeavesOne
    <3> DEFINE c == SetIn(ts, None, 1)
    <3>3. c \in Seq(TimerRecords) /\ Len(c) = 1 /\ Current(c, 1, 1)
      BY <3>1, <3>2
    <3>4. timers' = c /\ state_timeout_ref' = 1
      BY <1>1, <2>3 DEF ts
    <3> HIDE DEF c
    <3>5. 1 \in DOMAIN c
      BY <3>3
    <3> QED BY <3>3, <3>4, <3>5
  <2>4. CASE r # "timeout"
    BY <1>0, <1>1, <2>1, <2>2, <2>4
  <2> QED BY <2>3, <2>4
<1>7. TypeOK'
  <2>1. machine' \in {"init", "loop", "ended", "stop", "crash"} /\ machine' # "init"
    BY <1>1
  <2> QED BY <1>0, <1>4, <1>6, <2>1 DEF IInv, TypeOK, client_vars
<1>8. Fresh'
  BY <1>0 DEF IInv, Fresh, client_vars
<1>9. Waiting'
  BY <1>0 DEF IInv, Waiting, Alive, Sent, Ids, Once
<1>10. Held'
  BY <1>0 DEF IInv, Held
<1>11. Timeouts'
  BY <1>0, <1>1, <1>6 DEF Timeouts, Current
<1> QED BY <1>5, <1>7, <1>8, <1>9, <1>10, <1>11 DEF IInv

-----------------------------------------------------------------------------
(* A turn of the loop.                                                     *)

\* The local variables when the actions begin: of the event taken, and with
\* the old state's timeout cancelled if the state changes.
Begun(changed, e, old) ==
    IF changed THEN Entered(Locals(e, old)) ELSE Locals(e, old)

\* They are such variables, with the rest of the mailbox.
LEMMA BegunProceeds ==
    ASSUME IInv, machine = "loop", mailbox # <<>>, NEW changed \in BOOLEAN,
           NEW old \in Callers
    PROVE  LET l1 == Begun(changed, Head(mailbox), old)
           IN /\ l1 \in LocalVars /\ Unused(l1) /\ Proceeds(l1, l1)
              /\ l1.mailbox = Tail(mailbox) /\ l1.internal = internal
              /\ l1.state = IF changed THEN state_name + 1 ELSE state_name
              /\ KeepSent(timers, l1.timers)
<1> DEFINE e  == Head(mailbox)
           q  == Tail(mailbox)
           l0 == Locals(e, old)
           l1 == Begun(changed, e, old)
<1>1. mailbox \in Seq(Events) /\ Once(mailbox) /\ Ids(mailbox) \subseteq accepted
  BY DEF IInv, TypeOK, Waiting, Sent, Alive
<1>2. /\ e \in Events /\ q \in Seq(Events) /\ Once(q)
      /\ Ids(q) = Ids(mailbox) \ {e.id}
  <2>1. Once(q) /\ Ids(q) = Ids(mailbox) \ {e.id}
    BY <1>1, OnceTail
  <2>2. e \in Events /\ q \in Seq(Events)
    BY <1>1
  <2> QED BY <2>1, <2>2
<1>3. /\ state_name \in Nat /\ internal \in Nat /\ timers \in Seq(TimerRecords)
      /\ state_timeout_ref \in {None} \union DOMAIN timers
      /\ Current(timers, state_timeout_ref, state_name)
  BY DEF IInv, TypeOK, Timeouts, Alive
<1>4. /\ e.from \in Callers /\ <<>> \in Seq(Clients)
      /\ state_timeout_ref \in {None} \union Nat
  BY <1>2, <1>3 DEF Events
<1>5. \A k \in Nat : <<"internal", k>> \in Ids(q) => k < internal
  BY <1>1, <1>2 DEF IInv, Fresh
<1> HIDE DEF e, q
<1>6. l0 = [mailbox |-> q, state |-> state_name, timers |-> timers,
            ref |-> state_timeout_ref, internal |-> internal, postpone |-> FALSE,
            caller |-> e.from, from_ |-> e.from, old |-> old, to |-> <<>>]
  BY DEF Locals, q
<1>7. l0 \in LocalVars
  <2> DEFINE none == <<>>
  <2>1. none \in Seq(Clients)
    BY <1>4
  <2>2. l0 = [mailbox |-> q, state |-> state_name, timers |-> timers,
            ref |-> state_timeout_ref, internal |-> internal, postpone |-> FALSE,
            caller |-> e.from, from_ |-> e.from, old |-> old, to |-> none]
    BY <1>6
  <2> HIDE DEF none, l0
  <2> QED BY <1>2, <1>3, <1>4, <2>1, <2>2 DEF LocalVars
<1>8. /\ l0.mailbox = q /\ l0.internal = internal /\ l0.state = state_name
      /\ l0.timers = timers /\ l0.ref = state_timeout_ref
  BY <1>6
<1> HIDE DEF l0
<1>9. /\ l1 \in LocalVars /\ l1.mailbox = q /\ l1.internal = internal
      /\ l1.state = IF changed THEN state_name + 1 ELSE state_name
      /\ l1.ref \in {None} \union DOMAIN l1.timers
      /\ Current(l1.timers, l1.ref, l1.state) /\ KeepSent(timers, l1.timers)
  <2>1. CASE changed
    <3> DEFINE c == CancelIn(timers, state_timeout_ref)
    <3>1. l1 = [l0 EXCEPT !.state = state_name + 1, !.ref = None, !.timers = c]
      BY <2>1, <1>8 DEF Begun, Entered, l0
    <3>2. /\ c \in Seq(TimerRecords) /\ Len(c) = Len(timers)
          /\ \A i \in DOMAIN timers : c[i].at # "live"
          /\ \A i \in DOMAIN timers : timers[i].at = "sent" => c[i].at = "sent"
      BY <1>3, CancelLeavesNone
    <3> HIDE DEF c, l1
    <3>3. /\ l1 \in LocalVars /\ l1.mailbox = q /\ l1.internal = internal
          /\ l1.state = state_name + 1 /\ l1.ref = None /\ l1.timers = c
      <4>1. state_name + 1 \in Nat /\ c \in Seq(TimerRecords)
        BY <1>3, <3>2
      <4> DEFINE k == state_name + 1
      <4>2. l1 = [l0 EXCEPT !.state = k, !.ref = None, !.timers = c] /\ k \in Nat
        BY <3>1, <4>1
      <4> HIDE DEF k
      <4>3. /\ l1 \in LocalVars /\ l1.mailbox = l0.mailbox /\ l1.internal = l0.internal
            /\ l1.state = k /\ l1.ref = None /\ l1.timers = c
        BY ONLY <1>7, <4>1, <4>2 DEF LocalVars
      <4> QED BY <1>8, <4>3 DEF k
    <3>4. DOMAIN c = DOMAIN timers /\ Len(timers) \in Nat
      BY <3>2, <1>3
    <3>5. Current(c, None, state_name + 1) /\ KeepSent(timers, c)
      BY <3>2, <3>4 DEF Current, KeepSent
    <3> QED BY <2>1, <3>3, <3>5
  <2>2. CASE ~changed
    <3>1. l1 = l0
      BY <2>2 DEF Begun, l0
    <3>2. KeepSent(timers, timers)
      BY <1>3 DEF KeepSent
    <3> QED BY <2>2, <3>1, <3>2, <1>3, <1>7, <1>8
  <2> QED BY <2>1, <2>2
<1>10. Unused(l1)
  BY <1>5, <1>9 DEF Unused
<1> HIDE DEF l1
<1>11. Proceeds(l1, l1)
  <2>1. Internals(internal, internal) = {}
    BY <1>3 DEF Internals
  <2>2. l1.timers \in Seq(TimerRecords)
    BY <1>9 DEF LocalVars
  <2>3. KeepSent(l1.timers, l1.timers)
    BY <2>2 DEF KeepSent
  <2> QED BY <1>2, <1>3, <1>9, <2>1, <2>3 DEF Proceeds
<1> QED BY <1>9, <1>10, <1>11 DEF l1, e, q

\* The event itself, if it is postponed.
LEMMA KeptOne ==
    ASSUME NEW e \in Events, NEW l \in LocalVars
    PROVE  /\ Kept(e, l) \in Seq(Events) /\ Once(Kept(e, l))
           /\ Ids(Kept(e, l)) = IF l.postpone THEN {e.id} ELSE {}
<1>1. CASE l.postpone
  <2> DEFINE f == [e EXCEPT !.from = l.from_]
  <2>1. f \in Events /\ f.id = e.id
    BY DEF Events, LocalVars
  <2>2. Kept(e, l) = <<f>>
    BY <1>1 DEF Kept
  <2> HIDE DEF f
  <2>3. <<f>> \in Seq(Events) /\ Once(<<f>>) /\ Ids(<<f>>) = {f.id}
    BY <2>1, OnceOne
  <2> QED BY <1>1, <2>1, <2>2, <2>3
<1>2. CASE ~l.postpone
  <2>1. Kept(e, l) = <<>>
    BY <1>2 DEF Kept
  <2>2. DOMAIN <<>> = {} /\ <<>> \in Seq(Events)
    OBVIOUS
  <2> QED BY <1>2, <2>1, <2>2 DEF Ids, Once
<1> QED BY <1>1, <1>2

\* The mailbox and the list after a turn.
LEMMA ReplayOrKeep ==
    ASSUME NEW e \in Events, NEW l \in LocalVars, NEW changed \in BOOLEAN,
           IF changed THEN Replay(e, l) ELSE Keep(e, l),
           postponed_events \in Seq(Events), Once(postponed_events), Once(l.mailbox),
           Ids(l.mailbox) \cap Ids(postponed_events) = {},
           e.id \notin Ids(l.mailbox), e.id \notin Ids(postponed_events)
    PROVE  /\ mailbox' \in Seq(Events) /\ postponed_events' \in Seq(Events)
           /\ Once(mailbox') /\ Once(postponed_events')
           /\ Ids(mailbox') \cap Ids(postponed_events') = {}
           /\ Ids(mailbox') \union Ids(postponed_events')
                = Ids(l.mailbox) \union Ids(postponed_events) \union Ids(Kept(e, l))
           /\ \A i \in DOMAIN postponed_events' :
                 /\ ~changed
                 /\ \/ postponed_events'[i].id = e.id
                    \/ i \in DOMAIN postponed_events
                       /\ postponed_events'[i] = postponed_events[i]
<1> DEFINE s == l.mailbox
           p == postponed_events
           k == Kept(e, l)
<1>1. s \in Seq(Events) /\ Once(s) /\ p \in Seq(Events) /\ Once(p)
      /\ Ids(s) \cap Ids(p) = {} /\ e.id \notin Ids(s) /\ e.id \notin Ids(p)
  BY DEF LocalVars
<1>2. k \in Seq(Events) /\ Once(k) /\ Ids(k) \subseteq {e.id}
  BY KeptOne
<1>3. changed => mailbox' = s \o p \o k /\ postponed_events' = <<>>
  BY DEF Replay
<1>4. ~changed => mailbox' = s /\ postponed_events' = p \o k
  BY DEF Keep
<1>g. Ids(s) \cup Ids(p) \cup Ids(k) = Ids(l.mailbox) \union Ids(postponed_events) \union Ids(Kept(e, l))
  OBVIOUS
<1>p. p = postponed_events
  OBVIOUS
<1> HIDE DEF s, p, k
<1>5. CASE changed
  <2>1. s \o p \in Seq(Events) /\ Once(s \o p) /\ Ids(s \o p) = Ids(s) \union Ids(p)
    BY <1>1, OnceConcat, ConcatProperties
  <2> DEFINE u == s \o p
  <2>2. u \in Seq(Events) /\ Once(u) /\ Ids(u) \cap Ids(k) = {}
    BY <1>1, <1>2, <2>1
  <2>u. mailbox' = u \o k
    BY <1>3, <1>5
  <2>i. Ids(u) = Ids(s) \union Ids(p)
    BY <2>1
  <2> HIDE DEF u
  <2>3. u \o k \in Seq(Events) /\ Once(u \o k) /\ Ids(u \o k) = Ids(u) \union Ids(k)
    BY <1>2, <2>2, OnceConcat, ConcatProperties
  <2>4. postponed_events' = <<>> /\ DOMAIN <<>> = {} /\ <<>> \in Seq(Events)
    BY <1>3, <1>5
  <2>5. Ids(<<>>) = {} /\ Once(<<>>)
    BY <2>4 DEF Ids, Once
  <2> DEFINE w == u \o k
  <2>6. mailbox' = w /\ w \in Seq(Events) /\ Once(w) /\ Ids(w) = Ids(u) \union Ids(k)
    BY <2>u, <2>3
  <2> HIDE DEF w
  <2> QED BY <1>g, <2>i, <2>4, <2>5, <2>6
<1>6. CASE ~changed
  <2>1. p \o k \in Seq(Events) /\ Once(p \o k) /\ Ids(p \o k) = Ids(p) \union Ids(k)
    BY <1>1, <1>2, OnceConcat, ConcatProperties
  <2>2. \A i \in DOMAIN (p \o k) :
           (p \o k)[i].id = e.id \/ (i \in DOMAIN p /\ (p \o k)[i] = p[i])
    <3>1. Len(p) \in Nat /\ DOMAIN p = 1 .. Len(p) /\ Len(k) \in Nat /\ DOMAIN k = 1 .. Len(k)
      BY <1>1, <1>2
    <3>2. \A i \in DOMAIN (p \o k) :
             \/ i \in DOMAIN p /\ (p \o k)[i] = p[i]
             \/ i - Len(p) \in DOMAIN k /\ (p \o k)[i] = k[i - Len(p)]
      BY <1>1, <1>2, <3>1
    <3>3. \A j \in DOMAIN k : k[j].id = e.id
      BY <1>2 DEF Ids
    <3> QED BY <3>2, <3>3
  <2> DEFINE w == p \o k
  <2>3. /\ mailbox' = s /\ postponed_events' = w /\ w \in Seq(Events) /\ Once(w)
        /\ Ids(w) = Ids(p) \union Ids(k)
        /\ \A i \in DOMAIN w : w[i].id = e.id \/ (i \in DOMAIN p /\ w[i] = p[i])
    BY <1>4, <1>6, <2>1, <2>2
  <2> HIDE DEF w
  <2> QED BY <1>1, <1>2, <1>6, <1>g, <1>p, <2>3
<1> QED BY <1>5, <1>6

\* The identities of internal events are new.
LEMMA InternalsNew ==
    ASSUME IInv, NEW b \in Nat, internal <= b
    PROVE  /\ Internals(internal, b) \cap accepted = {}
           /\ Internals(internal, b) \subseteq {"internal"} \X Nat
           /\ \A k \in Nat : <<"internal", k>> \in Internals(internal, b) => k < b
<1>1. internal \in Nat
  BY DEF IInv, TypeOK
<1>2. ASSUME NEW k \in Nat, internal <= k PROVE <<"internal", k>> \notin accepted
  BY <1>1, <1>2 DEF IInv, Fresh
<1> QED BY <1>1, <1>2 DEF Internals

\* A turn that does not end the machine.
LEMMA HandleKeeps ==
    ASSUME IInv, machine = "loop", mailbox # <<>>, NEW result, NEW actions \in ActionLists,
           NEW old \in Callers, Handle(result, actions, old)
    PROVE  IInv'
<1> DEFINE e       == Head(mailbox)
           changed == result \in {"next", "repeat"}
           l1      == Begun(changed, e, old)
           l       == Acted(l1, actions)
           new     == Internals(internal, l.internal)
<1>0. changed \in BOOLEAN
  OBVIOUS
<1>1. /\ IF changed THEN Replay(e, l) ELSE Keep(e, l)
      /\ state_name' = l.state /\ timers' = l.timers /\ state_timeout_ref' = l.ref
      /\ internal' = l.internal
      /\ replies' = [c \in Clients |->
              replies[c] + Cardinality({k \in DOMAIN l.to : l.to[k] = c})]
      /\ accepted' = accepted \union {m.id : m \in ToSet(l.mailbox)}
      /\ done' = IF l.postpone THEN done ELSE done \union {e.id}
      /\ held' = [x \in {m.id : m \in ToSet(postponed_events')} |->
                      IF x = e.id THEN l.state ELSE held[x]]
      /\ UNCHANGED <<machine, call, starter, starter_mailbox, buffered_messages>>
  BY DEF Handle, Begun, start_vars
<1>2. /\ l1 \in LocalVars /\ Unused(l1) /\ Proceeds(l1, l1)
      /\ l1.mailbox = Tail(mailbox) /\ l1.internal = internal
      /\ l1.state = IF changed THEN state_name + 1 ELSE state_name
      /\ KeepSent(timers, l1.timers)
  <2> HIDE DEF changed
  <2> QED BY <1>0, BegunProceeds
<1> HIDE DEF l1
<1>3. Proceeds(l1, l)
  BY <1>2, ActedProceeds
<1> HIDE DEF l, changed
<1>4. /\ l \in LocalVars /\ l.state = l1.state /\ internal <= l.internal
      /\ Once(l.mailbox)
      /\ Ids(l.mailbox) = Ids(Tail(mailbox)) \union new
      /\ l.ref \in {None} \union DOMAIN l.timers
      /\ Current(l.timers, l.ref, l.state) /\ KeepSent(l1.timers, l.timers)
  BY <1>2, <1>3 DEF Proceeds
<1>5. /\ l.mailbox \in Seq(Events) /\ l.state \in Nat /\ l.timers \in Seq(TimerRecords)
      /\ l.internal \in Nat /\ l.to \in Seq(Clients) /\ l.postpone \in BOOLEAN
      /\ l1.timers \in Seq(TimerRecords)
  BY <1>2, <1>4 DEF LocalVars
<1>6. /\ mailbox \in Seq(Events) /\ Once(mailbox) /\ postponed_events \in Seq(Events)
      /\ Once(postponed_events) /\ Ids(mailbox) \cap Ids(postponed_events) = {}
      /\ Ids(mailbox) \union Ids(postponed_events) = Sent \ done
      /\ done \subseteq accepted /\ accepted \subseteq ({"mail"} \X Mail) \union Identities
      /\ internal \in Nat /\ timers \in Seq(TimerRecords)
  BY DEF IInv, TypeOK, Waiting, Alive
<1>7. /\ e \in Events /\ e.id \in Ids(mailbox)
      /\ Ids(Tail(mailbox)) = Ids(mailbox) \ {e.id}
  <2>1. e.id \in Ids(mailbox) /\ Ids(Tail(mailbox)) = Ids(mailbox) \ {e.id}
    BY <1>6, OnceTail
  <2>2. e \in Events
    BY <1>6
  <2> QED BY <2>1, <2>2
<1>8. /\ new \cap accepted = {} /\ new \subseteq {"internal"} \X Nat
      /\ \A k \in Nat : <<"internal", k>> \in new => k < l.internal
  BY <1>4, <1>5, InternalsNew
<1> HIDE DEF e, new
<1>9. Ids(mailbox) \subseteq accepted /\ Ids(postponed_events) \subseteq accepted
  BY <1>6 DEF Sent
<1>10. /\ Ids(l.mailbox) \cap Ids(postponed_events) = {}
       /\ e.id \notin Ids(l.mailbox) /\ e.id \notin Ids(postponed_events)
  BY <1>4, <1>6, <1>7, <1>8, <1>9
<1>11. /\ mailbox' \in Seq(Events) /\ postponed_events' \in Seq(Events)
       /\ Once(mailbox') /\ Once(postponed_events')
       /\ Ids(mailbox') \cap Ids(postponed_events') = {}
       /\ Ids(mailbox') \union Ids(postponed_events')
            = Ids(l.mailbox) \union Ids(postponed_events) \union Ids(Kept(e, l))
       /\ \A i \in DOMAIN postponed_events' :
             /\ ~changed
             /\ \/ postponed_events'[i].id = e.id
                \/ i \in DOMAIN postponed_events
                   /\ postponed_events'[i] = postponed_events[i]
  BY <1>0, <1>1, <1>4, <1>6, <1>7, <1>10, ReplayOrKeep DEF changed
<1>12. Ids(Kept(e, l)) = IF l.postpone THEN {e.id} ELSE {}
  BY <1>4, <1>7, KeptOne
<1>13. accepted' = accepted \union new
  <2>1. {m.id : m \in ToSet(l.mailbox)} = Ids(l.mailbox)
    BY DEF ToSet, Ids
  <2> QED BY <1>1, <1>4, <1>7, <1>9, <2>1
<1>14. \A y \in new : y[1] # "mail"
  BY <1>8
<1>15. Sent' = Sent \union new
  BY <1>13, <1>14 DEF Sent
<1>16. Waiting'
  <2>1. Ids(mailbox') \union Ids(postponed_events') = Sent' \ done'
    <3>1. new \cap done = {} /\ e.id \in Sent /\ e.id \notin done /\ e.id \notin new
      BY <1>6, <1>7, <1>8, <1>9
    <3>2. Ids(mailbox') \union Ids(postponed_events')
            = (Ids(mailbox) \ {e.id}) \union new \union Ids(postponed_events) \union Ids(Kept(e, l))
      BY <1>4, <1>7, <1>11
    <3>3. CASE l.postpone
      BY <1>1, <1>6, <1>7, <1>10, <1>12, <1>15, <3>1, <3>2, <3>3
    <3>4. CASE ~l.postpone
      BY <1>1, <1>6, <1>7, <1>10, <1>12, <1>15, <3>1, <3>2, <3>4
    <3> QED BY <3>3, <3>4
  <2> QED BY <1>11, <2>1 DEF Waiting, Ids, Once
<1>17. Len(timers) <= Len(l.timers)
       /\ \A i \in DOMAIN timers : timers[i].at = "sent" => l.timers[i].at = "sent"
  <2>1. Len(timers) <= Len(l1.timers) /\ Len(l1.timers) <= Len(l.timers)
    BY <1>2, <1>4 DEF KeepSent
  <2>2. Len(timers) \in Nat /\ Len(l1.timers) \in Nat /\ Len(l.timers) \in Nat
        /\ DOMAIN timers = 1 .. Len(timers) /\ DOMAIN l1.timers = 1 .. Len(l1.timers)
    BY <1>5, <1>6
  <2>3. DOMAIN timers \subseteq DOMAIN l1.timers
    BY <2>1, <2>2
  <2> QED BY <1>2, <1>4, <2>1, <2>2, <2>3 DEF KeepSent
<1>18. DOMAIN timers \subseteq DOMAIN timers'
  BY <1>1, <1>5, <1>6, <1>17
<1>19. TypeOK'
  <2>1. replies' \in [Clients -> Nat]
    <3>1. ASSUME NEW c \in Clients
          PROVE  Cardinality({k \in DOMAIN l.to : l.to[k] = c}) \in Nat
      <4>1. IsFiniteSet(1 .. Len(l.to)) /\ DOMAIN l.to = 1 .. Len(l.to)
        <5>1. Len(l.to) \in Int /\ DOMAIN l.to = 1 .. Len(l.to) /\ 1 \in Int
          BY <1>5
        <5> QED BY ONLY <5>1, FS_Interval
      <4> QED BY <4>1, FS_Subset, FS_CardinalityType
    <3>2. replies \in [Clients -> Nat]
      BY DEF IInv, TypeOK
    <3> QED BY <1>1, <3>1, <3>2
  <2>2. done' \subseteq accepted'
    BY <1>1, <1>6, <1>7, <1>9, <1>13
  <2>3. accepted' \subseteq ({"mail"} \X Mail) \union Identities
    BY <1>6, <1>8, <1>13 DEF Identities
  <2>4. /\ state_name' \in Nat /\ internal' \in Nat /\ timers' \in Seq(TimerRecords)
        /\ state_timeout_ref' \in {None} \union DOMAIN timers'
    BY <1>1, <1>4, <1>5
  <2>5. /\ starter \in {"waiting", "ok", "error", "timeout"}
        /\ starter_mailbox \in Seq(Mail \union {"ok", "error"})
        /\ buffered_messages \in Seq(Mail)
        /\ machine \in {"init", "loop", "ended", "stop", "crash"}
        /\ call \in [Clients -> {"idle", "waiting", "answered", "timed_out", "not_found"}]
    BY DEF IInv, TypeOK
  <2> QED BY <1>1, <1>11, <2>1, <2>2, <2>3, <2>4, <2>5 DEF TypeOK
<1>20. Fresh'
  <2>1. \A k \in Nat : <<"internal", k>> \in accepted' => k < internal'
    <3> SUFFICES ASSUME NEW k \in Nat, <<"internal", k>> \in accepted'
                 PROVE  k < l.internal
      BY <1>1
    <3>1. <<"internal", k>> \in accepted => k < internal
      BY DEF IInv, Fresh
    <3> QED BY <1>4, <1>5, <1>6, <1>8, <1>13, <3>1
  <2>2. \A i \in Nat : <<"state_timeout", i>> \in accepted' =>
             i \in DOMAIN timers' /\ timers'[i].at = "sent"
    <3> SUFFICES ASSUME NEW i \in Nat, <<"state_timeout", i>> \in accepted'
                 PROVE  i \in DOMAIN timers' /\ timers'[i].at = "sent"
      OBVIOUS
    <3>1. <<"state_timeout", i>> \in accepted
      BY <1>8, <1>13
    <3>2. i \in DOMAIN timers /\ timers[i].at = "sent"
      BY <3>1 DEF IInv, Fresh
    <3> QED BY <1>1, <1>17, <1>18, <3>2
  <2>3. \A c \in Clients : <<"call", c>> \in accepted' => call'[c] # "idle"
    <3> SUFFICES ASSUME NEW c \in Clients, <<"call", c>> \in accepted'
                 PROVE  call[c] # "idle"
      BY <1>1
    <3>1. <<"call", c>> \in accepted
      BY <1>8, <1>13
    <3> QED BY <3>1 DEF IInv, Fresh
  <2> QED BY <2>1, <2>2, <2>3 DEF Fresh
<1>21. Held'
  <2> DEFINE p1 == postponed_events'
  <2> SUFFICES ASSUME NEW i \in DOMAIN p1
               PROVE  held'[p1[i].id] = state_name'
    BY DEF Held
  <2>1. p1[i].id \in {m.id : m \in ToSet(postponed_events')}
    BY DEF ToSet
  <2>2. held'[p1[i].id] = IF p1[i].id = e.id THEN l.state ELSE held[p1[i].id]
    BY <1>1, <2>1
  <2>3. ~changed /\ (p1[i].id = e.id \/ (i \in DOMAIN postponed_events
                                            /\ p1[i] = postponed_events[i]))
    BY <1>11
  <2>4. l.state = state_name
    BY <1>2, <1>4, <2>3
  <2>5. i \in DOMAIN postponed_events => held[postponed_events[i].id] = state_name
    BY DEF IInv, Held
  <2> HIDE DEF p1
  <2> QED BY <1>1, <2>2, <2>3, <2>4, <2>5
<1>22. Timeouts'
  BY <1>1, <1>4 DEF Timeouts, Current, Alive
<1>23. Handshake'
  <2>1. {m \in Mail : <<"mail", m>> \in accepted'} = {m \in Mail : <<"mail", m>> \in accepted}
    BY <1>8, <1>13
  <2> QED BY <1>1, <2>1 DEF IInv, Handshake, Mails, Single
<1> QED BY <1>16, <1>19, <1>20, <1>21, <1>22, <1>23 DEF IInv

\* A turn that ends it.
LEMMA EndKeeps ==
    ASSUME IInv, NEW how \in {"stop", "crash"}, End(how)
    PROVE  IInv'
<1> USE DEF End, start_vars, client_vars
<1>0. DOMAIN <<>> = {} /\ <<>> \in Seq(Events)
  OBVIOUS
<1>1. TypeOK'
  BY <1>0 DEF IInv, TypeOK
<1>2. Fresh'
  BY DEF IInv, Fresh
<1>3. Waiting' /\ Held' /\ Timeouts'
  BY <1>0 DEF IInv, Waiting, Held, Timeouts, Alive
<1>4. Handshake'
  BY DEF IInv, Handshake, Mails, Single
<1> QED BY <1>1, <1>2, <1>3, <1>4 DEF IInv

\* A turn of the loop.
LEMMA HandleEventKeeps ==
    ASSUME IInv, HandleEvent
    PROVE  IInv'
<1>1. machine = "loop" /\ mailbox # <<>>
  BY DEF HandleEvent
<1>2. PICK r \in Results :
          IF r \in {"stop", "crash"} THEN End(r)
          ELSE \E a \in ActionLists, old \in Owed \union {None} : Handle(r, a, old)
  BY DEF HandleEvent
<1>3. CASE r \in {"stop", "crash"}
  BY <1>2, <1>3, EndKeeps
<1>4. CASE r \notin {"stop", "crash"}
  <2>1. PICK a \in ActionLists, old \in Owed \union {None} : Handle(r, a, old)
    BY <1>2, <1>4
  <2>2. old \in Callers
    BY DEF Owed, Callers
  <2> QED BY <1>1, <2>1, <2>2, HandleKeeps
<1> QED BY <1>3, <1>4

-----------------------------------------------------------------------------
(* Timers, casts and calls.                                                *)

\* A timer fires: its task is about to send.
LEMMA TimerFiresKeeps ==
    ASSUME IInv, NEW i \in DOMAIN timers, TimerFires(i)
    PROVE  IInv'
<1>0. /\ timers[i].at = "live" /\ timers' = [timers EXCEPT ![i].at = "sending"]
      /\ UNCHANGED <<starter, starter_mailbox, buffered_messages, machine, mailbox,
                     state_name, postponed_events, state_timeout_ref, internal, call,
                     replies, accepted, done, held>>
  BY DEF TimerFires, start_vars, loop_vars, client_vars
<1>1. timers \in Seq(TimerRecords) /\ DOMAIN timers = 1 .. Len(timers)
      /\ timers[i] \in TimerRecords /\ Len(timers) \in Nat
  BY DEF IInv, TypeOK
<1>2. [timers[i] EXCEPT !.at = "sending"] \in TimerRecords
      /\ [timers[i] EXCEPT !.at = "sending"].at = "sending"
  BY <1>1 DEF TimerRecords
<1>3. \A j \in DOMAIN timers :
          timers'[j] = IF j = i THEN [timers[i] EXCEPT !.at = "sending"] ELSE timers[j]
  BY <1>0
<1>4. timers' \in Seq(TimerRecords) /\ DOMAIN timers' = DOMAIN timers
  BY <1>0, <1>1, <1>2
<1>5. TypeOK'
  BY <1>0, <1>4 DEF IInv, TypeOK
<1>6. Fresh'
  BY <1>0, <1>3, <1>4 DEF IInv, Fresh
<1>7. Waiting' /\ Held'
  BY <1>0 DEF IInv, Waiting, Held, Alive, Sent, Ids, Once
<1>8. Timeouts'
  <2>1. machine # "init"
    <3>1. DOMAIN <<>> = {}
      OBVIOUS
    <3> QED BY <3>1 DEF IInv, Timeouts
  <2>2. Alive => Current(timers', state_timeout_ref, state_name)
    BY <1>2, <1>3, <1>4 DEF IInv, Timeouts, Current
  <2> QED BY <1>0, <2>1, <2>2 DEF Timeouts, Alive, Current
<1>9. Handshake'
  BY <1>0 DEF IInv, Handshake, Mails, Single
<1> QED BY <1>5, <1>6, <1>7, <1>8, <1>9 DEF IInv

\* A new event reaches the machine, or none does that has ended.
LEMMA DeliverKeeps ==
    ASSUME IInv, NEW e \in Events, e.id \notin accepted, e.id[1] # "mail", Deliver(e),
           UNCHANGED <<machine, postponed_events, done>>
    PROVE  /\ Waiting' /\ mailbox' \in Seq(Events)
           /\ accepted' \subseteq accepted \union {e.id}
           /\ accepted \subseteq accepted' /\ Sent' = {y \in accepted' : y[1] # "mail"}
<1>0. Sent' = {y \in accepted' : y[1] # "mail"}
  BY DEF Sent
<1>1. mailbox \in Seq(Events) /\ done \subseteq accepted
  BY DEF IInv, TypeOK
<1>2. CASE Alive
  <2>1. mailbox' = Append(mailbox, e) /\ accepted' = accepted \union {e.id}
    BY <1>2 DEF Deliver
  <2>2. /\ Once(mailbox) /\ Once(postponed_events)
        /\ Ids(mailbox) \cap Ids(postponed_events) = {}
        /\ Ids(mailbox) \union Ids(postponed_events) = Sent \ done
    BY <1>2 DEF IInv, Waiting
  <2>3. e.id \notin Ids(mailbox) /\ e.id \notin Ids(postponed_events) /\ e.id \notin done
    BY <1>1, <2>2 DEF Sent
  <2> DEFINE q == Append(mailbox, e)
  <2>4. q \in Seq(Events) /\ Once(q) /\ Ids(q) = Ids(mailbox) \union {e.id}
    BY <1>1, <2>2, <2>3, OnceAppend
  <2>5. Sent' = Sent \union {e.id}
    BY <2>1 DEF Sent
  <2>6. mailbox' = q
    BY <2>1
  <2> HIDE DEF q
  <2>7. Once(mailbox)' /\ Ids(mailbox)' = Ids(q)
    BY <2>4, <2>6 DEF Once, Ids
  <2>8. Once(postponed_events)' /\ Ids(postponed_events)' = Ids(postponed_events)
    BY <2>2 DEF Once, Ids
  <2>9. Waiting'
    BY <2>2, <2>3, <2>4, <2>5, <2>7, <2>8 DEF Waiting
  <2> QED BY <1>0, <2>1, <2>4, <2>6, <2>9
<1>3. CASE ~Alive
  <2>1. UNCHANGED <<mailbox, accepted>>
    BY <1>3 DEF Deliver
  <2>2. Waiting'
    BY <1>3 DEF Waiting, Alive
  <2> QED BY <1>0, <1>1, <2>1, <2>2
<1> QED BY <1>2, <1>3

\* What else a new event leaves alone.
LEMMA DeliverOthers ==
    ASSUME IInv, NEW x \in Identities, accepted \subseteq accepted',
           accepted' \subseteq accepted \union {x},
           UNCHANGED <<starter, starter_mailbox, buffered_messages, state_name,
                       postponed_events, held>>
    PROVE  Held' /\ Handshake' /\ accepted' \subseteq ({"mail"} \X Mail) \union Identities
<1>1. x[1] # "mail"
  BY DEF Identities
<1>2. \A m \in Mail : x # <<"mail", m>>
  BY <1>1
<1>3. {m \in Mail : <<"mail", m>> \in accepted'} = {m \in Mail : <<"mail", m>> \in accepted}
  BY <1>2
<1>4. Held'
  BY DEF IInv, Held
<1>5. Handshake'
  BY <1>3 DEF IInv, Handshake, Mails, Single
<1>6. accepted' \subseteq ({"mail"} \X Mail) \union Identities
  BY DEF IInv, TypeOK
<1> QED BY <1>4, <1>5, <1>6

\* The task of a timer that has fired sends its message.
LEMMA TimeoutSentKeeps ==
    ASSUME IInv, NEW i \in DOMAIN timers, TimeoutSent(i)
    PROVE  IInv'
<1> DEFINE e == Event("state_timeout", i, None)
<1>0. /\ timers[i].at = "sending" /\ timers' = [timers EXCEPT ![i].at = "sent"]
      /\ Deliver(e)
      /\ UNCHANGED <<starter, starter_mailbox, buffered_messages, machine,
                     state_name, postponed_events, state_timeout_ref, internal, call,
                     replies, done, held>>
  BY DEF TimeoutSent, start_vars, loop_vars, client_vars
<1>1. timers \in Seq(TimerRecords) /\ DOMAIN timers = 1 .. Len(timers)
      /\ timers[i] \in TimerRecords /\ Len(timers) \in Nat /\ i \in Nat
  BY DEF IInv, TypeOK
<1>2. [timers[i] EXCEPT !.at = "sent"] \in TimerRecords
      /\ [timers[i] EXCEPT !.at = "sent"].at = "sent"
  BY <1>1 DEF TimerRecords
<1>3. \A j \in DOMAIN timers :
          timers'[j] = IF j = i THEN [timers[i] EXCEPT !.at = "sent"] ELSE timers[j]
  BY <1>0
<1>4. timers' \in Seq(TimerRecords) /\ DOMAIN timers' = DOMAIN timers
  BY <1>0, <1>1, <1>2
<1>5. e \in Events /\ e.id = <<"state_timeout", i>> /\ e.id \in Identities
  BY <1>1 DEF Event, Events, Identities, Callers
<1>6. e.id \notin accepted /\ e.id[1] # "mail"
  <2>1. <<"state_timeout", i>> \in accepted => timers[i].at = "sent"
    BY <1>1 DEF IInv, Fresh
  <2> QED BY <1>0, <1>5, <2>1
<1> HIDE DEF e
<1>7. /\ Waiting' /\ mailbox' \in Seq(Events)
      /\ accepted' \subseteq accepted \union {e.id} /\ accepted \subseteq accepted'
  BY <1>0, <1>5, <1>6, DeliverKeeps
<1>8. Held' /\ Handshake' /\ accepted' \subseteq ({"mail"} \X Mail) \union Identities
  BY <1>0, <1>5, <1>7, DeliverOthers
<1>9. TypeOK'
  BY <1>0, <1>4, <1>7, <1>8 DEF IInv, TypeOK
<1>10. Fresh'
  BY <1>0, <1>2, <1>3, <1>4, <1>5, <1>7 DEF IInv, Fresh
<1>11. Timeouts'
  <2>1. machine # "init"
    <3>1. DOMAIN <<>> = {}
      OBVIOUS
    <3> QED BY <3>1 DEF IInv, Timeouts
  <2>2. Alive => Current(timers', state_timeout_ref, state_name)
    BY <1>2, <1>3, <1>4 DEF IInv, Timeouts, Current
  <2> QED BY <1>0, <2>1, <2>2 DEF Timeouts, Alive, Current
<1> QED BY <1>7, <1>8, <1>9, <1>10, <1>11 DEF IInv

\* A cast.
LEMMA CastKeeps ==
    ASSUME IInv, NEW m \in Casts, Cast(m)
    PROVE  IInv'
<1> DEFINE e == Event("cast", m, None)
<1>0. /\ <<"cast", m>> \notin accepted /\ Deliver(e)
      /\ UNCHANGED <<starter, starter_mailbox, buffered_messages, machine, timers,
                     state_name, postponed_events, state_timeout_ref, internal, call,
                     replies, done, held>>
  BY DEF Cast, start_vars, loop_vars, client_vars
<1>1. e \in Events /\ e.id = <<"cast", m>> /\ e.id \in Identities
  BY DEF Event, Events, Identities, Callers
<1>2. e.id \notin accepted /\ e.id[1] # "mail"
  BY <1>0, <1>1
<1> HIDE DEF e
<1>3. /\ Waiting' /\ mailbox' \in Seq(Events)
      /\ accepted' \subseteq accepted \union {e.id} /\ accepted \subseteq accepted'
  BY <1>0, <1>1, <1>2, DeliverKeeps
<1>4. Held' /\ Handshake' /\ accepted' \subseteq ({"mail"} \X Mail) \union Identities
  BY <1>0, <1>1, <1>3, DeliverOthers
<1>5. TypeOK'
  BY <1>0, <1>3, <1>4 DEF IInv, TypeOK
<1>6. Fresh'
  BY <1>0, <1>1, <1>3 DEF IInv, Fresh
<1>7. Timeouts'
  BY <1>0 DEF IInv, Timeouts, Current, Alive
<1> QED BY <1>3, <1>4, <1>5, <1>6, <1>7 DEF IInv

\* What only the callers' own state does not touch.
LEMMA OthersKeep ==
    ASSUME IInv,
           UNCHANGED <<starter, starter_mailbox, buffered_messages, machine, mailbox,
                       timers, state_name, postponed_events, state_timeout_ref,
                       accepted, done, held>>
    PROVE  Waiting' /\ Held' /\ Timeouts' /\ Handshake'
<1>1. Waiting'
  <2>1. Waiting
    BY DEF IInv
  <2>2. /\ Ids(mailbox)' = Ids(mailbox) /\ Ids(postponed_events)' = Ids(postponed_events)
        /\ (Once(mailbox)' <=> Once(mailbox))
        /\ (Once(postponed_events)' <=> Once(postponed_events))
    BY DEF Ids, Once
  <2>3. Sent' = Sent /\ (Alive' <=> Alive) /\ done' = done
    BY DEF Sent, Alive
  <2> QED BY ONLY <2>1, <2>2, <2>3 DEF Waiting
<1>2. Held'
  BY DEF IInv, Held
<1>3. Timeouts'
  BY DEF IInv, Timeouts, Alive, Current
<1>4. Handshake'
  BY DEF IInv, Handshake, Mails, Single
<1> QED BY <1>1, <1>2, <1>3, <1>4

\* A call.
LEMMA AskKeeps ==
    ASSUME IInv, NEW c \in Clients, Ask(c)
    PROVE  IInv'
<1> DEFINE e == Event("call", c, c)
<1>0. /\ call[c] = "idle"
      /\ UNCHANGED <<starter, starter_mailbox, buffered_messages, machine, timers,
                     state_name, postponed_events, state_timeout_ref, internal,
                     replies, done, held>>
  BY DEF Ask, start_vars, loop_vars
<1>1. e \in Events /\ e.id = <<"call", c>> /\ e.id \in Identities
  BY DEF Event, Events, Identities, Callers
<1>2. e.id \notin accepted /\ e.id[1] # "mail"
  <2>1. <<"call", c>> \in accepted => call[c] # "idle"
    BY DEF IInv, Fresh
  <2> QED BY <1>0, <1>1, <2>1
<1>3. call \in [Clients -> {"idle", "waiting", "answered", "timed_out", "not_found"}]
  BY DEF IInv, TypeOK
<1>4. CASE Alive
  <2>1. Deliver(e) /\ call' = [call EXCEPT ![c] = "waiting"]
    BY <1>4 DEF Ask
  <2> HIDE DEF e
  <2>2. /\ Waiting' /\ mailbox' \in Seq(Events)
        /\ accepted' \subseteq accepted \union {e.id} /\ accepted \subseteq accepted'
    BY <1>0, <1>1, <1>2, <2>1, DeliverKeeps
  <2>3. Held' /\ Handshake' /\ accepted' \subseteq ({"mail"} \X Mail) \union Identities
    BY <1>0, <1>1, <2>2, DeliverOthers
  <2>4. TypeOK'
    BY <1>0, <1>3, <2>1, <2>2, <2>3 DEF IInv, TypeOK
  <2>5. Fresh'
    BY <1>0, <1>1, <1>3, <2>1, <2>2 DEF IInv, Fresh
  <2>6. Timeouts'
    BY <1>0 DEF IInv, Timeouts, Current, Alive
  <2> QED BY <2>2, <2>3, <2>4, <2>5, <2>6 DEF IInv
<1>5. CASE ~Alive
  <2>1. call' = [call EXCEPT ![c] = "not_found"] /\ UNCHANGED <<mailbox, accepted>>
    BY <1>5 DEF Ask
  <2>2. TypeOK'
    BY <1>0, <1>3, <2>1 DEF IInv, TypeOK
  <2>3. Fresh'
    BY <1>0, <1>3, <2>1 DEF IInv, Fresh
  <2>4. Waiting' /\ Held' /\ Timeouts' /\ Handshake'
    BY <1>0, <2>1, OthersKeep
  <2> QED BY <2>2, <2>3, <2>4 DEF IInv
<1> QED BY <1>4, <1>5

\* A client takes its reply, or gives up.
LEMMA ClientKeeps ==
    ASSUME IInv, NEW c \in Clients, TakeReply(c) \/ CallTimeout(c)
    PROVE  IInv'
<1>0. /\ call[c] = "waiting"
      /\ UNCHANGED <<starter, starter_mailbox, buffered_messages, machine, mailbox, timers,
                     state_name, postponed_events, state_timeout_ref, internal,
                     accepted, done, held>>
  BY DEF TakeReply, CallTimeout, start_vars, loop_vars
<1>1. /\ call \in [Clients -> {"idle", "waiting", "answered", "timed_out", "not_found"}]
      /\ replies \in [Clients -> Nat]
  BY DEF IInv, TypeOK
<1>2. \/ call' = [call EXCEPT ![c] = "answered"]
      \/ call' = [call EXCEPT ![c] = "timed_out"]
  BY DEF TakeReply, CallTimeout
<1>3. replies' \in [Clients -> Nat]
  <2>1. CASE TakeReply(c)
    <3>1. replies[c] - 1 \in Nat /\ replies' = [replies EXCEPT ![c] = replies[c] - 1]
      BY <1>1, <2>1 DEF TakeReply
    <3> QED BY <1>1, <3>1
  <2>2. CASE CallTimeout(c)
    BY <1>1, <2>2 DEF CallTimeout
  <2> QED BY <2>1, <2>2
<1>4. TypeOK'
  BY <1>0, <1>1, <1>2, <1>3 DEF IInv, TypeOK
<1>5. Fresh'
  BY <1>0, <1>1, <1>2 DEF IInv, Fresh
<1>6. Waiting' /\ Held' /\ Timeouts' /\ Handshake'
  BY <1>0, OthersKeep
<1> QED BY <1>4, <1>5, <1>6 DEF IInv

-----------------------------------------------------------------------------
(* The theorems.                                                           *)

\* Every step keeps the invariant.
LEMMA NextKeeps ==
    IInv /\ [Next]_vars => IInv'
<1> SUFFICES ASSUME IInv, [Next]_vars PROVE IInv'
  OBVIOUS
<1>1. ASSUME NEW m \in Mail, Disturb(m) PROVE IInv'
  BY <1>1, DisturbKeeps
<1>2. CASE StarterReceives
  BY <1>2, StarterReceivesKeeps
<1>3. CASE StarterTimeout
  BY <1>3, StarterTimeoutKeeps
<1>4. CASE RunInit
  BY <1>4, RunInitKeeps
<1>5. CASE HandleEvent
  BY <1>5, HandleEventKeeps
<1>6. ASSUME NEW i \in DOMAIN timers, TimerFires(i) PROVE IInv'
  BY <1>6, TimerFiresKeeps
<1>7. ASSUME NEW i \in DOMAIN timers, TimeoutSent(i) PROVE IInv'
  BY <1>7, TimeoutSentKeeps
<1>8. ASSUME NEW m \in Casts, Cast(m) PROVE IInv'
  BY <1>8, CastKeeps
<1>9. ASSUME NEW c \in Clients, Ask(c) PROVE IInv'
  BY <1>9, AskKeeps
<1>10. ASSUME NEW c \in Clients, TakeReply(c) \/ CallTimeout(c) PROVE IInv'
  BY <1>10, ClientKeeps
<1>11. CASE UNCHANGED vars
  <2>1. TypeOK' /\ Fresh'
    BY <1>11 DEF vars, IInv, TypeOK, Fresh
  <2>2. Waiting' /\ Held' /\ Timeouts' /\ Handshake'
    BY <1>11, OthersKeep DEF vars
  <2> QED BY <2>1, <2>2 DEF IInv
<1> QED BY <1>1, <1>2, <1>3, <1>4, <1>5, <1>6, <1>7, <1>8, <1>9, <1>10, <1>11 DEF Next

\* The machine, its starter and its callers keep the types and the invariant
\* (_gen_statem_loop, start and call of gen_statem/core.py).
THEOREM StatemInvariant ==
    Spec => []IInv
<1>1. Init => IInv
  BY InitInv
<1>2. IInv /\ [Next]_vars => IInv'
  BY NextKeeps
<1> QED BY <1>1, <1>2, PTL DEF Spec

\* An event that was sent to a running machine waits once, in its mailbox or
\* postponed in the present state, until a handler is done with it; and the
\* start loses and doubles no mail of the starter's.
THEOREM EventsWaitOnce ==
    Spec => []NothingLost
BY StatemInvariant, InvNothingLost, PTL

\* Only the timeout the machine would cancel can still fire, and it is of the
\* present state.
THEOREM TimeoutIsCurrent ==
    Spec => []OneTimeout
BY StatemInvariant, InvOneTimeout, PTL
=============================================================================
