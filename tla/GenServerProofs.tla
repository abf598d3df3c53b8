-------------------------- MODULE GenServerProofs ---------------------------
(***************************************************************************)
(* Calls keep the promise of RequestReply, monitors come and go with them, *)
(* and callers outside a process are settled, for every number of          *)
(* processes, servers, instances and calls.                                *)
(***************************************************************************)
EXTENDS GenServer, FiniteSetTheorems, TLAPS

Statuses ==
    {"unused", "waiting", "replied", "exited", "timed_out", "abandoned", "refused", "cancelled"}

\* Calls that never left their caller.
Unsent == {"unused", "refused", "cancelled"}

TypeOK ==
    /\ life \in [Instances -> {"absent", "up", "doomed", "ended"}]
    /\ name \in [Servers -> Instances \cup {None}]
    /\ status \in [Ids -> Statuses]
    /\ to \in [Ids -> Instances \cup {None}]
    /\ watching \in [Procs -> Instances \cup {None}]
    /\ handling \in [Instances -> Ids \cup {None}]
    /\ executed \subseteq Ids /\ owed \subseteq Ids
    /\ future \in [Bridges -> {"none", "pending", "set", "cancelled"}]

Caller(id) == id[1]
Number(id) == id[2]

\* A process makes its calls one after the other, in the order of their numbers.
CallsInOrder ==
    \A x, y \in Ids :
        Caller(x) = Caller(y) =>
            /\ status[x] # "unused" /\ Number(y) <= Number(x) => status[y] # "unused"
            /\ status[x] = "waiting" /\ status[y] = "waiting" => x = y

\* A call that was made was sent to an instance that had been started.
CallsSent ==
    /\ \A s \in Servers : name[s] # None => life[name[s]] # "absent"
    /\ \A id \in Ids :
          IF status[id] \in Unsent THEN to[id] = None
          ELSE to[id] \in Instances /\ life[to[id]] # "absent"

\* A server waits for a call of its own exactly while it handles one.
HandlersWait ==
    \A i \in Instances :
        /\ handling[i] # None <=> \E id \in Ids : Caller(id) = i /\ status[id] = "waiting"
        /\ handling[i] # None => handling[i] \in executed

Ledger == TypeOK /\ CallsInOrder /\ CallsSent /\ HandlersWait /\ owed \subseteq executed

\* The messages that are true: a request is of a call that was made to its reader, a reply
\* of a call that was handled, or whose server is on its way out, as is the subject of a
\* DOWN.
True(p) ==
    {m \in Messages :
        /\ m.tag = "CALL" => to[m.id] = p /\ status[m.id] \notin Unsent
        /\ m.tag = "REPLY" => IF m.value = "value" THEN m.id \in executed
                              ELSE to[m.id] \in Stopped
        /\ m.tag = "DOWN" => m.inst \in Stopped}

Boxes(F) == {box \in [Procs -> Seq(Messages)] : \A q \in Procs : box[q] \in Seq(F[q])}

MailTrue == mailbox \in Boxes([q \in Procs |-> True(q)])

\* MonitorsMatchCalls, said of every call.
MonitorsMatch ==
    /\ \A p \in Procs : watching[p] # None =>
          \E id \in Ids : Caller(id) = p /\ status[id] = "waiting" /\ to[id] = watching[p]
    /\ \A id \in Ids :
          status[id] = "waiting" /\ life[to[id]] = "up" => watching[Caller(id)] = to[id]

BridgesInOrder ==
    \A b \in Bridges : future[b] = "none" => status[<<b, 1>>] = "unused"

IInv == Ledger /\ MailTrue /\ MonitorsMatch /\ BridgesInOrder /\ BridgesSettle

-----------------------------------------------------------------------------
(* Calls and processes.                                                    *)

LEMMA Shapes ==
  /\ \A p \in Procs : \A n \in 1 .. MaxCalls[p] : <<p, n>> \in Ids
  /\ \A id \in Ids : /\ Caller(id) \in Procs /\ Number(id) \in 1 .. MaxCalls[Caller(id)]
                     /\ id = <<Caller(id), Number(id)>>
  /\ \A i \in Instances : i[1] \in Servers /\ i \in Procs
  /\ \A s \in Servers : \A k \in 1 .. MaxStarts[s] : <<s, k>> \in Instances
  /\ \A p \in Procs : MaxCalls[p] \in Nat
  /\ \A b \in Bridges : /\ b \in Procs /\ <<b, 1>> \in Ids
                        /\ \A id \in Ids : Caller(id) = b => id = <<b, 1>>
  /\ None \notin Ids /\ None \notin Instances
<1> USE GenServerAssumption
<1>1. \A p \in Procs : \A n \in 1 .. MaxCalls[p] : <<p, n>> \in Ids
  BY DEF Ids
<1>2. \A id \in Ids : /\ Caller(id) \in Procs /\ Number(id) \in 1 .. MaxCalls[Caller(id)]
                     /\ id = <<Caller(id), Number(id)>>
  BY DEF Ids, Caller, Number
<1>3. \A s \in Servers : \A k \in 1 .. MaxStarts[s] : <<s, k>> \in Instances
  BY DEF Instances
<1>4. \A i \in Instances : i[1] \in Servers /\ i \in Procs
  BY DEF Instances, Procs
<1>5. \A p \in Procs : MaxCalls[p] \in Nat
  OBVIOUS
<1>6. \A b \in Bridges : b \in Procs /\ MaxCalls[b] = 1
  BY DEF Procs
<1>7. \A b \in Bridges : <<b, 1>> \in Ids
  BY <1>1, <1>6
<1>8. ASSUME NEW b \in Bridges, NEW id \in Ids, Caller(id) = b PROVE id = <<b, 1>>
  <2>1. Number(id) \in 1 .. 1
    BY <1>2, <1>6, <1>8
  <2> QED BY <1>2, <1>8, <2>1
<1>9. None \notin Ids /\ None \notin Instances
  BY DEF Procs
<1> QED BY <1>1, <1>2, <1>3, <1>4, <1>5, <1>6, <1>7, <1>8, <1>9

LEMMA WaitsWithCurrent ==
  ASSUME NEW p \in Procs, TypeOK
  PROVE  /\ Waiting(p) <=> \E id \in Ids : Caller(id) = p /\ status[id] = "waiting"
         /\ Waiting(p) => /\ Current(p) \in Ids /\ Caller(Current(p)) = p
                          /\ status[Current(p)] = "waiting"
<1>1. ASSUME Waiting(p)
      PROVE  /\ Current(p) \in Ids /\ Caller(Current(p)) = p /\ status[Current(p)] = "waiting"
  <2>1. PICK n \in 1 .. MaxCalls[p] : Current(p) = <<p, n>> /\ status[<<p, n>>] = "waiting"
    BY <1>1 DEF Waiting, Current
  <2> QED BY <2>1, Shapes
<1>2. ASSUME NEW id \in Ids, Caller(id) = p, status[id] = "waiting" PROVE Waiting(p)
  <2>1. Number(id) \in 1 .. MaxCalls[p] /\ id = <<p, Number(id)>>
    BY <1>2, Shapes
  <2> QED BY <1>2, <2>1 DEF Waiting
<1> QED BY <1>1, <1>2

-----------------------------------------------------------------------------
(* The ledger of calls.                                                    *)

\* A call begins, or ends, in a step that leaves the other calls alone.
Begins(id) ==
    /\ id \in Ids /\ status[id] = "unused"
    /\ \A x \in Ids : Caller(x) = Caller(id) =>
          status[x] # "waiting" /\ (Number(x) < Number(id) => status[x] # "unused")
    /\ \E s \in Servers :
          /\ name[s] # None
          /\ status' = [status EXCEPT ![id] = "waiting"]
          /\ to' = [to EXCEPT ![id] = name[s]]
          /\ watching' = [watching EXCEPT ![Caller(id)] = name[s]]

\* A step in which no call begins: some end, or the only
\* call of its caller is refused or cancelled; who waits keeps the monitor unless the server goes, who stops
\* waiting loses it.
NoneBegins ==
    /\ to' = to /\ status' \in [Ids -> Statuses]
    /\ \A id \in Ids :
          \/ status'[id] = status[id]
          \/ status[id] = "waiting" /\ status'[id] \notin Unsent \cup {"waiting"}
          \/ /\ status[id] = "unused" /\ status'[id] \in {"refused", "cancelled"}
             /\ \A x \in Ids : Caller(x) = Caller(id) => x = id
    /\ \A i \in Instances : /\ life[i] # "absent" => life'[i] # "absent"
                            /\ life'[i] = "up" => life[i] \in {"up", "absent"}
    /\ \A s \in Servers : name'[s] # None => life'[name'[s]] # "absent"
    /\ \A q \in Procs : watching'[q] \in {watching[q], None}
    /\ \A id \in Ids :
          status[id] = "waiting" =>
            IF status'[id] = "waiting"
              THEN watching'[Caller(id)] = watching[Caller(id)]
                     \/ life'[watching[Caller(id)]] # "up"
              ELSE watching'[Caller(id)] = None

\* The next call has not been made, and all before it have.
LEMMA CallsBegin ==
  ASSUME Ledger, NEW p \in Procs, NEW s \in Servers, NEW box, ~Waiting(p), Request(p, s, box)
  PROVE  Begins(NextId(p)) /\ Caller(NextId(p)) = p
<1>1. TypeOK /\ CallsInOrder /\ NextId(p) \in Ids
  BY DEF Ledger, Request
<1>2. \A x \in Ids : Caller(x) = p => status[x] # "waiting"
  BY <1>1, WaitsWithCurrent
<1>3. /\ Caller(NextId(p)) = p /\ status[NextId(p)] = "unused"
      /\ \A id \in Ids : Caller(id) = p /\ Number(id) < Number(NextId(p)) => status[id] # "unused"
  <2> DEFINE S == {n \in 1 .. MaxCalls[p] : status[<<p, n>>] # "unused"}
             c == Cardinality(S)
  <2>1. MaxCalls[p] \in Nat /\ \A n \in 1 .. MaxCalls[p] : <<p, n>> \in Ids
    BY Shapes
  <2>2. IsFiniteSet(1 .. MaxCalls[p])
    BY <2>1, FS_Interval
  <2>3. IsFiniteSet(S) /\ c \in Nat
    BY <2>2, FS_Subset, FS_CardinalityType
  <2>4. NextId(p) = <<p, c + 1>> /\ c + 1 \in 1 .. MaxCalls[p]
    BY <1>1, Shapes DEF NextId
  <2>5. \A n \in S : \A m \in 1 .. n : m \in S
    <3> SUFFICES ASSUME NEW n \in S, NEW m \in 1 .. n PROVE m \in S
      OBVIOUS
    <3>1. m \in 1 .. MaxCalls[p] /\ m <= n
      BY <2>1
    <3>2. <<p, m>> \in Ids /\ <<p, n>> \in Ids /\ status[<<p, n>>] # "unused"
      BY <2>1, <3>1
    <3>3. /\ Caller(<<p, m>>) = p /\ Caller(<<p, n>>) = p
          /\ Number(<<p, m>>) = m /\ Number(<<p, n>>) = n
      BY DEF Caller, Number
    <3>4. status[<<p, m>>] # "unused"
      BY <1>1, <3>1, <3>2, <3>3 DEF CallsInOrder
    <3> QED BY <3>1, <3>4
  <2>6. c + 1 \notin S
    <3> SUFFICES ASSUME c + 1 \in S PROVE FALSE
      OBVIOUS
    <3>1. 1 .. c + 1 \subseteq S
      BY <2>5
    <3>2. Cardinality(1 .. c + 1) <= c
      BY <2>3, <3>1, FS_Subset
    <3>3. Cardinality(1 .. c + 1) = c + 1
      BY <2>3, FS_Interval
    <3> QED BY <2>3, <3>2, <3>3
  <2>7. \A m \in 1 .. c : m \in S
    <3> SUFFICES ASSUME NEW m \in 1 .. c, m \notin S PROVE FALSE
      OBVIOUS
    <3>1. S \subseteq 1 .. m - 1
      BY <2>1, <2>5
    <3>2. IsFiniteSet(1 .. m - 1) /\ Cardinality(1 .. m - 1) = m - 1
      <4>1. m - 1 \in Int /\ m \in Nat \ {0}
        BY <2>3
      <4>2. IsFiniteSet(1 .. m - 1)
            /\ Cardinality(1 .. m - 1) = IF 1 > m - 1 THEN 0 ELSE m - 1 - 1 + 1
        BY <4>1, FS_Interval
      <4> QED BY <4>1, <4>2
    <3>3. c <= m - 1
      BY <3>1, <3>2, FS_Subset
    <3> QED BY <2>3, <3>3
  <2>8. \A id \in Ids : Caller(id) = p /\ Number(id) < c + 1 => status[id] # "unused"
    <3> SUFFICES ASSUME NEW id \in Ids, Caller(id) = p, Number(id) < c + 1 PROVE status[id] # "unused"
      OBVIOUS
    <3>1. Number(id) \in 1 .. c /\ id = <<p, Number(id)>>
      BY <2>1, <2>3, Shapes
    <3> QED BY <2>7, <3>1
  <2>9. Caller(NextId(p)) = p /\ Number(NextId(p)) = c + 1
    BY <2>4 DEF Caller, Number
  <2>10. status[NextId(p)] = "unused"
    BY <2>4, <2>6
  <2> QED BY <2>8, <2>9, <2>10
<1> QED BY <1>1, <1>2, <1>3 DEF Begins, Request

\* What the ledger says of calls.
LEMMA BeginsKeepsOrder ==
  ASSUME Ledger, MonitorsMatch, NEW id, Begins(id), life' = life, name' = name
  PROVE  CallsInOrder' /\ CallsSent' /\ MonitorsMatch' /\ status' \in [Ids -> Statuses]
         /\ to' \in [Ids -> Instances \cup {None}] /\ watching' \in [Procs -> Instances \cup {None}]
<1>1. /\ TypeOK /\ CallsInOrder /\ CallsSent /\ id \in Ids /\ status[id] = "unused"
      /\ status' = [status EXCEPT ![id] = "waiting"]
      /\ \A x \in Ids : Caller(x) = Caller(id) =>
            status[x] # "waiting" /\ (Number(x) < Number(id) => status[x] # "unused")
  BY DEF Ledger, Begins
<1>2. PICK s \in Servers : /\ name[s] # None /\ to' = [to EXCEPT ![id] = name[s]]
                           /\ watching' = [watching EXCEPT ![Caller(id)] = name[s]]
  BY DEF Begins
<1>3. \A x \in Ids : Caller(x) \in Procs /\ Number(x) \in Nat
  BY Shapes
<1>4. \A x, y \in Ids : Caller(x) = Caller(y) /\ Number(x) = Number(y) => x = y
  BY Shapes
<1>5. \A x \in Ids : status'[x] = IF x = id THEN "waiting" ELSE status[x]
  BY <1>1 DEF TypeOK
<1>9. \A x \in Ids : Caller(x) = Caller(id) => status[x] # "waiting"
  BY DEF Begins
<1>6. CallsInOrder'
  <2> SUFFICES ASSUME NEW x \in Ids, NEW y \in Ids, Caller(x) = Caller(y)
               PROVE  /\ status'[x] # "unused" /\ Number(y) <= Number(x) => status'[y] # "unused"
                      /\ status'[x] = "waiting" /\ status'[y] = "waiting" => x = y
    BY DEF CallsInOrder
  <2>1. CASE x = id /\ y # id
    <3>1. Number(y) # Number(id) /\ Number(x) \in Nat /\ Number(y) \in Nat
      BY <1>1, <1>3, <1>4, <2>1
    <3>2. Number(y) <= Number(id) => Number(y) < Number(id)
      BY <1>1, <1>3, <3>1
    <3>3. Caller(y) = Caller(id)
      BY <2>1
    <3>4. status'[y] = status[y] /\ status[y] # "waiting"
      BY <1>5, <1>9, <2>1, <3>3
    <3>5. Number(y) <= Number(id) => status[y] # "unused"
      BY <1>1, <3>2, <3>3
    <3> QED BY <2>1, <3>4, <3>5
  <2>2. CASE y = id
    <3>1. status'[y] = "waiting"
      BY <1>5, <2>2
    <3>2. Caller(x) = Caller(id)
      BY <2>2
    <3>3. status[x] # "waiting"
      BY <1>9, <3>2
    <3>4. x # id => status'[x] = status[x]
      BY <1>5
    <3> QED BY <2>2, <3>1, <3>3, <3>4
  <2>3. CASE x # id /\ y # id
    <3>1. status'[x] = status[x] /\ status'[y] = status[y]
      BY <1>5, <2>3
    <3> QED BY <1>1, <3>1 DEF CallsInOrder
  <2> QED BY <2>1, <2>2, <2>3
<1>7. name[s] \in Instances /\ life[name[s]] # "absent"
  BY <1>1, <1>2 DEF TypeOK, CallsSent, Unsent
<1>8. CallsSent'
  BY <1>1, <1>2, <1>5, <1>7 DEF TypeOK, CallsSent, Unsent
<1>10. MonitorsMatch'
  <2>1. \A q \in Procs : watching'[q] = IF q = Caller(id) THEN name[s] ELSE watching[q]
    BY <1>2 DEF TypeOK, Ledger
  <2>2. \A x \in Ids : to'[x] = IF x = id THEN name[s] ELSE to[x]
    BY <1>1, <1>2 DEF TypeOK
  <2>3. ASSUME NEW q \in Procs, watching'[q] # None
        PROVE  \E x \in Ids : Caller(x) = q /\ status'[x] = "waiting" /\ to'[x] = watching'[q]
    <3>1. CASE q = Caller(id)
      BY <1>1, <1>5, <2>1, <2>2, <3>1
    <3>2. CASE q # Caller(id)
      <4>1. PICK x \in Ids : Caller(x) = q /\ status[x] = "waiting" /\ to[x] = watching[q]
        BY <2>1, <2>3, <3>2 DEF MonitorsMatch
      <4>2. x # id
        BY <3>2, <4>1
      <4> QED BY <1>5, <2>1, <2>2, <3>2, <4>1, <4>2
    <3> QED BY <3>1, <3>2
  <2>4. ASSUME NEW x \in Ids, status'[x] = "waiting", life'[to'[x]] = "up"
        PROVE  watching'[Caller(x)] = to'[x]
    <3>1. CASE x = id
      BY <1>3, <2>1, <2>2, <3>1
    <3>2. CASE x # id
      <4>1. status[x] = "waiting" /\ to'[x] = to[x]
        BY <1>5, <2>2, <2>4, <3>2
      <4>2. Caller(x) # Caller(id) /\ watching[Caller(x)] = to[x]
        BY <1>9, <2>4, <4>1 DEF MonitorsMatch
      <4> QED BY <1>3, <2>1, <4>1, <4>2
    <3> QED BY <3>1, <3>2
  <2> QED BY <2>3, <2>4 DEF MonitorsMatch
<1> QED BY <1>1, <1>2, <1>3, <1>6, <1>7, <1>8, <1>10 DEF TypeOK, Statuses

LEMMA NoneBeginsKeepsOrder ==
  ASSUME Ledger, MonitorsMatch, NoneBegins
  PROVE  CallsInOrder' /\ CallsSent' /\ MonitorsMatch'
<1>1. TypeOK /\ CallsInOrder /\ CallsSent
  BY DEF Ledger
<1>2. \A id \in Ids :
         \/ status'[id] = status[id]
         \/ status[id] = "waiting" /\ status'[id] \notin Unsent \cup {"waiting"}
         \/ /\ status[id] = "unused" /\ status'[id] \in {"refused", "cancelled"}
            /\ \A x \in Ids : Caller(x) = Caller(id) => x = id
  BY DEF NoneBegins, Unsent
<1>3. CallsInOrder'
  <2> SUFFICES ASSUME NEW x \in Ids, NEW y \in Ids, Caller(x) = Caller(y)
               PROVE  /\ status'[x] # "unused" /\ Number(y) <= Number(x) => status'[y] # "unused"
                      /\ status'[x] = "waiting" /\ status'[y] = "waiting" => x = y
    BY DEF CallsInOrder
  <2>1. ASSUME status'[x] = "waiting", status'[y] = "waiting" PROVE x = y
    <3>1. status[x] = "waiting" /\ status[y] = "waiting"
      BY <1>2, <2>1 DEF Unsent
    <3> QED BY <1>1, <3>1 DEF CallsInOrder
  <2>2. ASSUME status'[x] # "unused", Number(y) <= Number(x), x # y PROVE status'[y] # "unused"
    <3>1. status[x] # "unused"
      BY <1>2, <2>2 DEF Unsent
    <3>2. status[y] # "unused"
      BY <1>1, <2>2, <3>1 DEF CallsInOrder
    <3> QED BY <1>2, <3>2 DEF Unsent
  <2> QED BY <2>1, <2>2
<1>4. CallsSent'
  <2>1. \A id \in Ids : IF status'[id] \in Unsent THEN to[id] = None
                        ELSE to[id] \in Instances /\ life[to[id]] # "absent"
    BY <1>1, <1>2 DEF CallsSent, Unsent
  <2> QED BY <2>1 DEF CallsSent, NoneBegins, Unsent
<1>5. ASSUME NEW q \in Procs, watching'[q] # None
      PROVE  \E id \in Ids : Caller(id) = q /\ status'[id] = "waiting" /\ to'[id] = watching'[q]
  <2>1. watching'[q] = watching[q]
    BY <1>5 DEF NoneBegins, Unsent
  <2>2. PICK id \in Ids : Caller(id) = q /\ status[id] = "waiting" /\ to[id] = watching[q]
    BY <1>5, <2>1 DEF MonitorsMatch
  <2>3. status'[id] = "waiting"
    BY <1>5, <2>2 DEF NoneBegins, Unsent
  <2> QED BY <2>1, <2>2, <2>3 DEF NoneBegins, Unsent
<1>6. ASSUME NEW id \in Ids, status'[id] = "waiting", life'[to'[id]] = "up"
      PROVE  watching'[Caller(id)] = to'[id]
  <2>1. status[id] = "waiting" /\ to'[id] = to[id]
    BY <1>2, <1>6 DEF NoneBegins, Unsent
  <2>2. to[id] \in Instances /\ life[to[id]] # "absent"
    BY <1>1, <2>1 DEF CallsSent, Unsent
  <2>3. life[to[id]] = "up"
    BY <1>6, <2>1, <2>2 DEF NoneBegins, Unsent
  <2>4. watching[Caller(id)] = to[id]
    BY <2>1, <2>3 DEF MonitorsMatch
  <2> QED BY <1>6, <2>1, <2>4 DEF NoneBegins, Unsent
<1> QED BY <1>3, <1>4, <1>5, <1>6 DEF MonitorsMatch

LEMMA MessagesTyped ==
  /\ CAST \in Messages
  /\ \A id \in Ids : CALL(id) \in Messages /\ REPLY(id, "value") \in Messages
                     /\ REPLY(id, "exited") \in Messages
  /\ \A i \in Instances : DOWN(4, i) \in Messages /\ DOWN(5, i) \in Messages
  /\ \A m \in Messages : /\ m.tag \in {"CALL", "CAST", "REPLY", "DOWN"}
                         /\ m.tag \in {"CALL", "REPLY"} => m.id \in Ids
                         /\ m.tag = "REPLY" => m.value \in {"value", "exited"}
<1>1. CAST \in Messages
  BY DEF Messages
<1>2. \A id \in Ids : /\ CALL(id) \in Messages /\ REPLY(id, "value") \in Messages
                     /\ REPLY(id, "exited") \in Messages
  BY DEF Messages
<1>3. \A i \in Instances : DOWN(4, i) \in Messages /\ DOWN(5, i) \in Messages
  BY DEF Messages
<1>4. ASSUME NEW m \in Messages
      PROVE  /\ m.tag \in {"CALL", "CAST", "REPLY", "DOWN"}
             /\ m.tag \in {"CALL", "REPLY"} => m.id \in Ids
             /\ m.tag = "REPLY" => m.value \in {"value", "exited"}
  BY DEF Messages, CALL, CAST, REPLY, DOWN
<1> QED BY <1>1, <1>2, <1>3, <1>4, Zenon

\* Whoever takes, sends or tells keeps mailboxes within what they may hold.
LEMMA BoxesKept ==
  ASSUME NEW F, F \in [Procs -> SUBSET Messages], NEW box \in Boxes(F)
  PROVE  /\ \A p \in Procs, m \in Messages : m \in F[p] => Sent(box, p, m) \in Boxes(F)
         /\ \A i \in Instances, arity \in {4, 5} :
               (\A q \in Procs : DOWN(arity, i) \in F[q]) => Told(arity, i, box) \in Boxes(F)
         /\ \A p \in Procs : [box EXCEPT ![p] = <<>>] \in Boxes(F)
         /\ \A p \in Procs : box[p] # <<>> =>
               [box EXCEPT ![p] = Tail(@)] \in Boxes(F) /\ Head(box[p]) \in F[p]
<1>1. /\ box \in [Procs -> Seq(Messages)]
      /\ \A q \in Procs : box[q] \in Seq(Messages) /\ box[q] \in Seq(F[q])
  BY DEF Boxes
<1>2. ASSUME NEW p \in Procs, NEW s \in Seq(Messages), s \in Seq(F[p])
      PROVE  [box EXCEPT ![p] = s] \in Boxes(F)
  <2>1. [box EXCEPT ![p] = s] \in [Procs -> Seq(Messages)]
    BY <1>1
  <2>2. \A q \in Procs : [box EXCEPT ![p] = s][q] = IF q = p THEN s ELSE box[q]
    BY <1>1
  <2> QED BY <1>1, <1>2, <2>1, <2>2 DEF Boxes
<1>3. ASSUME NEW p \in Procs, NEW m \in Messages, m \in F[p] PROVE Sent(box, p, m) \in Boxes(F)
  <2>1. Append(box[p], m) \in Seq(Messages) /\ Append(box[p], m) \in Seq(F[p])
    BY <1>1, <1>3
  <2>2. [box EXCEPT ![p] = Append(box[p], m)] \in Boxes(F)
    BY <1>2, <2>1
  <2> QED BY <2>2 DEF Sent
<1>4. ASSUME NEW i \in Instances, NEW arity \in {4, 5}, \A q \in Procs : DOWN(arity, i) \in F[q]
      PROVE  Told(arity, i, box) \in Boxes(F)
  <2>1. DOWN(arity, i) \in Messages
    BY MessagesTyped
  <2>2. \A q \in Procs : /\ Append(box[q], DOWN(arity, i)) \in Seq(Messages)
                        /\ Append(box[q], DOWN(arity, i)) \in Seq(F[q])
    BY <1>1, <1>4, <2>1
  <2>3. \A q \in Procs : Told(arity, i, box)[q] \in {box[q], Append(box[q], DOWN(arity, i))}
    BY DEF Told
  <2>4. Told(arity, i, box) \in [Procs -> Seq(Messages)]
    BY <1>1, <2>2 DEF Told
  <2> QED BY <1>1, <2>2, <2>3, <2>4 DEF Boxes
<1>5. ASSUME NEW p \in Procs PROVE [box EXCEPT ![p] = <<>>] \in Boxes(F)
  <2>1. <<>> \in Seq(Messages) /\ <<>> \in Seq(F[p])
    OBVIOUS
  <2> QED BY <1>2, <2>1
<1>6. ASSUME NEW p \in Procs, box[p] # <<>>
      PROVE  [box EXCEPT ![p] = Tail(@)] \in Boxes(F) /\ Head(box[p]) \in F[p]
  <2>1. Tail(box[p]) \in Seq(Messages) /\ Tail(box[p]) \in Seq(F[p]) /\ Head(box[p]) \in F[p]
    BY <1>1, <1>6
  <2>2. [box EXCEPT ![p] = Tail(box[p])] \in Boxes(F)
    BY <1>2, <2>1
  <2> QED BY <2>1, <2>2
<1> QED BY <1>3, <1>4, <1>5, <1>6

\* Whoever reads a message reads a true one.
LEMMA HeadsTrue ==
  ASSUME MailTrue, NEW p \in Procs, mailbox[p] # <<>>
  PROVE  Head(mailbox[p]) \in Messages /\ Head(mailbox[p]) \in True(p)
<1>1. [q \in Procs |-> True(q)] \in [Procs -> SUBSET Messages]
  BY DEF True, Unsent
<1> QED BY <1>1, BoxesKept DEF MailTrue, Boxes

LEMMA CallsKept ==
  ASSUME IInv, [Next]_vars
  PROVE  Ledger' /\ MonitorsMatch' /\ BridgesInOrder' /\ BridgesSettle'
<1> DEFINE Kept == Ledger' /\ MonitorsMatch' /\ BridgesInOrder' /\ BridgesSettle'
<1>1. /\ Ledger /\ TypeOK /\ CallsInOrder /\ CallsSent /\ HandlersWait /\ owed \subseteq executed
      /\ MailTrue /\ MonitorsMatch /\ BridgesInOrder /\ BridgesSettle
  BY DEF IInv, Ledger
<1>2. \A p \in Procs : Waiting(p) <=> \E id \in Ids : Caller(id) = p /\ status[id] = "waiting"
  BY <1>1, WaitsWithCurrent
<1>3. /\ \A id \in Ids : Caller(id) \in Procs
      /\ \A i \in Instances : i \in Procs /\ i \notin Clients /\ i \notin Bridges
      /\ None \notin Ids /\ None \notin Instances
      /\ \A b \in Bridges : /\ b \in Procs /\ b \notin Clients /\ <<b, 1>> \in Ids
                            /\ Caller(<<b, 1>>) = b /\ \A id \in Ids : Caller(id) = b => id = <<b, 1>>
      /\ Clients \subseteq Procs
  BY Shapes, GenServerAssumption DEF Procs, Caller
<1>4. ASSUME NEW i \in Instances, NEW box, Ended(i, box)
      PROVE  /\ life' \in [Instances -> {"absent", "up", "doomed", "ended"}]
             /\ name' \in [Servers -> Instances \cup {None}]
             /\ watching' \in [Procs -> Instances \cup {None}]
             /\ handling' \in [Instances -> Ids \cup {None}]
             /\ \A j \in Instances : life'[j] = IF j = i THEN "ended" ELSE life[j]
             /\ \A j \in Instances : handling'[j] = IF j = i THEN None ELSE handling[j]
             /\ \A q \in Procs : watching'[q] = IF q = i \/ watching[q] = i THEN None ELSE watching[q]
             /\ \A s \in Servers : name'[s] # None => life'[name'[s]] # "absent"
  BY <1>1, <1>4 DEF Ended, TypeOK, CallsSent, Unsent
<1> HIDE DEF Kept
\* Beginnings.
<1>5. ASSUME NEW c \in Clients, NEW s \in Servers, Call(c, s) PROVE Kept
  <2>1. c \in Procs /\ c \notin Instances /\ c \notin Bridges
    BY <1>3
  <2>2. Begins(NextId(c)) /\ Caller(NextId(c)) = c
    BY <1>1, <1>5, <2>1, CallsBegin DEF Call
  <2>3. UNCHANGED <<life, name, handling, owed, executed, future>>
    BY <1>5 DEF Call
  <2>4. CallsInOrder' /\ CallsSent' /\ MonitorsMatch' /\ TypeOK'
    BY <1>1, <2>2, <2>3, BeginsKeepsOrder DEF TypeOK
  <2>5. \A x \in Ids : Caller(x) # c => status'[x] = status[x]
    BY <1>1, <2>2 DEF Begins, TypeOK
  <2>6. HandlersWait'
    BY <1>1, <2>1, <2>3, <2>5 DEF HandlersWait
  <2>7. BridgesInOrder' /\ BridgesSettle'
    BY <1>1, <1>3, <2>1, <2>3, <2>5 DEF BridgesInOrder, BridgesSettle
  <2> QED BY <1>1, <2>3, <2>4, <2>6, <2>7 DEF Ledger, Kept
<1>6. ASSUME NEW b \in Bridges, NEW s \in Servers, BridgeStart(b, s) PROVE Kept
  <2>1. b \in Procs /\ b \notin Instances /\ ~Waiting(b) /\ status[<<b, 1>>] = "unused"
        /\ future[b] # "none" /\ <<b, 1>> \in Ids
    BY <1>2, <1>3, <1>6 DEF BridgeStart
  <2>2. UNCHANGED <<life, name, handling, owed, executed>>
    BY <1>6 DEF BridgeStart
  <2>3. CASE Request(b, s, mailbox) /\ UNCHANGED future
    <3>1. Begins(NextId(b)) /\ Caller(NextId(b)) = b /\ NextId(b) = <<b, 1>>
      BY <1>1, <1>3, <2>1, <2>3, CallsBegin DEF Begins
    <3>2. CallsInOrder' /\ CallsSent' /\ MonitorsMatch' /\ TypeOK'
      BY <1>1, <2>2, <2>3, <3>1, BeginsKeepsOrder DEF TypeOK
    <3>3. \A x \in Ids : status'[x] = IF x = <<b, 1>> THEN "waiting" ELSE status[x]
      BY <1>1, <3>1 DEF Begins, TypeOK
    <3>4. HandlersWait'
      BY <1>1, <1>3, <2>1, <2>2, <3>3 DEF HandlersWait
    <3>5. BridgesInOrder' /\ BridgesSettle'
      BY <1>1, <1>3, <2>1, <2>3, <3>3 DEF BridgesInOrder, BridgesSettle
    <3> QED BY <1>1, <2>2, <3>2, <3>4, <3>5 DEF Ledger, Kept
  <2>4. CASE /\ status' = [status EXCEPT ![<<b, 1>>] = "refused"]
             /\ future' = [future EXCEPT ![b] = IF @ = "pending" THEN "set" ELSE @]
             /\ UNCHANGED <<to, watching, mailbox>>
    <3>1. \A x \in Ids : status'[x] = IF x = <<b, 1>> THEN "refused" ELSE status[x]
      BY <1>1, <2>4 DEF TypeOK
    <3>2. TypeOK'
      BY <1>1, <2>2, <2>4 DEF TypeOK, Statuses
    <3>3. \A x \in Ids : Caller(x) = b => x = <<b, 1>>
      BY <1>3
    <3>4. NoneBegins
      <4>1. \A x \in Ids :
              \/ status'[x] = status[x]
              \/ status[x] = "waiting" /\ status'[x] \notin Unsent \cup {"waiting"}
              \/ /\ status[x] = "unused" /\ status'[x] \in {"refused", "cancelled"}
                 /\ \A y \in Ids : Caller(y) = Caller(x) => y = x
        BY <1>3, <2>1, <3>1
      <4>2. \A x \in Ids : status[x] = "waiting" => status'[x] = "waiting"
        BY <2>1, <3>1
      <4> QED BY <1>1, <2>2, <2>4, <3>2, <4>1, <4>2 DEF NoneBegins, TypeOK, CallsSent, Unsent
    <3>5. CallsInOrder' /\ CallsSent' /\ MonitorsMatch'
      BY <1>1, <3>4, NoneBeginsKeepsOrder
    <3>6. HandlersWait'
      BY <1>1, <1>3, <2>1, <2>2, <3>1 DEF HandlersWait
    <3>7. \A c \in Bridges : future'[c] = IF c = b /\ future[c] = "pending" THEN "set" ELSE future[c]
      BY <1>1, <2>4 DEF TypeOK
    <3>8. BridgesInOrder' /\ BridgesSettle'
      BY <1>1, <1>3, <2>1, <3>1, <3>7 DEF BridgesInOrder, BridgesSettle
    <3> QED BY <1>1, <2>2, <3>2, <3>5, <3>6, <3>8 DEF Ledger, Kept
  <2> QED BY <1>6, <2>3, <2>4 DEF BridgeStart
<1>22. ASSUME NEW b \in Bridges, BridgeCancelled(b) PROVE Kept
  <2> DEFINE id == <<b, 1>>
             end == IF status[id] = "waiting" THEN "abandoned" ELSE "cancelled"
  <2>1. /\ b \in Procs /\ b \notin Instances /\ id \in Ids /\ Caller(id) = b
        /\ \A x \in Ids : Caller(x) = b => x = id
        /\ future[b] # "none" /\ status[id] \in {"unused", "waiting"}
    BY <1>3, <1>22 DEF BridgeCancelled
  <2>2. /\ status' = [status EXCEPT ![id] = end] /\ watching' = [watching EXCEPT ![b] = None]
        /\ UNCHANGED <<life, name, to, handling, owed, executed, future>>
    BY <1>22 DEF BridgeCancelled, Released
  <2> HIDE DEF id
  <2>3. /\ \A x \in Ids : status'[x] = IF x = id THEN end ELSE status[x]
        /\ \A q \in Procs : watching'[q] = IF q = b THEN None ELSE watching[q]
    BY <1>1, <2>2 DEF TypeOK
  <2>4. TypeOK'
    BY <1>1, <2>2 DEF TypeOK, Statuses
  <2>5. NoneBegins
    <3>1. \A x \in Ids :
             \/ status'[x] = status[x]
             \/ status[x] = "waiting" /\ status'[x] \notin Unsent \cup {"waiting"}
             \/ /\ status[x] = "unused" /\ status'[x] \in {"refused", "cancelled"}
                /\ \A y \in Ids : Caller(y) = Caller(x) => y = x
      BY <2>1, <2>3 DEF Unsent
    <3>2. \A x \in Ids : status[x] = "waiting" =>
             IF status'[x] = "waiting" THEN watching'[Caller(x)] = watching[Caller(x)]
                                       ELSE watching'[Caller(x)] = None
      BY <1>3, <2>1, <2>3
    <3> QED BY <1>1, <2>2, <2>3, <2>4, <3>1, <3>2 DEF NoneBegins, TypeOK, CallsSent
  <2>6. CallsInOrder' /\ CallsSent' /\ MonitorsMatch'
    BY <1>1, <2>5, NoneBeginsKeepsOrder
  <2>7. HandlersWait'
    BY <1>1, <2>1, <2>2, <2>3 DEF HandlersWait
  <2>8. BridgesInOrder' /\ BridgesSettle'
    <3>1. \A c \in Bridges : c # b => <<c, 1>> # id /\ <<c, 1>> \in Ids
      BY <1>3, <2>1
    <3>2. id = <<b, 1>>
      BY DEF id
    <3> QED BY <1>1, <2>1, <2>2, <2>3, <3>1, <3>2 DEF BridgesInOrder, BridgesSettle
  <2> QED BY <1>1, <2>2, <2>4, <2>6, <2>7, <2>8 DEF Ledger, Kept
\* Steps in which the calls stand still.
<1>7. ASSUME NoneBegins, TypeOK', UNCHANGED <<status, future>>, executed \subseteq executed',
             owed' \subseteq executed', \A i \in Instances : handling'[i] = handling[i]
      PROVE  Kept
  <2>1. CallsInOrder' /\ CallsSent' /\ MonitorsMatch'
    BY <1>1, <1>7, NoneBeginsKeepsOrder
  <2>2. HandlersWait'
    BY <1>1, <1>7 DEF HandlersWait
  <2>3. BridgesInOrder' /\ BridgesSettle'
    BY <1>1, <1>7 DEF BridgesInOrder, BridgesSettle
  <2> QED BY <1>7, <2>1, <2>2, <2>3 DEF Ledger, Kept
<1>8. ASSUME UNCHANGED <<life, name, status, to, watching>> PROVE NoneBegins
  BY <1>1, <1>8 DEF NoneBegins, TypeOK, CallsSent, Unsent
<1>9. ASSUME UNCHANGED <<life, name, status, to, watching, handling, future>>,
             executed \subseteq executed', owed' \subseteq executed', executed' \subseteq Ids
      PROVE  Kept
  <2>1. TypeOK'
    BY <1>1, <1>9 DEF TypeOK
  <2> QED BY <1>7, <1>8, <1>9, <2>1
<1>10. ASSUME NEW i \in Instances, NEW how \in Exits, Exit(i, how) PROVE Kept
  <2>1. /\ life' = [life EXCEPT ![i] = "doomed"]
        /\ UNCHANGED <<status, to, handling, owed, executed, future>>
    BY <1>10 DEF Exit
  <2>2. \A j \in Instances : life'[j] = IF j = i THEN "doomed" ELSE life[j]
    BY <1>1, <2>1 DEF TypeOK
  <2>3. CASE UNCHANGED <<name, watching>>
    <3>1. TypeOK'
      BY <1>1, <2>1, <2>3 DEF TypeOK
    <3>2. \A s \in Servers : name'[s] # None => life'[name'[s]] # "absent"
      BY <1>1, <2>2, <2>3 DEF TypeOK, CallsSent, Unsent
    <3>3. NoneBegins
      BY <1>1, <2>1, <2>2, <2>3, <3>1, <3>2 DEF NoneBegins, TypeOK, Unsent
    <3> QED BY <1>1, <1>7, <2>1, <3>1, <3>3
  <2>4. CASE /\ name' = [name EXCEPT ![i[1]] = None]
             /\ watching' = [q \in Procs |-> IF watching[q] = i THEN None ELSE watching[q]]
    <3>1. TypeOK'
      BY <1>1, <2>1, <2>4 DEF TypeOK
    <3>2. \A s \in Servers : name'[s] \in {name[s], None}
      BY <1>1, <2>4 DEF TypeOK
    <3>3. \A s \in Servers : name'[s] # None => life'[name'[s]] # "absent"
      BY <1>1, <2>2, <3>2 DEF TypeOK, CallsSent, Unsent
    <3>4. \A q \in Procs : watching'[q] = IF watching[q] = i THEN None ELSE watching[q]
      BY <2>4
    <3>5. NoneBegins
      BY <1>1, <1>3, <2>1, <2>2, <3>1, <3>3, <3>4 DEF NoneBegins, TypeOK, Unsent
    <3> QED BY <1>1, <1>7, <2>1, <3>1, <3>5
  <2> QED BY <1>10, <2>3, <2>4 DEF Exit
<1>11. ASSUME NEW s \in Servers, Restart(s) PROVE Kept
  <2>1. PICK k \in 2 .. MaxStarts[s] :
           /\ life[<<s, k>>] = "absent"
           /\ life' = [life EXCEPT ![<<s, k>>] = "up"]
           /\ name' = [name EXCEPT ![s] = <<s, k>>]
    BY <1>11 DEF Restart
  <2>2. UNCHANGED <<status, to, watching, handling, owed, executed, future>>
    BY <1>11 DEF Restart
  <2>3. MaxStarts[s] \in Nat
    BY GenServerAssumption
  <2>4. <<s, k>> \in Instances
    BY <2>3, Shapes
  <2>5. \A j \in Instances : life'[j] = IF j = <<s, k>> THEN "up" ELSE life[j]
    BY <1>1, <2>1 DEF TypeOK
  <2>6. TypeOK'
    BY <1>1, <2>1, <2>2, <2>4 DEF TypeOK
  <2>7. \A t \in Servers : name'[t] = IF t = s THEN <<s, k>> ELSE name[t]
    BY <1>1, <2>1 DEF TypeOK
  <2>8. \A t \in Servers : name'[t] # None => life'[name'[t]] # "absent"
    BY <1>1, <2>4, <2>5, <2>7 DEF TypeOK, CallsSent, Unsent
  <2>9. NoneBegins
    BY <1>1, <2>1, <2>2, <2>5, <2>6, <2>8 DEF NoneBegins, TypeOK, Unsent
  <2> QED BY <1>1, <1>7, <2>2, <2>6, <2>9
<1>12. ASSUME NEW s \in Servers, Cast(s) PROVE Kept
  BY <1>1, <1>9, <1>12 DEF Cast, TypeOK
<1>13. ASSUME NEW id \in Ids, ReplyLater(id) PROVE Kept
  BY <1>1, <1>9, <1>13 DEF ReplyLater, TypeOK
<1>14. ASSUME UNCHANGED vars PROVE Kept
  BY <1>1, <1>9, <1>14 DEF vars, TypeOK
<1>15. ASSUME NEW b \in Bridges, CallOutside(b) \/ OuterTimeout(b) PROVE Kept
  <2>1. UNCHANGED <<life, name, mailbox, status, to, watching, handling, owed, executed>>
    BY <1>15 DEF CallOutside, OuterTimeout
  <2>2. PICK f \in {"pending", "cancelled"} :
           /\ future' = [future EXCEPT ![b] = f]
           /\ f = "pending" => future[b] = "none"
    BY <1>15 DEF CallOutside, OuterTimeout
  <2>3. \A c \in Bridges : future'[c] = IF c = b THEN f ELSE future[c]
    BY <1>1, <2>2 DEF TypeOK
  <2>4. TypeOK'
    BY <1>1, <2>1, <2>2 DEF TypeOK
  <2>5. CallsInOrder' /\ CallsSent' /\ MonitorsMatch'
    BY <1>1, <1>8, <2>1, NoneBeginsKeepsOrder
  <2>6. HandlersWait'
    BY <1>1, <2>1 DEF HandlersWait
  <2>7. BridgesInOrder' /\ BridgesSettle'
    BY <1>1, <2>1, <2>2, <2>3 DEF BridgesInOrder, BridgesSettle
  <2> QED BY <1>1, <2>1, <2>4, <2>5, <2>6, <2>7 DEF Ledger, Kept
\* A server ends while it makes no call.
<1>16. ASSUME NEW i \in Instances, NEW box, Ended(i, box), handling[i] = None,
              UNCHANGED <<status, to, owed, future>>, executed \subseteq executed',
              executed' \subseteq Ids
       PROVE  Kept
  <2>1. TypeOK'
    BY <1>1, <1>4, <1>16 DEF TypeOK
  <2>2. \A id \in Ids : status[id] = "waiting" => Caller(id) # i
    BY <1>1, <1>16 DEF HandlersWait
  <2>3. NoneBegins
    <3>1. \A id \in Ids : status[id] = "waiting" =>
             watching'[Caller(id)] = watching[Caller(id)] \/ life'[watching[Caller(id)]] # "up"
      BY <1>3, <1>4, <1>16, <2>2
    <3> QED BY <1>1, <1>4, <1>16, <3>1 DEF NoneBegins, TypeOK, Unsent
  <2>4. owed' \subseteq executed' /\ \A j \in Instances : handling'[j] = handling[j]
    BY <1>1, <1>4, <1>16
  <2> QED BY <1>7, <1>16, <2>1, <2>3, <2>4
\* The instance is cancelled, with the call it makes.
<1>17. ASSUME NEW i \in Instances, Unwind(i) PROVE Kept
  <2>1. Ended(i, mailbox) /\ UNCHANGED <<to, owed, executed, future>>
        /\ status' = [id \in Ids |-> IF Caller(id) = i /\ status[id] = "waiting" THEN "abandoned"
                                                                           ELSE status[id]]
    BY <1>17 DEF Unwind, Caller
  <2>2. \A id \in Ids : status'[id] = IF Caller(id) = i /\ status[id] = "waiting" THEN "abandoned"
                                                                           ELSE status[id]
    BY <2>1
  <2>3. TypeOK'
    BY <1>1, <1>4, <2>1 DEF TypeOK, Statuses
  <2>4. NoneBegins
    <3>1. \A id \in Ids :
             status[id] = "waiting" =>
               IF status'[id] = "waiting"
                 THEN watching'[Caller(id)] = watching[Caller(id)]
                        \/ life'[watching[Caller(id)]] # "up"
                 ELSE watching'[Caller(id)] = None
      BY <1>3, <1>4, <2>1, <2>2
    <3> QED BY <1>1, <1>4, <2>1, <2>2, <2>3, <3>1 DEF NoneBegins, TypeOK, Unsent
  <2>5. CallsInOrder' /\ CallsSent' /\ MonitorsMatch'
    BY <1>1, <2>4, NoneBeginsKeepsOrder
  <2>6. HandlersWait'
    BY <1>1, <1>4, <2>1, <2>2 DEF HandlersWait
  <2>7. BridgesInOrder' /\ BridgesSettle'
    BY <1>1, <1>3, <2>1, <2>2 DEF BridgesInOrder, BridgesSettle
  <2> QED BY <1>1, <2>1, <2>3, <2>5, <2>6, <2>7 DEF Ledger, Kept
<1>18. ASSUME NEW i \in Instances, HandleOther(i) PROVE Kept
  <2>1. handling[i] = None /\ UNCHANGED <<status, to, owed, executed, future>>
    BY <1>18 DEF HandleOther, AtLoop
  <2>2. CASE UNCHANGED <<life, name, watching, handling>>
    BY <1>1, <1>9, <2>1, <2>2 DEF TypeOK
  <2>3. CASE Ended(i, Took(i))
    BY <1>1, <1>16, <2>1, <2>3 DEF TypeOK
  <2> QED BY <1>18, <2>2, <2>3 DEF HandleOther
<1>19. ASSUME NEW i \in Instances, HandleCall(i) PROVE Kept
  <2> DEFINE id == Head(mailbox[i]).id
  <2>1. id \in Ids
    <3>1. mailbox[i] # <<>> /\ Head(mailbox[i]).tag = "CALL"
      BY <1>19 DEF HandleCall, AtLoop
    <3>2. Head(mailbox[i]) \in Messages
      BY <1>1, <1>3, <3>1, HeadsTrue
    <3> QED BY <3>1, <3>2, MessagesTyped
  <2>2. handling[i] = None /\ executed' = executed \cup {id} /\ UNCHANGED future
    BY <1>19 DEF HandleCall, AtLoop
  <2> HIDE DEF id
  <2>3. executed \subseteq executed' /\ executed' \subseteq Ids
    BY <1>1, <2>1, <2>2 DEF TypeOK
  <2>4. CASE UNCHANGED <<life, name, status, to, watching, handling>> /\ owed' \subseteq owed \cup {id}
    <3>1. owed' \subseteq executed'
      BY <1>1, <2>2, <2>4
    <3> QED BY <1>9, <2>2, <2>3, <2>4, <3>1
  <2>5. CASE \E box : Ended(i, box) /\ UNCHANGED <<status, to, owed>>
    BY <1>16, <2>2, <2>3, <2>5
  <2>6. CASE /\ \E s \in Servers : Request(i, s, Took(i))
             /\ handling' = [handling EXCEPT ![i] = id]
             /\ UNCHANGED <<life, name, owed>>
    <3>1. i \in Procs /\ ~Waiting(i)
      BY <1>1, <1>2, <1>3, <2>2 DEF HandlersWait
    <3>2. Begins(NextId(i)) /\ Caller(NextId(i)) = i
      BY <1>1, <2>6, <3>1, CallsBegin
    <3>3. CallsInOrder' /\ CallsSent' /\ MonitorsMatch' /\ TypeOK'
      BY <1>1, <2>1, <2>2, <2>3, <2>6, <3>2, BeginsKeepsOrder DEF TypeOK
    <3>4. NextId(i) \in Ids /\ \A x \in Ids : status'[x] = IF x = NextId(i) THEN "waiting" ELSE status[x]
      BY <1>1, <3>2 DEF Begins, TypeOK
    <3>5. \A j \in Instances : handling'[j] = IF j = i THEN id ELSE handling[j]
      BY <1>1, <2>6 DEF TypeOK
    <3>6. HandlersWait'
      <4>1. ASSUME NEW j \in Instances, j # i
            PROVE  /\ handling'[j] # None <=> \E x \in Ids : Caller(x) = j /\ status'[x] = "waiting"
                   /\ handling'[j] # None => handling'[j] \in executed'
        BY <1>1, <2>3, <3>2, <3>4, <3>5, <4>1 DEF HandlersWait
      <4>2. handling'[i] # None /\ handling'[i] \in executed'
            /\ \E x \in Ids : Caller(x) = i /\ status'[x] = "waiting"
        BY <1>3, <2>1, <2>2, <3>2, <3>4, <3>5
      <4> QED BY <4>1, <4>2 DEF HandlersWait
    <3>7. BridgesInOrder' /\ BridgesSettle'
      BY <1>1, <1>3, <2>2, <3>2, <3>4 DEF BridgesInOrder, BridgesSettle
    <3> QED BY <1>1, <2>2, <2>6, <3>3, <3>6, <3>7 DEF Ledger, Kept
  <2>7. \/ UNCHANGED <<life, name, status, to, watching, handling>> /\ owed' \subseteq owed \cup {id}
        \/ \E box : Ended(i, box) /\ UNCHANGED <<status, to, owed>>
        \/ /\ \E s \in Servers : Request(i, s, Took(i))
           /\ handling' = [handling EXCEPT ![i] = id]
           /\ UNCHANGED <<life, name, owed>>
    BY <1>19 DEF HandleCall, id
  <2> QED BY <2>4, <2>5, <2>6, <2>7
\* A call is over: its caller returns, or replies, or dies of the exception.
<1>20. ASSUME NEW p \in Procs, Waiting(p), NEW outcome \in {"replied", "exited", "timed_out"},
              NEW box, Conclude(p, outcome, box)
       PROVE  Kept
  <2> DEFINE id == Current(p)
  <2>1. id \in Ids /\ Caller(id) = p /\ status[id] = "waiting"
    BY <1>1, <1>20, WaitsWithCurrent
  <2>2. status' = [status EXCEPT ![id] = outcome] /\ UNCHANGED <<to, owed, executed>>
    BY <1>20 DEF Conclude
  <2> HIDE DEF id
  <2>3. \A x \in Ids : status'[x] = IF x = id THEN outcome ELSE status[x]
    BY <1>1, <2>2 DEF TypeOK
  <2>4. status' \in [Ids -> Statuses]
    BY <1>1, <2>2 DEF TypeOK, Statuses
  <2>5. \A x \in Ids : Caller(x) = p => status'[x] # "waiting"
    <3>1. \A x \in Ids : Caller(x) = p /\ status[x] = "waiting" => x = id
      BY <1>1, <2>1 DEF CallsInOrder
    <3> QED BY <2>3, <3>1
  <2>6. \A x \in Ids : Caller(x) # p => status'[x] = status[x]
    BY <2>1, <2>3
  <2>7. ASSUME UNCHANGED <<life, name>>, watching' = [watching EXCEPT ![p] = None] PROVE NoneBegins
    <3>1. \A q \in Procs : watching'[q] = IF q = p THEN None ELSE watching[q]
      BY <1>1, <2>7 DEF TypeOK
    <3>2. \A x \in Ids : status[x] = "waiting" =>
             IF status'[x] = "waiting" THEN watching'[Caller(x)] = watching[Caller(x)]
                                       ELSE watching'[Caller(x)] = None
      BY <1>3, <2>5, <2>6, <3>1
    <3> QED BY <1>1, <2>1, <2>2, <2>3, <2>4, <2>7, <3>1, <3>2 DEF NoneBegins, TypeOK, CallsSent, Unsent
  <2>8. ASSUME NoneBegins, TypeOK',
               \A j \in Instances : handling'[j] = IF j = p THEN None ELSE handling[j],
               \A b \in Bridges : future'[b] = IF b = p /\ future[b] = "pending" THEN "set"
                                                                            ELSE future[b]
        PROVE  Kept
    <3>1. CallsInOrder' /\ CallsSent' /\ MonitorsMatch'
      BY <1>1, <2>8, NoneBeginsKeepsOrder
    <3>2. HandlersWait'
      BY <1>1, <2>2, <2>5, <2>6, <2>8 DEF HandlersWait
    <3>3. BridgesInOrder' /\ BridgesSettle'
      <4>1. \A b \in Bridges : b # p => status'[<<b, 1>>] = status[<<b, 1>>] /\ future'[b] = future[b]
        BY <1>3, <2>6, <2>8
      <4>2. p \in Bridges => id = <<p, 1>>
        BY <1>3, <2>1
      <4> QED BY <1>1, <2>1, <2>8, <4>1, <4>2 DEF BridgesInOrder, BridgesSettle
    <3> QED BY <1>1, <2>2, <2>8, <3>1, <3>2, <3>3 DEF Ledger, Kept
  <2>9. p \in Instances => p \notin Clients /\ p \notin Bridges
    BY <1>3
  <2>10. CASE p \in Clients /\ watching' = Released(p) /\ UNCHANGED <<life, name, handling, future>>
    <3>1. p \notin Instances /\ p \notin Bridges
      BY <1>3, <2>10
    <3>2. TypeOK'
      BY <1>1, <2>2, <2>4, <2>10 DEF TypeOK, Released
    <3> QED BY <2>7, <2>8, <2>10, <3>1, <3>2 DEF Released
  <2>11. CASE /\ p \in Bridges /\ watching' = Released(p) /\ UNCHANGED <<life, name, handling>>
              /\ future' = [future EXCEPT ![p] = IF @ = "pending" THEN "set" ELSE @]
    <3>1. p \notin Instances
      BY <1>3, <2>11
    <3>2. TypeOK'
      BY <1>1, <2>2, <2>4, <2>11 DEF TypeOK, Released
    <3>3. \A b \in Bridges : future'[b] = IF b = p /\ future[b] = "pending" THEN "set" ELSE future[b]
      BY <1>1, <2>11 DEF TypeOK
    <3> QED BY <2>7, <2>8, <2>11, <3>1, <3>2, <3>3 DEF Released
  <2>12. CASE /\ p \in Instances /\ watching' = Released(p) /\ UNCHANGED <<life, name, future>>
              /\ handling' = [handling EXCEPT ![p] = None]
    <3>1. TypeOK'
      BY <1>1, <2>2, <2>4, <2>12 DEF TypeOK, Released
    <3>2. \A j \in Instances : handling'[j] = IF j = p THEN None ELSE handling[j]
      BY <1>1, <2>12 DEF TypeOK
    <3> QED BY <2>7, <2>8, <2>9, <2>12, <3>1, <3>2 DEF Released
  <2>13. CASE p \in Instances /\ Ended(p, box) /\ UNCHANGED future
    <3>1. TypeOK'
      BY <1>1, <1>4, <2>2, <2>4, <2>13 DEF TypeOK
    <3>2. \A x \in Ids : status[x] = "waiting" =>
             IF status'[x] = "waiting"
               THEN watching'[Caller(x)] = watching[Caller(x)]
                      \/ life'[watching[Caller(x)]] # "up"
               ELSE watching'[Caller(x)] = None
      BY <1>3, <1>4, <2>5, <2>6, <2>13
    <3>3. NoneBegins
      BY <1>1, <1>4, <2>1, <2>2, <2>3, <2>4, <2>13, <3>2 DEF NoneBegins, TypeOK, Unsent
    <3> QED BY <1>4, <2>8, <2>9, <2>13, <3>1, <3>3
  <2> QED BY <1>20, <2>10, <2>11, <2>12, <2>13 DEF Conclude
<1>21. ASSUME NEW p \in Procs, Run(p) PROVE Kept
  <2>1. Waiting(p)
    BY <1>21 DEF Run, Await, Expire, Receives
  <2>2. CASE \E outcome \in {"replied", "exited", "timed_out"} : \E box : Conclude(p, outcome, box)
    BY <1>20, <2>1, <2>2
  <2>3. CASE UNCHANGED <<life, name, status, to, watching, handling, owed, executed, future>>
    BY <1>1, <1>9, <2>3 DEF TypeOK
  <2>4. ASSUME NEW m, NEW box, Conclude(p, IF m.value = "value" THEN "replied" ELSE "exited", box)
        PROVE  \E outcome \in {"replied", "exited", "timed_out"} : \E b : Conclude(p, outcome, b)
    BY <2>4
  <2> QED BY <1>21, <2>2, <2>3, <2>4 DEF Run, Await, Expire
<1> QED
  BY <1>5, <1>6, <1>10, <1>11, <1>12, <1>13, <1>14, <1>15, <1>17, <1>18, <1>19, <1>21, <1>22
     DEF Next, Serve, Bridge, Kept

-----------------------------------------------------------------------------
(* Each step keeps the promise.                                            *)

LEMMA PromiseStep ==
  ASSUME IInv, [Next]_vars
  PROVE  Promise!Next
<1> DEFINE Keeps == /\ \A id \in Ids : Promise!Moves(id)
                    /\ executed \subseteq executed' /\ \A id \in executed' \ executed : Promise!Executes(id)
                    /\ Stopped \subseteq Stopped'
<1>1. /\ Ledger /\ TypeOK /\ CallsInOrder /\ CallsSent /\ HandlersWait /\ owed \subseteq executed
      /\ MailTrue /\ Ledger' /\ TypeOK'
  BY CallsKept DEF IInv, Ledger
<1>2. ASSUME UNCHANGED <<status, to>> PROVE \A id \in Ids : Promise!Moves(id)
  BY <1>2 DEF Promise!Moves, Unsent
<1>3. ASSUME \A j \in Instances : life'[j] = life[j] \/ life'[j] \in {"doomed", "ended"}
                                                      \/ life[j] = "absent"
      PROVE  Stopped \subseteq Stopped'
  BY <1>3 DEF Stopped
<1>4. ASSUME NEW i \in Instances, NEW box, Ended(i, box) PROVE Stopped \subseteq Stopped'
  <2>1. \A j \in Instances : life'[j] = IF j = i THEN "ended" ELSE life[j]
    BY <1>1, <1>4 DEF Ended, TypeOK
  <2> QED BY <1>3, <2>1
<1>5. ASSUME NEW id, Begins(id) PROVE \A x \in Ids : Promise!Moves(x)
  <2>1. PICK s \in Servers : /\ name[s] # None
                             /\ status' = [status EXCEPT ![id] = "waiting"]
                             /\ to' = [to EXCEPT ![id] = name[s]]
    BY <1>5 DEF Begins
  <2>2. name[s] \in Instances
    BY <1>1, <2>1 DEF TypeOK
  <2>3. \A x \in Ids : /\ status'[x] = IF x = id THEN "waiting" ELSE status[x]
                       /\ to'[x] = IF x = id THEN name[s] ELSE to[x]
    BY <1>1, <2>1 DEF TypeOK
  <2> QED BY <1>5, <2>2, <2>3 DEF Begins, Promise!Moves, Unsent
<1>6. ASSUME UNCHANGED <<status, to, executed, life>> PROVE Keeps
  BY <1>2, <1>3, <1>6
<1> HIDE DEF Keeps
<1>7. ASSUME NEW c \in Clients, NEW s \in Servers, Call(c, s) PROVE Keeps
  <2>1. c \in Procs
    BY DEF Procs
  <2>2. Begins(NextId(c))
    BY <1>1, <1>7, <2>1, CallsBegin DEF Call
  <2> QED BY <1>3, <1>5, <1>7, <2>2 DEF Call, Keeps
<1>8. ASSUME NEW b \in Bridges, NEW s \in Servers, BridgeStart(b, s) PROVE Keeps
  <2>1. b \in Procs /\ status[<<b, 1>>] = "unused" /\ UNCHANGED <<life, executed>>
        /\ <<b, 1>> \in Ids /\ \A x \in Ids : Caller(x) = b => x = <<b, 1>>
    BY <1>8, Shapes DEF BridgeStart
  <2>2. CASE Request(b, s, mailbox)
    <3>1. ~Waiting(b)
      BY <1>1, <2>1, WaitsWithCurrent
    <3>2. Begins(NextId(b))
      BY <1>1, <2>1, <2>2, <3>1, CallsBegin
    <3> QED BY <1>3, <1>5, <2>1, <3>2 DEF Keeps
  <2>3. CASE status' = [status EXCEPT ![<<b, 1>>] = "refused"] /\ UNCHANGED to
    <3>1. \A x \in Ids : status'[x] = IF x = <<b, 1>> THEN "refused" ELSE status[x]
      BY <1>1, <2>3 DEF TypeOK
    <3>2. \A x \in Ids : Promise!Moves(x)
      BY <2>1, <2>3, <3>1 DEF Promise!Moves, Unsent
    <3> QED BY <1>3, <2>1, <3>2 DEF Keeps
  <2> QED BY <1>8, <2>2, <2>3 DEF BridgeStart
<1>19. ASSUME NEW b \in Bridges, BridgeCancelled(b) PROVE Keeps
  <2>1. <<b, 1>> \in Ids /\ status[<<b, 1>>] \in {"unused", "waiting"} /\ UNCHANGED <<life, to, executed>>
    BY <1>19, Shapes DEF BridgeCancelled
  <2>2. \A x \in Ids : status'[x] = IF x = <<b, 1>>
           THEN (IF status[x] = "waiting" THEN "abandoned" ELSE "cancelled") ELSE status[x]
    BY <1>1, <1>19, <2>1 DEF BridgeCancelled, TypeOK
  <2>3. \A x \in Ids : Promise!Moves(x)
    BY <2>1, <2>2 DEF Promise!Moves
  <2>4. DOMAIN status' = Ids
    BY <1>1, <1>19 DEF BridgeCancelled, TypeOK
  <2> QED BY <1>3, <2>1, <2>3, <2>4 DEF Keeps
<1>9. ASSUME NEW i \in Instances, NEW how \in Exits, Exit(i, how) PROVE Keeps
  <2>1. \A j \in Instances : life'[j] = IF j = i THEN "doomed" ELSE life[j]
    BY <1>1, <1>9 DEF Exit, TypeOK
  <2> QED BY <1>2, <1>3, <1>9, <2>1 DEF Exit, Keeps
<1>10. ASSUME NEW s \in Servers, Restart(s) PROVE Keeps
  <2>1. UNCHANGED <<status, to, executed>>
        /\ \E k : life[<<s, k>>] = "absent" /\ life' = [life EXCEPT ![<<s, k>>] = "up"]
    BY <1>10 DEF Restart
  <2>2. \A j \in Instances : life'[j] = life[j] \/ life[j] = "absent"
    BY <1>1, <2>1 DEF TypeOK
  <2> QED BY <1>2, <1>3, <2>1, <2>2 DEF Keeps
<1>11. ASSUME NEW i \in Instances, Unwind(i) PROVE Keeps
  <2>1. Ended(i, mailbox) /\ UNCHANGED <<to, executed>>
        /\ \A id \in Ids : status'[id] = status[id]
                            \/ (status[id] = "waiting" /\ status'[id] = "abandoned")
    BY <1>11 DEF Unwind
  <2>2. \A id \in Ids : Promise!Moves(id)
    BY <2>1 DEF Promise!Moves, Unsent
  <2> QED BY <1>4, <2>1, <2>2 DEF Keeps
<1>12. ASSUME NEW i \in Instances, HandleOther(i) PROVE Keeps
  <2>1. UNCHANGED <<status, to, executed>> /\ (UNCHANGED life \/ Ended(i, Took(i)))
    BY <1>12 DEF HandleOther
  <2> QED BY <1>2, <1>3, <1>4, <2>1 DEF Keeps
<1>13. ASSUME NEW i \in Instances, HandleCall(i) PROVE Keeps
  <2> DEFINE id == Head(mailbox[i]).id
  <2>1. i \in Procs /\ mailbox[i] # <<>> /\ Head(mailbox[i]).tag = "CALL" /\ life[i] = "up"
        /\ handling[i] = None /\ executed' = executed \cup {id}
    BY <1>13, Shapes DEF HandleCall, AtLoop
  <2>2. Head(mailbox[i]) \in True(i)
    BY <1>1, <2>1, HeadsTrue
  <2>3. to[id] = i /\ status[id] \notin Unsent
    BY <2>1, <2>2 DEF True, Unsent
  <2> HIDE DEF id
  <2>4. Promise!Executes(id)
    BY <2>1, <2>3 DEF Promise!Executes, Stopped
  <2>5. executed \subseteq executed' /\ \A x \in executed' \ executed : Promise!Executes(x)
    BY <2>1, <2>4
  <2>6. CASE UNCHANGED <<status, to, life>>
    BY <1>2, <1>3, <2>5, <2>6 DEF Keeps
  <2>7. CASE UNCHANGED <<status, to>> /\ \E box : Ended(i, box)
    BY <1>2, <1>4, <2>5, <2>7 DEF Keeps
  <2>8. CASE UNCHANGED life /\ \E s \in Servers : Request(i, s, Took(i))
    <3>1. ~Waiting(i)
      BY <1>1, <2>1, WaitsWithCurrent DEF HandlersWait
    <3>2. Begins(NextId(i))
      BY <1>1, <2>1, <2>8, <3>1, CallsBegin
    <3> QED BY <1>3, <1>5, <2>5, <2>8, <3>2 DEF Keeps
  <2> QED BY <1>13, <2>6, <2>7, <2>8 DEF HandleCall
\* A call is over, for a reason.
<1>14. ASSUME NEW p \in Procs, Waiting(p), NEW outcome \in {"replied", "exited", "timed_out"},
              NEW box, Conclude(p, outcome, box),
              outcome = "replied" => Current(p) \in executed,
              outcome = "exited" => to[Current(p)] \in Stopped
       PROVE  Keeps
  <2> DEFINE id == Current(p)
  <2>1. id \in Ids /\ status[id] = "waiting"
    BY <1>1, <1>14, WaitsWithCurrent
  <2>2. status' = [status EXCEPT ![id] = outcome] /\ UNCHANGED <<to, executed>>
        /\ (UNCHANGED life \/ (p \in Instances /\ Ended(p, box)))
    BY <1>14 DEF Conclude
  <2> HIDE DEF id
  <2>3. \A x \in Ids : status'[x] = IF x = id THEN outcome ELSE status[x]
    BY <1>1, <2>2 DEF TypeOK
  <2>4. \A x \in Ids : Promise!Moves(x)
    BY <1>14, <2>1, <2>2, <2>3 DEF Promise!Moves, id, Unsent
  <2> QED BY <1>3, <1>4, <2>2, <2>4 DEF Keeps
<1>15. ASSUME NEW p \in Procs, Run(p) PROVE Keeps
  <2>1. Waiting(p)
    BY <1>15 DEF Run, Await, Expire, Receives
  <2>2. CASE Expire(p)
    BY <1>14, <2>1, <2>2 DEF Expire
  <2>3. CASE Await(p)
    <3> DEFINE m == Head(mailbox[p])
               id == Current(p)
    <3>1. m \in True(p) /\ m \in Messages
      BY <1>1, <2>3, HeadsTrue DEF Await
    <3>2. \/ /\ OwnReply(m, id)
             /\ Conclude(p, IF m.value = "value" THEN "replied" ELSE "exited", Took(p))
          \/ OwnDown(m, id) /\ Conclude(p, "exited", Took(p))
          \/ UNCHANGED <<status, to, executed, life>>
      BY <2>3 DEF Await
    <3> HIDE DEF m
    <3>3. CASE /\ OwnReply(m, id)
               /\ Conclude(p, IF m.value = "value" THEN "replied" ELSE "exited", Took(p))
      <4>1. m.tag = "REPLY" /\ m.id = id
        BY <3>3 DEF OwnReply
      <4>2. IF m.value = "value" THEN id \in executed ELSE to[id] \in Stopped
        BY <3>1, <4>1 DEF True, Unsent
      <4>3. CASE m.value = "value"
        BY <1>14, <2>1, <3>3, <4>2, <4>3
      <4>4. CASE m.value # "value"
        BY <1>14, <2>1, <3>3, <4>2, <4>4
      <4> QED BY <4>3, <4>4
    <3>4. CASE OwnDown(m, id) /\ Conclude(p, "exited", Took(p))
      <4>1. m.tag = "DOWN" /\ m.inst = to[id]
        BY <3>4 DEF OwnDown, DOWN
      <4>2. to[id] \in Stopped
        BY <3>1, <4>1 DEF True, Unsent
      <4> QED BY <1>14, <2>1, <3>4, <4>2
    <3> QED BY <1>6, <3>2, <3>3, <3>4
  <2> QED BY <1>15, <2>2, <2>3 DEF Run
<1>16. ASSUME \/ \E s \in Servers : Cast(s)
              \/ \E b \in Bridges : CallOutside(b) \/ OuterTimeout(b)
              \/ \E id \in Ids : ReplyLater(id)
              \/ UNCHANGED vars
       PROVE  Keeps
  BY <1>6, <1>16 DEF Cast, CallOutside, OuterTimeout, ReplyLater, vars
<1>17. Keeps
  BY <1>7, <1>8, <1>9, <1>10, <1>11, <1>12, <1>13, <1>15, <1>16, <1>19
     DEF Next, Serve, Bridge
<1>18. DOMAIN status' = Ids /\ DOMAIN to' = Ids /\ Stopped' \subseteq Instances
  BY <1>1 DEF TypeOK, Stopped
<1> QED BY <1>17, <1>18 DEF Keeps, Promise!Next
-----------------------------------------------------------------------------
(* The mailboxes, and the theorems.                                        *)

LEMMA Invariance ==
  /\ Init => IInv
  /\ IInv /\ [Next]_vars => IInv'
<1>1. ASSUME Init PROVE IInv
  <2>1. /\ \A id \in Ids : status[id] = "unused" /\ to[id] = None
        /\ \A i \in Instances : handling[i] = None
        /\ \A p \in Procs : watching[p] = None /\ mailbox[p] = <<>>
        /\ \A b \in Bridges : future[b] = "none" /\ <<b, 1>> \in Ids
    BY <1>1, Shapes DEF Init
  <2>2. \A s \in Servers : <<s, 1>> \in Instances
    <3>1. \A s \in Servers : 1 \in 1 .. MaxStarts[s]
      BY GenServerAssumption
    <3> QED BY <3>1, Shapes
  <2>3. life \in [Instances -> {"up", "absent"}] /\ name \in [Servers -> Instances]
    BY <1>1, <2>2 DEF Init
  <2>4. \A s \in Servers : life[name[s]] # "absent"
    BY <1>1, <2>2 DEF Init
  <2>5. TypeOK
    BY <1>1, <2>3 DEF Init, TypeOK, Statuses
  <2>6. CallsInOrder /\ CallsSent /\ HandlersWait
    BY <2>1, <2>4 DEF CallsInOrder, CallsSent, HandlersWait, Unsent
  <2>7. MailTrue
    <3>1. mailbox = [p \in Procs |-> <<>>]
      BY <1>1 DEF Init
    <3>2. mailbox \in [Procs -> Seq(Messages)]
      BY <3>1
    <3>3. \A q \in Procs : mailbox[q] \in Seq([p \in Procs |-> True(p)][q])
      BY <3>1
    <3> QED BY <3>2, <3>3 DEF MailTrue, Boxes
  <2>8. MonitorsMatch /\ BridgesInOrder /\ BridgesSettle
    BY <2>1 DEF MonitorsMatch, BridgesInOrder, BridgesSettle
  <2> QED BY <1>1, <2>5, <2>6, <2>7, <2>8 DEF Init, IInv, Ledger
<1>2. ASSUME IInv, [Next]_vars PROVE MailTrue'
  <2> DEFINE F == [q \in Procs |-> True(q)']
             Fits == mailbox' \in Boxes(F)
  <2>1. /\ Ledger /\ TypeOK /\ CallsSent /\ MailTrue /\ Promise!Next
        /\ Ledger' /\ TypeOK' /\ HandlersWait /\ owed \subseteq executed
    BY <1>2, CallsKept, PromiseStep DEF IInv, Ledger
  <2>2. /\ executed \subseteq executed' /\ Stopped \subseteq Stopped'
        /\ \A id \in Ids : status[id] \notin Unsent =>
              to'[id] = to[id] /\ status'[id] \notin Unsent
        /\ \A id \in Ids : to[id] \in Stopped => to'[id] = to[id]
    <3>1. \A id \in Ids : to[id] \in Stopped => status[id] \notin Unsent
      BY <2>1, Shapes DEF CallsSent, Stopped, Unsent
    <3> QED BY <2>1, <3>1 DEF Promise!Next, Promise!Moves, Unsent
  <2>3. \A q \in Procs : True(q) \subseteq True(q)'
    <3> SUFFICES ASSUME NEW q \in Procs, NEW m \in True(q) PROVE m \in True(q)'
      OBVIOUS
    <3>1. m \in Messages /\ m.tag \in {"CALL", "CAST", "REPLY", "DOWN"}
          /\ (m.tag \in {"CALL", "REPLY"} => m.id \in Ids)
      BY MessagesTyped DEF True, Unsent
    <3> QED BY <2>2, <3>1 DEF True, Unsent
  <2>4. F \in [Procs -> SUBSET Messages] /\ \A q \in Procs : F[q] = True(q)'
    BY DEF True, Unsent
  <2>5. mailbox \in Boxes(F)
    <3>1. \A q \in Procs : mailbox[q] \in Seq(True(q))
      BY <2>1 DEF MailTrue, Boxes
    <3>2. \A q \in Procs : mailbox[q] \in Seq(F[q])
      BY <2>3, <2>4, <3>1
    <3> QED BY <2>1, <3>2 DEF MailTrue, Boxes
  <2> HIDE DEF F
  \* What may be sent.
  <2>6. ASSUME NEW id \in Ids, id \in executed', NEW q \in Procs PROVE REPLY(id, "value") \in F[q]
    <3>1. REPLY(id, "value") \in Messages
      BY MessagesTyped
    <3>2. REPLY(id, "value").tag = "REPLY" /\ REPLY(id, "value").value = "value"
          /\ REPLY(id, "value").id = id
      BY DEF REPLY
    <3> QED BY <2>4, <2>6, <3>1, <3>2 DEF True, Unsent
  <2>7. ASSUME NEW id \in Ids, to'[id] \in Stopped', NEW q \in Procs PROVE REPLY(id, "exited") \in F[q]
    <3>1. REPLY(id, "exited") \in Messages
      BY MessagesTyped
    <3>2. REPLY(id, "exited").tag = "REPLY" /\ REPLY(id, "exited").value = "exited"
          /\ REPLY(id, "exited").id = id
      BY DEF REPLY
    <3> QED BY <2>4, <2>7, <3>1, <3>2 DEF True, Unsent
  <2>8. ASSUME NEW id \in Ids, NEW q \in Procs, to'[id] = q, status'[id] \notin Unsent
        PROVE  CALL(id) \in F[q]
    <3>1. CALL(id) \in Messages
      BY MessagesTyped
    <3>2. CALL(id).tag = "CALL" /\ CALL(id).id = id
      BY DEF CALL
    <3> QED BY <2>4, <2>8, <3>1, <3>2 DEF True, Unsent
  <2>9. ASSUME NEW i \in Stopped', NEW arity \in {4, 5}, NEW q \in Procs PROVE DOWN(arity, i) \in F[q]
    <3>1. i \in Instances
      BY DEF Stopped
    <3>2. DOWN(arity, i) \in Messages
      BY <3>1, MessagesTyped
    <3>3. DOWN(arity, i).tag = "DOWN" /\ DOWN(arity, i).inst = i
      BY DEF DOWN
    <3> QED BY <2>4, <3>2, <3>3 DEF True, Unsent
  <2>10. \A q \in Procs : CAST \in F[q]
    <3>1. CAST \in Messages /\ CAST.tag = "CAST"
      BY MessagesTyped DEF CAST
    <3> QED BY <2>4, <3>1 DEF True, Unsent
  <2>11. \A p \in Procs : mailbox[p] # <<>> => Took(p) \in Boxes(F)
    BY <2>4, <2>5, BoxesKept DEF Took
  <2>12. ASSUME NEW box \in Boxes(F), NEW q \in Procs, NEW m \in F[q] PROVE Sent(box, q, m) \in Boxes(F)
    <3>1. m \in Messages
      BY <2>4
    <3> QED BY <2>4, <3>1, BoxesKept
  <2>13. ASSUME NEW box \in Boxes(F), NEW i \in Instances, Ended(i, box) PROVE Fits
    <3>1. i \in Stopped' /\ i \in Procs
      BY <2>1, <2>13, Shapes DEF Ended, Stopped, TypeOK
    <3>2. \A q \in Procs : DOWN(5, i) \in F[q]
      BY <2>9, <3>1
    <3>3. Told(5, i, box) \in Boxes(F)
      BY <2>4, <3>2, BoxesKept
    <3>4. [Told(5, i, box) EXCEPT ![i] = <<>>] \in Boxes(F)
      BY <2>4, <3>1, <3>3, BoxesKept
    <3> QED BY <2>13, <3>4 DEF Ended
  <2>14. ASSUME NEW box \in Boxes(F), NEW p \in Procs, NEW s \in Servers, ~Waiting(p),
                Request(p, s, box)
         PROVE  Fits
    <3>1. NextId(p) \in Ids /\ status[NextId(p)] = "unused"
      BY <2>1, <2>14, CallsBegin DEF Begins
    <3>2. /\ name[s] \in Procs /\ mailbox' = Sent(box, name[s], CALL(NextId(p)))
          /\ to'[NextId(p)] = name[s] /\ status'[NextId(p)] = "waiting"
      BY <2>1, <2>14, <3>1, Shapes DEF Request, TypeOK
    <3> QED BY <2>8, <2>12, <3>1, <3>2 DEF Unsent
  <2>15. \A p \in Procs : Waiting(p) <=> \E id \in Ids : Caller(id) = p /\ status[id] = "waiting"
    BY <2>1, WaitsWithCurrent
  <2>16. ASSUME NEW p \in Procs, Waiting(p), NEW outcome, NEW box \in Boxes(F),
                Conclude(p, outcome, box)
         PROVE  Fits
    <3>1. CASE mailbox' = box
      BY <3>1
    <3>2. CASE mailbox' = [box EXCEPT ![p] = <<>>]
      BY <2>4, <3>2, BoxesKept
    <3>3. CASE p \in Instances /\ mailbox' = Sent(box, handling[p][1], REPLY(handling[p], "value"))
      <4>1. handling[p] \in executed /\ handling[p] \in Ids
        BY <2>1, <2>15, <2>16, <3>3 DEF HandlersWait, TypeOK
      <4>2. handling[p][1] \in Procs /\ handling[p] \in executed'
        BY <2>2, <4>1, Shapes DEF Caller
      <4> QED BY <2>6, <2>12, <3>3, <4>1, <4>2
    <3>4. CASE p \in Instances /\ Ended(p, box)
      BY <2>13, <3>4
    <3> QED BY <2>16, <3>1, <3>2, <3>3, <3>4 DEF Conclude
  <2>17. ASSUME UNCHANGED mailbox PROVE Fits
    BY <2>5, <2>17
  <2> HIDE DEF Fits
  \* The steps.
  <2>18. ASSUME NEW c \in Clients, NEW s \in Servers, Call(c, s) PROVE Fits
    <3>1. c \in Procs
      BY DEF Procs
    <3> QED BY <2>5, <2>14, <2>18, <3>1 DEF Call
  <2>19. ASSUME NEW b \in Bridges, NEW s \in Servers, BridgeStart(b, s) PROVE Fits
    <3>1. b \in Procs /\ ~Waiting(b)
      BY <2>15, <2>19, Shapes DEF BridgeStart
    <3> QED BY <2>5, <2>14, <2>17, <2>19, <3>1 DEF BridgeStart
  <2>28. ASSUME NEW b \in Bridges, BridgeCancelled(b) PROVE Fits
    <3>1. b \in Procs
      BY Shapes
    <3>2. [mailbox EXCEPT ![b] = <<>>] \in Boxes(F)
      BY <2>4, <2>5, <3>1, BoxesKept
    <3> QED BY <2>28, <3>2 DEF BridgeCancelled, Fits
  <2>20. ASSUME NEW i \in Instances, NEW how \in Exits, Exit(i, how) PROVE Fits
    <3>1. CASE mailbox' = Told(4, i, mailbox)
      <4>1. i \in Stopped'
        BY <2>1, <2>20 DEF Exit, Stopped, TypeOK
      <4>2. \A q \in Procs : DOWN(4, i) \in F[q]
        BY <2>9, <4>1
      <4>3. Told(4, i, mailbox) \in Boxes(F)
        BY <2>4, <2>5, <4>2, BoxesKept
      <4> QED BY <3>1, <4>3 DEF Fits
    <3> QED BY <2>17, <2>20, <3>1 DEF Exit
  <2>21. ASSUME NEW i \in Instances, HandleCall(i) PROVE Fits
    <3> DEFINE id == Head(mailbox[i]).id
    <3>1. i \in Procs /\ mailbox[i] # <<>> /\ Head(mailbox[i]).tag = "CALL"
          /\ handling[i] = None /\ executed' = executed \cup {id}
      BY <2>21, Shapes DEF HandleCall, AtLoop
    <3>2. Head(mailbox[i]) \in Messages /\ Head(mailbox[i]) \in True(i)
      BY <2>1, <3>1, HeadsTrue
    <3>3. id \in Ids /\ to[id] = i /\ status[id] \notin Unsent
      BY <3>1, <3>2, MessagesTyped DEF True, Unsent
    <3>4. Took(i) \in Boxes(F)
      BY <2>11, <3>1
    <3>5. id[1] \in Procs
      BY <3>3, Shapes DEF Caller
    <3> HIDE DEF id
    <3>6. CASE mailbox' = Sent(Took(i), id[1], REPLY(id, "value"))
      BY <2>6, <2>12, <3>1, <3>3, <3>4, <3>5, <3>6 DEF Fits
    <3>7. CASE mailbox' = Took(i)
      BY <3>4, <3>7 DEF Fits
    <3>8. CASE Ended(i, Sent(Took(i), id[1], REPLY(id, "exited")))
      <4>1. i \in Stopped' /\ to'[id] = i
        BY <2>1, <2>2, <3>3, <3>8 DEF Ended, Stopped, TypeOK
      <4>2. Sent(Took(i), id[1], REPLY(id, "exited")) \in Boxes(F)
        BY <2>7, <2>12, <3>3, <3>4, <3>5, <4>1
      <4> QED BY <2>13, <3>8, <4>2
    <3>9. CASE Ended(i, Took(i))
      BY <2>13, <3>4, <3>9
    <3>10. CASE \E s \in Servers : Request(i, s, Took(i))
      BY <2>1, <2>14, <2>15, <3>1, <3>4, <3>10 DEF HandlersWait
    <3> QED BY <2>21, <3>6, <3>7, <3>8, <3>9, <3>10 DEF HandleCall, id
  <2>22. ASSUME NEW i \in Instances, HandleOther(i) \/ Unwind(i) PROVE Fits
    <3>1. CASE HandleOther(i)
      <4>1. Took(i) \in Boxes(F)
        BY <2>11, <3>1, Shapes DEF HandleOther, AtLoop
      <4> QED BY <2>13, <3>1, <4>1 DEF HandleOther, Fits
    <3>2. CASE Unwind(i)
      BY <2>5, <2>13, <3>2 DEF Unwind
    <3> QED BY <2>22, <3>1, <3>2
  <2>23. ASSUME NEW p \in Procs, Run(p) PROVE Fits
    <3>1. Waiting(p)
      BY <2>23 DEF Run, Await, Expire, Receives
    <3>2. CASE Await(p)
      <4>1. Took(p) \in Boxes(F)
        BY <2>11, <3>2 DEF Await
      <4>2. mailbox' = Took(p) \/ \E outcome : Conclude(p, outcome, Took(p))
        BY <3>2 DEF Await
      <4> QED BY <2>16, <3>1, <4>1, <4>2 DEF Fits
    <3>3. CASE Expire(p)
      BY <2>5, <2>16, <3>1, <3>3 DEF Expire
    <3> QED BY <2>23, <3>2, <3>3 DEF Run
  <2>24. ASSUME NEW s \in Servers, Cast(s) PROVE Fits
    <3>1. name[s] \in Procs
      BY <2>1, <2>24, Shapes DEF Cast, TypeOK
    <3> QED BY <2>5, <2>10, <2>12, <2>24, <3>1 DEF Cast, Fits
  <2>25. ASSUME NEW id \in Ids, ReplyLater(id) PROVE Fits
    <3>1. id[1] \in Procs /\ id \in executed'
      BY <2>1, <2>2, <2>25, Shapes DEF ReplyLater, Caller
    <3> QED BY <2>5, <2>6, <2>12, <2>25, <3>1 DEF ReplyLater, Fits
  <2>26. ASSUME \/ \E s \in Servers : Restart(s)
                \/ \E b \in Bridges : CallOutside(b) \/ OuterTimeout(b)
                \/ UNCHANGED vars
         PROVE  Fits
    BY <2>17, <2>26 DEF Restart, CallOutside, OuterTimeout, vars
  <2>27. Fits
    BY <1>2, <2>18, <2>19, <2>20, <2>21, <2>22, <2>23, <2>24, <2>25, <2>26,
       <2>28 DEF Next, Serve, Bridge
  <2> QED BY <2>27 DEF Fits, F, MailTrue
<1>3. IInv /\ [Next]_vars => IInv'
  BY <1>2, CallsKept DEF IInv
<1> QED BY <1>1, <1>3

\* gen_server.call keeps its promise to every caller, in every instance: a reply
\* is returned only if the call was handled, an exit is reported only of a server on its
\* way out, and a call has one outcome (_call_from_process, gen_server/core.py).
THEOREM PromiseKept == SafetySpec => KeepsPromise
<1>1. Init => Promise!Init
  BY DEF Init, Promise!Init, Stopped, Instances
<1>2. IInv /\ [Next]_vars => [Promise!Next]_Promise!vars
  BY PromiseStep
<1> QED BY <1>1, <1>2, Invariance, PTL DEF SafetySpec, KeepsPromise, Promise!Spec

\* A caller monitors a server exactly while it waits for it and the server lives, however
\* its calls, and the handlers that make calls, come to an end.
THEOREM MonitorsAlwaysMatch == SafetySpec => []MonitorsMatchCalls
<1>1. IInv => MonitorsMatchCalls
  <2> SUFFICES ASSUME IInv, NEW p \in Procs
               PROVE  /\ watching[p] # None => Waiting(p) /\ to[Current(p)] = watching[p]
                      /\ Waiting(p) /\ life[to[Current(p)]] = "up" => watching[p] = to[Current(p)]
    BY DEF MonitorsMatchCalls
  <2>1. TypeOK /\ CallsInOrder /\ MonitorsMatch
    BY DEF IInv, Ledger
  <2>2. /\ Waiting(p) <=> \E id \in Ids : Caller(id) = p /\ status[id] = "waiting"
        /\ Waiting(p) => /\ Current(p) \in Ids /\ Caller(Current(p)) = p
                         /\ status[Current(p)] = "waiting"
    BY <2>1, WaitsWithCurrent
  <2>3. \A id \in Ids : Waiting(p) /\ Caller(id) = p /\ status[id] = "waiting" => id = Current(p)
    BY <2>1, <2>2 DEF CallsInOrder
  <2> QED BY <2>1, <2>2, <2>3 DEF MonitorsMatch
<1> QED BY <1>1, Invariance, PTL DEF SafetySpec

\* A caller outside any process is left with a pending future only while its bridge has
\* yet to run or waits itself, or because its bridge was cancelled
\* (_call_from_outside_process, gen_server/core.py).
THEOREM BridgesAlwaysSettle == SafetySpec => []BridgesSettle
<1>1. IInv => BridgesSettle
  BY DEF IInv
<1> QED BY <1>1, Invariance, PTL DEF SafetySpec
=============================================================================
