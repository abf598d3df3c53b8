---------------------------- MODULE NodesProofs ----------------------------
(***************************************************************************)
(* Proofs about Nodes, for any nodes, processes, cookies, bounds on        *)
(* operations, connections and faults.                                     *)
(***************************************************************************)
EXTENDS Nodes, FiniteSetTheorems, SequenceTheorems, WellFoundedInduction, TLAPS

USE NodesAssumption

-----------------------------------------------------------------------------
(* The inductive invariant.                                                *)

\* References: none, one that monitor() gave out, the hash of one.
RefValues == {"none", "exact", "hash"} \X Nat

\* Frames: those of the handshake, and control messages.
Kinds   == {"link", "unlink", "exit", "monitor", "demonitor", "down", "send", "reg_send"}
Reasons == {"none", "noproc", "normal", "shutdown", "exception"}
Controls == [kind : Kinds, from : Procs, to : Procs, ref : RefValues, reason : Reasons]
Digests == [cookie : {start.cookie[n] : start \in Starts, n \in Node}, challenge : Sides]
Frames ==
    UNION {[kind : {"name"}, node : Node], [kind : {"status", "challenge"}],
           [kind : {"reply", "ack"}, digest : Digests], Controls}

Handshaking == {"status", "challenge", "ack"}   \* what a client waits for
Stages == Handshaking \union {"name", "reply", "up", "closed"}
Connection ==
    [node : [Sides -> Node], at : [Sides -> Stages], wire : [Sides -> Seq(Frames)],
     open : BOOLEAN, owner : Tasks]

IsControl(f) == f.kind \in Kinds    \* a control message

\* How many of the server's three frames the client has taken.
Taken3(c) == CASE c.at["client"] = "status" -> 0
               [] c.at["client"] = "challenge" -> 1
               [] OTHER -> 2

\* A server that waits for a name has sent nothing, and finds no control message;
\* one that waits for a reply finds no other frame than its client's reply.
ServerStage(c) ==
    /\ c.at["server"] = "name" =>
          /\ c.at["client"] \in {"status", "closed"}
          /\ c.wire["client"] = <<>> /\ Len(c.wire["server"]) <= 1
          /\ \A k \in DOMAIN c.wire["server"] : ~IsControl(c.wire["server"][k])
    /\ c.at["server"] = "reply" =>
          /\ c.at["client"] # "up"
          /\ \A k \in DOMAIN c.wire["server"] :
                /\ c.wire["server"][k].kind = "reply"
                /\ c.wire["server"][k].digest = Digest(c.node["client"], "server")

\* The third frame a client gets is the answer of a server that has checked it,
\* and no control message comes before it.
ClientStage(c) ==
    c.at["client"] \in Handshaking =>
        /\ \A k \in DOMAIN c.wire["client"] :
              /\ k + Taken3(c) >= 3 => c.at["server"] \notin {"name", "reply"}
              /\ k + Taken3(c) = 3 =>
                    c.wire["client"][k].digest = Digest(c.node["server"], "client")
              /\ k + Taken3(c) <= 3 => ~IsControl(c.wire["client"][k])
        /\ c.open /\ c.at["server"] = "reply" => Len(c.wire["client"]) + Taken3(c) = 2
        /\ c.open /\ c.at["server"] = "up" => Len(c.wire["client"]) + Taken3(c) >= 3

\* Either end is up only with the other's cookie.
UpAgreed(c) ==
    \A s \in Sides :
        c.at[s] = "up" => cookie[c.node["client"]] = cookie[c.node["server"]]

\* A control message is from the one end to the other.
Crosses(m, n) == Home[m.from] = n /\ Home[m.to] # n
WiresCross(c) ==
    \A s \in Sides : \A k \in DOMAIN c.wire[s] :
        IsControl(c.wire[s][k]) =>
            /\ Home[c.wire[s][k].to] = c.node[s]
            /\ Home[c.wire[s][k].from] = c.node[Other(s)]

Good(c) ==
    /\ c \in Connection /\ c.node["client"] # c.node["server"]
    /\ ServerStage(c) /\ ClientStage(c) /\ UpAgreed(c) /\ WiresCross(c)

\* Node n runs task t: a process of its own, or the loop of one of its ends.
TaskOf(cs, t, n) ==
    IF t \in Procs THEN Home[t] = n
    ELSE t[1] \in DOMAIN cs /\ cs[t[1]].node[t[2]] = n

Served(cs, reg) ==
    \A n, m \in Node : reg[n][m] # 0 =>
        /\ reg[n][m] \in DOMAIN cs
        /\ LET c == cs[reg[n][m]]
           IN /\ c.at[Side(c, n)] = "up" /\ c.node[Side(c, n)] = n
              /\ c.node[Other(Side(c, n))] = m

ConnsGood(cs) ==
    /\ cs \in Seq(Connection) /\ Len(cs) <= MaxConns
    /\ \A i \in DOMAIN cs : Good(cs[i])
    /\ \A i \in DOMAIN cs : TaskOf(cs, cs[i].owner, cs[i].node["client"])

\* What a task still has to send is from its node to another.
TodoCrosses ==
    \A t \in Tasks : \A k \in DOMAIN todo[t] :
        \E n \in Node : TaskOf(conns, t, n) /\ Crosses(todo[t][k], n)

Monitors == [ref : RefValues, pid : Procs]
TablesCross ==
    \A p \in Procs :
        /\ \A q \in remote_links[p] : Remote(p, q)
        /\ \A x \in remote_monitors[p] \union monitored_by[p] : Remote(p, x.pid)
        /\ IsFiniteSet(remote_links[p]) /\ IsFiniteSet(monitored_by[p])

TypeOK ==
    /\ \E start \in Starts : cookie = start.cookie
    /\ conns \in Seq(Connection)
    /\ connections \in [Node -> [Node -> Nat]]
    /\ status \in [Procs -> {"live", "ending", "stuck", "gone"}]
    /\ todo \in [Tasks -> Seq(Controls)]
    /\ remote_links \in [Procs -> SUBSET Procs]
    /\ remote_monitors \in [Procs -> SUBSET Monitors]
    /\ monitored_by \in [Procs -> SUBSET Monitors]
    /\ inbox \in [Procs -> SUBSET Controls]
    /\ ops \in [Procs -> Nat] /\ faults \in Nat

IInv ==
    /\ TypeOK /\ ConnsGood(conns) /\ Served(conns, connections)
    /\ TodoCrosses /\ TablesCross

-----------------------------------------------------------------------------
(* Lists and sets.                                                         *)

\* A set of naturals that is not empty has a least member.
LEMMA LeastOf ==
    ASSUME NEW S \in SUBSET Nat, S # {}
    PROVE  Min(S) \in S /\ \A y \in S : Min(S) <= y
<1>1. PICK x \in S : \A y \in S : <<y, x>> \notin OpToRel(<, Nat)
  BY NatLessThanWellFounded, WFMin
<1>2. OpToRel(<, Nat) = {ss \in Nat \X Nat : ss[1] < ss[2]}
  BY DEF OpToRel
<1>3. \A y \in S : x <= y
  <2> SUFFICES ASSUME NEW y \in S PROVE x <= y
    OBVIOUS
  <2>1. <<y, x>> \in Nat \X Nat /\ x \in Nat /\ y \in Nat
    OBVIOUS
  <2>2. y < x => <<y, x>> \in {ss \in Nat \X Nat : ss[1] < ss[2]}
    BY <2>1
  <2>3. ~(y < x)
    BY <1>1, <1>2, <2>2
  <2> QED BY <2>1, <2>3
<1> QED BY <1>3 DEF Min

\* Where a task has to stop sending is a place in its list.
LEMMA StopPlace ==
    ASSUME NEW cs, NEW reg, NEW n, NEW ms \in Seq(Controls)
    PROVE  Stop(cs, reg, n, ms) \in {0} \union DOMAIN ms
<1> DEFINE I == {i \in 1 .. Len(ms) : ~Sendable(cs, reg, n, ms[i])}
<1>1. Stop(cs, reg, n, ms) = IF I # {} THEN Min(I) ELSE 0
  BY DEF Stop, SelectInSeq
<1>2. I \in SUBSET Nat /\ I \subseteq DOMAIN ms
  OBVIOUS
<1> HIDE DEF I
<1> QED BY <1>1, <1>2, LeastOf

\* Counting the members up to each numbers a finite set of naturals.
Rank(S, p) == Cardinality({q \in S : q <= p})

\* Every number up to the size of the set is the rank of one member.
LEMMA RankOnto ==
    ASSUME NEW S \in SUBSET Nat, IsFiniteSet(S)
    PROVE  \A i \in 1 .. Cardinality(S) : \E p \in S : Rank(S, p) = i
<1> DEFINE n == Cardinality(S)
           Upto(p) == {q \in S : q <= p}
           f == [p \in S |-> Cardinality(Upto(p))]
<1>1. n \in Nat
  BY FS_CardinalityType
<1>2. ASSUME NEW p \in S
      PROVE  IsFiniteSet(Upto(p)) /\ Cardinality(Upto(p)) \in 1 .. n
  <2>1. Upto(p) \subseteq S /\ p \in Upto(p)
    OBVIOUS
  <2>2. IsFiniteSet(Upto(p)) /\ Cardinality(Upto(p)) <= n
    BY <2>1, FS_Subset
  <2>3. Cardinality(Upto(p)) # 0
    BY <2>1, <2>2, FS_EmptySet
  <2> QED BY <1>1, <2>2, <2>3, FS_CardinalityType
<1>3. ASSUME NEW p \in S, NEW q \in S, p < q
      PROVE  Cardinality(Upto(p)) # Cardinality(Upto(q))
  <2>1. \A x \in S : x \in Nat
    OBVIOUS
  <2>2. Upto(p) \subseteq Upto(q)
    <3> SUFFICES ASSUME NEW x \in S, x <= p PROVE x <= q
      OBVIOUS
    <3>1. p \in Nat /\ q \in Nat /\ x \in Nat
      BY <2>1
    <3> QED BY <1>3, <3>1
  <2>3. q \in Upto(q) /\ q \notin Upto(p)
    BY <1>3, <2>1
  <2>4. IsFiniteSet(Upto(q))
    BY <1>2
  <2> HIDE DEF Upto
  <2>5. Upto(p) # Upto(q)
    BY <2>3
  <2> QED BY <2>2, <2>4, <2>5, FS_Subset
<1>4. f \in [S -> 1 .. n]
  BY <1>2
<1>5. \A p, q \in S : f[p] = f[q] => p = q
  <2> SUFFICES ASSUME NEW p \in S, NEW q \in S, p # q PROVE f[p] # f[q]
    OBVIOUS
  <2>1. p < q \/ q < p
    OBVIOUS
  <2> QED BY <1>3, <2>1
<1> HIDE DEF f, n
<1>6. f \in Injection(S, 1 .. n)
  BY <1>4, <1>5 DEF Injection, IsInjective
<1>7. IsFiniteSet(1 .. n) /\ Cardinality(1 .. n) = n
  BY <1>1, FS_Interval
<1>8. f \in Surjection(S, 1 .. n)
  BY <1>6, <1>7, FS_Injection DEF n
<1>9. \A i \in 1 .. n : \E p \in S : f[p] = i
  BY <1>8 DEF Surjection
<1> QED BY <1>9 DEF Rank, f, n

\* What a node sends over a connection is of its list, and addressed there.
LEMMA AddressedFrom ==
    ASSUME NEW reg, NEW n, NEW i, NEW ms \in Seq(Controls)
    PROVE  /\ Addressed(ms, reg, n, i) \in Seq(Controls)
           /\ \A j \in DOMAIN Addressed(ms, reg, n, i) :
                \E k \in DOMAIN ms : /\ Addressed(ms, reg, n, i)[j] = ms[k]
                                     /\ reg[n][Dest(ms[k])] = i
<1> DEFINE S == {k \in DOMAIN ms : reg[n][Dest(ms[k])] = i}
           pos == [j \in 1 .. Cardinality(S) |-> CHOOSE k \in S : Rank(S, k) = j]
           A == Addressed(ms, reg, n, i)
<1>1. S \in SUBSET Nat /\ IsFiniteSet(S) /\ Cardinality(S) \in Nat
  <2>1. DOMAIN ms = 1 .. Len(ms) /\ Len(ms) \in Nat
    OBVIOUS
  <2>2. IsFiniteSet(1 .. Len(ms))
    BY <2>1, FS_Interval
  <2>3. IsFiniteSet(S)
    BY <2>1, <2>2, FS_Subset
  <2> QED BY <2>1, <2>3, FS_CardinalityType
<1>2. \A j \in 1 .. Cardinality(S) : pos[j] \in S
  BY <1>1, RankOnto
<1>3. A = [j \in 1 .. Cardinality(S) |-> ms[pos[j]]]
  BY DEF Addressed, Rank
<1>4. \A k \in S : k \in DOMAIN ms /\ ms[k] \in Controls /\ reg[n][Dest(ms[k])] = i
  OBVIOUS
<1> HIDE DEF S, pos
<1> DEFINE n1 == Cardinality(S)
<1>5. [j \in 1 .. Cardinality(S) |-> ms[pos[j]]] \in Seq(Controls)
  <2>1. \A j \in 1 .. n1 : ms[pos[j]] \in Controls
    BY <1>2, <1>4
  <2>2. n1 \in Nat
    BY <1>1
  <2> HIDE DEF n1
  <2>3. [j \in 1 .. n1 |-> ms[pos[j]]] \in Seq(Controls)
    BY <2>1, <2>2
  <2> QED BY <2>3 DEF n1
<1>6. A \in Seq(Controls) /\ DOMAIN A = 1 .. Cardinality(S)
  BY <1>3, <1>5
<1>7. \A j \in DOMAIN A : \E k \in DOMAIN ms : A[j] = ms[k] /\ reg[n][Dest(ms[k])] = i
  BY <1>2, <1>3, <1>4, <1>6
<1> QED BY <1>6, <1>7

\* A finite set as a list.
LEMMA SetAsSeq ==
    ASSUME NEW S, IsFiniteSet(S)
    PROVE  SetToSeq(S) \in Seq(S)
<1>1. Cardinality(S) \in Nat /\ ExistsBijection(1 .. Cardinality(S), S)
  BY FS_CardinalityType
<1>2. PICK f \in [1 .. Cardinality(S) -> S] : IsInjective(f)
  BY <1>1 DEF ExistsBijection, Bijection, Injection
<1>3. SetToSeq(S) \in [1 .. Cardinality(S) -> S]
  BY <1>2 DEF SetToSeq
<1> QED BY <1>1, <1>3

\* Two lists after each other.
LEMMA ConcatParts ==
    ASSUME NEW S, NEW w \in Seq(S), NEW f \in Seq(S)
    PROVE  /\ w \o f \in Seq(S) /\ Len(w \o f) = Len(w) + Len(f)
           /\ Len(w) \in Nat /\ Len(f) \in Nat
           /\ \A k \in DOMAIN (w \o f) :
                \/ k \in DOMAIN w /\ (w \o f)[k] = w[k]
                \/ /\ k \in Nat /\ k > Len(w) /\ k - Len(w) \in DOMAIN f
                   /\ (w \o f)[k] = f[k - Len(w)]
<1>1. w \o f \in Seq(S) /\ Len(w \o f) = Len(w) + Len(f)
  OBVIOUS
<1>2. Len(w) \in Nat /\ Len(f) \in Nat
  OBVIOUS
<1>3. ASSUME NEW k \in DOMAIN (w \o f)
      PROVE  \/ k \in DOMAIN w /\ (w \o f)[k] = w[k]
             \/ /\ k \in Nat /\ k > Len(w) /\ k - Len(w) \in DOMAIN f
                /\ (w \o f)[k] = f[k - Len(w)]
  <2>1. k \in 1 .. (Len(w) + Len(f))
    BY <1>1
  <2>2. CASE k <= Len(w)
    BY <2>1, <2>2, <1>2
  <2>3. CASE k > Len(w)
    BY <2>1, <2>3, <1>2
  <2> QED BY <2>1, <2>2, <2>3, <1>2
<1> QED BY <1>1, <1>2, <1>3

\* What is left of a list without its head.
LEMMA TailParts ==
    ASSUME NEW S, NEW w \in Seq(S), w # <<>>
    PROVE  /\ Head(w) = w[1] /\ w[1] \in S /\ 1 \in DOMAIN w
           /\ Tail(w) \in Seq(S) /\ Len(Tail(w)) = Len(w) - 1
           /\ Len(w) \in Nat /\ Len(w) >= 1
           /\ \A k \in DOMAIN Tail(w) :
                k \in Nat /\ k + 1 \in DOMAIN w /\ Tail(w)[k] = w[k + 1]
<1>1. Len(w) \in Nat /\ Len(w) >= 1 /\ DOMAIN w = 1 .. Len(w)
  OBVIOUS
<1>2. Tail(w) \in Seq(S) /\ Len(Tail(w)) = Len(w) - 1
  BY <1>1
<1>3. \A k \in DOMAIN Tail(w) :
          k \in Nat /\ k + 1 \in DOMAIN w /\ Tail(w)[k] = w[k + 1]
  BY <1>1, <1>2
<1> QED BY <1>1, <1>2, <1>3

-----------------------------------------------------------------------------
(* One connection.                                                         *)

\* Control messages are frames.
LEMMA ControlFrames == Controls \subseteq Frames /\ \A m \in Controls : IsControl(m)
BY DEF Controls, Frames, IsControl

\* A connection has two ends, each the other of the other.
LEMMA TwoEnds ==
    /\ "client" \in Sides /\ "server" \in Sides /\ "client" # "server"
    /\ \A s \in Sides : Other(s) \in Sides /\ Other(s) # s /\ Other(Other(s)) = s
    /\ Other("client") = "server" /\ Other("server") = "client"
<1>1. Sides = {"client", "server"}
  BY DEF Sides
<1>2. Other("client") = "server" /\ Other("server") = "client"
  BY DEF Other
<1> QED BY <1>1, <1>2

\* Writing to one end of a connection changes what is on its way there.
LEMMA PutFields ==
    ASSUME NEW c \in Connection, NEW s \in Sides, NEW f \in Seq(Frames)
    PROVE  /\ Put(c, s, f) \in Connection
           /\ Put(c, s, f).node = c.node /\ Put(c, s, f).at = c.at
           /\ Put(c, s, f).open = c.open /\ Put(c, s, f).owner = c.owner
           /\ Put(c, s, f).wire[Other(s)] = c.wire[Other(s)]
           /\ Put(c, s, f).wire[s] = IF c.open THEN c.wire[s] \o f ELSE c.wire[s]
<1>1. /\ c.node \in [Sides -> Node] /\ c.at \in [Sides -> Stages]
      /\ c.wire \in [Sides -> Seq(Frames)] /\ c.open \in BOOLEAN /\ c.owner \in Tasks
  BY DEF Connection
<1>2. CASE ~c.open
  BY <1>2 DEF Put
<1>3. CASE c.open
  <2>1. c.wire[s] \in Seq(Frames)
    BY <1>1
  <2>2. c.wire[s] \o f \in Seq(Frames)
    BY <2>1, ConcatParts
  <2> DEFINE new == c.wire[s] \o f
  <2>3. Put(c, s, f) = [c EXCEPT !.wire[s] = new]
    BY <1>3 DEF Put
  <2>4. new \in Seq(Frames)
    BY <2>2
  <2> HIDE DEF new
  <2>8. Put(c, s, f) = [c EXCEPT !.wire = [c.wire EXCEPT ![s] = new]]
    BY <2>3
  <2>9. [c.wire EXCEPT ![s] = new] \in [Sides -> Seq(Frames)]
    BY <1>1, <2>4
  <2>5. Put(c, s, f) \in Connection
    BY <2>8, <2>9 DEF Connection
  <2>6. Put(c, s, f).wire[s] = new /\ Put(c, s, f).wire[Other(s)] = c.wire[Other(s)]
    <3>1. Put(c, s, f).wire = [c.wire EXCEPT ![s] = new]
      BY <2>8 DEF Connection
    <3> QED BY <3>1, <1>1, TwoEnds
  <2>7. /\ Put(c, s, f).node = c.node /\ Put(c, s, f).at = c.at
        /\ Put(c, s, f).open = c.open /\ Put(c, s, f).owner = c.owner
    BY <2>3 DEF Connection
  <2> QED BY <1>3, <2>5, <2>6, <2>7 DEF new
<1> QED BY <1>1, <1>2, <1>3

\* A control message written by an end that is up, and addressed to the other,
\* keeps a connection as it should be.
LEMMA PutControl ==
    ASSUME NEW c, Good(c), NEW s \in Sides, NEW f \in Seq(Controls),
           f # <<>> => c.at[Other(s)] = "up",
           \A k \in DOMAIN f : /\ Home[f[k].to] = c.node[s]
                               /\ Home[f[k].from] = c.node[Other(s)]
    PROVE  /\ Good(Put(c, s, f))
           /\ Put(c, s, f).node = c.node /\ Put(c, s, f).at = c.at
           /\ Put(c, s, f).open = c.open /\ Put(c, s, f).owner = c.owner
<1> DEFINE d == Put(c, s, f)
<1>1. c \in Connection /\ c.wire \in [Sides -> Seq(Frames)]
  BY DEF Good, Connection
<1>2. c.wire[s] \in Seq(Frames) /\ f \in Seq(Frames)
  BY <1>1, ControlFrames
<1>3. /\ d \in Connection /\ d.node = c.node /\ d.at = c.at
      /\ d.open = c.open /\ d.owner = c.owner
      /\ d.wire[Other(s)] = c.wire[Other(s)]
      /\ d.wire[s] = IF c.open THEN c.wire[s] \o f ELSE c.wire[s]
  BY <1>1, <1>2, PutFields
<1>4. CASE ~c.open \/ f = <<>>
  <2>1. d.wire[s] = c.wire[s]
    <3> DEFINE w == c.wire[s]
    <3>1. w \in Seq(Frames)
      BY <1>2
    <3> HIDE DEF w
    <3>2. w \o <<>> = w
      BY <3>1
    <3> QED BY <1>3, <1>4, <3>2 DEF w
  <2> HIDE DEF d
  <2>2. d.wire["client"] = c.wire["client"] /\ d.wire["server"] = c.wire["server"]
    BY <1>3, <2>1, TwoEnds DEF Sides
  <2>3. Taken3(d) = Taken3(c)
    BY <1>3 DEF Taken3
  <2>4. ServerStage(d)
    BY <1>3, <2>2 DEF Good, ServerStage
  <2>5. ClientStage(d)
    BY <1>3, <2>2, <2>3 DEF Good, ClientStage
  <2>6. UpAgreed(d)
    BY <1>3 DEF Good, UpAgreed
  <2>7. WiresCross(d)
    <3> SUFFICES ASSUME NEW r \in Sides, NEW k \in DOMAIN d.wire[r],
                        IsControl(d.wire[r][k])
                 PROVE  /\ Home[d.wire[r][k].to] = d.node[r]
                        /\ Home[d.wire[r][k].from] = d.node[Other(r)]
      BY DEF WiresCross
    <3>1. d.wire[r] = c.wire[r]
      BY <2>2 DEF Sides
    <3> QED BY <1>3, <3>1 DEF Good, WiresCross
  <2>8. Good(d)
    BY <1>3, <2>4, <2>5, <2>6, <2>7 DEF Good
  <2> QED BY <1>3, <2>8 DEF d
<1>5. CASE c.open /\ f # <<>>
  <2> DEFINE w == c.wire[s]
             v == w \o f
  <2>1. d.wire[s] = v /\ c.at[Other(s)] = "up"
    BY <1>3, <1>5
  <2>2. /\ v \in Seq(Frames) /\ Len(v) = Len(w) + Len(f)
        /\ Len(w) \in Nat /\ Len(f) \in Nat
        /\ \A k \in DOMAIN v :
                \/ k \in DOMAIN w /\ v[k] = w[k]
                \/ /\ k \in Nat /\ k > Len(w) /\ k - Len(w) \in DOMAIN f
                   /\ v[k] = f[k - Len(w)]
    BY <1>2, ConcatParts
  <2> HIDE DEF d, v, w
  <2>3. Taken3(d) = Taken3(c) /\ Taken3(c) \in {0, 1, 2}
    BY <1>3 DEF Taken3
  <2>4. ServerStage(d)
    BY <1>3, <2>1, TwoEnds DEF Good, ServerStage, Sides
  <2>5. ClientStage(d)
    <3>1. CASE s = "server"
      BY <1>3, <2>1, <3>1, TwoEnds DEF ClientStage, Handshaking
    <3>2. CASE s = "client"
      <4> SUFFICES ASSUME d.at["client"] \in Handshaking
          PROVE  /\ \A k \in DOMAIN d.wire["client"] :
                      /\ k + Taken3(d) = 3 =>
                            d.wire["client"][k].digest = Digest(d.node["server"], "client")
                      /\ k + Taken3(d) <= 3 => ~IsControl(d.wire["client"][k])
                 /\ d.open /\ d.at["server"] = "up" =>
                      Len(d.wire["client"]) + Taken3(d) >= 3
        BY <1>3, <2>1, <3>2, TwoEnds DEF ClientStage
      <4>1. Len(w) + Taken3(c) >= 3
        BY <1>3, <1>5, <2>1, <3>2, TwoEnds DEF Good, ClientStage, w
      <4>2. \A k \in DOMAIN w :
                /\ k + Taken3(c) = 3 => w[k].digest = Digest(c.node["server"], "client")
                /\ k + Taken3(c) <= 3 => ~IsControl(w[k])
        BY <1>3, <3>2 DEF Good, ClientStage, w
      <4>3. ASSUME NEW k \in DOMAIN v, k + Taken3(c) <= 3
            PROVE  k \in DOMAIN w /\ v[k] = w[k]
        BY <2>2, <2>3, <4>1, <4>3
      <4>5. \A k \in DOMAIN v : k + Taken3(c) = 3 => k + Taken3(c) <= 3
        OBVIOUS
      <4>4. Len(v) + Taken3(c) >= 3
        BY <2>2, <2>3, <4>1
      <4> QED BY <1>3, <2>1, <2>3, <3>2, <4>2, <4>3, <4>4, <4>5
    <3> QED BY <3>1, <3>2 DEF Sides
  <2>6. UpAgreed(d)
    BY <1>3 DEF Good, UpAgreed
  <2>7. WiresCross(d)
    <3> SUFFICES ASSUME NEW r \in Sides, NEW k \in DOMAIN d.wire[r],
                        IsControl(d.wire[r][k])
                 PROVE  /\ Home[d.wire[r][k].to] = d.node[r]
                        /\ Home[d.wire[r][k].from] = d.node[Other(r)]
      BY DEF WiresCross
    <3>1. CASE r = Other(s)
      BY <1>3, <3>1, TwoEnds DEF Good, WiresCross
    <3>2. CASE r = s /\ k \in DOMAIN w /\ v[k] = w[k]
      BY <1>3, <2>1, <3>2 DEF Good, WiresCross, w
    <3>3. CASE r = s /\ k - Len(w) \in DOMAIN f /\ v[k] = f[k - Len(w)]
      BY <1>3, <2>1, <3>3
    <3>4. r = s \/ r = Other(s)
      BY TwoEnds DEF Sides, Other
    <3> QED BY <2>1, <2>2, <3>1, <3>2, <3>3, <3>4
  <2>8. Good(d)
    BY <1>3, <2>4, <2>5, <2>6, <2>7 DEF Good
  <2> QED BY <1>3, <2>8 DEF d
<1> QED BY <1>4, <1>5

-----------------------------------------------------------------------------
(* All connections.                                                        *)

\* Connections are only ever added, and keep their ends and their task.
Extends(cs, ds) ==
    /\ DOMAIN cs \subseteq DOMAIN ds
    /\ \A i \in DOMAIN cs : ds[i].node = cs[i].node /\ ds[i].owner = cs[i].owner

\* A connection that was up at an end still is.
KeepsUp(cs, ds) ==
    \A i \in DOMAIN cs, s \in Sides : cs[i].at[s] = "up" => ds[i].at[s] = "up"

\* A task keeps its node while connections are added.
LEMMA TaskOfExtends ==
    ASSUME NEW cs, NEW ds, Extends(cs, ds), NEW t, NEW n, TaskOf(cs, t, n)
    PROVE  TaskOf(ds, t, n)
BY DEF Extends, TaskOf

\* Registrations stay served while the ends that are up stay up.
LEMMA ServedExtends ==
    ASSUME NEW cs \in Seq(Connection), NEW ds, NEW reg,
           Extends(cs, ds), KeepsUp(cs, ds), Served(cs, reg)
    PROVE  Served(ds, reg)
<1> SUFFICES ASSUME NEW n \in Node, NEW m \in Node, reg[n][m] # 0
             PROVE  /\ reg[n][m] \in DOMAIN ds
                    /\ LET c == ds[reg[n][m]]
                       IN /\ c.at[Side(c, n)] = "up" /\ c.node[Side(c, n)] = n
                          /\ c.node[Other(Side(c, n))] = m
  BY DEF Served
<1> DEFINE i == reg[n][m]
<1>1. /\ i \in DOMAIN cs /\ cs[i].at[Side(cs[i], n)] = "up"
      /\ cs[i].node[Side(cs[i], n)] = n /\ cs[i].node[Other(Side(cs[i], n))] = m
  BY DEF Served
<1>2. i \in DOMAIN ds /\ ds[i].node = cs[i].node
  BY <1>1 DEF Extends
<1>3. Side(ds[i], n) = Side(cs[i], n) /\ Side(cs[i], n) \in Sides
  BY <1>2 DEF Side, Sides
<1> QED BY <1>1, <1>2, <1>3 DEF KeepsUp

\* What a node sends goes over connections it has up, to their other end.
LEMMA SentGood ==
    ASSUME NEW cs, ConnsGood(cs), NEW reg, Served(cs, reg), NEW n \in Node,
           NEW ms \in Seq(Controls), \A k \in DOMAIN ms : Crosses(ms[k], n)
    PROVE  /\ ConnsGood(Sent(cs, reg, n, ms)) /\ Extends(cs, Sent(cs, reg, n, ms))
           /\ KeepsUp(cs, Sent(cs, reg, n, ms))
           /\ Len(Sent(cs, reg, n, ms)) = Len(cs)
<1> DEFINE ds == Sent(cs, reg, n, ms)
           f(i) == Addressed(ms, reg, n, i)
           s(i) == Side(cs[i], n)
<1>1. cs \in Seq(Connection) /\ Len(cs) \in Nat /\ DOMAIN cs = 1 .. Len(cs)
  BY DEF ConnsGood
<1>2. DOMAIN ds = DOMAIN cs /\ \A i \in DOMAIN cs : ds[i] = Put(cs[i], Other(s(i)), f(i))
  BY DEF Sent
<1>3. ASSUME NEW i \in DOMAIN cs
      PROVE  /\ Good(ds[i]) /\ ds[i].node = cs[i].node /\ ds[i].at = cs[i].at
             /\ ds[i].owner = cs[i].owner
  <2>1. s(i) \in Sides /\ Other(s(i)) \in Sides /\ Other(Other(s(i))) = s(i)
    BY TwoEnds DEF Side
  <2>2. f(i) \in Seq(Controls)
    BY AddressedFrom
  <2>3. ASSUME NEW j \in DOMAIN f(i)
        PROVE  /\ cs[i].at[s(i)] = "up"
               /\ Home[f(i)[j].to] = cs[i].node[Other(s(i))]
               /\ Home[f(i)[j].from] = cs[i].node[s(i)]
    <3>1. PICK k \in DOMAIN ms : f(i)[j] = ms[k] /\ reg[n][Dest(ms[k])] = i
      BY AddressedFrom
    <3>2. ms[k] \in Controls
      OBVIOUS
    <3>3. ms[k].to \in Procs /\ Dest(ms[k]) \in Node
      BY <3>2 DEF Controls, Dest
    <3>4. i # 0
      BY <1>1
    <3>5. /\ cs[i].at[s(i)] = "up" /\ cs[i].node[s(i)] = n
          /\ cs[i].node[Other(s(i))] = Dest(ms[k])
      BY <3>1, <3>3, <3>4 DEF Served
    <3> QED BY <3>1, <3>5 DEF Crosses, Dest
  <2>4. f(i) # <<>> => cs[i].at[s(i)] = "up"
    <3> SUFFICES ASSUME f(i) # <<>> PROVE cs[i].at[s(i)] = "up"
      OBVIOUS
    <3>1. 1 \in DOMAIN f(i)
      BY <2>2, TailParts
    <3> QED BY <2>3, <3>1
  <2>5. Good(cs[i])
    BY DEF ConnsGood
  <2> HIDE DEF ds, f, s
  <2> QED BY <1>2, <2>1, <2>2, <2>3, <2>4, <2>5, PutControl
<1> HIDE DEF ds
<1>4. \A i \in DOMAIN cs : ds[i] \in Connection
  BY <1>3 DEF Good
<1>5. ds = [i \in 1 .. Len(cs) |-> ds[i]]
  <2>1. ds = [i \in DOMAIN cs |-> ds[i]]
    BY DEF ds, Sent
  <2> QED BY <1>1, <2>1
<1>6. ds \in Seq(Connection) /\ Len(ds) = Len(cs)
  <2> DEFINE l == Len(cs)
  <2>1. l \in Nat /\ (\A i \in 1 .. l : ds[i] \in Connection)
    BY <1>1, <1>4
  <2>3. ds = [i \in 1 .. l |-> ds[i]]
    BY <1>5
  <2> HIDE DEF l
  <2>4. [i \in 1 .. l |-> ds[i]] \in Seq(Connection) /\ Len([i \in 1 .. l |-> ds[i]]) = l
    BY <2>1
  <2>2. ds \in Seq(Connection) /\ Len(ds) = l
    BY <2>3, <2>4
  <2> QED BY <2>2 DEF l
<1>7. Extends(cs, ds)
  BY <1>2, <1>3 DEF Extends
<1>8. ASSUME NEW i \in DOMAIN ds
      PROVE  TaskOf(ds, ds[i].owner, ds[i].node["client"])
  <2>1. TaskOf(cs, ds[i].owner, ds[i].node["client"])
    BY <1>2, <1>3 DEF ConnsGood
  <2> QED BY <1>7, <2>1, TaskOfExtends
<1>9. ConnsGood(ds)
  BY <1>2, <1>3, <1>6, <1>8 DEF ConnsGood
<1>10. KeepsUp(cs, ds)
  BY <1>3 DEF KeepsUp
<1> QED BY <1>6, <1>7, <1>9, <1>10 DEF ds

\* A connection just opened, with its name under way.
LEMMA NewGood ==
    ASSUME NEW n \in Node, NEW m \in Node, n # m, NEW t \in Tasks
    PROVE  /\ Good(NewConnection(n, m, t)) /\ NewConnection(n, m, t).owner = t
           /\ NewConnection(n, m, t).node["client"] = n
<1> DEFINE c == NewConnection(n, m, t)
           name == [kind |-> "name", node |-> n]
<1>1. name \in Frames /\ ~IsControl(name)
  BY DEF Frames, IsControl, Kinds
<1>2. <<name>> \in Seq(Frames) /\ <<>> \in Seq(Frames) /\ Len(<<name>>) = 1
  BY <1>1
<1>3. c = [node |-> [client |-> n, server |-> m],
           at   |-> [client |-> "status", server |-> "name"],
           wire |-> [client |-> <<>>, server |-> <<name>>],
           open |-> TRUE, owner |-> t]
  BY DEF NewConnection
<1>4. /\ c.node["client"] = n /\ c.node["server"] = m
      /\ c.at["client"] = "status" /\ c.at["server"] = "name"
      /\ c.wire["client"] = <<>> /\ c.wire["server"] = <<name>>
      /\ c.open /\ c.owner = t
  BY <1>3
<1>5. c \in Connection
  <2>1. [client |-> n, server |-> m] \in [Sides -> Node]
    BY DEF Sides
  <2>2. [client |-> "status", server |-> "name"] \in [Sides -> Stages]
    BY DEF Sides, Stages, Handshaking
  <2> DEFINE w == <<name>>
             e == <<>>
             W == Seq(Frames)
  <2>4. w \in W /\ e \in W
    BY <1>2
  <2> HIDE DEF name, w, e, W
  <2>6. [client |-> e, server |-> w] \in [{"client", "server"} -> W]
    BY <2>4
  <2>5. [client |-> e, server |-> w] \in [Sides -> Seq(Frames)]
    BY <2>6 DEF Sides, W
  <2>3. [client |-> <<>>, server |-> <<name>>] \in [Sides -> Seq(Frames)]
    BY <2>5 DEF w, e
  <2> QED BY <1>3, <2>1, <2>2, <2>3 DEF Connection
<1> HIDE DEF c, name
<1>6. ServerStage(c)
  <2> DEFINE w == <<name>>
  <2>1. \A k \in DOMAIN w : ~IsControl(w[k])
    BY <1>1
  <2>2. c.wire["server"] = w /\ Len(w) <= 1
    BY <1>2, <1>4
  <2> HIDE DEF w
  <2> QED BY <1>4, <2>1, <2>2 DEF ServerStage
<1>7. ClientStage(c)
  BY <1>4 DEF ClientStage
<1>8. UpAgreed(c)
  BY <1>4 DEF UpAgreed, Sides
<1>9. WiresCross(c)
  BY <1>1, <1>2, <1>4 DEF WiresCross, Sides
<1> QED BY <1>4, <1>5, <1>6, <1>7, <1>8, <1>9 DEF Good, c

\* One more connection.
LEMMA AppendGood ==
    ASSUME NEW cs, ConnsGood(cs), Len(cs) < MaxConns,
           NEW c, Good(c), TaskOf(cs, c.owner, c.node["client"])
    PROVE  /\ ConnsGood(Append(cs, c)) /\ Extends(cs, Append(cs, c))
           /\ KeepsUp(cs, Append(cs, c))
<1> DEFINE ds == Append(cs, c)
<1>1. cs \in Seq(Connection) /\ Len(cs) \in Nat /\ c \in Connection
  BY DEF ConnsGood, Good
<1>2. /\ ds \in Seq(Connection) /\ Len(ds) = Len(cs) + 1
      /\ DOMAIN cs = 1 .. Len(cs) /\ DOMAIN ds = 1 .. (Len(cs) + 1)
      /\ ds[Len(cs) + 1] = c /\ \A i \in 1 .. Len(cs) : ds[i] = cs[i]
  BY <1>1
<1> HIDE DEF ds
<1>3. \A i \in DOMAIN ds : (i \in DOMAIN cs /\ ds[i] = cs[i]) \/ ds[i] = c
  BY <1>1, <1>2
<1>4. Extends(cs, ds) /\ KeepsUp(cs, ds)
  BY <1>1, <1>2 DEF Extends, KeepsUp
<1>5. \A i \in DOMAIN ds : Good(ds[i])
  BY <1>3 DEF ConnsGood
<1>6. \A i \in DOMAIN ds : TaskOf(ds, ds[i].owner, ds[i].node["client"])
  <2> SUFFICES ASSUME NEW i \in DOMAIN ds
               PROVE  TaskOf(cs, ds[i].owner, ds[i].node["client"])
    BY <1>4, TaskOfExtends
  <2> QED BY <1>3 DEF ConnsGood
<1>7. Len(ds) <= MaxConns
  BY <1>1, <1>2
<1> QED BY <1>2, <1>4, <1>5, <1>6, <1>7 DEF ConnsGood, ds

\* One connection goes on.
LEMMA ReplaceGood ==
    ASSUME NEW cs, ConnsGood(cs), NEW i \in DOMAIN cs,
           NEW c, Good(c), c.node = cs[i].node, c.owner = cs[i].owner
    PROVE  /\ ConnsGood([cs EXCEPT ![i] = c]) /\ Extends(cs, [cs EXCEPT ![i] = c])
           /\ (\A s \in Sides : cs[i].at[s] = "up" => c.at[s] = "up")
                => KeepsUp(cs, [cs EXCEPT ![i] = c])
<1> DEFINE ds == [cs EXCEPT ![i] = c]
<1>1. cs \in Seq(Connection) /\ Len(cs) \in Nat /\ c \in Connection
  BY DEF ConnsGood, Good
<1>2. ds \in Seq(Connection) /\ Len(ds) = Len(cs)
  BY <1>1
<1>3. DOMAIN ds = DOMAIN cs /\ ds[i] = c /\ \A j \in DOMAIN cs : j # i => ds[j] = cs[j]
  OBVIOUS
<1> HIDE DEF ds
<1>4. Extends(cs, ds)
  BY <1>3 DEF Extends
<1>5. (\A s \in Sides : cs[i].at[s] = "up" => c.at[s] = "up") => KeepsUp(cs, ds)
  BY <1>3 DEF KeepsUp
<1>6. \A j \in DOMAIN ds : Good(ds[j])
  BY <1>3 DEF ConnsGood
<1>7. \A j \in DOMAIN ds : TaskOf(ds, ds[j].owner, ds[j].node["client"])
  <2> SUFFICES ASSUME NEW j \in DOMAIN cs
               PROVE  TaskOf(cs, ds[j].owner, ds[j].node["client"])
    BY <1>3, <1>4, TaskOfExtends
  <2>1. ds[j].owner = cs[j].owner /\ ds[j].node = cs[j].node
    BY <1>3
  <2> QED BY <2>1 DEF ConnsGood
<1>8. Len(ds) <= MaxConns
  BY <1>2 DEF ConnsGood
<1> QED BY <1>2, <1>4, <1>5, <1>6, <1>7, <1>8 DEF ConnsGood, ds

-----------------------------------------------------------------------------
(* Sending.                                                                *)

\* What is left to send of a list, and what is sent before a place of it.
LEMMA Pieces ==
    ASSUME NEW ms \in Seq(Controls), NEW k \in DOMAIN ms, NEW n,
           \A j \in DOMAIN ms : Crosses(ms[j], n)
    PROVE  /\ SubSeq(ms, 1, k - 1) \in Seq(Controls)
           /\ \A j \in DOMAIN SubSeq(ms, 1, k - 1) : Crosses(SubSeq(ms, 1, k - 1)[j], n)
           /\ SubSeq(ms, k, Len(ms)) \in Seq(Controls)
           /\ \A j \in DOMAIN SubSeq(ms, k, Len(ms)) : Crosses(SubSeq(ms, k, Len(ms))[j], n)
<1>1. Len(ms) \in Nat /\ DOMAIN ms = 1 .. Len(ms) /\ k \in 1 .. Len(ms) /\ k \in Nat
  OBVIOUS
<1>2. \A j \in 1 .. Len(ms) : ms[j] \in Controls
  OBVIOUS
<1> DEFINE u == SubSeq(ms, 1, k - 1)
           v == SubSeq(ms, k, Len(ms))
<1>3. /\ u \in Seq(Controls) /\ DOMAIN u = 1 .. (k - 1)
      /\ \A j \in 1 .. (k - 1) : u[j] = ms[j]
  BY <1>1, <1>2
<1>4. /\ v \in Seq(Controls) /\ DOMAIN v = 1 .. (Len(ms) - k + 1)
      /\ \A j \in 1 .. (Len(ms) - k + 1) : v[j] = ms[k + j - 1]
  BY <1>1, <1>2
<1> HIDE DEF u, v
<1>5. \A j \in DOMAIN u : Crosses(u[j], n)
  BY <1>1, <1>3
<1>6. ASSUME NEW j \in DOMAIN v PROVE Crosses(v[j], n)
  <2>1. k + j - 1 \in DOMAIN ms /\ v[j] = ms[k + j - 1]
    BY <1>1, <1>4
  <2> QED BY <2>1
<1> QED BY <1>3, <1>4, <1>5, <1>6 DEF u, v

\* A task that sends keeps the connections as they should be, and what it has
\* yet to send crosses from its node.
LEMMA EmitEffect ==
    ASSUME NEW t \in Tasks, NEW n \in Node, NEW cs, NEW reg, NEW ms \in Seq(Controls),
           NEW ending \in BOOLEAN, ending => t \in Procs,
           TypeOK, ConnsGood(cs), Served(cs, reg), TaskOf(cs, t, n),
           \A k \in DOMAIN ms : Crosses(ms[k], n),
           Emit(t, n, cs, reg, ms, ending)
    PROVE  /\ ConnsGood(conns') /\ Served(conns', reg) /\ Extends(cs, conns')
           /\ todo' \in [Tasks -> Seq(Controls)]
           /\ \A u \in Tasks : u # t => todo'[u] = todo[u]
           /\ \A k \in DOMAIN todo'[t] : Crosses(todo'[t][k], n)
           /\ status' \in [Procs -> {"live", "ending", "stuck", "gone"}]
           /\ faults' \in Nat
<1> DEFINE k == Stop(cs, reg, n, ms)
           sent == IF k = 0 THEN ms ELSE SubSeq(ms, 1, k - 1)
           now == Sent(cs, reg, n, sent)
           rest == SubSeq(ms, k, Len(ms))
           m == Dest(ms[k])
<1>0. cs \in Seq(Connection) /\ Len(cs) \in Nat
  BY DEF ConnsGood
<1>1. k \in {0} \union DOMAIN ms
  BY StopPlace
<1> HIDE DEF k
<1>2. sent \in Seq(Controls) /\ \A j \in DOMAIN sent : Crosses(sent[j], n)
  BY <1>1, Pieces
<1> HIDE DEF sent
<1>3. ConnsGood(now) /\ Extends(cs, now) /\ KeepsUp(cs, now) /\ Len(now) = Len(cs)
  BY <1>2, SentGood
<1> HIDE DEF now
<1>4. Served(now, reg) /\ TaskOf(now, t, n)
  BY <1>0, <1>3, ServedExtends, TaskOfExtends
<1>5. /\ todo \in [Tasks -> Seq(Controls)]
      /\ status \in [Procs -> {"live", "ending", "stuck", "gone"}] /\ faults \in Nat
  BY DEF TypeOK
<1>6. /\ \/ status' = status
         \/ \E x \in {"live", "ending", "stuck", "gone"} :
              t \in Procs /\ status' = [status EXCEPT ![t] = x]
      /\ faults' \in {faults, faults + 0, faults + 1}
  <2>1. /\ \/ status' = status
           \/ \E x \in {"ending", "stuck", "gone"} :
                ending /\ status' = [status EXCEPT ![t] = x]
        /\ faults' \in {faults, faults + 0, faults + 1}
    BY DEF Emit
  <2> QED BY <2>1
<1>7. status' \in [Procs -> {"live", "ending", "stuck", "gone"}]
  BY <1>5, <1>6
<1>8. faults' \in Nat
  BY <1>5, <1>6
<1>9. CASE conns' = now /\ todo' = [todo EXCEPT ![t] = <<>>]
  <2>1. todo' \in [Tasks -> Seq(Controls)] /\ todo'[t] = <<>>
        /\ \A u \in Tasks : u # t => todo'[u] = todo[u]
    BY <1>5, <1>9
  <2>2. \A j \in DOMAIN todo'[t] : Crosses(todo'[t][j], n)
    BY <2>1
  <2> QED BY <1>3, <1>4, <1>7, <1>8, <1>9, <2>1, <2>2
<1>10. CASE /\ k # 0 /\ Len(cs) < MaxConns
            /\ conns' = Append(now, NewConnection(n, m, t))
            /\ todo' = [todo EXCEPT ![t] = rest]
  <2>1. k \in DOMAIN ms /\ ms[k] \in Controls /\ Crosses(ms[k], n)
    BY <1>1, <1>10
  <2>2. m \in Node /\ n # m
    BY <2>1 DEF Controls, Crosses, Dest
  <2> DEFINE c == NewConnection(n, m, t)
  <2>3. Good(c) /\ c.owner = t /\ c.node["client"] = n
    BY <2>2, NewGood
  <2> HIDE DEF c, m
  <2>4. /\ ConnsGood(Append(now, c)) /\ Extends(now, Append(now, c))
        /\ KeepsUp(now, Append(now, c))
    BY <1>3, <1>4, <1>10, <2>3, AppendGood
  <2>5. conns' = Append(now, c)
    BY <1>10 DEF c
  <2>6. Extends(cs, conns')
    BY <1>3, <2>4, <2>5 DEF Extends
  <2>7. Served(conns', reg)
    <3>1. now \in Seq(Connection)
      BY <1>3 DEF ConnsGood
    <3> QED BY <1>4, <2>4, <2>5, <3>1, ServedExtends
  <2>8. rest \in Seq(Controls) /\ \A j \in DOMAIN rest : Crosses(rest[j], n)
    BY <2>1, Pieces
  <2> HIDE DEF rest
  <2>9. todo' \in [Tasks -> Seq(Controls)] /\ todo'[t] = rest
        /\ \A u \in Tasks : u # t => todo'[u] = todo[u]
    BY <1>5, <1>10, <2>8
  <2> QED BY <1>7, <1>8, <2>4, <2>5, <2>6, <2>7, <2>8, <2>9
<1>11. \/ conns' = now /\ todo' = [todo EXCEPT ![t] = <<>>]
       \/ /\ k # 0 /\ Len(cs) < MaxConns
          /\ conns' = Append(now, NewConnection(n, m, t))
          /\ todo' = [todo EXCEPT ![t] = rest]
  BY DEF Emit, k, sent, now
<1> QED BY <1>9, <1>10, <1>11

-----------------------------------------------------------------------------
(* Steps of one connection.                                                *)

\* One end of a connection set.
LEMMA SetWire ==
    ASSUME NEW c \in Connection, NEW s \in Sides, NEW w \in Seq(Frames)
    PROVE  LET d == [c EXCEPT !.wire[s] = w]
           IN /\ d \in Connection /\ d.node = c.node /\ d.at = c.at
              /\ d.open = c.open /\ d.owner = c.owner
              /\ d.wire[s] = w /\ d.wire[Other(s)] = c.wire[Other(s)]
<1> DEFINE d == [c EXCEPT !.wire[s] = w]
           W == [c.wire EXCEPT ![s] = w]
<1>1. c.wire \in [Sides -> Seq(Frames)]
  BY DEF Connection
<1>2. W \in [Sides -> Seq(Frames)] /\ W[s] = w /\ W[Other(s)] = c.wire[Other(s)]
  BY <1>1, TwoEnds
<1>3. d = [c EXCEPT !.wire = W]
  OBVIOUS
<1> HIDE DEF W, d
<1>4. d \in Connection /\ d.wire = W
  BY <1>2, <1>3 DEF Connection
<1>5. /\ d.node = c.node /\ d.at = c.at /\ d.open = c.open /\ d.owner = c.owner
  BY <1>3 DEF Connection
<1> QED BY <1>2, <1>4, <1>5 DEF d

\* The stage of one end set.
LEMMA SetAt ==
    ASSUME NEW c \in Connection, NEW s \in Sides, NEW x \in Stages
    PROVE  LET d == [c EXCEPT !.at[s] = x]
           IN /\ d \in Connection /\ d.node = c.node /\ d.wire = c.wire
              /\ d.open = c.open /\ d.owner = c.owner
              /\ d.at[s] = x /\ d.at[Other(s)] = c.at[Other(s)]
<1> DEFINE d == [c EXCEPT !.at[s] = x]
           A == [c.at EXCEPT ![s] = x]
<1>1. c.at \in [Sides -> Stages]
  BY DEF Connection
<1>2. A \in [Sides -> Stages] /\ A[s] = x /\ A[Other(s)] = c.at[Other(s)]
  BY <1>1, TwoEnds
<1>3. d = [c EXCEPT !.at = A]
  OBVIOUS
<1> HIDE DEF A, d
<1>4. d \in Connection /\ d.at = A
  BY <1>2, <1>3 DEF Connection
<1>5. /\ d.node = c.node /\ d.wire = c.wire /\ d.open = c.open /\ d.owner = c.owner
  BY <1>3 DEF Connection
<1> QED BY <1>2, <1>4, <1>5 DEF d

\* A connection marked closed.
LEMMA SetClosed ==
    ASSUME NEW c \in Connection
    PROVE  LET d == [c EXCEPT !.open = FALSE]
           IN /\ d \in Connection /\ d.node = c.node /\ d.wire = c.wire
              /\ d.at = c.at /\ d.owner = c.owner /\ ~d.open
BY DEF Connection

\* An end takes the next frame.
TakenBy(c, s) == [c EXCEPT !.wire[s] = Tail(@)]

\* What a connection is after one end has taken a frame.
LEMMA TakeFields ==
    ASSUME NEW c \in Connection, NEW s \in Sides, c.wire[s] # <<>>,
           NEW d, d = TakenBy(c, s)
    PROVE  /\ d \in Connection /\ d.node = c.node /\ d.at = c.at
           /\ d.open = c.open /\ d.owner = c.owner
           /\ c.wire[s] \in Seq(Frames) /\ d.wire[Other(s)] = c.wire[Other(s)]
           /\ d.wire[s] \in Seq(Frames) /\ Len(d.wire[s]) = Len(c.wire[s]) - 1
           /\ Len(c.wire[s]) \in Nat /\ Len(c.wire[s]) >= 1
           /\ 1 \in DOMAIN c.wire[s] /\ Head(c.wire[s]) = c.wire[s][1]
           /\ \A k \in DOMAIN d.wire[s] :
                k \in Nat /\ k + 1 \in DOMAIN c.wire[s] /\ d.wire[s][k] = c.wire[s][k + 1]
<1> DEFINE w == c.wire[s]
<1>1. w \in Seq(Frames)
  BY DEF Connection
<1>2. d = [c EXCEPT !.wire[s] = Tail(w)]
  BY DEF TakenBy
<1> HIDE DEF w
<1>3. Tail(w) \in Seq(Frames)
  BY <1>1, TailParts DEF w
<1> DEFINE v == Tail(w)
<1>4. d = [c EXCEPT !.wire[s] = v] /\ v \in Seq(Frames)
  BY <1>2, <1>3
<1>5. /\ Head(w) = w[1] /\ 1 \in DOMAIN w /\ Len(v) = Len(w) - 1
      /\ Len(w) \in Nat /\ Len(w) >= 1
      /\ \A k \in DOMAIN v : k \in Nat /\ k + 1 \in DOMAIN w /\ v[k] = w[k + 1]
  BY <1>1, TailParts DEF w
<1> HIDE DEF v
<1>6. /\ d \in Connection /\ d.node = c.node /\ d.at = c.at
      /\ d.open = c.open /\ d.owner = c.owner
      /\ d.wire[s] = v /\ d.wire[Other(s)] = c.wire[Other(s)]
  BY <1>4, SetWire
<1> QED BY <1>1, <1>4, <1>5, <1>6 DEF w

\* A receive loop takes a frame: its end stays up.
LEMMA TakeGood ==
    ASSUME NEW c, Good(c), NEW s \in Sides, c.wire[s] # <<>>, c.at[s] = "up"
    PROVE  Good(TakenBy(c, s))
<1> DEFINE d == TakenBy(c, s)
<1>1. c \in Connection
  BY DEF Good
<1>2. /\ d \in Connection /\ d.node = c.node /\ d.at = c.at /\ d.open = c.open
      /\ d.wire[Other(s)] = c.wire[Other(s)]
      /\ \A k \in DOMAIN d.wire[s] :
            k \in Nat /\ k + 1 \in DOMAIN c.wire[s] /\ d.wire[s][k] = c.wire[s][k + 1]
  BY <1>1, TakeFields
<1> HIDE DEF d
<1>3. Taken3(d) = Taken3(c)
  BY <1>2 DEF Taken3
<1>4. c.at["server"] # "name" /\ (c.at["server"] = "reply" => s = "client")
  BY DEF Good, ServerStage, Sides
<1>5. ServerStage(d)
  BY <1>2, <1>4, TwoEnds DEF Good, ServerStage
<1>6. ClientStage(d)
  <2>1. CASE s = "client"
    BY <1>2, <2>1 DEF ClientStage, Handshaking
  <2>2. CASE s = "server"
    BY <1>2, <1>3, <2>2, TwoEnds DEF Good, ClientStage
  <2> QED BY <2>1, <2>2 DEF Sides
<1>7. UpAgreed(d)
  BY <1>2 DEF Good, UpAgreed
<1>8. WiresCross(d)
  <2> SUFFICES ASSUME NEW r \in Sides, NEW k \in DOMAIN d.wire[r],
                      IsControl(d.wire[r][k])
               PROVE  /\ Home[d.wire[r][k].to] = d.node[r]
                      /\ Home[d.wire[r][k].from] = d.node[Other(r)]
    BY DEF WiresCross
  <2>1. r = s \/ r = Other(s)
    BY TwoEnds DEF Sides, Other
  <2>2. PICK l \in DOMAIN c.wire[r] : d.wire[r][k] = c.wire[r][l]
    BY <1>2, <2>1
  <2> QED BY <1>2, <2>2 DEF Good, WiresCross
<1>9. d.node["client"] # d.node["server"]
  BY <1>2 DEF Good
<1> QED BY <1>2, <1>5, <1>6, <1>7, <1>8, <1>9 DEF Good, d

\* An end that gives up, and one whose loop or handshake has found the
\* connection closed.
GivenUp(c) == [c EXCEPT !.at["client"] = "closed"]
ClosedAt(c, s) == [[[c EXCEPT !.open = FALSE] EXCEPT !.wire[s] = <<>>] EXCEPT !.at[s] = "closed"]

\* A client that gives up leaves its connection as it should be.
LEMMA GivenUpGood ==
    ASSUME NEW c, Good(c), c.at["client"] # "up"
    PROVE  /\ Good(GivenUp(c)) /\ GivenUp(c).node = c.node
           /\ GivenUp(c).owner = c.owner
           /\ \A s \in Sides : c.at[s] = "up" => GivenUp(c).at[s] = "up"
<1> DEFINE d == GivenUp(c)
<1>1. c \in Connection /\ "closed" \in Stages
  BY DEF Good, Stages
<1>2. /\ d \in Connection /\ d.node = c.node /\ d.wire = c.wire
      /\ d.open = c.open /\ d.owner = c.owner
      /\ d.at["client"] = "closed" /\ d.at["server"] = c.at["server"]
  BY <1>1, SetAt, TwoEnds DEF GivenUp
<1> HIDE DEF d
<1>3. ServerStage(d)
  BY <1>2 DEF Good, ServerStage
<1>4. ClientStage(d)
  BY <1>2 DEF ClientStage, Handshaking
<1>5. UpAgreed(d)
  BY <1>2 DEF Good, UpAgreed, Sides
<1>6. WiresCross(d)
  BY <1>2 DEF Good, WiresCross
<1>7. \A s \in Sides : c.at[s] = "up" => d.at[s] = "up"
  BY <1>2 DEF Sides
<1>8. d.node["client"] # d.node["server"]
  BY <1>2 DEF Good
<1> QED BY <1>2, <1>3, <1>4, <1>5, <1>6, <1>7, <1>8 DEF Good, d

\* So does an end that closes it.
LEMMA ClosedAtGood ==
    ASSUME NEW c, Good(c), NEW s \in Sides
    PROVE  /\ Good(ClosedAt(c, s)) /\ ClosedAt(c, s).node = c.node
           /\ ClosedAt(c, s).owner = c.owner
           /\ ClosedAt(c, s).at[Other(s)] = c.at[Other(s)]
<1> DEFINE c1 == [c EXCEPT !.open = FALSE]
           e == <<>>
           c2 == [c1 EXCEPT !.wire[s] = e]
           d == [c2 EXCEPT !.at[s] = "closed"]
<1>1. c \in Connection /\ "closed" \in Stages /\ e \in Seq(Frames)
  BY DEF Good, Stages
<1> HIDE DEF e
<1>2. /\ c1 \in Connection /\ c1.node = c.node /\ c1.wire = c.wire
      /\ c1.at = c.at /\ c1.owner = c.owner /\ ~c1.open
  BY <1>1, SetClosed
<1> HIDE DEF c1
<1>14. c2 = [c1 EXCEPT !.wire[s] = e]
  OBVIOUS
<1> HIDE DEF c2
<1>15. c1 \in Connection /\ e \in Seq(Frames)
  BY <1>1, <1>2
<1>3. /\ c2 \in Connection /\ c2.node = c1.node /\ c2.at = c1.at
      /\ c2.open = c1.open /\ c2.owner = c1.owner
      /\ c2.wire[s] = e /\ c2.wire[Other(s)] = c1.wire[Other(s)]
  BY ONLY <1>14, <1>15, SetWire
<1>4. /\ d \in Connection /\ d.node = c2.node /\ d.wire = c2.wire
      /\ d.open = c2.open /\ d.owner = c2.owner
      /\ d.at[s] = "closed" /\ d.at[Other(s)] = c2.at[Other(s)]
  BY <1>1, <1>3, SetAt
<1>5. ClosedAt(c, s) = d
  BY DEF ClosedAt, c1, c2, e
<1> HIDE DEF d
<1>6. /\ d.node = c.node /\ ~d.open /\ d.owner = c.owner
      /\ d.at[s] = "closed" /\ d.at[Other(s)] = c.at[Other(s)]
      /\ d.wire[s] = <<>> /\ d.wire[Other(s)] = c.wire[Other(s)]
  BY <1>2, <1>3, <1>4 DEF e
<1>7. \/ s = "client" /\ Other(s) = "server"
      \/ s = "server" /\ Other(s) = "client"
  BY DEF Sides, Other
<1>8. ServerStage(d)
  BY <1>6, <1>7 DEF Good, ServerStage
<1>9. Taken3(d) = Taken3(c) \/ s = "client"
  BY <1>6, <1>7 DEF Taken3
<1>10. ClientStage(d)
  BY <1>6, <1>7, <1>9 DEF Good, ClientStage, Handshaking
<1>11. UpAgreed(d)
  BY <1>6, <1>7 DEF Good, UpAgreed, Sides
<1>12. WiresCross(d)
  <2> SUFFICES ASSUME NEW r \in Sides, NEW k \in DOMAIN d.wire[r],
                      IsControl(d.wire[r][k])
               PROVE  /\ Home[d.wire[r][k].to] = d.node[r]
                      /\ Home[d.wire[r][k].from] = d.node[Other(r)]
    BY DEF WiresCross
  <2>1. r # s
    BY <1>6
  <2>2. r = Other(s)
    BY <1>7, <2>1 DEF Sides
  <2> QED BY <1>6, <2>2, TwoEnds DEF Good, WiresCross
<1>13. d.node["client"] # d.node["server"]
  BY <1>6 DEF Good
<1> QED BY <1>4, <1>5, <1>6, <1>8, <1>10, <1>11, <1>12, <1>13 DEF Good

\* A connection that breaks: of what is under way some may still arrive.
LEMMA BrokenGood ==
    ASSUME NEW c, Good(c), NEW k \in 0 .. Len(c.wire["client"]),
           NEW l \in 0 .. Len(c.wire["server"])
    PROVE  LET d == [c EXCEPT !.open = FALSE,
                              !.wire = [client |-> SubSeq(@["client"], 1, k),
                                        server |-> SubSeq(@["server"], 1, l)]]
           IN Good(d) /\ d.node = c.node /\ d.owner = c.owner /\ d.at = c.at
<1> DEFINE d == [c EXCEPT !.open = FALSE,
                          !.wire = [client |-> SubSeq(@["client"], 1, k),
                                    server |-> SubSeq(@["server"], 1, l)]]
           cw == c.wire["client"]
           sw == c.wire["server"]
           u == SubSeq(cw, 1, k)
           v == SubSeq(sw, 1, l)
           W == [client |-> u, server |-> v]
<1>1. c \in Connection /\ cw \in Seq(Frames) /\ sw \in Seq(Frames)
  BY DEF Good, Connection, Sides
<1>2. d = [c EXCEPT !.open = FALSE, !.wire = W]
  OBVIOUS
<1> HIDE DEF d
<1>3. k \in 0 .. Len(cw) /\ l \in 0 .. Len(sw)
  OBVIOUS
<1> HIDE DEF cw, sw
<1>4. /\ u \in Seq(Frames) /\ Len(u) <= Len(cw)
      /\ \A j \in DOMAIN u : j \in DOMAIN cw /\ u[j] = cw[j]
  BY <1>1, <1>3
<1>5. /\ v \in Seq(Frames) /\ Len(v) <= Len(sw)
      /\ \A j \in DOMAIN v : j \in DOMAIN sw /\ v[j] = sw[j]
  BY <1>1, <1>3
<1> HIDE DEF u, v
<1>6. W \in [Sides -> Seq(Frames)] /\ W["client"] = u /\ W["server"] = v
  <2> DEFINE F == Seq(Frames)
  <2>1. u \in F /\ v \in F
    BY <1>4, <1>5
  <2> HIDE DEF F
  <2>2. W \in [{"client", "server"} -> F]
    BY <2>1
  <2> QED BY <2>2 DEF Sides, F
<1> HIDE DEF W
<1>7. /\ d \in Connection /\ d.node = c.node /\ d.at = c.at
      /\ d.owner = c.owner /\ ~d.open /\ d.wire = W
  BY <1>1, <1>2, <1>6 DEF Connection
<1>8. Taken3(d) = Taken3(c)
  BY <1>7 DEF Taken3
<1>9. ServerStage(d)
  <2>1. d.at["server"] = "name" =>
          /\ d.at["client"] \in {"status", "closed"} /\ cw = <<>> /\ Len(sw) <= 1
          /\ \A j \in DOMAIN sw : ~IsControl(sw[j])
    BY <1>7 DEF Good, ServerStage, cw, sw
  <2>2. u = <<>> \/ cw # <<>>
    BY <1>1, <1>4
  <2>3. Len(sw) <= 1 => Len(v) <= 1
    BY <1>1, <1>5
  <2>4. ASSUME d.at["server"] = "reply"
        PROVE  /\ d.at["client"] # "up"
               /\ \A j \in DOMAIN v : /\ v[j].kind = "reply"
                                      /\ v[j].digest = Digest(d.node["client"], "server")
    BY <1>5, <1>7, <2>4 DEF Good, ServerStage, sw
  <2>5. d.at["server"] = "name" => \A j \in DOMAIN v : ~IsControl(v[j])
    BY <1>5, <2>1
  <2> QED BY <1>6, <1>7, <2>1, <2>2, <2>3, <2>4, <2>5 DEF ServerStage
<1>10. ClientStage(d)
  BY <1>4, <1>6, <1>7, <1>8 DEF Good, ClientStage, cw
<1>11. UpAgreed(d)
  BY <1>7 DEF Good, UpAgreed
<1>12. WiresCross(d)
  <2> SUFFICES ASSUME NEW r \in Sides, NEW j \in DOMAIN d.wire[r],
                      IsControl(d.wire[r][j])
               PROVE  /\ Home[d.wire[r][j].to] = d.node[r]
                      /\ Home[d.wire[r][j].from] = d.node[Other(r)]
    BY DEF WiresCross
  <2>1. j \in DOMAIN c.wire[r] /\ d.wire[r][j] = c.wire[r][j]
    BY <1>4, <1>5, <1>6, <1>7 DEF Sides, cw, sw
  <2> QED BY <1>7, <2>1 DEF Good, WiresCross
<1>13. d.node["client"] # d.node["server"]
  BY <1>7 DEF Good
<1> QED BY <1>7, <1>9, <1>10, <1>11, <1>12, <1>13 DEF Good, d

\* Frames of the handshake.
LEMMA HandshakeFrames ==
    ASSUME TypeOK
    PROVE  /\ <<[kind |-> "status"], [kind |-> "challenge"]>> \in Seq(Frames)
           /\ \A n \in Node, x \in Sides, kind \in {"reply", "ack"} :
                [kind |-> kind, digest |-> Digest(n, x)] \in Frames
           /\ \A f \in Frames : IsControl(f) <=> f \in Controls
           /\ ~IsControl([kind |-> "status"]) /\ ~IsControl([kind |-> "challenge"])
<1>1. [kind |-> "status"] \in Frames /\ [kind |-> "challenge"] \in Frames
  BY DEF Frames
<1> DEFINE a == [kind |-> "status"]
           b == [kind |-> "challenge"]
<1>2. <<a, b>> \in Seq(Frames)
  <2>1. a \in Frames /\ b \in Frames
    BY <1>1
  <2> HIDE DEF a, b
  <2> QED BY <2>1
<1>3. ASSUME NEW n \in Node, NEW x \in Sides PROVE Digest(n, x) \in Digests
  <2>1. PICK start \in Starts : cookie = start.cookie
    BY DEF TypeOK
  <2>2. Digest(n, x) = [cookie |-> start.cookie[n], challenge |-> x]
    BY <2>1 DEF Digest
  <2> QED BY <2>2 DEF Digests
<1>4. \A n \in Node, x \in Sides, kind \in {"reply", "ack"} :
        [kind |-> kind, digest |-> Digest(n, x)] \in Frames
  BY <1>3 DEF Frames
<1>5. \A f \in Frames : IsControl(f) <=> f \in Controls
  BY DEF Frames, IsControl, Kinds, Controls
<1>6. ~IsControl([kind |-> "status"]) /\ ~IsControl([kind |-> "challenge"])
  BY DEF IsControl, Kinds
<1> QED BY <1>2, <1>4, <1>5, <1>6

\* An end that has taken a frame, and one that has then answered with others.
MovedOn(c, s, x) == [TakenBy(c, s) EXCEPT !.at[s] = x]
Answered(c, s, f, x) == [Put(TakenBy(c, s), Other(s), f) EXCEPT !.at[s] = x]

\* What a connection is after an end has taken a frame and gone on.
LEMMA MovedFields ==
    ASSUME NEW c \in Connection, NEW s \in Sides, c.wire[s] # <<>>, NEW x \in Stages
    PROVE  LET d == MovedOn(c, s, x)
           IN /\ d \in Connection /\ d.node = c.node /\ d.open = c.open /\ d.owner = c.owner
              /\ d.at[s] = x /\ d.at[Other(s)] = c.at[Other(s)]
              /\ d.wire = TakenBy(c, s).wire
<1>1. /\ TakenBy(c, s) \in Connection /\ TakenBy(c, s).node = c.node
      /\ TakenBy(c, s).at = c.at /\ TakenBy(c, s).open = c.open
      /\ TakenBy(c, s).owner = c.owner
  BY TakeFields
<1> QED BY <1>1, SetAt DEF MovedOn

\* And after it has answered the frame with others.
LEMMA AnsweredFields ==
    ASSUME NEW c \in Connection, NEW s \in Sides, c.wire[s] # <<>>, NEW x \in Stages,
           NEW f \in Seq(Frames)
    PROVE  LET d == Answered(c, s, f, x)
           IN /\ d \in Connection /\ d.node = c.node /\ d.open = c.open /\ d.owner = c.owner
              /\ d.at[s] = x /\ d.at[Other(s)] = c.at[Other(s)]
              /\ d.wire[s] = TakenBy(c, s).wire[s]
              /\ d.wire[Other(s)] = IF c.open THEN c.wire[Other(s)] \o f
                                    ELSE c.wire[Other(s)]
<1> DEFINE b == TakenBy(c, s)
           p == Put(b, Other(s), f)
<1>1. /\ b \in Connection /\ b.node = c.node /\ b.at = c.at /\ b.open = c.open
      /\ b.owner = c.owner /\ b.wire[Other(s)] = c.wire[Other(s)]
  BY TakeFields
<1> HIDE DEF b
<1>2. Other(s) \in Sides /\ Other(Other(s)) = s
  BY TwoEnds
<1>3. /\ p \in Connection /\ p.node = b.node /\ p.at = b.at
      /\ p.open = b.open /\ p.owner = b.owner /\ p.wire[s] = b.wire[s]
      /\ p.wire[Other(s)] = IF b.open THEN b.wire[Other(s)] \o f ELSE b.wire[Other(s)]
  BY <1>1, <1>2, PutFields
<1> HIDE DEF p
<1> DEFINE d == [p EXCEPT !.at[s] = x]
<1>4. /\ d \in Connection /\ d.node = p.node /\ d.wire = p.wire
      /\ d.open = p.open /\ d.owner = p.owner
      /\ d.at[s] = x /\ d.at[Other(s)] = p.at[Other(s)]
  BY <1>3, SetAt
<1>5. Answered(c, s, f, x) = d
  BY DEF Answered, p, b
<1> HIDE DEF d
<1> QED BY <1>1, <1>3, <1>4, <1>5 DEF b

\* The server takes the name of its client, and sends its challenge.
LEMMA NamedGood ==
    ASSUME TypeOK, NEW c, Good(c), c.at["server"] = "name", c.wire["server"] # <<>>
    PROVE  LET d == Answered(c, "server", <<[kind |-> "status"], [kind |-> "challenge"]>>,
                             "reply")
           IN Good(d) /\ d.node = c.node /\ d.owner = c.owner /\ d.at["client"] = c.at["client"]
<1> DEFINE f == <<[kind |-> "status"], [kind |-> "challenge"]>>
           d == Answered(c, "server", f, "reply")
           sw == TakenBy(c, "server").wire["server"]
<1>1. c \in Connection /\ "reply" \in Stages /\ f \in Seq(Frames)
  BY HandshakeFrames DEF Good, Stages
<1>2. Len(f) = 2 /\ DOMAIN f = 1 .. 2 /\ \A k \in DOMAIN f : ~IsControl(f[k])
  <2>1. ~IsControl(f[1]) /\ ~IsControl(f[2])
    BY HandshakeFrames
  <2>2. Len(f) = 2 /\ DOMAIN f = 1 .. 2
    OBVIOUS
  <2> HIDE DEF f
  <2> QED BY <2>1, <2>2
<1> HIDE DEF f
<1>3. c.at["client"] \in {"status", "closed"} /\ c.wire["client"] = <<>> /\ Len(c.wire["server"]) <= 1
  BY DEF Good, ServerStage
<1>4. sw = <<>>
  <2>1. sw \in Seq(Frames) /\ Len(sw) = Len(c.wire["server"]) - 1 /\ Len(c.wire["server"]) \in Nat
    BY <1>1, TakeFields, TwoEnds
  <2> QED BY <1>3, <2>1
<1> HIDE DEF sw
<1>5. /\ d \in Connection /\ d.node = c.node /\ d.open = c.open /\ d.owner = c.owner
      /\ d.at["server"] = "reply" /\ d.at["client"] = c.at["client"]
      /\ d.wire["server"] = <<>>
      /\ d.wire["client"] = IF c.open THEN c.wire["client"] \o f ELSE c.wire["client"]
  BY <1>1, <1>4, AnsweredFields, TwoEnds DEF sw
<1> HIDE DEF d
<1>6. d.wire["client"] = IF c.open THEN f ELSE <<>>
  <2>1. <<>> \o f = f
    BY <1>1
  <2> QED BY <1>3, <1>5, <2>1
<1>7. ServerStage(d)
  BY <1>3, <1>5 DEF ServerStage
<1>8. ClientStage(d)
  <2> SUFFICES ASSUME d.at["client"] \in Handshaking PROVE ClientStage(d)
    BY DEF ClientStage
  <2>1. Taken3(d) = 0
    BY <1>3, <1>5 DEF Taken3, Handshaking
  <2>2. \A k \in DOMAIN d.wire["client"] : k \in 1 .. 2
    BY <1>2, <1>6
  <2>3. \A k \in 1 .. 2 : ~(k + 0 >= 3) /\ k + 0 # 3
    OBVIOUS
  <2>4. d.open => Len(d.wire["client"]) + 0 = 2
    <3>1. d.open => d.wire["client"] = f
      BY <1>5, <1>6
    <3>2. Len(f) + 0 = 2
      BY <1>2
    <3> QED BY <3>1, <3>2
  <2>5. \A k \in DOMAIN d.wire["client"] : ~IsControl(d.wire["client"][k])
    BY <1>2, <1>6
  <2> QED BY <1>5, <2>1, <2>2, <2>3, <2>4, <2>5 DEF ClientStage
<1>9. UpAgreed(d)
  BY <1>3, <1>5 DEF UpAgreed, Sides
<1>10. WiresCross(d)
  <2>1. \A k \in DOMAIN d.wire["client"] : ~IsControl(d.wire["client"][k])
    BY <1>2, <1>6
  <2>2. DOMAIN d.wire["server"] = {}
    BY <1>5
  <2> QED BY <2>1, <2>2 DEF WiresCross, Sides
<1>11. d.node["client"] # d.node["server"]
  BY <1>5 DEF Good
<1>12. Good(d)
  BY <1>5, <1>7, <1>8, <1>9, <1>10, <1>11 DEF Good
<1> QED BY <1>5, <1>12 DEF d, f

\* The server finds that its client has the same cookie, and answers.
LEMMA CheckedGood ==
    ASSUME TypeOK, NEW c, Good(c), c.at["server"] = "reply", c.wire["server"] # <<>>,
           Head(c.wire["server"]).digest = Digest(c.node["server"], "server")
    PROVE  LET d == Answered(c, "server",
                        <<[kind |-> "ack", digest |-> Digest(c.node["server"], "client")]>>, "up")
           IN /\ Good(d) /\ d.node = c.node /\ d.owner = c.owner
              /\ d.at["client"] = c.at["client"] /\ d.at["server"] = "up"
<1> DEFINE ack == [kind |-> "ack", digest |-> Digest(c.node["server"], "client")]
           f == <<ack>>
           d == Answered(c, "server", f, "up")
           cw == c.wire["client"]
           dw == d.wire["client"]
<1>1. /\ c \in Connection /\ "up" \in Stages /\ cw \in Seq(Frames)
      /\ c.open \in BOOLEAN
      /\ c.node["server"] \in Node /\ c.node["client"] # c.node["server"]
  BY DEF Good, Connection, Stages, Sides
<1>2. ack \in Frames /\ ~IsControl(ack) /\ ack.digest = Digest(c.node["server"], "client")
  <2>1. ack \in Frames
    BY <1>1, HandshakeFrames, TwoEnds
  <2> QED BY <2>1 DEF IsControl, Kinds
<1> HIDE DEF ack
<1>3. f \in Seq(Frames) /\ Len(f) = 1 /\ DOMAIN f = 1 .. 1 /\ f[1] = ack
  BY <1>2
<1> HIDE DEF f, cw
<1>4. /\ d \in Connection /\ d.node = c.node /\ d.open = c.open /\ d.owner = c.owner
      /\ d.at["server"] = "up" /\ d.at["client"] = c.at["client"]
      /\ d.wire["server"] = TakenBy(c, "server").wire["server"]
      /\ dw = IF c.open THEN cw \o f ELSE cw
  BY <1>1, <1>3, AnsweredFields, TwoEnds DEF cw
<1> HIDE DEF d, dw
<1>5. /\ cw \o f \in Seq(Frames) /\ Len(cw \o f) = Len(cw) + 1 /\ Len(cw) \in Nat
      /\ \A k \in DOMAIN (cw \o f) :
            \/ k \in DOMAIN cw /\ (cw \o f)[k] = cw[k]
            \/ k = Len(cw) + 1 /\ (cw \o f)[k] = ack
  <2>1. \A k \in DOMAIN (cw \o f) :
          \/ k \in DOMAIN cw /\ (cw \o f)[k] = cw[k]
          \/ /\ k \in Nat /\ k > Len(cw) /\ k - Len(cw) \in DOMAIN f
             /\ (cw \o f)[k] = f[k - Len(cw)]
    BY <1>1, <1>3, ConcatParts
  <2>4. cw \o f \in Seq(Frames) /\ Len(cw \o f) = Len(cw) + Len(f) /\ Len(cw) \in Nat
    BY <1>1, <1>3, ConcatParts
  <2>2. cw \o f \in Seq(Frames) /\ Len(cw \o f) = Len(cw) + 1 /\ Len(cw) \in Nat
    BY <1>3, <2>4
  <2>3. ASSUME NEW k \in Nat, k > Len(cw), k - Len(cw) \in DOMAIN f
        PROVE  k = Len(cw) + 1 /\ f[k - Len(cw)] = ack
    BY <1>3, <2>2, <2>3
  <2> QED BY <2>1, <2>2, <2>3
<1>6. c.at["client"] # "up" /\ c.wire["server"][1].digest = Digest(c.node["client"], "server")
  <2>1. 1 \in DOMAIN c.wire["server"]
    BY <1>1, TakeFields, TwoEnds
  <2> QED BY <2>1 DEF Good, ServerStage
<1>7. cookie[c.node["client"]] = cookie[c.node["server"]]
  <2>1. Head(c.wire["server"]) = c.wire["server"][1]
    BY <1>1, TakeFields, TwoEnds
  <2>2. Digest(c.node["client"], "server") = Digest(c.node["server"], "server")
    BY <1>6, <2>1
  <2> QED BY <2>2 DEF Digest
<1>8. ServerStage(d)
  BY <1>4 DEF ServerStage
<1>9. ClientStage(d)
  <2> SUFFICES ASSUME c.at["client"] \in Handshaking
               PROVE  /\ \A k \in DOMAIN dw :
                            /\ k + Taken3(d) = 3 =>
                                dw[k].digest = Digest(d.node["server"], "client")
                            /\ k + Taken3(d) <= 3 => ~IsControl(dw[k])
                      /\ d.open => Len(dw) + Taken3(d) >= 3
    BY <1>4 DEF ClientStage, dw
  <2>1. Taken3(d) = Taken3(c) /\ Taken3(c) \in {0, 1, 2}
    BY <1>4 DEF Taken3
  <2>2. \A k \in DOMAIN cw : ~(k + Taken3(c) >= 3)
    BY DEF Good, ClientStage, cw
  <2>3. c.open => Len(cw) + Taken3(c) = 2
    BY DEF Good, ClientStage, cw
  <2>4. ASSUME NEW k \in DOMAIN dw, k + Taken3(c) = 3
        PROVE  dw[k] = ack
    <3>1. k \notin DOMAIN cw
      <4>1. Taken3(c) \in Nat
        BY <2>1
      <4>2. 3 >= 3
        OBVIOUS
      <4> QED BY <2>2, <2>4, <4>2
    <3> QED BY <1>4, <1>5, <3>1
  <2>6. ASSUME NEW k \in DOMAIN dw, k + Taken3(c) <= 3
        PROVE  ~IsControl(dw[k])
    <3>1. \A j \in DOMAIN cw : j + Taken3(c) <= 3 => ~IsControl(cw[j])
      BY DEF Good, ClientStage, cw
    <3> QED BY <1>2, <1>4, <1>5, <2>6, <3>1
  <2>5. d.open => Len(dw) + Taken3(c) >= 3
    <3>1. CASE c.open
      <4>1. Len(dw) = Len(cw) + 1
        BY <1>4, <1>5, <3>1
      <4> QED BY <1>5, <2>1, <2>3, <3>1, <4>1
    <3>2. CASE ~c.open
      BY <1>4, <3>2
    <3> QED BY <3>1, <3>2
  <2> QED BY <1>2, <1>4, <2>1, <2>4, <2>5, <2>6
<1>10. UpAgreed(d)
  BY <1>4, <1>7 DEF UpAgreed
<1>11. WiresCross(d)
  <2> SUFFICES ASSUME NEW r \in Sides, NEW k \in DOMAIN d.wire[r], IsControl(d.wire[r][k])
               PROVE  /\ Home[d.wire[r][k].to] = d.node[r]
                      /\ Home[d.wire[r][k].from] = d.node[Other(r)]
    BY DEF WiresCross
  <2>1. CASE r = "client"
    <3>1. k \in DOMAIN c.wire[r] /\ d.wire[r][k] = c.wire[r][k]
      BY <1>2, <1>4, <1>5, <2>1 DEF dw, cw
    <3> QED BY <1>4, <3>1 DEF Good, WiresCross
  <2>2. CASE r = "server"
    <3> DEFINE tw == TakenBy(c, "server").wire["server"]
    <3>2. \A j \in DOMAIN tw :
            j + 1 \in DOMAIN c.wire["server"] /\ tw[j] = c.wire["server"][j + 1]
      BY <1>1, TakeFields, TwoEnds
    <3> HIDE DEF tw
    <3>3. d.wire[r] = tw
      BY <1>4, <2>2 DEF tw
    <3>1. k + 1 \in DOMAIN c.wire[r] /\ d.wire[r][k] = c.wire[r][k + 1]
      BY <2>2, <3>2, <3>3
    <3> QED BY <1>4, <3>1 DEF Good, WiresCross
  <2> QED BY <2>1, <2>2 DEF Sides
<1>12. d.node["client"] # d.node["server"]
  BY <1>1, <1>4
<1>13. Good(d)
  BY <1>4, <1>8, <1>9, <1>10, <1>11, <1>12 DEF Good
<1> QED BY <1>4, <1>13 DEF d, f, ack

\* The client goes on after the status of its server.
LEMMA WentOnGood ==
    ASSUME NEW c, Good(c), c.at["client"] = "status", c.wire["client"] # <<>>
    PROVE  LET d == MovedOn(c, "client", "challenge")
           IN /\ Good(d) /\ d.node = c.node /\ d.owner = c.owner
              /\ d.at["server"] = c.at["server"]
<1> DEFINE d == MovedOn(c, "client", "challenge")
           b == TakenBy(c, "client")
           cw == c.wire["client"]
           dw == b.wire["client"]
<1>1. c \in Connection /\ "challenge" \in Stages
  BY DEF Good, Stages, Handshaking
<1>2. /\ b.wire["server"] = c.wire["server"]
      /\ Len(dw) = Len(cw) - 1 /\ Len(cw) \in Nat /\ Len(cw) >= 1
      /\ \A k \in DOMAIN dw : k \in Nat /\ k + 1 \in DOMAIN cw /\ dw[k] = cw[k + 1]
  BY <1>1, TakeFields, TwoEnds
<1>3. /\ d \in Connection /\ d.node = c.node /\ d.open = c.open /\ d.owner = c.owner
      /\ d.at["client"] = "challenge" /\ d.at["server"] = c.at["server"]
      /\ d.wire = b.wire
  BY <1>1, MovedFields, TwoEnds
<1> HIDE DEF d, b, cw, dw
<1>4. d.wire["client"] = dw /\ d.wire["server"] = c.wire["server"]
  BY <1>2, <1>3 DEF dw
<1>5. Taken3(c) = 0 /\ Taken3(d) = 1
  BY <1>3 DEF Taken3
<1>6. ServerStage(d)
  <2>1. c.at["server"] # "name"
    BY DEF Good, ServerStage
  <2> QED BY <1>3, <1>4, <2>1 DEF Good, ServerStage
<1>7. ClientStage(d)
  <2>1. /\ \A k \in DOMAIN cw :
              /\ k + 0 >= 3 => c.at["server"] \notin {"name", "reply"}
              /\ k + 0 = 3 => cw[k].digest = Digest(c.node["server"], "client")
              /\ k + 0 <= 3 => ~IsControl(cw[k])
        /\ c.open /\ c.at["server"] = "reply" => Len(cw) + 0 = 2
        /\ c.open /\ c.at["server"] = "up" => Len(cw) + 0 >= 3
    BY <1>5 DEF Good, ClientStage, Handshaking, cw
  <2>2. ASSUME NEW k \in DOMAIN dw
        PROVE  /\ k + 1 >= 3 => c.at["server"] \notin {"name", "reply"}
               /\ k + 1 = 3 => dw[k].digest = Digest(c.node["server"], "client")
               /\ k + 1 <= 3 => ~IsControl(dw[k])
    <3>1. k \in Nat /\ k + 1 \in DOMAIN cw /\ dw[k] = cw[k + 1]
      BY <1>2
    <3>2. (k + 1) + 0 = k + 1
      BY <3>1
    <3> QED BY <2>1, <3>1, <3>2
  <2>3. /\ c.open /\ c.at["server"] = "reply" => Len(dw) + 1 = 2
        /\ c.open /\ c.at["server"] = "up" => Len(dw) + 1 >= 3
    BY <1>2, <2>1
  <2> QED BY <1>3, <1>4, <1>5, <2>2, <2>3 DEF ClientStage
<1>8. UpAgreed(d)
  BY <1>3 DEF Good, UpAgreed, Sides
<1>9. WiresCross(d)
  <2> SUFFICES ASSUME NEW r \in Sides, NEW k \in DOMAIN d.wire[r], IsControl(d.wire[r][k])
               PROVE  /\ Home[d.wire[r][k].to] = d.node[r]
                      /\ Home[d.wire[r][k].from] = d.node[Other(r)]
    BY DEF WiresCross
  <2>1. \E l \in DOMAIN c.wire[r] : d.wire[r][k] = c.wire[r][l]
    BY <1>2, <1>4 DEF Sides, cw
  <2> QED BY <1>3, <2>1 DEF Good, WiresCross
<1>10. d.node["client"] # d.node["server"]
  BY <1>3 DEF Good
<1>11. Good(d)
  BY <1>3, <1>6, <1>7, <1>8, <1>9, <1>10 DEF Good
<1> QED BY <1>3, <1>11 DEF d

\* The client takes the challenge, and replies.
LEMMA RepliedGood ==
    ASSUME TypeOK, NEW c, Good(c), c.at["client"] = "challenge", c.wire["client"] # <<>>
    PROVE  LET d == Answered(c, "client",
                      <<[kind |-> "reply", digest |-> Digest(c.node["client"], "server")]>>, "ack")
           IN /\ Good(d) /\ d.node = c.node /\ d.owner = c.owner
              /\ d.at["server"] = c.at["server"]
<1> DEFINE reply == [kind |-> "reply", digest |-> Digest(c.node["client"], "server")]
           f == <<reply>>
           d == Answered(c, "client", f, "ack")
           b == TakenBy(c, "client")
           cw == c.wire["client"]
           dw == b.wire["client"]
           sw == c.wire["server"]
           tw == d.wire["server"]
<1>1. /\ c \in Connection /\ "ack" \in Stages /\ sw \in Seq(Frames)
      /\ c.open \in BOOLEAN /\ c.node["client"] \in Node
  BY DEF Good, Connection, Stages, Handshaking, Sides
<1>2. /\ reply \in Frames /\ ~IsControl(reply) /\ reply.kind = "reply"
      /\ reply.digest = Digest(c.node["client"], "server")
  <2>1. reply \in Frames
    BY <1>1, HandshakeFrames, TwoEnds
  <2> QED BY <2>1 DEF IsControl, Kinds
<1> HIDE DEF reply
<1>3. f \in Seq(Frames) /\ Len(f) = 1 /\ DOMAIN f = 1 .. 1 /\ f[1] = reply
  BY <1>2
<1>4. /\ Len(dw) = Len(cw) - 1 /\ Len(cw) \in Nat /\ Len(cw) >= 1
      /\ \A k \in DOMAIN dw : k \in Nat /\ k + 1 \in DOMAIN cw /\ dw[k] = cw[k + 1]
  BY <1>1, TakeFields, TwoEnds
<1> HIDE DEF f, cw, dw, sw
<1>5. /\ d \in Connection /\ d.node = c.node /\ d.open = c.open /\ d.owner = c.owner
      /\ d.at["client"] = "ack" /\ d.at["server"] = c.at["server"]
      /\ d.wire["client"] = dw /\ tw = IF c.open THEN sw \o f ELSE sw
  BY <1>1, <1>3, AnsweredFields, TwoEnds DEF sw, dw
<1> HIDE DEF d, b, tw
<1>6. ASSUME NEW k \in DOMAIN tw
      PROVE  (k \in DOMAIN sw /\ tw[k] = sw[k]) \/ tw[k] = reply
  <2>1. ASSUME NEW l \in DOMAIN (sw \o f)
        PROVE  (l \in DOMAIN sw /\ (sw \o f)[l] = sw[l]) \/ (sw \o f)[l] = reply
    <3>1. \/ l \in DOMAIN sw /\ (sw \o f)[l] = sw[l]
          \/ l - Len(sw) \in DOMAIN f /\ (sw \o f)[l] = f[l - Len(sw)]
      BY <1>1, <1>3, ConcatParts
    <3>2. \A x \in DOMAIN f : f[x] = reply
      BY <1>3
    <3> QED BY <3>1, <3>2
  <2> QED BY <1>5, <2>1
<1>7. Taken3(c) = 1 /\ Taken3(d) = 2
  BY <1>5 DEF Taken3
<1>8. ServerStage(d)
  <2>1. c.at["server"] # "name"
    BY DEF Good, ServerStage
  <2>2. ASSUME c.at["server"] = "reply", NEW k \in DOMAIN tw
        PROVE  tw[k].kind = "reply" /\ tw[k].digest = Digest(c.node["client"], "server")
    BY <1>2, <1>6, <2>2 DEF Good, ServerStage, sw
  <2> QED BY <1>5, <2>1, <2>2 DEF ServerStage, tw
<1>9. ClientStage(d)
  <2>1. /\ \A k \in DOMAIN cw :
              /\ k + 1 >= 3 => c.at["server"] \notin {"name", "reply"}
              /\ k + 1 = 3 => cw[k].digest = Digest(c.node["server"], "client")
              /\ k + 1 <= 3 => ~IsControl(cw[k])
        /\ c.open /\ c.at["server"] = "reply" => Len(cw) + 1 = 2
        /\ c.open /\ c.at["server"] = "up" => Len(cw) + 1 >= 3
    BY <1>7 DEF Good, ClientStage, Handshaking, cw
  <2>2. ASSUME NEW k \in DOMAIN dw
        PROVE  /\ k + 2 >= 3 => c.at["server"] \notin {"name", "reply"}
               /\ k + 2 = 3 => dw[k].digest = Digest(c.node["server"], "client")
               /\ k + 2 <= 3 => ~IsControl(dw[k])
    <3>1. k \in Nat /\ k + 1 \in DOMAIN cw /\ dw[k] = cw[k + 1]
      BY <1>4
    <3>2. (k + 1) + 1 = k + 2
      BY <3>1
    <3> QED BY <2>1, <3>1, <3>2
  <2>3. /\ c.open /\ c.at["server"] = "reply" => Len(dw) + 2 = 2
        /\ c.open /\ c.at["server"] = "up" => Len(dw) + 2 >= 3
    BY <1>4, <2>1
  <2> QED BY <1>5, <1>7, <2>2, <2>3 DEF ClientStage
<1>10. UpAgreed(d)
  BY <1>5 DEF Good, UpAgreed, Sides
<1>11. WiresCross(d)
  <2> SUFFICES ASSUME NEW r \in Sides, NEW k \in DOMAIN d.wire[r], IsControl(d.wire[r][k])
               PROVE  /\ Home[d.wire[r][k].to] = d.node[r]
                      /\ Home[d.wire[r][k].from] = d.node[Other(r)]
    BY DEF WiresCross
  <2>1. \E l \in DOMAIN c.wire[r] : d.wire[r][k] = c.wire[r][l]
    <3>1. CASE r = "client"
      BY <1>4, <1>5, <3>1 DEF cw
    <3>2. CASE r = "server"
      <4>1. d.wire[r] = tw /\ c.wire[r] = sw
        BY <3>2 DEF tw, sw
      <4> QED BY <1>2, <1>6, <4>1
    <3> QED BY <3>1, <3>2 DEF Sides
  <2> QED BY <1>5, <2>1 DEF Good, WiresCross
<1>12. d.node["client"] # d.node["server"]
  BY <1>5 DEF Good
<1>13. Good(d)
  BY <1>5, <1>8, <1>9, <1>10, <1>11, <1>12 DEF Good
<1> QED BY <1>5, <1>13 DEF d, f, reply

\* The client finds that its server has the same cookie.
LEMMA AcceptedGood ==
    ASSUME NEW c, Good(c), c.at["client"] = "ack", c.wire["client"] # <<>>,
           Head(c.wire["client"]).digest = Digest(c.node["client"], "client")
    PROVE  LET d == MovedOn(c, "client", "up")
           IN /\ Good(d) /\ d.node = c.node /\ d.owner = c.owner
              /\ d.at["server"] = c.at["server"] /\ d.at["client"] = "up"
<1> DEFINE d == MovedOn(c, "client", "up")
           b == TakenBy(c, "client")
           cw == c.wire["client"]
<1>1. c \in Connection /\ "up" \in Stages
  BY DEF Good, Stages
<1>2. /\ b.wire["server"] = c.wire["server"]
      /\ 1 \in DOMAIN cw /\ Head(cw) = cw[1]
      /\ \A k \in DOMAIN b.wire["client"] :
            k + 1 \in DOMAIN cw /\ b.wire["client"][k] = cw[k + 1]
  BY <1>1, TakeFields, TwoEnds
<1>3. /\ d \in Connection /\ d.node = c.node /\ d.open = c.open /\ d.owner = c.owner
      /\ d.at["client"] = "up" /\ d.at["server"] = c.at["server"]
      /\ d.wire = b.wire
  BY <1>1, MovedFields, TwoEnds
<1> HIDE DEF d, b, cw
<1>4. /\ c.at["server"] \notin {"name", "reply"}
      /\ cw[1].digest = Digest(c.node["server"], "client")
  <2>1. Taken3(c) = 2
    BY DEF Taken3
  <2>2. 1 + Taken3(c) = 3 /\ 1 + Taken3(c) >= 3
    BY <2>1
  <2> QED BY <1>2, <2>2 DEF Good, ClientStage, Handshaking, cw
<1>5. cookie[c.node["client"]] = cookie[c.node["server"]]
  <2>1. Digest(c.node["client"], "client") = Digest(c.node["server"], "client")
    BY <1>2, <1>4 DEF cw
  <2> QED BY <2>1 DEF Digest
<1>6. ServerStage(d)
  BY <1>3, <1>4 DEF ServerStage
<1>7. ClientStage(d)
  BY <1>3 DEF ClientStage, Handshaking
<1>8. UpAgreed(d)
  BY <1>3, <1>5 DEF UpAgreed
<1>9. WiresCross(d)
  <2> SUFFICES ASSUME NEW r \in Sides, NEW k \in DOMAIN d.wire[r], IsControl(d.wire[r][k])
               PROVE  /\ Home[d.wire[r][k].to] = d.node[r]
                      /\ Home[d.wire[r][k].from] = d.node[Other(r)]
    BY DEF WiresCross
  <2>1. \E l \in DOMAIN c.wire[r] : d.wire[r][k] = c.wire[r][l]
    BY <1>2, <1>3 DEF Sides, cw
  <2> QED BY <1>3, <2>1 DEF Good, WiresCross
<1>10. d.node["client"] # d.node["server"]
  BY <1>3 DEF Good
<1>11. Good(d)
  BY <1>3, <1>6, <1>7, <1>8, <1>9, <1>10 DEF Good
<1> QED BY <1>3, <1>11 DEF d

-----------------------------------------------------------------------------
(* A step of all connections and tasks.                                    *)

Status == {"live", "ending", "stuck", "gone"}

\* Connections, registrations and what there is to send go on as they should.
Moved ==
    /\ cookie' = cookie /\ ConnsGood(conns') /\ Extends(conns, conns')
    /\ Served(conns', connections') /\ connections' \in [Node -> [Node -> Nat]]
    /\ status' \in [Procs -> Status] /\ faults' \in Nat
    /\ todo' \in [Tasks -> Seq(Controls)]
    /\ \A t \in Tasks :
        \/ todo'[t] = todo[t]
        \/ \A k \in DOMAIN todo'[t] :
              \E n \in Node : TaskOf(conns, t, n) /\ Crosses(todo'[t][k], n)

TablesOK ==
    /\ remote_links \in [Procs -> SUBSET Procs]
    /\ remote_monitors \in [Procs -> SUBSET Monitors]
    /\ monitored_by \in [Procs -> SUBSET Monitors]
    /\ TablesCross

\* Such a step, with the tables as they should be, keeps the invariant.
LEMMA MovedKeeps ==
    ASSUME IInv, Moved, TablesOK', (inbox \in [Procs -> SUBSET Controls])',
           (ops \in [Procs -> Nat])'
    PROVE  IInv'
<1>1. ConnsGood(conns)'
  <2>1. \A i \in DOMAIN conns' : Good(conns'[i])
    BY DEF Moved, ConnsGood
  <2>2. ASSUME NEW i \in DOMAIN conns' PROVE (Good(conns[i]))'
    <3>1. Good(conns'[i])
      BY <2>1
    <3>2. ServerStage(conns[i])'
      BY <3>1 DEF Moved, Good, ServerStage, Digest
    <3>3. ClientStage(conns[i])'
      BY <3>1 DEF Moved, Good, ClientStage, Digest, Taken3
    <3>4. UpAgreed(conns[i])'
      BY <3>1 DEF Moved, Good, UpAgreed
    <3>5. WiresCross(conns[i])'
      BY <3>1 DEF Moved, Good, WiresCross
    <3>6. (conns[i] \in Connection)' /\ (conns[i].node["client"] # conns[i].node["server"])'
      BY <3>1 DEF Good
    <3> QED BY <3>2, <3>3, <3>4, <3>5, <3>6 DEF Good
  <2>3. (conns \in Seq(Connection) /\ Len(conns) <= MaxConns)'
    BY DEF Moved, ConnsGood
  <2>4. \A i \in DOMAIN conns' :
          TaskOf(conns', conns'[i].owner, conns'[i].node["client"])
    BY DEF Moved, ConnsGood
  <2> QED BY <2>2, <2>3, <2>4 DEF ConnsGood
<1>2. Served(conns, connections)'
  BY DEF Moved, Served, Side
<1>3. TodoCrosses'
  <2> SUFFICES ASSUME NEW t \in Tasks, NEW k \in DOMAIN todo'[t]
               PROVE  \E n \in Node : TaskOf(conns', t, n) /\ Crosses(todo'[t][k], n)
    BY DEF TodoCrosses
  <2>1. PICK n \in Node : TaskOf(conns, t, n) /\ Crosses(todo'[t][k], n)
    <3>1. CASE todo'[t] = todo[t]
      BY <3>1 DEF IInv, TodoCrosses
    <3> QED BY <3>1 DEF Moved
  <2>2. TaskOf(conns', t, n)
    BY <2>1, TaskOfExtends DEF Moved
  <2> QED BY <2>1, <2>2
<1>4. TypeOK'
  <2>1. (\E start \in Starts : cookie = start.cookie)'
    BY DEF IInv, TypeOK, Moved
  <2> QED BY <2>1 DEF TypeOK, Moved, ConnsGood, TablesOK, Status
<1> QED BY <1>1, <1>2, <1>3, <1>4 DEF IInv, TablesOK

\* The invariant has the tables as they should be.
LEMMA InvTables == ASSUME IInv PROVE TablesOK
BY DEF IInv, TypeOK, TablesOK

\* A task of node n sends.
LEMMA MovedByEmit ==
    ASSUME IInv, NEW t \in Tasks, NEW n \in Node, NEW cs, NEW reg,
           NEW ms \in Seq(Controls), NEW ending \in BOOLEAN, ending => t \in Procs,
           ConnsGood(cs), Extends(conns, cs), Served(cs, reg),
           reg \in [Node -> [Node -> Nat]], TaskOf(conns, t, n),
           \A k \in DOMAIN ms : Crosses(ms[k], n),
           Emit(t, n, cs, reg, ms, ending), connections' = reg, cookie' = cookie
    PROVE  Moved
<1>1. TypeOK /\ TaskOf(cs, t, n)
  BY TaskOfExtends DEF IInv
<1>2. /\ ConnsGood(conns') /\ Served(conns', reg) /\ Extends(cs, conns')
      /\ todo' \in [Tasks -> Seq(Controls)]
      /\ \A u \in Tasks : u # t => todo'[u] = todo[u]
      /\ \A k \in DOMAIN todo'[t] : Crosses(todo'[t][k], n)
      /\ status' \in [Procs -> Status] /\ faults' \in Nat
  BY <1>1, EmitEffect DEF Status
<1>3. Extends(conns, conns')
  BY <1>2 DEF Extends
<1>4. Served(conns', connections') /\ connections' \in [Node -> [Node -> Nat]]
  BY <1>2
<1>5. \A u \in Tasks :
        \/ todo'[u] = todo[u]
        \/ \A k \in DOMAIN todo'[u] :
              \E x \in Node : TaskOf(conns, u, x) /\ Crosses(todo'[u][k], x)
  BY <1>2
<1> QED BY <1>2, <1>3, <1>4, <1>5 DEF Moved

\* One connection goes on, and at most one task forgets what it had to send.
LEMMA MovedByOne ==
    ASSUME IInv, NEW i \in DOMAIN conns, NEW c, Good(c),
           c.node = conns[i].node, c.owner = conns[i].owner,
           conns' = [conns EXCEPT ![i] = c],
           Served([conns EXCEPT ![i] = c], connections'),
           connections' \in [Node -> [Node -> Nat]],
           todo' = todo \/ \E t \in Tasks : todo' = [todo EXCEPT ![t] = <<>>],
           status' \in [Procs -> Status], faults' \in Nat, cookie' = cookie
    PROVE  Moved
<1>1. ConnsGood(conns)
  BY DEF IInv
<1>2. ConnsGood(conns') /\ Extends(conns, conns')
  BY <1>1, ReplaceGood
<1>3. todo \in [Tasks -> Seq(Controls)]
  BY DEF IInv, TypeOK
<1>4. /\ todo' \in [Tasks -> Seq(Controls)]
      /\ \A t \in Tasks : todo'[t] = todo[t] \/ todo'[t] = <<>>
  <2>1. CASE todo' = todo
    BY <1>3, <2>1
  <2>2. ASSUME NEW t \in Tasks, todo' = [todo EXCEPT ![t] = <<>>]
        PROVE  /\ todo' \in [Tasks -> Seq(Controls)]
               /\ \A u \in Tasks : todo'[u] = todo[u] \/ todo'[u] = <<>>
    <3> DEFINE e == <<>>
    <3>1. e \in Seq(Controls)
      OBVIOUS
    <3>2. todo' = [todo EXCEPT ![t] = e]
      BY <2>2
    <3> HIDE DEF e
    <3>3. /\ todo' \in [Tasks -> Seq(Controls)]
          /\ \A u \in Tasks : todo'[u] = todo[u] \/ todo'[u] = e
      BY <1>3, <3>1, <3>2
    <3> QED BY <3>3 DEF e
  <2> QED BY <2>1, <2>2
<1>5. \A t \in Tasks :
        \/ todo'[t] = todo[t]
        \/ \A k \in DOMAIN todo'[t] :
              \E n \in Node : TaskOf(conns, t, n) /\ Crosses(todo'[t][k], n)
  BY <1>4
<1> QED BY <1>2, <1>4, <1>5 DEF Moved

\* Registering an end of a connection that has come up.
LEMMA RegisterServed ==
    ASSUME IInv, NEW i \in DOMAIN conns, NEW s \in Sides, NEW c, Good(c),
           c.node = conns[i].node, c.at[s] = "up",
           c.at[Other(s)] = conns[i].at[Other(s)]
    PROVE  /\ Served([conns EXCEPT ![i] = c], Register(i, s))
           /\ Register(i, s) \in [Node -> [Node -> Nat]]
<1> DEFINE ds == [conns EXCEPT ![i] = c]
           a == c.node[s]
           b == c.node[Other(s)]
           R == Register(i, s)
<1>1. /\ conns \in Seq(Connection) /\ connections \in [Node -> [Node -> Nat]]
      /\ Served(conns, connections)
  BY DEF IInv, TypeOK
<1>2. a \in Node /\ b \in Node /\ a # b
  BY TwoEnds DEF Good, Connection, Sides
<1>3. i \in Nat /\ i # 0
  BY <1>1
<1>4. R = [connections EXCEPT ![a][b] = i]
  BY DEF Register
<1>5. /\ R \in [Node -> [Node -> Nat]] /\ R[a][b] = i
      /\ \A n, m \in Node : n # a \/ m # b => R[n][m] = connections[n][m]
  BY <1>1, <1>2, <1>3, <1>4
<1>6. DOMAIN ds = DOMAIN conns /\ ds[i] = c /\ \A j \in DOMAIN conns : j # i => ds[j] = conns[j]
  OBVIOUS
<1>7. Side(c, a) = s
  BY <1>2, TwoEnds DEF Side, Sides
<1> HIDE DEF ds, a, b, R
<1>9. ASSUME NEW n \in Node, NEW m \in Node, R[n][m] # 0
      PROVE  /\ R[n][m] \in DOMAIN ds
             /\ LET x == ds[R[n][m]]
                IN /\ x.at[Side(x, n)] = "up" /\ x.node[Side(x, n)] = n
                   /\ x.node[Other(Side(x, n))] = m
  <2>1. CASE n = a /\ m = b
    BY <1>5, <1>6, <1>7, <2>1 DEF a, b
  <2>2. CASE n # a \/ m # b
    <3> DEFINE j == connections[n][m]
    <3>1. R[n][m] = j
      BY <1>5, <2>2
    <3>2. /\ j \in DOMAIN conns /\ conns[j].at[Side(conns[j], n)] = "up"
          /\ conns[j].node[Side(conns[j], n)] = n
          /\ conns[j].node[Other(Side(conns[j], n))] = m
      BY <1>1, <1>9, <3>1 DEF Served
    <3> HIDE DEF j
    <3>3. CASE j # i
      BY <1>6, <3>1, <3>2, <3>3
    <3>4. CASE j = i
      <4>1. Side(c, n) = Side(conns[j], n) /\ Side(c, n) \in Sides
        BY <3>4 DEF Side, Sides
      <4>2. Side(c, n) = s \/ Side(c, n) = Other(s)
        BY <4>1, TwoEnds DEF Sides
      <4>3. c.at[Side(c, n)] = "up"
        BY <3>2, <3>4, <4>1, <4>2
      <4> QED BY <1>6, <3>1, <3>2, <3>4, <4>1, <4>3
    <3> QED BY <3>3, <3>4
  <2> QED BY <2>1, <2>2
<1> QED BY <1>5, <1>9 DEF Served, ds, R

\* The entry of a node whose loop ends goes, and with it the only one that held
\* this end.
LEMMA UnregisterServed ==
    ASSUME IInv, NEW i \in DOMAIN conns, NEW s \in Sides, NEW c,
           c.node = conns[i].node, c.at[Other(s)] = conns[i].at[Other(s)],
           NEW reg, reg = [connections EXCEPT ![conns[i].node[s]][conns[i].node[Other(s)]] = 0]
    PROVE  /\ Served([conns EXCEPT ![i] = c], reg)
           /\ reg \in [Node -> [Node -> Nat]]
<1> DEFINE ds == [conns EXCEPT ![i] = c]
           a == c.node[s]
           b == c.node[Other(s)]
<1>1. /\ conns \in Seq(Connection) /\ connections \in [Node -> [Node -> Nat]]
      /\ Served(conns, connections) /\ Good(conns[i])
  BY DEF IInv, TypeOK, ConnsGood
<1>2. a \in Node /\ b \in Node /\ a # b
  BY <1>1, TwoEnds DEF Good, Connection, Sides
<1>3. /\ reg \in [Node -> [Node -> Nat]] /\ reg[a][b] = 0
      /\ \A n, m \in Node : n # a \/ m # b => reg[n][m] = connections[n][m]
  BY <1>1, <1>2
<1>4. DOMAIN ds = DOMAIN conns /\ ds[i] = c /\ \A j \in DOMAIN conns : j # i => ds[j] = conns[j]
  OBVIOUS
<1> HIDE DEF ds, a, b
<1>5. ASSUME NEW n \in Node, NEW m \in Node, reg[n][m] # 0
      PROVE  /\ reg[n][m] \in DOMAIN ds
             /\ LET x == ds[reg[n][m]]
                IN /\ x.at[Side(x, n)] = "up" /\ x.node[Side(x, n)] = n
                   /\ x.node[Other(Side(x, n))] = m
  <2> DEFINE j == connections[n][m]
  <2>1. reg[n][m] = j /\ (n # a \/ m # b)
    BY <1>3, <1>5
  <2>2. /\ j \in DOMAIN conns /\ conns[j].at[Side(conns[j], n)] = "up"
        /\ conns[j].node[Side(conns[j], n)] = n
        /\ conns[j].node[Other(Side(conns[j], n))] = m
    BY <1>1, <1>5, <2>1 DEF Served
  <2> HIDE DEF j
  <2>3. CASE j # i
    BY <1>4, <2>1, <2>2, <2>3
  <2>4. CASE j = i
    <3>1. Side(c, n) = Side(conns[j], n) /\ Side(c, n) \in Sides
      BY <2>4 DEF Side, Sides
    <3>2. Side(c, n) # s
      BY <2>1, <2>2, <2>4, <3>1 DEF a, b
    <3>3. Side(c, n) = Other(s)
      BY <3>1, <3>2, TwoEnds DEF Sides
    <3>4. c.at[Side(c, n)] = "up"
      BY <2>2, <2>4, <3>1, <3>3
    <3> QED BY <1>4, <2>1, <2>2, <2>4, <3>1, <3>4
  <2> QED BY <2>3, <2>4
<1> QED BY <1>3, <1>5 DEF Served, ds

-----------------------------------------------------------------------------
(* Operations and ends of a process.                                       *)

\* A message between processes of two nodes crosses from the first one's.
LEMMA MessageTyped ==
    ASSUME NEW kind \in Kinds, NEW p \in Procs, NEW q \in Procs, Remote(p, q),
           NEW ref \in RefValues, NEW reason \in Reasons
    PROVE  LET m == Message(kind, p, q, ref, reason)
           IN m \in Controls /\ Crosses(m, Home[p])
<1>1. Message(kind, p, q, ref, reason) =
        [kind |-> kind, from |-> p, to |-> q, ref |-> ref, reason |-> reason]
  BY DEF Message
<1> QED BY <1>1 DEF Controls, Crosses, Remote

\* Every reference the code makes is one.
LEMMA References ==
    /\ NoRef \in RefValues /\ \A k \in Nat : Exact(k) \in RefValues
    /\ \A ref \in RefValues : Hashed(ref) \in RefValues
BY DEF NoRef, Exact, Hashed, RefValues

\* An operation of a process sends one message that crosses.
LEMMA OperationMoved ==
    ASSUME IInv, NEW p \in Procs, NEW m \in Controls, Crosses(m, Home[p]), Operation(p, m)
    PROVE  Moved /\ (inbox \in [Procs -> SUBSET Controls])' /\ (ops \in [Procs -> Nat])'
<1>1. /\ Emit(p, Home[p], conns, connections, <<m>>, FALSE)
      /\ connections' = connections /\ cookie' = cookie /\ inbox' = inbox
      /\ ops' = [ops EXCEPT ![p] = @ + 1]
  BY DEF Operation
<1>2. /\ ConnsGood(conns) /\ Served(conns, connections)
      /\ connections \in [Node -> [Node -> Nat]]
      /\ inbox \in [Procs -> SUBSET Controls] /\ ops \in [Procs -> Nat]
  BY DEF IInv, TypeOK
<1>3. p \in Tasks /\ Home[p] \in Node /\ TaskOf(conns, p, Home[p]) /\ Extends(conns, conns)
  BY DEF Tasks, TaskOf, Extends
<1> DEFINE ms == <<m>>
<1>4. ms \in Seq(Controls) /\ \A k \in DOMAIN ms : Crosses(ms[k], Home[p])
  OBVIOUS
<1>5. Emit(p, Home[p], conns, connections, ms, FALSE)
  BY <1>1
<1> HIDE DEF ms
<1>6. Moved
  <2>1. FALSE \in BOOLEAN
    OBVIOUS
  <2> QED BY <1>1, <1>2, <1>3, <1>4, <1>5, <2>1, MovedByEmit
<1> QED BY <1>1, <1>2, <1>6

\* link() to a process of another node.
LEMMA LinkStep ==
    ASSUME IInv, NEW p \in Procs, NEW q \in Procs, Remote(p, q), Link(p, q)
    PROVE  IInv'
<1>1. LinkMessage(p, q) \in Controls /\ Crosses(LinkMessage(p, q), Home[p])
  BY MessageTyped, References DEF LinkMessage, Kinds, Reasons
<1>2. Operation(p, LinkMessage(p, q)) /\ monitored_by' = monitored_by
  BY DEF Link, Operation
<1>3. TablesOK'
  <2>1. /\ remote_links' = [remote_links EXCEPT ![p] = @ \union {q}]
        /\ remote_monitors' = remote_monitors
    BY DEF Link
  <2>2. IsFiniteSet(remote_links[p] \union {q})
    BY InvTables, FS_AddElement DEF TablesOK, TablesCross
  <2> QED BY <1>2, <2>1, <2>2, InvTables DEF TablesOK, TablesCross
<1> QED BY <1>1, <1>2, <1>3, OperationMoved, MovedKeeps

\* unlink().
LEMMA UnlinkStep ==
    ASSUME IInv, NEW p \in Procs, NEW q \in Procs, Remote(p, q), Unlink(p, q)
    PROVE  IInv'
<1>1. UnlinkMessage(p, q) \in Controls /\ Crosses(UnlinkMessage(p, q), Home[p])
  BY MessageTyped, References DEF UnlinkMessage, Kinds, Reasons
<1>2. Operation(p, UnlinkMessage(p, q)) /\ monitored_by' = monitored_by
  BY DEF Unlink, Operation
<1>3. TablesOK'
  <2>1. /\ remote_links' = [remote_links EXCEPT ![p] = @ \ {q}]
        /\ remote_monitors' = remote_monitors
    BY DEF Unlink
  <2>2. IsFiniteSet(remote_links[p] \ {q})
    BY InvTables, FS_RemoveElement DEF TablesOK, TablesCross
  <2> QED BY <1>2, <2>1, <2>2, InvTables DEF TablesOK, TablesCross
<1> QED BY <1>1, <1>2, <1>3, OperationMoved, MovedKeeps

\* monitor().
LEMMA MonitorStep ==
    ASSUME IInv, NEW p \in Procs, NEW q \in Procs, Remote(p, q), Monitor(p, q)
    PROVE  IInv'
<1> DEFINE ref == Exact(ops[p] + 1)
<1>1. ref \in RefValues
  BY References DEF IInv, TypeOK
<1> HIDE DEF ref
<1>2. MonitorMessage(p, q, ref) \in Controls /\ Crosses(MonitorMessage(p, q, ref), Home[p])
  BY <1>1, MessageTyped DEF MonitorMessage, Kinds, Reasons
<1>3. /\ Operation(p, MonitorMessage(p, q, ref))
      /\ monitored_by' = monitored_by /\ remote_links' = remote_links
      /\ remote_monitors' =
            [remote_monitors EXCEPT ![p] = @ \union {[ref |-> ref, pid |-> q]}]
  BY DEF Monitor, Operation, ref
<1>4. TablesOK'
  <2> DEFINE mon == [ref |-> ref, pid |-> q]
  <2>1. mon \in Monitors /\ mon.pid = q
    BY <1>1 DEF Monitors
  <2> HIDE DEF mon
  <2>2. remote_monitors' = [remote_monitors EXCEPT ![p] = @ \union {mon}]
    BY <1>3 DEF mon
  <2> QED BY <1>3, <2>1, <2>2, InvTables DEF TablesOK, TablesCross
<1> QED BY <1>2, <1>3, <1>4, OperationMoved, MovedKeeps

\* demonitor().
LEMMA DemonitorStep ==
    ASSUME IInv, NEW p \in Procs, NEW mon \in remote_monitors[p], Demonitor(p, mon)
    PROVE  IInv'
<1>1. mon \in Monitors /\ Remote(p, mon.pid)
  BY InvTables DEF TablesOK, TablesCross
<1>2. mon.pid \in Procs /\ Hashed(mon.ref) \in RefValues
  BY <1>1, References DEF Monitors
<1> DEFINE m == DemonitorMessage(p, mon.pid, Hashed(mon.ref))
<1>3. m \in Controls /\ Crosses(m, Home[p])
  BY <1>1, <1>2, MessageTyped DEF DemonitorMessage, Kinds, Reasons
<1> HIDE DEF m
<1>4. /\ Operation(p, m)
      /\ monitored_by' = monitored_by /\ remote_links' = remote_links
      /\ remote_monitors' = [remote_monitors EXCEPT ![p] = @ \ {mon}]
  BY DEF Demonitor, Operation, m
<1>5. TablesOK'
  BY <1>4, InvTables DEF TablesOK, TablesCross
<1> QED BY <1>3, <1>4, <1>5, OperationMoved, MovedKeeps

\* send(), to a pid or to a name.
LEMMA SendStep ==
    ASSUME IInv, NEW p \in Procs, NEW q \in Procs, Remote(p, q), Send(p, q)
    PROVE  IInv'
<1>1. SendMessage(p, q) \in Controls /\ Crosses(SendMessage(p, q), Home[p])
  BY MessageTyped, References DEF SendMessage, Kinds, Reasons
<1>2. RegSendMessage(p, q) \in Controls /\ Crosses(RegSendMessage(p, q), Home[p])
  BY MessageTyped, References DEF RegSendMessage, Kinds, Reasons
<1>3. /\ Operation(p, SendMessage(p, q)) \/ Operation(p, RegSendMessage(p, q))
      /\ remote_links' = remote_links /\ remote_monitors' = remote_monitors
  BY DEF Send
<1>4. monitored_by' = monitored_by
  BY <1>3 DEF Operation
<1>5. TablesOK'
  BY <1>3, <1>4, InvTables DEF TablesOK, TablesCross
<1> QED BY <1>1, <1>2, <1>3, <1>5, OperationMoved, MovedKeeps

\* Connections that their task no longer waits for.
LEMMA AbandonedGood ==
    ASSUME NEW cs, ConnsGood(cs), NEW p
    PROVE  /\ ConnsGood(Abandoned(cs, p)) /\ Extends(cs, Abandoned(cs, p))
           /\ KeepsUp(cs, Abandoned(cs, p))
<1> DEFINE ds == Abandoned(cs, p)
           l == Len(cs)
<1>1. cs \in Seq(Connection) /\ l \in Nat /\ DOMAIN cs = 1 .. l
  BY DEF ConnsGood
<1>2. /\ DOMAIN ds = DOMAIN cs
      /\ \A i \in DOMAIN cs :
            \/ ds[i] = cs[i]
            \/ ds[i] = GivenUp(cs[i]) /\ cs[i].at["client"] # "up"
  BY DEF Abandoned, GivenUp
<1>3. ds = [i \in 1 .. l |-> ds[i]]
  <2>1. ds = [i \in DOMAIN cs |-> ds[i]]
    BY DEF Abandoned
  <2> QED BY <1>1, <2>1
<1> HIDE DEF ds
<1>4. ASSUME NEW i \in DOMAIN cs
      PROVE  /\ Good(ds[i]) /\ ds[i].node = cs[i].node /\ ds[i].owner = cs[i].owner
             /\ \A s \in Sides : cs[i].at[s] = "up" => ds[i].at[s] = "up"
  <2>1. Good(cs[i])
    BY DEF ConnsGood
  <2> QED BY <1>2, <2>1, GivenUpGood
<1>5. ds \in Seq(Connection) /\ Len(ds) = l
  <2>1. \A i \in 1 .. l : ds[i] \in Connection
    BY <1>1, <1>4 DEF Good
  <2> HIDE DEF l
  <2>2. [i \in 1 .. l |-> ds[i]] \in Seq(Connection) /\ Len([i \in 1 .. l |-> ds[i]]) = l
    BY <1>1, <2>1
  <2> QED BY <1>3, <2>2
<1>6. Extends(cs, ds) /\ KeepsUp(cs, ds)
  BY <1>2, <1>4 DEF Extends, KeepsUp
<1>7. ASSUME NEW i \in DOMAIN ds
      PROVE  TaskOf(ds, ds[i].owner, ds[i].node["client"])
  <2>1. TaskOf(cs, ds[i].owner, ds[i].node["client"])
    BY <1>2, <1>4 DEF ConnsGood
  <2> QED BY <1>6, <2>1, TaskOfExtends
<1>8. ConnsGood(ds)
  BY <1>2, <1>4, <1>5, <1>7 DEF ConnsGood
<1> QED BY <1>6, <1>8 DEF ds

\* What an ending process sends crosses from its node, and links nothing.
LEMMA ExitMessagesCross ==
    ASSUME IInv, NEW p \in Procs, NEW reason \in Reasons
    PROVE  /\ ExitMessages(p, reason) \in Seq(Controls)
           /\ \A k \in DOMAIN ExitMessages(p, reason) :
                /\ Crosses(ExitMessages(p, reason)[k], Home[p])
                /\ ExitMessages(p, reason)[k].kind \in {"exit", "down"}
<1> DEFINE L == IF reason = "exception" THEN remote_links[p] ELSE {}
           exit(q) == ExitMessage(p, q, reason)
           down(m) == MonitorExitMessage(p, m.pid, Hashed(m.ref), reason)
           A == {exit(q) : q \in L}
           B == {down(m) : m \in monitored_by[p]}
           u == SetToSeq(A)
           v == SetToSeq(B)
           M == {m \in Controls : Crosses(m, Home[p]) /\ m.kind \in {"exit", "down"}}
<1>1. /\ L \in SUBSET Procs /\ IsFiniteSet(L) /\ \A q \in L : Remote(p, q)
      /\ monitored_by[p] \in SUBSET Monitors /\ IsFiniteSet(monitored_by[p])
      /\ \A m \in monitored_by[p] : Remote(p, m.pid)
  BY InvTables, FS_EmptySet DEF TablesOK, TablesCross
<1>2. ASSUME NEW q \in L PROVE exit(q) \in M
  BY <1>1, MessageTyped, References DEF ExitMessage, Message, Kinds
<1>3. ASSUME NEW m \in monitored_by[p] PROVE down(m) \in M
  <2>1. m \in Monitors /\ m.pid \in Procs /\ Hashed(m.ref) \in RefValues /\ Remote(p, m.pid)
    BY <1>1, References DEF Monitors
  <2> QED BY <2>1, MessageTyped DEF MonitorExitMessage, Message, Kinds
<1>4. IsFiniteSet(A) /\ A \subseteq M
  <2>1. IsFiniteSet({exit(q) : q \in L})
    <3> DEFINE f == [q \in L |-> exit(q)]
    <3>1. f \in Surjection(L, A)
      BY DEF Surjection
    <3> QED BY <1>1, <3>1, FS_Surjection
  <2> QED BY <1>2, <2>1
<1>5. IsFiniteSet(B) /\ B \subseteq M
  <2>1. IsFiniteSet({down(m) : m \in monitored_by[p]})
    <3> DEFINE f == [m \in monitored_by[p] |-> down(m)]
    <3>1. f \in Surjection(monitored_by[p], B)
      BY DEF Surjection
    <3> QED BY <1>1, <3>1, FS_Surjection
  <2> QED BY <1>3, <2>1
<1>6. ExitMessages(p, reason) = u \o v
  BY DEF ExitMessages
<1> HIDE DEF A, B, M
<1>7. u \in Seq(M) /\ v \in Seq(M)
  <2>1. u \in Seq(A) /\ v \in Seq(B)
    BY <1>4, <1>5, SetAsSeq
  <2> HIDE DEF u, v
  <2> QED BY <1>4, <1>5, <2>1
<1> HIDE DEF u, v
<1>8. u \o v \in Seq(M)
  BY <1>7
<1> DEFINE ms == u \o v
<1>9. ms \in Seq(M)
  BY <1>8
<1> HIDE DEF ms
<1>10. \A m \in M :
          m \in Controls /\ Crosses(m, Home[p]) /\ m.kind \in {"exit", "down"}
  BY DEF M
<1>11. /\ ms \in Seq(Controls)
       /\ \A k \in DOMAIN ms : Crosses(ms[k], Home[p]) /\ ms[k].kind \in {"exit", "down"}
  BY <1>9, <1>10
<1> QED BY <1>6, <1>11 DEF ms

\* The end of a process.
LEMMA EndStep ==
    ASSUME IInv, NEW p \in Procs, NEW reason \in {"normal", "shutdown", "exception"},
           End(p, reason)
    PROVE  IInv'
<1> DEFINE cs == Abandoned(conns, p)
           ms == ExitMessages(p, reason)
<1>1. /\ Emit(p, Home[p], cs, connections, ms, TRUE)
      /\ \/ monitored_by' = [monitored_by EXCEPT ![p] = {}]
         \/ monitored_by' = monitored_by
      /\ connections' = connections /\ cookie' = cookie /\ inbox' = inbox /\ ops' = ops
      /\ remote_links' = remote_links /\ remote_monitors' = remote_monitors
  BY DEF End
<1>2. /\ ConnsGood(conns) /\ Served(conns, connections)
      /\ connections \in [Node -> [Node -> Nat]] /\ conns \in Seq(Connection)
      /\ inbox \in [Procs -> SUBSET Controls] /\ ops \in [Procs -> Nat]
  BY DEF IInv, TypeOK
<1>3. p \in Tasks /\ Home[p] \in Node /\ TaskOf(conns, p, Home[p])
  BY DEF Tasks, TaskOf
<1>4. ms \in Seq(Controls) /\ \A k \in DOMAIN ms : Crosses(ms[k], Home[p])
  BY ExitMessagesCross DEF Reasons
<1>5. ConnsGood(cs) /\ Extends(conns, cs) /\ KeepsUp(conns, cs)
  BY <1>2, AbandonedGood
<1> HIDE DEF cs, ms
<1>6. Served(cs, connections)
  BY <1>2, <1>5, ServedExtends
<1>7. Moved
  <2>1. TRUE \in BOOLEAN
    OBVIOUS
  <2> QED BY <1>1, <1>2, <1>3, <1>4, <1>5, <1>6, <2>1, MovedByEmit
<1>8. TablesOK'
  <2>1. IsFiniteSet({})
    BY FS_EmptySet
  <2> QED BY <1>1, <2>1, InvTables DEF TablesOK, TablesCross
<1>9. (inbox \in [Procs -> SUBSET Controls])' /\ (ops \in [Procs -> Nat])'
  BY <1>1, <1>2
<1> QED BY <1>7, <1>8, <1>9, MovedKeeps

-----------------------------------------------------------------------------
(* Handshakes.                                                             *)

\* What the invariant says of one connection.
LEMMA InvConn ==
    ASSUME IInv, NEW i \in DOMAIN conns
    PROVE  /\ Good(conns[i]) /\ conns[i] \in Connection /\ ConnsGood(conns) /\ TypeOK
           /\ conns \in Seq(Connection) /\ conns[i].owner \in Tasks
           /\ TaskOf(conns, conns[i].owner, conns[i].node["client"])
           /\ conns[i].node["client"] \in Node /\ conns[i].node["server"] \in Node
           /\ conns[i].node["client"] # conns[i].node["server"]
           /\ Served(conns, connections) /\ connections \in [Node -> [Node -> Nat]]
           /\ status \in [Procs -> Status] /\ faults \in Nat
           /\ inbox \in [Procs -> SUBSET Controls] /\ ops \in [Procs -> Nat]
<1>1. /\ Good(conns[i]) /\ conns[i] \in Connection /\ ConnsGood(conns) /\ TypeOK
      /\ conns \in Seq(Connection)
      /\ TaskOf(conns, conns[i].owner, conns[i].node["client"])
      /\ conns[i].node["client"] # conns[i].node["server"]
      /\ Served(conns, connections)
  BY DEF IInv, ConnsGood, Good
<1>2. conns[i].node["client"] \in Node /\ conns[i].node["server"] \in Node
      /\ conns[i].owner \in Tasks
  BY <1>1 DEF Connection, Sides
<1>3. /\ connections \in [Node -> [Node -> Nat]] /\ status \in [Procs -> Status]
      /\ faults \in Nat
      /\ inbox \in [Procs -> SUBSET Controls] /\ ops \in [Procs -> Nat]
  BY <1>1 DEF TypeOK, Status
<1> QED BY <1>1, <1>2, <1>3

\* A step of the handshake that changes one connection, and registers nothing.
LEMMA OneStep ==
    ASSUME IInv, NEW i \in DOMAIN conns, NEW c, Good(c),
           c.node = conns[i].node, c.owner = conns[i].owner,
           \A s \in Sides : conns[i].at[s] = "up" => c.at[s] = "up",
           conns' = [conns EXCEPT ![i] = c], connections' = connections,
           todo' = todo \/ \E t \in Tasks : todo' = [todo EXCEPT ![t] = <<>>],
           status' \in [Procs -> Status], faults' \in Nat, cookie' = cookie,
           TablesOK', inbox' = inbox, ops' = ops
    PROVE  IInv'
<1>1. Extends(conns, [conns EXCEPT ![i] = c]) /\ KeepsUp(conns, [conns EXCEPT ![i] = c])
  BY InvConn, ReplaceGood
<1>2. Served([conns EXCEPT ![i] = c], connections')
  BY <1>1, InvConn, ServedExtends
<1>3. connections' \in [Node -> [Node -> Nat]]
  BY InvConn
<1>4. Moved
  BY <1>2, <1>3, MovedByOne
<1>5. (inbox \in [Procs -> SUBSET Controls])' /\ (ops \in [Procs -> Nat])'
  BY InvConn
<1> QED BY <1>4, <1>5, MovedKeeps

\* A step of the handshake leaves the tables alone.
LEMMA KeptTables ==
    ASSUME IInv, Kept, monitored_by' = monitored_by
    PROVE  TablesOK' /\ inbox' = inbox /\ ops' = ops /\ cookie' = cookie
BY InvTables DEF Kept, TablesOK, TablesCross

\* The server takes the name.
LEMMA NamedStep ==
    ASSUME IInv, NEW i \in DOMAIN conns, ServerNamed(i)
    PROVE  IInv'
<1> DEFINE f == <<[kind |-> "status"], [kind |-> "challenge"]>>
           c == conns[i]
           d == Answered(c, "server", f, "reply")
<1>1. c.at["server"] = "name" /\ c.wire["server"] # <<>>
  BY DEF ServerNamed, Ready
<1>2. conns' = [conns EXCEPT ![i] = d]
  <2> HIDE DEF f
  <2> USE TwoEnds, InvConn
  <2>1. conns' = [Taken(i, "server") EXCEPT ![i] =
                    [Put(@, "client", f) EXCEPT !.at["server"] = "reply"]]
    BY DEF ServerNamed, f
  <2>2. Taken(i, "server") = [conns EXCEPT ![i] = TakenBy(c, "server")]
    BY DEF Taken, TakenBy
  <2> QED BY <2>1, <2>2 DEF Answered
<1>3. Good(d) /\ d.node = c.node /\ d.owner = c.owner /\ d.at["client"] = c.at["client"]
  BY <1>1, InvConn, NamedGood
<1> HIDE DEF d, f
<1>4. \A s \in Sides : c.at[s] = "up" => d.at[s] = "up"
  BY <1>1, <1>3 DEF Sides
<1>5. /\ connections' = connections /\ todo' = todo /\ status' = status /\ faults' = faults
      /\ monitored_by' = monitored_by /\ Kept
  BY DEF ServerNamed, Aside
<1> QED BY <1>2, <1>3, <1>4, <1>5, InvConn, KeptTables, OneStep

\* An end that finds the connection closed.
LEMMA ClosingOne ==
    ASSUME NEW cs \in Seq(Connection), NEW i \in DOMAIN cs, NEW s \in Sides
    PROVE  Closing(cs, i, s) = [cs EXCEPT ![i] = ClosedAt(cs[i], s)]
BY DEF Closing, ClosedAt

\* The server finds the connection closed.
LEMMA LostStep ==
    ASSUME IInv, NEW i \in DOMAIN conns, ServerLost(i)
    PROVE  IInv'
<1> DEFINE c == conns[i]
           d == ClosedAt(c, "server")
<1>1. c.at["server"] \in {"name", "reply"} /\ conns' = Closing(conns, i, "server")
  BY DEF ServerLost
<1>2. conns' = [conns EXCEPT ![i] = d]
  BY <1>1, ClosingOne, InvConn, TwoEnds
<1>3. Good(d) /\ d.node = c.node /\ d.owner = c.owner /\ d.at["client"] = c.at["client"]
  BY InvConn, TwoEnds, ClosedAtGood
<1> HIDE DEF d
<1>4. \A s \in Sides : c.at[s] = "up" => d.at[s] = "up"
  BY <1>1, <1>3 DEF Sides
<1>5. /\ connections' = connections /\ todo' = todo /\ status' = status /\ faults' = faults
      /\ monitored_by' = monitored_by /\ Kept
  BY DEF ServerLost, Aside
<1> QED BY <1>2, <1>3, <1>4, <1>5, InvConn, KeptTables, OneStep

\* The client takes the status.
LEMMA GoesOnStep ==
    ASSUME IInv, NEW i \in DOMAIN conns, ClientGoesOn(i)
    PROVE  IInv'
<1> DEFINE c == conns[i]
           d == MovedOn(c, "client", "challenge")
<1>1. c.at["client"] = "status" /\ c.wire["client"] # <<>>
  BY DEF ClientGoesOn, Ready
<1>2. conns' = [conns EXCEPT ![i] = d]
  <2>1. conns' = [Taken(i, "client") EXCEPT ![i].at["client"] = "challenge"]
    BY DEF ClientGoesOn
  <2>2. Taken(i, "client") = [conns EXCEPT ![i] = TakenBy(c, "client")]
    BY DEF Taken, TakenBy
  <2> QED BY <2>1, <2>2, InvConn DEF MovedOn
<1>3. Good(d) /\ d.node = c.node /\ d.owner = c.owner /\ d.at["server"] = c.at["server"]
  BY <1>1, InvConn, WentOnGood
<1> HIDE DEF d
<1>4. \A s \in Sides : c.at[s] = "up" => d.at[s] = "up"
  BY <1>1, <1>3 DEF Sides
<1>5. /\ connections' = connections /\ todo' = todo /\ status' = status /\ faults' = faults
      /\ monitored_by' = monitored_by /\ Kept
  BY DEF ClientGoesOn, Aside
<1> QED BY <1>2, <1>3, <1>4, <1>5, InvConn, KeptTables, OneStep

\* The client replies to the challenge.
LEMMA RepliesStep ==
    ASSUME IInv, NEW i \in DOMAIN conns, ClientReplies(i)
    PROVE  IInv'
<1> DEFINE c == conns[i]
           f == <<[kind |-> "reply", digest |-> Digest(c.node["client"], "server")]>>
           d == Answered(c, "client", f, "ack")
<1>1. c.at["client"] = "challenge" /\ c.wire["client"] # <<>>
  BY DEF ClientReplies, Ready
<1>2. conns' = [conns EXCEPT ![i] = d]
  <2>1. conns' = [Taken(i, "client") EXCEPT ![i] =
                    [Put(@, "server", f) EXCEPT !.at["client"] = "ack"]]
    BY DEF ClientReplies
  <2>2. Taken(i, "client") = [conns EXCEPT ![i] = TakenBy(c, "client")]
    BY DEF Taken, TakenBy
  <2> HIDE DEF f
  <2> QED BY <2>1, <2>2, InvConn, TwoEnds DEF Answered
<1>3. Good(d) /\ d.node = c.node /\ d.owner = c.owner /\ d.at["server"] = c.at["server"]
  BY <1>1, InvConn, RepliedGood
<1> HIDE DEF d
<1>4. \A s \in Sides : c.at[s] = "up" => d.at[s] = "up"
  BY <1>1, <1>3 DEF Sides
<1>5. /\ connections' = connections /\ todo' = todo /\ status' = status /\ faults' = faults
      /\ monitored_by' = monitored_by /\ Kept
  BY DEF ClientReplies, Aside
<1> QED BY <1>2, <1>3, <1>4, <1>5, InvConn, KeptTables, OneStep

\* The client gives up.
LEMMA FailsStep ==
    ASSUME IInv, NEW i \in DOMAIN conns, ClientFails(i)
    PROVE  IInv'
<1> DEFINE c == conns[i]
           d == GivenUp(c)
           t == c.owner
<1>1. c.at["client"] \in {"status", "challenge", "ack"}
      /\ conns' = [conns EXCEPT ![i].at["client"] = "closed"]
  BY DEF ClientFails
<1>2. conns' = [conns EXCEPT ![i] = d]
  BY <1>1, InvConn DEF GivenUp
<1>3. /\ Good(d) /\ d.node = c.node /\ d.owner = c.owner
      /\ \A s \in Sides : c.at[s] = "up" => d.at[s] = "up"
  BY <1>1, InvConn, GivenUpGood
<1> HIDE DEF d
<1>4. /\ connections' = connections /\ todo' = [todo EXCEPT ![t] = <<>>]
      /\ faults' = faults /\ monitored_by' = monitored_by /\ Kept
      /\ status' = status \/ (t \in Procs /\ status' = [status EXCEPT ![t] = "stuck"])
  BY DEF ClientFails
<1>5. status' \in [Procs -> Status]
  BY <1>4, InvConn DEF Status
<1>6. t \in Tasks
  BY InvConn
<1> QED BY <1>2, <1>3, <1>4, <1>5, <1>6, InvConn, KeptTables, OneStep

\* The network breaks a connection.
LEMMA BreakStep ==
    ASSUME IInv, NEW i \in DOMAIN conns, Break(i)
    PROVE  IInv'
<1> DEFINE c == conns[i]
<1>1. PICK k \in 0 .. Len(c.wire["client"]), l \in 0 .. Len(c.wire["server"]) :
         conns' = [conns EXCEPT ![i].open = FALSE,
                    ![i].wire = [client |-> SubSeq(@["client"], 1, k),
                                 server |-> SubSeq(@["server"], 1, l)]]
  BY DEF Break
<1> DEFINE d == [c EXCEPT !.open = FALSE,
                         !.wire = [client |-> SubSeq(@["client"], 1, k),
                                   server |-> SubSeq(@["server"], 1, l)]]
<1>2. conns' = [conns EXCEPT ![i] = d]
  BY <1>1, InvConn
<1>3. Good(d) /\ d.node = c.node /\ d.owner = c.owner /\ d.at = c.at
  BY InvConn, BrokenGood
<1> HIDE DEF d
<1>4. /\ connections' = connections /\ todo' = todo /\ status' = status
      /\ faults' = faults + 1 /\ monitored_by' = monitored_by /\ Kept
  BY DEF Break
<1>5. faults' \in Nat
  BY <1>4, InvConn
<1> QED BY <1>2, <1>3, <1>4, <1>5, InvConn, KeptTables, OneStep

\* The server checks the reply, and registers its end or closes it.
LEMMA ChecksStep ==
    ASSUME IInv, NEW i \in DOMAIN conns, ServerChecks(i)
    PROVE  IInv'
<1> DEFINE c == conns[i]
           f == <<[kind |-> "ack", digest |-> Digest(c.node["server"], "client")]>>
           d == Answered(c, "server", f, "up")
           e == ClosedAt(c, "server")
<1>1. c.at["server"] = "reply" /\ c.wire["server"] # <<>>
  BY DEF ServerChecks, Ready
<1>2. /\ todo' = todo /\ status' = status /\ faults' = faults
      /\ monitored_by' = monitored_by /\ Kept
  BY DEF ServerChecks, Aside
<1>3. Taken(i, "server") = [conns EXCEPT ![i] = TakenBy(c, "server")]
  BY DEF Taken, TakenBy
<1>4. CASE Head(c.wire["server"]).digest = Digest(c.node["server"], "server")
  <2>1. /\ conns' = [Taken(i, "server") EXCEPT ![i] =
                    [Put(@, "client", f) EXCEPT !.at["server"] = "up"]]
        /\ connections' = Register(i, "server")
    BY <1>4 DEF ServerChecks, Frame
  <2>2. conns' = [conns EXCEPT ![i] = d]
    <3> HIDE DEF f
    <3> QED BY <1>3, <2>1, InvConn, TwoEnds DEF Answered
  <2>3. /\ Good(d) /\ d.node = c.node /\ d.owner = c.owner
        /\ d.at["client"] = c.at["client"] /\ d.at["server"] = "up"
    BY <1>1, <1>4, InvConn, CheckedGood
  <2> HIDE DEF d
  <2>4. /\ Served([conns EXCEPT ![i] = d], connections')
        /\ connections' \in [Node -> [Node -> Nat]]
    BY <2>1, <2>3, TwoEnds, RegisterServed
  <2>5. Moved
    BY <1>2, <2>2, <2>3, <2>4, InvConn, KeptTables, MovedByOne
  <2>6. (inbox \in [Procs -> SUBSET Controls])' /\ (ops \in [Procs -> Nat])'
    BY <1>2, InvConn, KeptTables
  <2> QED BY <1>2, <2>5, <2>6, KeptTables, MovedKeeps
<1>5. CASE Head(c.wire["server"]).digest # Digest(c.node["server"], "server")
  <2>1. conns' = Closing(Taken(i, "server"), i, "server") /\ connections' = connections
    BY <1>5 DEF ServerChecks, Frame
  <2>2. conns' = [conns EXCEPT ![i] = e]
    <3> DEFINE b == TakenBy(c, "server")
    <3>1. b \in Connection
      BY <1>1, InvConn, TakeFields, TwoEnds
    <3>2. ClosedAt(b, "server") = ClosedAt(c, "server")
      BY InvConn DEF ClosedAt, TakenBy, Connection
    <3> HIDE DEF b
    <3> DEFINE cs == [conns EXCEPT ![i] = b]
    <3>3. cs \in Seq(Connection) /\ i \in DOMAIN cs /\ cs[i] = b
      BY <3>1, InvConn
    <3>4. Taken(i, "server") = cs
      BY <1>3 DEF b
    <3>5. [cs EXCEPT ![i] = e] = [conns EXCEPT ![i] = e]
      BY InvConn
    <3> HIDE DEF cs
    <3>6. Closing(cs, i, "server") = [cs EXCEPT ![i] = ClosedAt(b, "server")]
      BY <3>3, ClosingOne, TwoEnds
    <3> QED BY <2>1, <3>2, <3>4, <3>5, <3>6
  <2>3. Good(e) /\ e.node = c.node /\ e.owner = c.owner /\ e.at["client"] = c.at["client"]
    BY InvConn, TwoEnds, ClosedAtGood
  <2> HIDE DEF e
  <2>4. \A s \in Sides : c.at[s] = "up" => e.at[s] = "up"
    BY <1>1, <2>3 DEF Sides
  <2> QED BY <1>2, <2>1, <2>2, <2>3, <2>4, InvConn, KeptTables, OneStep
<1> QED BY <1>4, <1>5

\* The client checks the answer, registers its end and goes on sending.
LEMMA ClientChecksStep ==
    ASSUME IInv, NEW i \in DOMAIN conns, ClientChecks(i)
    PROVE  IInv'
<1> DEFINE c == conns[i]
           d == MovedOn(c, "client", "up")
           t == c.owner
           n == c.node["client"]
           cs == [conns EXCEPT ![i] = d]
           reg == Register(i, "client")
           ending == t \in Procs /\ status[t] = "ending"
           ms == todo[t]
<1>1. /\ c.at["client"] = "ack" /\ c.wire["client"] # <<>>
      /\ Head(c.wire["client"]).digest = Digest(n, "client")
      /\ connections' = reg /\ Kept
  BY DEF ClientChecks, Ready, Frame
<1>2. Emit(t, n, [Taken(i, "client") EXCEPT ![i].at["client"] = "up"], connections', ms, ending)
  BY DEF ClientChecks
<1>3. [Taken(i, "client") EXCEPT ![i].at["client"] = "up"] = cs
  <2>1. Taken(i, "client") = [conns EXCEPT ![i] = TakenBy(c, "client")]
    BY DEF Taken, TakenBy
  <2> QED BY <2>1, InvConn DEF MovedOn
<1>4. /\ Good(d) /\ d.node = c.node /\ d.owner = c.owner
      /\ d.at["server"] = c.at["server"] /\ d.at["client"] = "up"
  BY <1>1, InvConn, AcceptedGood
<1> HIDE DEF d
<1>5. Served(cs, reg) /\ reg \in [Node -> [Node -> Nat]]
  BY <1>4, TwoEnds, RegisterServed
<1>6. ConnsGood(cs) /\ Extends(conns, cs)
  BY <1>4, InvConn, ReplaceGood
<1> HIDE DEF cs, reg
<1>7. Emit(t, n, cs, reg, ms, ending)
  BY <1>1, <1>2, <1>3
<1>8. t \in Tasks /\ n \in Node /\ TaskOf(conns, t, n)
  BY InvConn
<1>9. ms \in Seq(Controls) /\ \A k \in DOMAIN ms : Crosses(ms[k], n)
  <2>1. ms \in Seq(Controls)
    BY <1>8 DEF IInv, TypeOK
  <2>2. ASSUME NEW k \in DOMAIN ms PROVE Crosses(ms[k], n)
    <3>1. PICK x \in Node : TaskOf(conns, t, x) /\ Crosses(ms[k], x)
      BY <1>8 DEF IInv, TodoCrosses
    <3>2. x = n
      BY <1>8, <3>1 DEF TaskOf
    <3> QED BY <3>1, <3>2
  <2> QED BY <2>1, <2>2
<1>10. ending \in BOOLEAN /\ (ending => t \in Procs)
  OBVIOUS
<1> HIDE DEF ms, ending
<1>11. cookie' = cookie
  BY <1>1 DEF Kept
<1>12. Moved
  <2> HIDE DEF t, n
  <2> QED BY <1>1, <1>5, <1>6, <1>7, <1>8, <1>9, <1>10, <1>11, MovedByEmit
<1>13. TablesOK'
  <2>1. monitored_by' = [p \in Procs |->
            IF status'[p] = "gone" /\ status[p] # "gone" THEN {} ELSE monitored_by[p]]
    BY DEF ClientChecks, Settle
  <2>2. \A p \in Procs : monitored_by'[p] = monitored_by[p] \/ monitored_by'[p] = {}
    BY <2>1
  <2>3. IsFiniteSet({})
    BY FS_EmptySet
  <2>4. monitored_by' \in [Procs -> SUBSET Monitors]
    BY <2>1, InvTables DEF TablesOK
  <2> QED BY <1>1, <2>2, <2>3, <2>4, InvTables DEF Kept, TablesOK, TablesCross
<1>14. (inbox \in [Procs -> SUBSET Controls])' /\ (ops \in [Procs -> Nat])'
  BY <1>1, InvConn DEF Kept
<1> QED BY <1>12, <1>13, <1>14, MovedKeeps

-----------------------------------------------------------------------------
(* Receive loops.                                                          *)

\* A receive loop ends, and takes the entry of its node away.
LEMMA LoopEndsStep ==
    ASSUME IInv, NEW i \in DOMAIN conns, NEW s \in Sides, LoopEnds(i, s)
    PROVE  IInv'
<1> DEFINE c == conns[i]
           d == ClosedAt(c, s)
<1>1. /\ conns' = Closing(conns, i, s)
      /\ connections' =
            [connections EXCEPT ![conns[i].node[s]][conns[i].node[Other(s)]] = 0]
      /\ todo' = todo /\ status' = status /\ faults' = faults
      /\ monitored_by' = monitored_by /\ Kept
  BY DEF LoopEnds, Aside
<1>2. conns' = [conns EXCEPT ![i] = d]
  BY <1>1, ClosingOne, InvConn
<1>3. Good(d) /\ d.node = c.node /\ d.owner = c.owner /\ d.at[Other(s)] = c.at[Other(s)]
  BY InvConn, ClosedAtGood
<1> HIDE DEF d
<1>4. /\ Served([conns EXCEPT ![i] = d], connections')
      /\ connections' \in [Node -> [Node -> Nat]]
  BY <1>1, <1>3, UnregisterServed
<1>5. Moved
  BY <1>1, <1>2, <1>3, <1>4, InvConn, KeptTables, MovedByOne
<1>6. (inbox \in [Procs -> SUBSET Controls])' /\ (ops \in [Procs -> Nat])'
  BY <1>1, InvConn, KeptTables
<1> QED BY <1>1, <1>5, <1>6, KeptTables, MovedKeeps

\* A receive loop hands a frame on: what is left is good, and a control message
\* is for a process of its node, from one of the other end's.
LEMMA FrameTaken ==
    ASSUME IInv, NEW i \in DOMAIN conns, NEW s \in Sides,
           conns[i].at[s] = "up", Ready(i, s), Frame(i, s).kind \in Kinds
    PROVE  /\ ConnsGood(Taken(i, s)) /\ Extends(conns, Taken(i, s))
           /\ Served(Taken(i, s), connections)
           /\ Frame(i, s) \in Controls /\ conns[i].node[s] \in Node
           /\ Home[Frame(i, s).to] = conns[i].node[s]
           /\ Remote(Frame(i, s).to, Frame(i, s).from)
           /\ <<i, s>> \in Tasks /\ TaskOf(conns, <<i, s>>, conns[i].node[s])
<1> DEFINE c == conns[i]
           d == TakenBy(c, s)
           m == Frame(i, s)
<1>1. c.wire[s] # <<>>
  BY DEF Ready
<1>2. Good(d) /\ d.node = c.node /\ d.owner = c.owner /\ d.at = c.at
  BY <1>1, InvConn, TakeGood, TakeFields
<1>3. Taken(i, s) = [conns EXCEPT ![i] = d]
  BY DEF Taken, TakenBy
<1> HIDE DEF d
<1>4. /\ ConnsGood(Taken(i, s)) /\ Extends(conns, Taken(i, s))
      /\ KeepsUp(conns, Taken(i, s))
  <2>1. \A r \in Sides : c.at[r] = "up" => d.at[r] = "up"
    BY <1>2
  <2>2. ConnsGood(conns)
    BY InvConn
  <2> DEFINE cs == [conns EXCEPT ![i] = d]
  <2>3. ConnsGood(cs) /\ Extends(conns, cs) /\ KeepsUp(conns, cs)
    BY <1>2, <2>1, <2>2, ReplaceGood
  <2> QED BY <1>3, <2>3
<1>5. Served(Taken(i, s), connections)
  BY <1>4, InvConn, ServedExtends
<1>6. c.wire[s] \in Seq(Frames) /\ 1 \in DOMAIN c.wire[s] /\ m = c.wire[s][1]
  BY <1>1, InvConn, TakeFields DEF Frame
<1>7. m \in Frames /\ IsControl(m)
  BY <1>6 DEF IsControl
<1>8. m \in Controls
  BY <1>7, InvConn, HandshakeFrames
<1>9. Home[m.to] = c.node[s] /\ Home[m.from] = c.node[Other(s)]
  BY <1>6, <1>7, InvConn DEF Good, WiresCross
<1>10. c.node[s] # c.node[Other(s)] /\ c.node[s] \in Node
  BY InvConn, TwoEnds DEF Sides
<1>11. <<i, s>> \in Tasks
  <2>1. i \in 1 .. MaxConns
    BY InvConn DEF ConnsGood
  <2> QED BY <2>1 DEF Tasks
<1>12. TaskOf(conns, <<i, s>>, c.node[s])
  <2>1. i \in 1 .. MaxConns
    BY InvConn DEF ConnsGood
  <2>2. <<i, s>> \notin Procs
    BY <2>1, NodesAssumption
  <2> QED BY <2>2 DEF TaskOf
<1> QED BY <1>4, <1>5, <1>8, <1>9, <1>10, <1>11, <1>12 DEF Remote

\* A mailbox takes control messages only.
LEMMA InboxTyped ==
    ASSUME IInv, NEW m \in Controls,
           inbox' = inbox \/ inbox' = [inbox EXCEPT ![m.to] = @ \union {m}]
    PROVE  (inbox \in [Procs -> SUBSET Controls])'
<1>1. m.to \in Procs /\ inbox \in [Procs -> SUBSET Controls]
  BY DEF IInv, TypeOK, Controls
<1> QED BY <1>1

\* A message that only changes tables or a mailbox.
LEMMA TrackMoved ==
    ASSUME IInv, NEW cs, ConnsGood(cs), Extends(conns, cs), Served(cs, connections),
           Track(cs), cookie' = cookie
    PROVE  Moved
<1>1. /\ conns' = cs /\ connections' = connections /\ status' = status
      /\ todo' = todo /\ faults' = faults
  BY DEF Track
<1>2. /\ connections \in [Node -> [Node -> Nat]] /\ status \in [Procs -> Status]
      /\ todo \in [Tasks -> Seq(Controls)] /\ faults \in Nat
  BY DEF IInv, TypeOK, Status
<1> QED BY <1>1, <1>2 DEF Moved

\* A message that is answered by another.
LEMMA AnswerMoved ==
    ASSUME IInv, NEW t \in Tasks, NEW n \in Node, NEW cs, NEW m \in Controls,
           ConnsGood(cs), Extends(conns, cs), Served(cs, connections),
           TaskOf(conns, t, n), Crosses(m, n), Answer(t, n, cs, m), cookie' = cookie
    PROVE  Moved /\ TablesOK' /\ inbox' = inbox
<1> DEFINE ms == <<m>>
<1>1. /\ Emit(t, n, cs, connections, ms, FALSE) /\ connections' = connections
      /\ inbox' = inbox /\ UNCHANGED tables
  BY DEF Answer
<1>2. ms \in Seq(Controls) /\ \A k \in DOMAIN ms : Crosses(ms[k], n)
  OBVIOUS
<1> HIDE DEF ms
<1>3. connections \in [Node -> [Node -> Nat]] /\ FALSE \in BOOLEAN
  BY DEF IInv, TypeOK
<1>4. Moved
  BY <1>1, <1>2, <1>3, MovedByEmit
<1>5. TablesOK'
  BY <1>1, InvTables DEF tables, TablesOK, TablesCross
<1> QED BY <1>1, <1>4, <1>5

\* A receive loop handles a control message, of whatever kind.
LEMMA ReceiveStep ==
    ASSUME IInv, NEW i \in DOMAIN conns, NEW s \in Sides, ReceiveControl(i, s)
    PROVE  IInv'
<1> DEFINE n == conns[i].node[s]
           t == <<i, s>>
           cs == Taken(i, s)
           m == Frame(i, s)
<1>1. /\ conns[i].at[s] = "up" /\ Ready(i, s) /\ Handle(t, n, cs, m)
      /\ cookie' = cookie /\ ops' = ops
  BY DEF ReceiveControl
<1>2. m.kind \in Kinds
  BY <1>1 DEF Handle, Kinds
<1>3. /\ ConnsGood(cs) /\ Extends(conns, cs) /\ Served(cs, connections)
      /\ m \in Controls /\ n \in Node /\ Home[m.to] = n /\ Remote(m.to, m.from)
      /\ t \in Tasks /\ TaskOf(conns, t, n)
  BY <1>1, <1>2, FrameTaken
<1> HIDE DEF n, t, cs, m
<1>4. /\ m.to \in Procs /\ m.from \in Procs /\ m.ref \in RefValues
  BY <1>3 DEF Controls
<1>5. (ops \in [Procs -> Nat])'
  BY <1>1, InvConn
<1>6. SUFFICES Moved /\ TablesOK' /\ (inbox \in [Procs -> SUBSET Controls])'
  BY <1>5, MovedKeeps
<1>7. ASSUME inbox' = inbox PROVE (inbox \in [Procs -> SUBSET Controls])'
  BY <1>7, InvConn
<1>8. ASSUME Delivered(cs, m)
      PROVE  Moved /\ TablesOK' /\ (inbox \in [Procs -> SUBSET Controls])'
  <2>1. /\ inbox' = inbox \/ inbox' = [inbox EXCEPT ![m.to] = @ \union {m}]
        /\ UNCHANGED tables /\ Track(cs)
    BY <1>8 DEF Delivered
  <2>2. TablesOK'
    BY <2>1, InvTables DEF tables, TablesOK, TablesCross
  <2> QED BY <1>1, <1>3, <2>1, <2>2, InboxTyped, TrackMoved
<1>9. ASSUME NEW a \in Controls, Crosses(a, n), Answer(t, n, cs, a)
      PROVE  Moved /\ TablesOK' /\ (inbox \in [Procs -> SUBSET Controls])'
  BY <1>1, <1>3, <1>7, <1>9, AnswerMoved
<1>10. CASE LinkIncoming(t, n, cs, m)
  <2>1. CASE Alive(m.to)
    <3>1. /\ remote_links' = [remote_links EXCEPT ![m.to] = @ \union {m.from}]
          /\ remote_monitors' = remote_monitors /\ monitored_by' = monitored_by
          /\ inbox' = inbox /\ Track(cs)
      BY <1>10, <2>1 DEF LinkIncoming
    <3>2. IsFiniteSet(remote_links[m.to] \union {m.from})
      BY <1>4, InvTables, FS_AddElement DEF TablesOK, TablesCross
    <3>3. TablesOK'
      BY <1>3, <1>4, <3>1, <3>2, InvTables DEF TablesOK, TablesCross
    <3> QED BY <1>1, <1>3, <1>7, <3>1, <3>3, TrackMoved
  <2>2. CASE ~Alive(m.to)
    <3> DEFINE a == ExitMessage(m.to, m.from, "noproc")
    <3>1. Answer(t, n, cs, a)
      BY <1>10, <2>2 DEF LinkIncoming
    <3>2. a \in Controls /\ Crosses(a, n)
      BY <1>3, <1>4, MessageTyped, References DEF ExitMessage, Kinds, Reasons
    <3> QED BY <1>9, <3>1, <3>2
  <2> QED BY <2>1, <2>2
<1>11. CASE UnlinkIncoming(cs, m)
  <2>1. /\ remote_links' = [remote_links EXCEPT ![m.to] = @ \ {m.from}]
        /\ remote_monitors' = remote_monitors /\ monitored_by' = monitored_by
        /\ inbox' = inbox /\ Track(cs)
    BY <1>11 DEF UnlinkIncoming
  <2>2. IsFiniteSet(remote_links[m.to] \ {m.from})
    BY <1>4, InvTables, FS_RemoveElement DEF TablesOK, TablesCross
  <2>3. TablesOK'
    BY <1>4, <2>1, <2>2, InvTables DEF TablesOK, TablesCross
  <2> QED BY <1>1, <1>3, <1>7, <2>1, <2>3, TrackMoved
<1>12. CASE ExitIncoming(cs, m)
  <2>1. CASE Delivered(cs, m)
    BY <1>8, <2>1
  <2>2. CASE ~Delivered(cs, m)
    <3>1. /\ \/ /\ status' = [status EXCEPT ![m.to] = "stuck"]
                /\ todo' = [todo EXCEPT ![m.to] = <<>>]
                /\ conns' = Abandoned(cs, m.to)
             \/ conns' = cs /\ status' = status /\ todo' = todo
          /\ connections' = connections /\ inbox' = inbox /\ faults' = faults
          /\ UNCHANGED tables
      BY <1>12, <2>2 DEF ExitIncoming
    <3>2. /\ connections \in [Node -> [Node -> Nat]] /\ status \in [Procs -> Status]
          /\ todo \in [Tasks -> Seq(Controls)] /\ faults \in Nat
      BY DEF IInv, TypeOK, Status
    <3>3. /\ ConnsGood(Abandoned(cs, m.to)) /\ Extends(cs, Abandoned(cs, m.to))
          /\ KeepsUp(cs, Abandoned(cs, m.to))
      BY <1>3, AbandonedGood
    <3>4. Served(Abandoned(cs, m.to), connections)
      <4>1. cs \in Seq(Connection)
        BY <1>3 DEF ConnsGood
      <4> QED BY <1>3, <3>3, <4>1, ServedExtends
    <3>5. Extends(conns, Abandoned(cs, m.to))
      BY <1>3, <3>3 DEF Extends
    <3>6. status' \in [Procs -> Status] /\ faults' \in Nat
      BY <1>4, <3>1, <3>2 DEF Status
    <3>7. /\ todo' \in [Tasks -> Seq(Controls)]
          /\ \A u \in Tasks : todo'[u] = todo[u] \/ todo'[u] = <<>>
      <4>1. CASE todo' = todo
        BY <3>2, <4>1
      <4>2. CASE todo' = [todo EXCEPT ![m.to] = <<>>]
        <5> DEFINE e == <<>>
        <5>1. e \in Seq(Controls)
          OBVIOUS
        <5>2. todo' = [todo EXCEPT ![m.to] = e]
          BY <4>2
        <5> HIDE DEF e
        <5>3. /\ todo' \in [Tasks -> Seq(Controls)]
              /\ \A u \in Tasks : todo'[u] = todo[u] \/ todo'[u] = e
          BY <3>2, <5>1, <5>2
        <5> QED BY <5>3 DEF e
      <4> QED BY <3>1, <4>1, <4>2
    <3>8. ConnsGood(conns') /\ Extends(conns, conns') /\ Served(conns', connections')
      BY <1>3, <3>1, <3>3, <3>4, <3>5
    <3>9. Moved
      <4>1. \A u \in Tasks :
              \/ todo'[u] = todo[u]
              \/ \A k \in DOMAIN todo'[u] :
                    \E x \in Node : TaskOf(conns, u, x) /\ Crosses(todo'[u][k], x)
        BY <3>7
      <4> QED BY <1>1, <3>1, <3>2, <3>6, <3>7, <3>8, <4>1 DEF Moved
    <3>10. TablesOK'
      BY <3>1, InvTables DEF tables, TablesOK, TablesCross
    <3> QED BY <1>7, <3>1, <3>9, <3>10
  <2> QED BY <2>1, <2>2
<1>13. CASE MonitorIncoming(t, n, cs, m)
  <2>1. CASE Alive(m.to)
    <3> DEFINE mon == [ref |-> m.ref, pid |-> m.from]
    <3>1. /\ monitored_by' = [monitored_by EXCEPT ![m.to] = @ \union {mon}]
          /\ remote_links' = remote_links /\ remote_monitors' = remote_monitors
          /\ inbox' = inbox /\ Track(cs)
      BY <1>13, <2>1 DEF MonitorIncoming
    <3>2. mon \in Monitors /\ mon.pid = m.from
      BY <1>4 DEF Monitors
    <3> HIDE DEF mon
    <3>3. IsFiniteSet(monitored_by[m.to] \union {mon})
      BY <1>4, InvTables, FS_AddElement DEF TablesOK, TablesCross
    <3>4. TablesOK'
      BY <1>3, <1>4, <3>1, <3>2, <3>3, InvTables DEF TablesOK, TablesCross
    <3> QED BY <1>1, <1>3, <1>7, <3>1, <3>4, TrackMoved
  <2>2. CASE ~Alive(m.to)
    <3> DEFINE a == MonitorExitMessage(m.to, m.from, m.ref, "noproc")
    <3>1. Answer(t, n, cs, a)
      BY <1>13, <2>2 DEF MonitorIncoming
    <3>2. a \in Controls /\ Crosses(a, n)
      BY <1>3, <1>4, MessageTyped DEF MonitorExitMessage, Kinds, Reasons
    <3> QED BY <1>9, <3>1, <3>2
  <2> QED BY <2>1, <2>2
<1>14. CASE DemonitorIncoming(cs, m)
  <2>1. /\ monitored_by' = [monitored_by EXCEPT ![m.to] = {x \in @ : x.ref # m.ref}]
        /\ remote_links' = remote_links /\ remote_monitors' = remote_monitors
        /\ inbox' = inbox /\ Track(cs)
    BY <1>14 DEF DemonitorIncoming
  <2>2. IsFiniteSet({x \in monitored_by[m.to] : x.ref # m.ref})
    <3>1. IsFiniteSet(monitored_by[m.to])
      BY <1>4, InvTables DEF TablesOK, TablesCross
    <3> QED BY <3>1, FS_Subset
  <2>3. TablesOK'
    BY <1>4, <2>1, <2>2, InvTables DEF TablesOK, TablesCross
  <2> QED BY <1>1, <1>3, <1>7, <2>1, <2>3, TrackMoved
<1>15. \/ LinkIncoming(t, n, cs, m) \/ UnlinkIncoming(cs, m) \/ ExitIncoming(cs, m)
       \/ MonitorIncoming(t, n, cs, m) \/ DemonitorIncoming(cs, m) \/ Delivered(cs, m)
  BY <1>1 DEF Handle, MonitorExitIncoming
<1> QED BY <1>8, <1>10, <1>11, <1>12, <1>13, <1>14, <1>15

-----------------------------------------------------------------------------
(* News: what a process has told another of linking and unlinking.         *)

\* While only one process links and unlinks, what counts is the last it said.
Linking == {"link", "unlink"}
News(f, p, q) == f.kind \in Linking /\ f.from = p /\ f.to = q
Silent(w, p, q) == \A k \in DOMAIN w : ~News(w[k], p, q)
Latest(w, p, q, x) ==
    \A k \in DOMAIN w :
        /\ News(w[k], p, q)
        /\ \A l \in DOMAIN w : l > k => ~News(w[l], p, q)
        => w[k].kind = x

\* Of one connection, and of all.
Mute(c, p, q) == \A s \in Sides : Silent(c.wire[s], p, q)
Tells(c, p, q, x) == \A s \in Sides : Latest(c.wire[s], p, q, x)
AllMute(cs, p, q) == \A i \in DOMAIN cs : Mute(cs[i], p, q)
AllTell(cs, p, q, x) == \A i \in DOMAIN cs : Tells(cs[i], p, q, x)

\* No news is lost, and none takes another's place.
Alike(c, d, p, q) ==
    /\ \A x \in Linking : Tells(c, p, q, x) => Tells(d, p, q, x)
    /\ Mute(d, p, q) => Mute(c, p, q)
SameNews(cs, ds, p, q) ==
    /\ \A x \in Linking : AllTell(cs, p, q, x) => AllTell(ds, p, q, x)
    /\ AllMute(ds, p, q) => AllMute(cs, p, q)

\* Every call went well and one connection served them.
Calm == Len(conns) <= 1 /\ faults = 0 /\ ~raised

\* Without a fault, only a server that refused its client closes a connection.
Whole(c) ==
    ~c.open =>
        /\ c.at["server"] = "closed" /\ c.at["client"] # "up"
        /\ c.at["client"] \in Handshaking => Len(c.wire["client"]) + Taken3(c) <= 2

\* News is of those that link.
FromLinkers(f) == f.kind \in Linking => f.from \in Linkers
Sourced(c) == \A s \in Sides : \A k \in DOMAIN c.wire[s] : FromLinkers(c.wire[s][k])
Tidy(cs) == \A i \in DOMAIN cs : Whole(cs[i]) /\ Sourced(cs[i])

\* What a task has yet to tell is its own news, and one piece of it.
Own(t, ms) ==
    \A k \in DOMAIN ms :
        ms[k].kind \in Linking => t \in Linkers /\ ms[k].from = t /\ Len(ms) = 1
TodoOwn == \A t \in Tasks : Own(t, todo[t])

\* The last p said of q, be it still to send, under way or heard, is what p holds.
Verdict(p, q) == IF q \in remote_links[p] THEN "link" ELSE "unlink"
Agreed(p, q) ==
    /\ Latest(todo[p], p, q, Verdict(p, q))
    /\ Silent(todo[p], p, q) => AllTell(conns, p, q, Verdict(p, q))
    /\ Silent(todo[p], p, q) /\ AllMute(conns, p, q)
        => (p \in remote_links[q] <=> q \in remote_links[p])
BothLive(p, q) == Remote(p, q) /\ status[p] = "live" /\ status[q] = "live"
AllAgreed == \A p \in Linkers, q \in Procs \ Linkers : BothLive(p, q) => Agreed(p, q)

Linked == Tidy(conns) /\ TodoOwn /\ AllAgreed
LInv == Calm => Linked

\* Frames without news after others.
LEMMA AppendNone ==
    ASSUME NEW w \in Seq(Frames), NEW f \in Seq(Frames), NEW p, NEW q, Silent(f, p, q)
    PROVE  /\ \A x \in Linking : Latest(w, p, q, x) => Latest(w \o f, p, q, x)
           /\ Silent(w \o f, p, q) => Silent(w, p, q)
<1> DEFINE v == w \o f
<1>1. /\ Len(w) \in Nat /\ Len(f) \in Nat /\ Len(v) = Len(w) + Len(f)
      /\ DOMAIN v = 1 .. (Len(w) + Len(f)) /\ DOMAIN w = 1 .. Len(w)
      /\ \A k \in DOMAIN v :
            \/ k \in DOMAIN w /\ v[k] = w[k]
            \/ k > Len(w) /\ k - Len(w) \in DOMAIN f /\ v[k] = f[k - Len(w)]
  <2>1. v \in Seq(Frames) /\ Len(v) = Len(w) + Len(f) /\ Len(w) \in Nat /\ Len(f) \in Nat
    BY ConcatParts
  <2>2. \A k \in DOMAIN v :
            \/ k \in DOMAIN w /\ v[k] = w[k]
            \/ k > Len(w) /\ k - Len(w) \in DOMAIN f /\ v[k] = f[k - Len(w)]
    BY ConcatParts
  <2> QED BY <2>1, <2>2
<1>2. \A k \in DOMAIN w : k \in DOMAIN v /\ v[k] = w[k]
  BY <1>1
<1> HIDE DEF v
<1>3. \A k \in DOMAIN v : News(v[k], p, q) => k \in DOMAIN w /\ v[k] = w[k]
  BY <1>1 DEF Silent
<1>4. ASSUME NEW x, Latest(w, p, q, x) PROVE Latest(v, p, q, x)
  <2> SUFFICES ASSUME NEW k \in DOMAIN v, News(v[k], p, q),
                      \A l \in DOMAIN v : l > k => ~News(v[l], p, q)
               PROVE  v[k].kind = x
    BY DEF Latest
  <2>1. k \in DOMAIN w /\ v[k] = w[k]
    BY <1>3
  <2>2. \A l \in DOMAIN w : l > k => ~News(w[l], p, q)
    BY <1>2
  <2> QED BY <1>4, <2>1, <2>2 DEF Latest
<1>5. Silent(v, p, q) => Silent(w, p, q)
  BY <1>2 DEF Silent
<1> QED BY <1>4, <1>5 DEF v

\* A frame of news after others.
LEMMA AppendOne ==
    ASSUME NEW w \in Seq(Frames), NEW m \in Frames, NEW p, NEW q, News(m, p, q)
    PROVE  Latest(w \o <<m>>, p, q, m.kind) /\ ~Silent(w \o <<m>>, p, q)
<1> DEFINE v == w \o <<m>>
           n == Len(w) + 1
<1>1. n \in DOMAIN v /\ v[n] = m /\ \A k \in DOMAIN v : k <= n /\ k \in Nat
  OBVIOUS
<1>2. n \in Nat
  OBVIOUS
<1> HIDE DEF v, n
<1>3. ASSUME NEW k \in DOMAIN v, \A l \in DOMAIN v : l > k => ~News(v[l], p, q)
      PROVE  v[k].kind = m.kind
  <2>1. ~(n > k)
    BY <1>1, <1>3
  <2>2. k = n
    BY <1>1, <1>2, <2>1
  <2> QED BY <1>1, <2>2
<1>4. Latest(v, p, q, m.kind)
  BY <1>3 DEF Latest
<1>5. ~Silent(v, p, q)
  BY <1>1 DEF Silent
<1> QED BY <1>4, <1>5 DEF v

\* A frame taken.
LEMMA TailNews ==
    ASSUME NEW w \in Seq(Frames), w # <<>>, NEW p, NEW q
    PROVE  /\ \A x \in Linking : Latest(w, p, q, x) => Latest(Tail(w), p, q, x)
           /\ ~News(Head(w), p, q) => (Silent(Tail(w), p, q) => Silent(w, p, q))
           /\ \A x \in Linking :
                News(Head(w), p, q) /\ Silent(Tail(w), p, q) /\ Latest(w, p, q, x)
                    => Head(w).kind = x
<1> DEFINE v == Tail(w)
<1>1. /\ Head(w) = w[1] /\ 1 \in DOMAIN w
      /\ \A k \in DOMAIN v : k \in Nat /\ k + 1 \in DOMAIN w /\ v[k] = w[k + 1]
  BY TailParts
<1>2. \A l \in DOMAIN w : l \in Nat /\ (l = 1 \/ (l - 1 \in DOMAIN v /\ v[l - 1] = w[l]))
  <2>1. Len(v) = Len(w) - 1 /\ Len(w) \in Nat /\ Len(w) >= 1 /\ v \in Seq(Frames)
    BY TailParts
  <2>2. DOMAIN v = 1 .. (Len(w) - 1) /\ DOMAIN w = 1 .. Len(w)
    BY <2>1
  <2>3. ASSUME NEW l \in 1 .. Len(w), l # 1
        PROVE  l - 1 \in DOMAIN v /\ v[l - 1] = w[l]
    <3>1. l - 1 \in DOMAIN v /\ (l - 1) + 1 = l
      BY <2>1, <2>2, <2>3
    <3> QED BY <1>1, <3>1
  <2> QED BY <2>1, <2>2, <2>3
<1> HIDE DEF v
<1>3. ASSUME NEW x, Latest(w, p, q, x) PROVE Latest(v, p, q, x)
  <2> SUFFICES ASSUME NEW k \in DOMAIN v, News(v[k], p, q),
                      \A l \in DOMAIN v : l > k => ~News(v[l], p, q)
               PROVE  v[k].kind = x
    BY DEF Latest
  <2>1. k \in Nat /\ k + 1 \in DOMAIN w /\ v[k] = w[k + 1]
    BY <1>1
  <2>2. ASSUME NEW l \in DOMAIN w, l > k + 1 PROVE ~News(w[l], p, q)
    <3>1. l \in Nat /\ l # 1 /\ l - 1 > k
      BY <1>2, <2>1, <2>2
    <3> QED BY <1>2, <3>1
  <2> QED BY <1>3, <2>1, <2>2 DEF Latest
<1>4. ASSUME ~News(w[1], p, q), Silent(v, p, q) PROVE Silent(w, p, q)
  BY <1>2, <1>4 DEF Silent
<1>5. ASSUME NEW x, News(w[1], p, q), Silent(v, p, q), Latest(w, p, q, x)
      PROVE  w[1].kind = x
  <2>1. ASSUME NEW l \in DOMAIN w, l > 1 PROVE ~News(w[l], p, q)
    BY <1>2, <1>5, <2>1 DEF Silent
  <2> QED BY <1>1, <1>5, <2>1 DEF Latest
<1> QED BY <1>1, <1>3, <1>4, <1>5 DEF v

\* Frames of no news.
LEMMA SilentSays ==
    ASSUME NEW w, NEW p, NEW q, Silent(w, p, q)
    PROVE  \A x \in Linking : Latest(w, p, q, x)
BY DEF Silent, Latest

\* Nothing that is no control message is news, nor is one of another kind.
LEMMA NotNews ==
    ASSUME NEW f, ~IsControl(f) \/ f.kind \notin Linking, NEW p, NEW q
    PROVE  ~News(f, p, q) /\ FromLinkers(f)
BY DEF IsControl, Kinds, News, Linking, FromLinkers

\* Frames that are no news put on a connection, or news of those that link.
LEMMA PutTidy ==
    ASSUME NEW c \in Connection, NEW s \in Sides, NEW f \in Seq(Frames), Whole(c), Sourced(c),
           \A k \in DOMAIN f : FromLinkers(f[k])
    PROVE  Whole(Put(c, s, f)) /\ Sourced(Put(c, s, f))
<1> DEFINE d == Put(c, s, f)
           w == c.wire[s]
<1>1. /\ d.at = c.at /\ d.open = c.open /\ d.wire[Other(s)] = c.wire[Other(s)]
      /\ d.wire[s] = IF c.open THEN w \o f ELSE w
  BY PutFields
<1>2. w \in Seq(Frames)
  BY DEF Connection
<1> HIDE DEF d, w
<1>3. \A r \in Sides : r = s \/ r = Other(s)
  BY DEF Sides, Other
<1>4. Whole(d)
  <2>1. Taken3(d) = Taken3(c)
    BY <1>1 DEF Taken3
  <2>2. ~c.open => d.wire["client"] = c.wire["client"]
    BY <1>1, <1>3, TwoEnds DEF w
  <2> QED BY <1>1, <2>1, <2>2 DEF Whole
<1>5. Sourced(d)
  <2> SUFFICES ASSUME NEW r \in Sides, NEW k \in DOMAIN d.wire[r]
               PROVE  FromLinkers(d.wire[r][k])
    BY DEF Sourced
  <2>1. \A j \in DOMAIN (w \o f) : FromLinkers((w \o f)[j])
    <3>1. \A j \in DOMAIN w : FromLinkers(w[j])
      BY DEF Sourced, w
    <3> QED BY <1>2, <3>1, ConcatParts
  <2> QED BY <1>1, <1>3, <2>1 DEF Sourced, w
<1> QED BY <1>4, <1>5 DEF d

\* Frames that are no news change no news.
LEMMA PutNone ==
    ASSUME NEW c \in Connection, NEW s \in Sides, NEW f \in Seq(Frames), NEW p, NEW q,
           Silent(f, p, q)
    PROVE  Alike(c, Put(c, s, f), p, q)
<1> DEFINE d == Put(c, s, f)
           w == c.wire[s]
<1>1. /\ d.wire[Other(s)] = c.wire[Other(s)]
      /\ d.wire[s] = IF c.open THEN w \o f ELSE w
  BY PutFields
<1>2. w \in Seq(Frames)
  BY DEF Connection
<1>3. /\ \A x \in Linking : Latest(w, p, q, x) => Latest(d.wire[s], p, q, x)
      /\ Silent(d.wire[s], p, q) => Silent(w, p, q)
  <2>1. /\ \A x \in Linking : Latest(w, p, q, x) => Latest(w \o f, p, q, x)
        /\ Silent(w \o f, p, q) => Silent(w, p, q)
    BY <1>2, AppendNone
  <2> HIDE DEF d, w
  <2> QED BY <1>1, <2>1
<1>4. \A r \in Sides : r = s \/ r = Other(s)
  BY DEF Sides, Other
<1> HIDE DEF d
<1> QED BY <1>1, <1>3, <1>4, TwoEnds DEF Alike, Tells, Mute, d

\* One connection goes on, and no news is changed.
LEMMA ReplaceNone ==
    ASSUME NEW cs, NEW i \in DOMAIN cs, NEW d, NEW p, NEW q, Alike(cs[i], d, p, q)
    PROVE  SameNews(cs, [cs EXCEPT ![i] = d], p, q)
BY DEF Alike, SameNews, AllTell, AllMute

\* Or with those of a list of which each has gone on so.
LEMMA EachNone ==
    ASSUME NEW cs, NEW ds, DOMAIN ds = DOMAIN cs, NEW p, NEW q,
           \A i \in DOMAIN cs : Alike(cs[i], ds[i], p, q)
    PROVE  SameNews(cs, ds, p, q)
BY DEF Alike, SameNews, AllTell, AllMute

\* What is changed neither first nor then.
LEMMA SameTwice ==
    ASSUME NEW cs, NEW ds, NEW es, NEW p, NEW q, SameNews(cs, ds, p, q), SameNews(ds, es, p, q)
    PROVE  SameNews(cs, es, p, q)
BY DEF SameNews

\* A connection just opened has no news.
LEMMA NewTidy ==
    ASSUME NEW n \in Node, NEW m \in Node, n # m, NEW t \in Tasks
    PROVE  /\ Tidy(<<NewConnection(n, m, t)>>)
           /\ \A p, q : /\ AllMute(<<NewConnection(n, m, t)>>, p, q)
                        /\ SameNews(<<>>, <<NewConnection(n, m, t)>>, p, q)
<1> DEFINE c == NewConnection(n, m, t)
           name == [kind |-> "name", node |-> n]
           w == <<name>>
<1>1. c.open /\ c.wire["client"] = <<>> /\ c.wire["server"] = w
  BY DEF NewConnection
<1>2. \A k \in DOMAIN w : ~IsControl(w[k])
  BY DEF IsControl, Kinds
<1> HIDE DEF w, c
<1>3. \A s \in Sides : \A k \in DOMAIN c.wire[s] : ~IsControl(c.wire[s][k])
  BY <1>1, <1>2 DEF Sides
<1>4. Whole(c)
  BY <1>1 DEF Whole
<1>5. Sourced(c)
  BY <1>3, NotNews DEF Sourced
<1>6. ASSUME NEW p, NEW q PROVE Mute(c, p, q)
  BY <1>3, NotNews DEF Mute, Silent
<1> DEFINE ds == <<c>>
           e == <<>>
<1>7. /\ \A j \in DOMAIN ds : ds[j] = c
      /\ DOMAIN e = {}
  OBVIOUS
<1> HIDE DEF ds, e
<1>8. Tidy(ds)
  BY <1>4, <1>5, <1>7 DEF Tidy
<1>9. ASSUME NEW p, NEW q PROVE AllMute(ds, p, q) /\ SameNews(e, ds, p, q)
  <2>1. AllMute(ds, p, q)
    BY <1>6, <1>7 DEF AllMute
  <2>2. \A x \in Linking : AllTell(ds, p, q, x)
    <3>1. \A x \in Linking : Tells(c, p, q, x)
      BY <1>6, SilentSays DEF Mute, Tells
    <3> QED BY <1>7, <3>1 DEF AllTell
  <2>3. AllMute(e, p, q)
    BY <1>7 DEF AllMute
  <2> QED BY <2>1, <2>2, <2>3 DEF SameNews
<1> QED BY <1>8, <1>9 DEF ds, e, c

\* What is sent is tidy.
LEMMA SentTidy ==
    ASSUME NEW cs, ConnsGood(cs), Tidy(cs), NEW reg, NEW n, NEW ms \in Seq(Controls),
           \A k \in DOMAIN ms : FromLinkers(ms[k])
    PROVE  Tidy(Sent(cs, reg, n, ms))
<1> DEFINE ds == Sent(cs, reg, n, ms)
           f(i) == Addressed(ms, reg, n, i)
           s(i) == Other(Side(cs[i], n))
<1>1. DOMAIN ds = DOMAIN cs /\ \A i \in DOMAIN cs : ds[i] = Put(cs[i], s(i), f(i))
  BY DEF Sent
<1>2. ASSUME NEW i \in DOMAIN cs PROVE Whole(ds[i]) /\ Sourced(ds[i])
  <2>1. s(i) \in Sides
    BY TwoEnds DEF Side
  <2>2. f(i) \in Seq(Controls)
    BY AddressedFrom
  <2>3. f(i) \in Seq(Frames)
    BY <2>2, ControlFrames
  <2>4. \A j \in DOMAIN f(i) : FromLinkers(f(i)[j])
    BY AddressedFrom
  <2>5. cs[i] \in Connection /\ Whole(cs[i]) /\ Sourced(cs[i])
    BY DEF ConnsGood, Good, Tidy
  <2> HIDE DEF ds, f, s
  <2> QED BY <1>1, <2>1, <2>3, <2>4, <2>5, PutTidy
<1> HIDE DEF ds
<1> QED BY <1>1, <1>2 DEF Tidy, ds

\* Messages that are no news change none.
LEMMA SentNone ==
    ASSUME NEW cs, ConnsGood(cs), NEW reg, NEW n, NEW ms \in Seq(Controls), NEW p, NEW q,
           Silent(ms, p, q)
    PROVE  SameNews(cs, Sent(cs, reg, n, ms), p, q)
<1> DEFINE ds == Sent(cs, reg, n, ms)
           f(i) == Addressed(ms, reg, n, i)
           s(i) == Other(Side(cs[i], n))
<1>1. DOMAIN ds = DOMAIN cs /\ \A i \in DOMAIN cs : ds[i] = Put(cs[i], s(i), f(i))
  BY DEF Sent
<1>2. ASSUME NEW i \in DOMAIN cs PROVE Alike(cs[i], ds[i], p, q)
  <2>1. s(i) \in Sides
    BY TwoEnds DEF Side
  <2>2. f(i) \in Seq(Controls)
    BY AddressedFrom
  <2>3. f(i) \in Seq(Frames)
    BY <2>2, ControlFrames
  <2>4. Silent(f(i), p, q)
    BY AddressedFrom DEF Silent
  <2>5. cs[i] \in Connection
    BY DEF ConnsGood, Good
  <2> HIDE DEF ds, f, s
  <2> QED BY <1>1, <2>1, <2>3, <2>4, <2>5, PutNone
<1> HIDE DEF ds
<1> QED BY <1>1, <1>2, EachNone DEF ds

\* One message, sent over the connection registered for it.
LEMMA AddressedOne ==
    ASSUME NEW reg, NEW n, NEW i, NEW m, reg[n][Dest(m)] = i
    PROVE  Addressed(<<m>>, reg, n, i) = <<m>>
<1> DEFINE ms == <<m>>
           S == {k \in DOMAIN ms : reg[n][Dest(ms[k])] = i}
<1>1. DOMAIN ms = {1} /\ ms[1] = m
  OBVIOUS
<1> HIDE DEF ms
<1>2. S = {1}
  BY <1>1
<1>3. Cardinality({1}) = 1
  BY FS_Singleton
<1>4. {l \in S : l <= 1} = {1}
  BY <1>2
<1>5. (CHOOSE k \in S : Cardinality({l \in S : l <= k}) = 1) = 1
  BY <1>2, <1>3, <1>4
<1> DEFINE at(j) == CHOOSE k \in S : Cardinality({l \in S : l <= k}) = j
<1>6. Addressed(ms, reg, n, i) = [j \in 1 .. Cardinality(S) |-> ms[at(j)]]
  BY DEF Addressed
<1>7. Cardinality(S) = 1 /\ at(1) = 1
  BY <1>2, <1>3, <1>5
<1> HIDE DEF at, S
<1>8. Addressed(ms, reg, n, i) = [j \in 1 .. 1 |-> m]
  BY <1>1, <1>6, <1>7
<1>9. [j \in 1 .. 1 |-> m] = <<m>>
  OBVIOUS
<1> QED BY <1>8, <1>9 DEF ms

\* Either all a task has to say is sent, or there was no connection and it opens
\* the only one.
SentOrOpened(t, n, cs, reg, ms) ==
    /\ ~raised /\ faults' = faults /\ Len(cs) <= 1
    /\ \A x \in Procs : status'[x] = "live" => status[x] = "live"
    /\ \/ /\ conns' = Sent(cs, reg, n, ms) /\ todo' = [todo EXCEPT ![t] = <<>>]
          /\ \A k \in DOMAIN ms : Sendable(cs, reg, n, ms[k])
       \/ /\ cs = <<>> /\ 1 \in DOMAIN ms
          /\ conns' = <<NewConnection(n, Dest(ms[1]), t)>>
          /\ todo' = [todo EXCEPT ![t] = ms]

\* One of the two happens when a task sends without a fault.
LEMMA EmitCalm ==
    ASSUME NEW t \in Tasks, NEW n \in Node, NEW cs, NEW reg, NEW ms \in Seq(Controls),
           NEW ending \in BOOLEAN, ending => t \in Procs, TypeOK,
           ConnsGood(cs), Served(cs, reg), \A k \in DOMAIN ms : Crosses(ms[k], n),
           Emit(t, n, cs, reg, ms, ending), ~raised', Len(conns') <= 1
    PROVE  SentOrOpened(t, n, cs, reg, ms)
<1> DEFINE k == Stop(cs, reg, n, ms)
           m == Dest(ms[k])
           I == {i \in 1 .. Len(ms) : ~Sendable(cs, reg, n, ms[i])}
           sent == IF k = 0 THEN ms ELSE SubSeq(ms, 1, k - 1)
           now == Sent(cs, reg, n, sent)
           rest == SubSeq(ms, k, Len(ms))
<1>1. k = IF I # {} THEN Min(I) ELSE 0
  BY DEF Stop, SelectInSeq
<1>2. I \in SUBSET Nat /\ I \subseteq DOMAIN ms /\ DOMAIN ms = 1 .. Len(ms) /\ Len(ms) \in Nat
  OBVIOUS
<1>3. I # {} => k \in I /\ \A y \in I : k <= y
  <2> HIDE DEF I, k
  <2> QED BY <1>1, <1>2, LeastOf
<1>4. k = 0 => \A j \in DOMAIN ms : Sendable(cs, reg, n, ms[j])
  <2>1. 0 \notin I
    OBVIOUS
  <2>2. k = 0 => I = {}
    BY <1>3, <2>1
  <2> QED BY <1>2, <2>2
<1>5. /\ \/ /\ k = 0 /\ conns' = now /\ todo' = [todo EXCEPT ![t] = <<>>]
         \/ /\ k # 0 /\ reg[n][m] = 0 /\ conns' = Append(now, NewConnection(n, m, t))
            /\ todo' = [todo EXCEPT ![t] = rest]
      /\ ~raised /\ faults' = faults
      /\ \/ status' = status
         \/ \E x \in {"gone", "ending"} : status' = [status EXCEPT ![t] = x]
  BY DEF Emit
<1>6. \A x \in Procs : status'[x] = "live" => status[x] = "live"
  BY <1>5 DEF TypeOK
<1>7. cs \in Seq(Connection) /\ Len(cs) \in Nat
  BY DEF ConnsGood
<1>8. CASE k = 0
  <2>1. conns' = Sent(cs, reg, n, ms) /\ todo' = [todo EXCEPT ![t] = <<>>]
    BY <1>5, <1>8
  <2>2. Len(conns') = Len(cs)
    BY <2>1, SentGood
  <2> HIDE DEF k
  <2> QED BY <1>4, <1>5, <1>6, <1>8, <2>1, <2>2 DEF SentOrOpened
<1>9. CASE k # 0
  <2>1. /\ reg[n][m] = 0 /\ conns' = Append(now, NewConnection(n, m, t))
        /\ todo' = [todo EXCEPT ![t] = rest]
    BY <1>5, <1>9
  <2>2. k \in I /\ k \in DOMAIN ms
    BY <1>1, <1>2, <1>3, <1>9
  <2>3. Len(now) = Len(cs) /\ now \in Seq(Connection)
    <3>1. sent \in Seq(Controls) /\ \A j \in DOMAIN sent : Crosses(sent[j], n)
      BY <2>2, Pieces
    <3> HIDE DEF sent
    <3>2. Len(now) = Len(cs) /\ ConnsGood(now)
      BY <3>1, SentGood
    <3> QED BY <3>2 DEF ConnsGood
  <2> HIDE DEF now
  <2>4. Len(cs) = 0
    BY <1>7, <2>1, <2>3
  <2>5. cs = <<>> /\ now = <<>>
    BY <1>7, <2>3, <2>4
  <2>6. conns' = <<NewConnection(n, m, t)>>
    BY <2>1, <2>5
  <2>7. \A j \in DOMAIN ms : j \in I
    <3> SUFFICES ASSUME NEW j \in DOMAIN ms PROVE ~Sendable(cs, reg, n, ms[j])
      BY <1>2
    <3>1. ms[j] \in Controls
      OBVIOUS
    <3>2. Dest(ms[j]) \in Node
      BY <3>1, NodesAssumption DEF Controls, Dest
    <3>3. DOMAIN cs = {}
      BY <2>5
    <3>4. reg[n][Dest(ms[j])] = 0
      BY <3>2, <3>3 DEF Served
    <3> QED BY <3>4 DEF Sendable
  <2>8. k = 1
    <3>1. 1 \in DOMAIN ms /\ k \in Nat /\ k >= 1
      BY <1>2, <2>2
    <3>2. 1 \in I
      BY <2>7, <3>1
    <3>3. k <= 1
      BY <1>3, <3>2
    <3> HIDE DEF k
    <3> QED BY <3>1, <3>3
  <2> HIDE DEF k
  <2>9. rest = ms
    BY <2>8
  <2> HIDE DEF rest
  <2> QED BY <1>5, <1>6, <1>7, <2>1, <2>2, <2>4, <2>5, <2>6, <2>8, <2>9 DEF SentOrOpened
<1> QED BY <1>8, <1>9

\* Frames put on an open connection come after those under way.
LEMMA OpenPut ==
    ASSUME NEW c \in Connection, c.open, NEW s \in Sides, NEW f \in Seq(Frames)
    PROVE  /\ Put(c, s, f).wire[Other(s)] = c.wire[Other(s)]
           /\ Put(c, s, f).wire[s] = c.wire[s] \o f
<1> DEFINE d == Put(c, s, f)
           w == c.wire[s]
<1>1. ASSUME NEW b \in Connection, NEW r \in Sides, NEW g \in Seq(Frames)
      PROVE  /\ Put(b, r, g).wire[Other(r)] = b.wire[Other(r)]
             /\ Put(b, r, g).wire[r] = IF b.open THEN b.wire[r] \o g ELSE b.wire[r]
  BY ONLY <1>1, PutFields
<1>2. d.wire[Other(s)] = c.wire[Other(s)] /\ d.wire[s] = IF c.open THEN w \o f ELSE w
  BY <1>1, Zenon
<1> HIDE DEF d, w
<1>3. d.wire[s] = w \o f
  BY <1>2, Zenon
<1> QED BY <1>2, <1>3 DEF d, w

\* One piece of news, sent over the only connection.
LEMMA SentOne ==
    ASSUME NEW p \in Procs, NEW q \in Procs, NEW m \in Controls, News(m, p, q),
           NEW cs, NEW reg, ConnsGood(cs), Tidy(cs), Served(cs, reg), Len(cs) <= 1,
           Crosses(m, Home[p]), Sendable(cs, reg, Home[p], m)
    PROVE  /\ AllTell(Sent(cs, reg, Home[p], <<m>>), p, q, m.kind)
           /\ ~AllMute(Sent(cs, reg, Home[p], <<m>>), p, q)
<1> DEFINE n == Home[p]
           i == reg[n][Dest(m)]
           ds == Sent(cs, reg, n, <<m>>)
           s == Side(cs[i], n)
           f == <<m>>
<1>1. n \in Node /\ Dest(m) \in Node /\ m.to = q /\ Home[q] # n /\ m \in Frames
  <2>1. m.to = q /\ Home[m.to] # n
    BY DEF Crosses, News
  <2> QED BY <2>1, ControlFrames DEF Dest
<1>2. i # 0
  BY DEF Sendable
<1>3. /\ i \in DOMAIN cs /\ cs[i].at[s] = "up" /\ cs[i].node[s] = n
  BY <1>1, <1>2 DEF Served
<1>4. cs \in Seq(Connection) /\ Len(cs) \in Nat
  BY DEF ConnsGood
<1>5. \A j \in DOMAIN cs : j = i
  BY <1>3, <1>4
<1>6. s \in Sides /\ Other(s) \in Sides /\ Other(Other(s)) = s /\ Other(s) # s
  BY TwoEnds DEF Side
<1>7. Addressed(f, reg, n, i) = f
  BY AddressedOne
<1>8. DOMAIN ds = DOMAIN cs /\ ds[i] = Put(cs[i], Other(s), f)
  BY <1>3, <1>7 DEF Sent
<1>9. /\ cs[i] \in Connection /\ Good(cs[i]) /\ Whole(cs[i])
      /\ cs[i].wire[s] \in Seq(Frames) /\ cs[i].wire[Other(s)] \in Seq(Frames)
  BY <1>3, <1>6 DEF ConnsGood, Good, Tidy, Connection
<1>10. cs[i].open
  BY <1>3, <1>9 DEF Whole, Sides, Side
<1>11. f \in Seq(Frames)
  BY <1>1
<1> HIDE DEF ds, s, i, f
<1>12. /\ ds[i].wire[s] = cs[i].wire[s]
       /\ ds[i].wire[Other(s)] = cs[i].wire[Other(s)] \o f
  <2> DEFINE c == cs[i]
             r == Other(s)
  <2>1. c \in Connection /\ r \in Sides /\ c.open
    BY <1>6, <1>9, <1>10
  <2>2. ds[i] = Put(c, r, f)
    BY <1>8
  <2> HIDE DEF c, r
  <2>3. /\ Put(c, r, f).wire[Other(r)] = c.wire[Other(r)]
        /\ Put(c, r, f).wire[r] = c.wire[r] \o f
    BY <1>11, <2>1, OpenPut
  <2> QED BY <1>6, <2>1, <2>2, <2>3 DEF c, r
<1>13. Silent(cs[i].wire[s], p, q)
  <2> SUFFICES ASSUME NEW k \in DOMAIN cs[i].wire[s], News(cs[i].wire[s][k], p, q) PROVE FALSE
    BY DEF Silent
  <2>1. IsControl(cs[i].wire[s][k]) /\ cs[i].wire[s][k].to = q
    BY DEF News, IsControl, Linking, Kinds
  <2> QED BY <1>1, <1>3, <1>6, <1>9, <2>1 DEF Good, WiresCross
<1>14. /\ Latest(ds[i].wire[Other(s)], p, q, m.kind) /\ ~Silent(ds[i].wire[Other(s)], p, q)
  BY <1>1, <1>9, <1>12, AppendOne DEF f
<1>15. m.kind \in Linking
  BY DEF News
<1>16. \A r \in Sides : r = s \/ r = Other(s)
  BY <1>6 DEF Sides, Other
<1>17. Tells(ds[i], p, q, m.kind)
  <2>1. Latest(ds[i].wire[s], p, q, m.kind)
    BY <1>12, <1>13, <1>15, SilentSays
  <2> QED BY <1>14, <1>16, <2>1 DEF Tells
<1>18. AllTell(ds, p, q, m.kind)
  BY <1>5, <1>8, <1>17 DEF AllTell
<1>19. ~AllMute(ds, p, q)
  BY <1>3, <1>6, <1>8, <1>14 DEF AllMute, Mute
<1> QED BY <1>18, <1>19 DEF ds, f

\* Two processes agree as long as nothing is said, lost or taken back.
LEMMA AgreeKept ==
    ASSUME NEW p \in Procs, NEW q \in Procs, Agreed(p, q), SameNews(conns, conns', p, q),
           \/ todo'[p] = todo[p]
           \/ Silent(todo[p], p, q) /\ Silent(todo'[p], p, q),
           q \in remote_links'[p] <=> q \in remote_links[p],
           p \in remote_links'[q] <=> p \in remote_links[q]
    PROVE  Agreed(p, q)'
<1>1. Verdict(p, q)' = Verdict(p, q) /\ Verdict(p, q) \in Linking
  BY DEF Verdict, Linking
<1> DEFINE x == Verdict(p, q)
<1>2. /\ Latest(todo[p], p, q, x)
      /\ Silent(todo[p], p, q) => AllTell(conns, p, q, x)
      /\ Silent(todo[p], p, q) /\ AllMute(conns, p, q)
            => (p \in remote_links[q] <=> q \in remote_links[p])
  BY DEF Agreed
<1> HIDE DEF x
<1>3. Latest(todo'[p], p, q, x)
  <2>1. CASE Silent(todo'[p], p, q)
    BY <1>1, <2>1, SilentSays DEF x
  <2> QED BY <1>2, <2>1
<1>4. Silent(todo'[p], p, q) => Silent(todo[p], p, q)
  OBVIOUS
<1>5. AllTell(conns, p, q, x) => AllTell(conns', p, q, x)
  BY <1>1 DEF SameNews, x
<1>6. AllMute(conns', p, q) => AllMute(conns, p, q)
  BY DEF SameNews
<1>7. /\ Latest(todo'[p], p, q, Verdict(p, q)')
      /\ Silent(todo'[p], p, q) => AllTell(conns', p, q, Verdict(p, q)')
      /\ Silent(todo'[p], p, q) /\ AllMute(conns', p, q)
            => (p \in remote_links'[q] <=> q \in remote_links'[p])
  BY <1>1, <1>2, <1>3, <1>4, <1>5, <1>6 DEF x
<1>8. /\ Latest(todo[p], p, q, Verdict(p, q))'
      /\ Silent(todo[p], p, q)' = Silent(todo'[p], p, q)
      /\ AllTell(conns, p, q, Verdict(p, q))' = AllTell(conns', p, q, Verdict(p, q)')
      /\ AllMute(conns, p, q)' = AllMute(conns', p, q)
  BY <1>7 DEF Latest, News, Silent, AllTell, AllMute, Tells, Mute
<1> QED BY <1>7, <1>8 DEF Agreed

\* What there is to show of a step.
LEMMA LinkedNext ==
    ASSUME Tidy(conns'), \A t \in Tasks : Own(t, todo'[t]),
           \A p \in Linkers, q \in Procs \ Linkers : BothLive(p, q)' => Agreed(p, q)'
    PROVE  Linked'
<1>1. Tidy(conns)'
  BY DEF Tidy, Whole, Sourced, FromLinkers, Taken3
<1>2. TodoOwn'
  BY DEF TodoOwn, Own
<1>3. AllAgreed'
  BY DEF AllAgreed
<1> QED BY <1>1, <1>2, <1>3 DEF Linked

\* A task sends, without a fault: no news, or the one piece that says what the
\* sender now holds.
LEMMA SendingKeeps ==
    ASSUME IInv, LInv, Calm', NEW t \in Tasks, NEW n \in Node, NEW cs, NEW reg,
           NEW ms \in Seq(Controls), NEW ending \in BOOLEAN, ending => t \in Procs,
           ConnsGood(cs), Served(cs, reg), TaskOf(conns, t, n), Len(cs) = Len(conns),
           \A k \in DOMAIN ms : Crosses(ms[k], n), Emit(t, n, cs, reg, ms, ending),
           Calm /\ Linked =>
             /\ Tidy(cs) /\ Own(t, ms)
             /\ \A p \in Linkers, q \in Procs \ Linkers :
                  BothLive(p, q)' /\ BothLive(p, q) =>
                    \/ /\ Silent(ms, p, q) /\ (p = t => Silent(todo[p], p, q))
                       /\ SameNews(conns, cs, p, q)
                       /\ q \in remote_links'[p] <=> q \in remote_links[p]
                       /\ p \in remote_links'[q] <=> p \in remote_links[q]
                    \/ /\ p = t /\ 1 \in DOMAIN ms /\ News(ms[1], p, q)
                       /\ ms[1].kind = Verdict(p, q)'
    PROVE  Linked'
<1>1. /\ ~raised /\ faults' = faults /\ Len(cs) <= 1
      /\ \A x \in Procs : status'[x] = "live" => status[x] = "live"
      /\ \/ /\ conns' = Sent(cs, reg, n, ms) /\ todo' = [todo EXCEPT ![t] = <<>>]
            /\ \A k \in DOMAIN ms : Sendable(cs, reg, n, ms[k])
         \/ /\ cs = <<>> /\ 1 \in DOMAIN ms
            /\ conns' = <<NewConnection(n, Dest(ms[1]), t)>>
            /\ todo' = [todo EXCEPT ![t] = ms]
  <2>1. TypeOK /\ ~raised' /\ Len(conns') <= 1
    BY DEF IInv, Calm
  <2>2. SentOrOpened(t, n, cs, reg, ms)
    BY <2>1, EmitCalm
  <2> QED BY <2>2 DEF SentOrOpened
<1>2. Calm
  BY <1>1 DEF Calm
<1>3. Linked
  BY <1>2 DEF LInv
<1>4. Tidy(cs) /\ Own(t, ms)
  BY <1>2, <1>3
<1>5. \A k \in DOMAIN ms : FromLinkers(ms[k])
  BY <1>4 DEF Own, FromLinkers
<1>6. todo \in [Tasks -> Seq(Controls)]
  BY DEF IInv, TypeOK
<1>7. ASSUME NEW p, NEW q, 1 \in DOMAIN ms
      PROVE  /\ Tidy(<<NewConnection(n, Dest(ms[1]), t)>>)
             /\ AllMute(<<NewConnection(n, Dest(ms[1]), t)>>, p, q)
             /\ SameNews(<<>>, <<NewConnection(n, Dest(ms[1]), t)>>, p, q)
  <2>1. ms[1] \in Controls /\ Crosses(ms[1], n)
    BY <1>7
  <2>2. Dest(ms[1]) \in Node /\ Dest(ms[1]) # n
    BY <2>1, NodesAssumption DEF Controls, Crosses, Dest
  <2> QED BY <2>2, NewTidy
<1>8. Tidy(conns')
  BY <1>1, <1>4, <1>5, <1>7, SentTidy
<1>9. \A u \in Tasks : Own(u, todo'[u])
  <2>1. \A u \in Tasks : Own(u, todo[u])
    BY <1>3 DEF Linked, TodoOwn
  <2>2. Own(t, <<>>)
    BY DEF Own
  <2>3. todo'[t] = <<>> \/ todo'[t] = ms
    BY <1>1, <1>6
  <2>4. \A u \in Tasks : u # t => todo'[u] = todo[u]
    BY <1>1, <1>6
  <2> QED BY <1>4, <2>1, <2>2, <2>3, <2>4
<1>10. ASSUME NEW p \in Linkers, NEW q \in Procs \ Linkers, BothLive(p, q)'
       PROVE  Agreed(p, q)'
  <2>1. p \in Procs /\ q \in Procs /\ p \in Tasks
    BY NodesAssumption DEF Tasks
  <2>2. BothLive(p, q)
    BY <1>1, <1>10, <2>1 DEF BothLive
  <2>3. Agreed(p, q)
    BY <1>3, <2>2 DEF Linked, AllAgreed
  <2>4. CASE /\ Silent(ms, p, q) /\ (p = t => Silent(todo[p], p, q))
             /\ SameNews(conns, cs, p, q)
             /\ q \in remote_links'[p] <=> q \in remote_links[p]
             /\ p \in remote_links'[q] <=> p \in remote_links[q]
    <3>1. SameNews(cs, conns', p, q)
      BY <1>1, <1>7, <2>4, SentNone
    <3>2. SameNews(conns, conns', p, q)
      BY <2>4, <3>1, SameTwice
    <3>3. Silent(<<>>, p, q)
      BY DEF Silent
    <3>4. \/ todo'[p] = todo[p]
          \/ Silent(todo[p], p, q) /\ Silent(todo'[p], p, q)
      BY <1>1, <1>6, <2>1, <2>4, <3>3
    <3> QED BY <2>1, <2>3, <2>4, <3>2, <3>4, AgreeKept
  <2>5. CASE /\ p = t /\ 1 \in DOMAIN ms /\ News(ms[1], p, q)
             /\ ms[1].kind = Verdict(p, q)'
    <3> DEFINE m == ms[1]
               x == Verdict(p, q)'
    <3>1. m \in Controls /\ Crosses(m, n) /\ n = Home[p] /\ News(m, p, q) /\ m.kind = x
      BY <2>1, <2>5 DEF TaskOf
    <3>2. Len(ms) = 1
      BY <1>4, <2>5 DEF Own, News
    <3>3. ms = <<m>>
      BY <3>2
    <3>4. x \in Linking
      BY <3>1 DEF News
    <3> HIDE DEF m, x
    <3>5. CASE conns' = Sent(cs, reg, n, ms) /\ todo' = [todo EXCEPT ![t] = <<>>]
               /\ \A k \in DOMAIN ms : Sendable(cs, reg, n, ms[k])
      <4>1. Sendable(cs, reg, Home[p], m)
        BY <2>5, <3>1, <3>5 DEF m
      <4>2. AllTell(conns', p, q, x) /\ ~AllMute(conns', p, q)
        BY <1>1, <1>4, <2>1, <3>1, <3>3, <3>5, <4>1, SentOne
      <4>3. todo'[p] = <<>>
        BY <1>6, <2>1, <2>5, <3>5
      <4>4. Latest(todo'[p], p, q, x)
        BY <4>3 DEF Latest
      <4> QED BY <4>2, <4>4 DEF Agreed, Latest, News, Silent, AllTell, AllMute, Tells, Mute, x
    <3>6. CASE todo' = [todo EXCEPT ![t] = ms]
      <4>1. todo'[p] = ms
        BY <1>6, <2>1, <2>5, <3>6
      <4>2. DOMAIN ms = {1} /\ ms[1] = m
        BY <3>3
      <4>3. Latest(todo'[p], p, q, x) /\ ~Silent(todo'[p], p, q)
        BY <3>1, <4>1, <4>2 DEF Latest, Silent
      <4> QED BY <4>3 DEF Agreed, Latest, News, Silent, x
    <3> QED BY <1>1, <3>5, <3>6
  <2> QED BY <1>2, <1>3, <1>10, <2>2, <2>4, <2>5
<1> QED BY <1>8, <1>9, <1>10, LinkedNext

-----------------------------------------------------------------------------
(* Steps without a fault.                                                  *)

\* Nothing that a list without news has is anyone's.
LEMMA NoNews ==
    ASSUME NEW ms, \A k \in DOMAIN ms : ms[k].kind \notin Linking, NEW t
    PROVE  Own(t, ms) /\ \A p, q : Silent(ms, p, q)
BY DEF Own, Silent, News

\* An operation sends what the process has come to hold, or no news.
LEMMA OperationKeeps ==
    ASSUME IInv, LInv, Calm', NEW r \in Procs, NEW m \in Controls, Crosses(m, Home[r]),
           Operation(r, m), m.kind \in Linking => r \in Linkers /\ m.from = r,
           \A p \in Linkers, q \in Procs \ Linkers :
              \/ /\ ~News(m, p, q)
                 /\ q \in remote_links'[p] <=> q \in remote_links[p]
                 /\ p \in remote_links'[q] <=> p \in remote_links[q]
              \/ p = r /\ News(m, p, q) /\ m.kind = Verdict(p, q)'
    PROVE  Linked'
<1>1. /\ Emit(r, Home[r], conns, connections, <<m>>, FALSE) /\ todo[r] = <<>>
  BY DEF Operation
<1>2. /\ ConnsGood(conns) /\ Served(conns, connections)
  BY DEF IInv
<1>3. r \in Tasks /\ Home[r] \in Node /\ TaskOf(conns, r, Home[r])
  BY NodesAssumption DEF Tasks, TaskOf
<1> DEFINE ms == <<m>>
           n == Home[r]
<1>4. DOMAIN ms = {1} /\ ms[1] = m /\ Len(ms) = 1 /\ ms \in Seq(Controls)
  OBVIOUS
<1>5. Emit(r, n, conns, connections, ms, FALSE)
  BY <1>1
<1> HIDE DEF ms
<1>6. \A k \in DOMAIN ms : Crosses(ms[k], n)
  BY <1>4
<1>7. Own(r, ms)
  BY <1>4 DEF Own
<1>8. Silent(<<>>, r, r) /\ \A p, q : Silent(todo[r], p, q)
  BY <1>1 DEF Silent
<1>9. ASSUME Linked
      PROVE  /\ Tidy(conns) /\ Own(r, ms)
             /\ \A p \in Linkers, q \in Procs \ Linkers :
                  BothLive(p, q)' /\ BothLive(p, q) =>
                    \/ /\ Silent(ms, p, q) /\ (p = r => Silent(todo[p], p, q))
                       /\ SameNews(conns, conns, p, q)
                       /\ q \in remote_links'[p] <=> q \in remote_links[p]
                       /\ p \in remote_links'[q] <=> p \in remote_links[q]
                    \/ /\ p = r /\ 1 \in DOMAIN ms /\ News(ms[1], p, q)
                       /\ ms[1].kind = Verdict(p, q)'
  <2>1. Tidy(conns)
    BY <1>9 DEF Linked
  <2>2. ASSUME NEW p \in Linkers, NEW q \in Procs \ Linkers
        PROVE  \/ /\ Silent(ms, p, q) /\ (p = r => Silent(todo[p], p, q))
                  /\ SameNews(conns, conns, p, q)
                  /\ q \in remote_links'[p] <=> q \in remote_links[p]
                  /\ p \in remote_links'[q] <=> p \in remote_links[q]
               \/ /\ p = r /\ 1 \in DOMAIN ms /\ News(ms[1], p, q)
                  /\ ms[1].kind = Verdict(p, q)'
    <3>1. SameNews(conns, conns, p, q)
      BY DEF SameNews
    <3>2. ~News(m, p, q) => Silent(ms, p, q)
      BY <1>4 DEF Silent
    <3> HIDE DEF n
    <3> QED BY <1>4, <1>8, <3>1, <3>2
  <2> QED BY <1>7, <2>1, <2>2
<1>10. FALSE \in BOOLEAN
  OBVIOUS
<1> QED BY <1>2, <1>3, <1>4, <1>5, <1>6, <1>9, <1>10, SendingKeeps

\* A process links.
LEMMA LinkKeeps ==
    ASSUME IInv, LInv, Calm', NEW r \in Linkers, NEW u \in Procs, Remote(r, u), Link(r, u)
    PROVE  Linked'
<1> DEFINE m == LinkMessage(r, u)
<1>1. m \in Controls /\ Crosses(m, Home[r]) /\ r \in Procs
  BY MessageTyped, References, NodesAssumption DEF LinkMessage, Kinds, Reasons
<1>2. m.kind = "link" /\ m.from = r /\ m.to = u
  BY DEF LinkMessage, Message
<1>3. /\ Operation(r, m)
      /\ remote_links' = [remote_links EXCEPT ![r] = @ \union {u}]
  BY DEF Link
<1>4. remote_links \in [Procs -> SUBSET Procs]
  BY DEF IInv, TypeOK
<1> HIDE DEF m
<1>5. ASSUME NEW p \in Linkers, NEW q \in Procs \ Linkers
      PROVE  \/ /\ ~News(m, p, q)
                /\ q \in remote_links'[p] <=> q \in remote_links[p]
                /\ p \in remote_links'[q] <=> p \in remote_links[q]
             \/ p = r /\ News(m, p, q) /\ m.kind = Verdict(p, q)'
  <2>1. q # r /\ p \in Procs
    BY NodesAssumption
  <2>2. remote_links'[q] = remote_links[q]
    BY <1>1, <1>3, <1>4, <2>1
  <2>3. CASE p = r /\ q = u
    BY <1>1, <1>2, <1>3, <1>4, <2>3 DEF News, Linking, Verdict
  <2>4. CASE ~(p = r /\ q = u)
    <3>1. ~News(m, p, q)
      BY <1>2, <2>4 DEF News
    <3>2. q \in remote_links'[p] <=> q \in remote_links[p]
      BY <1>1, <1>3, <1>4, <2>1, <2>4
    <3> QED BY <2>2, <3>1, <3>2
  <2> QED BY <2>3, <2>4
<1> QED BY <1>1, <1>2, <1>3, <1>5, OperationKeeps

\* A process unlinks.
LEMMA UnlinkKeeps ==
    ASSUME IInv, LInv, Calm', NEW r \in Linkers, NEW u \in Procs, Remote(r, u), Unlink(r, u)
    PROVE  Linked'
<1> DEFINE m == UnlinkMessage(r, u)
<1>1. m \in Controls /\ Crosses(m, Home[r]) /\ r \in Procs
  BY MessageTyped, References, NodesAssumption DEF UnlinkMessage, Kinds, Reasons
<1>2. m.kind = "unlink" /\ m.from = r /\ m.to = u
  BY DEF UnlinkMessage, Message
<1>3. /\ Operation(r, m)
      /\ remote_links' = [remote_links EXCEPT ![r] = @ \ {u}]
  BY DEF Unlink
<1>4. remote_links \in [Procs -> SUBSET Procs]
  BY DEF IInv, TypeOK
<1> HIDE DEF m
<1>5. ASSUME NEW p \in Linkers, NEW q \in Procs \ Linkers
      PROVE  \/ /\ ~News(m, p, q)
                /\ q \in remote_links'[p] <=> q \in remote_links[p]
                /\ p \in remote_links'[q] <=> p \in remote_links[q]
             \/ p = r /\ News(m, p, q) /\ m.kind = Verdict(p, q)'
  <2>1. q # r /\ p \in Procs
    BY NodesAssumption
  <2>2. remote_links'[q] = remote_links[q]
    BY <1>1, <1>3, <1>4, <2>1
  <2>3. CASE p = r /\ q = u
    BY <1>1, <1>2, <1>3, <1>4, <2>3 DEF News, Linking, Verdict
  <2>4. CASE ~(p = r /\ q = u)
    <3>1. ~News(m, p, q)
      BY <1>2, <2>4 DEF News
    <3>2. q \in remote_links'[p] <=> q \in remote_links[p]
      BY <1>1, <1>3, <1>4, <2>1, <2>4
    <3> QED BY <2>2, <3>1, <3>2
  <2> QED BY <2>3, <2>4
<1> QED BY <1>1, <1>2, <1>3, <1>5, OperationKeeps

\* A process monitors, demonitors or sends: no news.
LEMMA OthersKeep ==
    ASSUME IInv, LInv, Calm', NEW r \in Procs, NEW m \in Controls, Crosses(m, Home[r]),
           Operation(r, m), m.kind \notin Linking, remote_links' = remote_links
    PROVE  Linked'
<1>1. \A p, q : ~News(m, p, q)
  BY DEF News
<1> QED BY <1>1, OperationKeeps

\* What a client that gives up leaves.
LEMMA GivenUpFields ==
    ASSUME NEW c \in Connection
    PROVE  /\ GivenUp(c).wire = c.wire /\ GivenUp(c).open = c.open
           /\ GivenUp(c).at["client"] = "closed"
           /\ GivenUp(c).at["server"] = c.at["server"]
<1> DEFINE d == GivenUp(c)
           A == [c.at EXCEPT !["client"] = "closed"]
<1>1. A["client"] = "closed" /\ A["server"] = c.at["server"]
  BY TwoEnds DEF Connection
<1>2. d = [c EXCEPT !.at = A]
  BY DEF GivenUp
<1> HIDE DEF A, d
<1>3. d.at = A /\ d.wire = c.wire /\ d.open = c.open
  BY <1>2 DEF Connection
<1> QED BY <1>1, <1>3 DEF d

\* A task that gives up a connection takes no news with it.
LEMMA AbandonedTidy ==
    ASSUME NEW cs \in Seq(Connection), NEW r
    PROVE  /\ Len(Abandoned(cs, r)) = Len(cs) /\ (Tidy(cs) => Tidy(Abandoned(cs, r)))
           /\ \A p, q : SameNews(cs, Abandoned(cs, r), p, q)
<1> DEFINE ds == Abandoned(cs, r)
<1>1. /\ DOMAIN ds = DOMAIN cs /\ Len(ds) = Len(cs)
      /\ \A i \in DOMAIN cs : ds[i] = cs[i] \/ ds[i] = GivenUp(cs[i])
  BY DEF Abandoned, GivenUp
<1> HIDE DEF ds
<1>2. ASSUME NEW c \in Connection
      PROVE  GivenUp(c).wire = c.wire /\ (Whole(c) => Whole(GivenUp(c)))
  BY <1>2, GivenUpFields DEF Whole, Handshaking
<1>3. \A i \in DOMAIN cs : ds[i].wire = cs[i].wire /\ (Whole(cs[i]) => Whole(ds[i]))
  BY <1>1, <1>2
<1>4. \A p, q : SameNews(cs, ds, p, q)
  BY <1>1, <1>3 DEF SameNews, AllTell, AllMute, Tells, Mute
<1>5. Tidy(cs) => Tidy(ds)
  BY <1>1, <1>3 DEF Tidy, Sourced
<1> QED BY <1>1, <1>4, <1>5 DEF ds

\* A process ends: what it sends is no news, and it is no longer live.
LEMMA EndKeeps ==
    ASSUME IInv, LInv, Calm', NEW r \in Procs,
           NEW reason \in {"normal", "shutdown", "exception"}, End(r, reason)
    PROVE  Linked'
<1> DEFINE cs == Abandoned(conns, r)
           ms == ExitMessages(r, reason)
           n == Home[r]
<1>1. /\ Emit(r, n, cs, connections, ms, TRUE) /\ status[r] = "live"
      /\ remote_links' = remote_links
  BY DEF End
<1>2. /\ ConnsGood(conns) /\ Served(conns, connections) /\ conns \in Seq(Connection)
      /\ status \in [Procs -> Status]
  BY DEF IInv, TypeOK, Status
<1>3. r \in Tasks /\ n \in Node /\ TaskOf(conns, r, n)
  BY NodesAssumption DEF Tasks, TaskOf
<1>4. /\ ms \in Seq(Controls)
      /\ \A k \in DOMAIN ms : Crosses(ms[k], n) /\ ms[k].kind \in {"exit", "down"}
  BY ExitMessagesCross DEF Reasons
<1>5. ConnsGood(cs) /\ Extends(conns, cs) /\ KeepsUp(conns, cs)
  BY <1>2, AbandonedGood
<1>6. Served(cs, connections)
  BY <1>2, <1>5, ServedExtends
<1>7. /\ Len(cs) = Len(conns) /\ (Tidy(conns) => Tidy(cs))
      /\ \A p, q : SameNews(conns, cs, p, q)
  BY <1>2, AbandonedTidy
<1>8. status'[r] # "live"
  <2>1. \E x \in {"gone", "stuck", "ending"} : status' = [status EXCEPT ![r] = x]
    BY <1>1 DEF Emit
  <2> QED BY <1>2, <2>1
<1> HIDE DEF cs, ms
<1>9. \A p, q : Silent(ms, p, q) /\ Own(r, ms)
  BY <1>4, NoNews DEF Linking
<1>10. ASSUME Linked
       PROVE  /\ Tidy(cs) /\ Own(r, ms)
              /\ \A p \in Linkers, q \in Procs \ Linkers :
                  BothLive(p, q)' /\ BothLive(p, q) =>
                    \/ /\ Silent(ms, p, q) /\ (p = r => Silent(todo[p], p, q))
                       /\ SameNews(conns, cs, p, q)
                       /\ q \in remote_links'[p] <=> q \in remote_links[p]
                       /\ p \in remote_links'[q] <=> p \in remote_links[q]
                    \/ /\ p = r /\ 1 \in DOMAIN ms /\ News(ms[1], p, q)
                       /\ ms[1].kind = Verdict(p, q)'
  <2>1. Tidy(cs)
    BY <1>7, <1>10 DEF Linked
  <2>2. \A p, q : BothLive(p, q)' => p # r
    BY <1>8 DEF BothLive
  <2> QED BY <1>1, <1>7, <1>9, <2>1, <2>2
<1>11. TRUE \in BOOLEAN /\ (\A k \in DOMAIN ms : Crosses(ms[k], n))
  BY <1>4
<1> HIDE DEF n
<1> QED BY <1>1, <1>3, <1>4, <1>5, <1>6, <1>7, <1>10, <1>11, SendingKeeps

\* One connection goes on without changing any news.
LEMMA OneKeeps ==
    ASSUME LInv, Calm', NEW i \in DOMAIN conns, NEW d,
           conns' = [conns EXCEPT ![i] = d], conns \in Seq(Connection),
           Calm /\ Linked => /\ Whole(d) /\ Sourced(d)
                             /\ \A p, q : Alike(conns[i], d, p, q),
           todo' = todo, status' = status, remote_links' = remote_links,
           faults' = faults, raised' = raised
    PROVE  Linked'
<1>1. Len(conns') = Len(conns) /\ DOMAIN conns' = DOMAIN conns
  OBVIOUS
<1>2. Calm
  BY <1>1 DEF Calm
<1>3. Linked
  BY <1>2 DEF LInv
<1>4. Tidy(conns')
  BY <1>1, <1>2, <1>3 DEF Tidy, Linked
<1>5. \A t \in Tasks : Own(t, todo'[t])
  BY <1>3 DEF Linked, TodoOwn
<1>6. ASSUME NEW p \in Linkers, NEW q \in Procs \ Linkers, BothLive(p, q)'
      PROVE  Agreed(p, q)'
  <2>1. p \in Procs /\ q \in Procs
    BY NodesAssumption
  <2>2. Agreed(p, q)
    BY <1>3, <1>6 DEF Linked, AllAgreed, BothLive
  <2>3. SameNews(conns, conns', p, q)
    BY <1>2, <1>3, ReplaceNone
  <2> QED BY <2>1, <2>2, <2>3, AgreeKept
<1> QED BY <1>4, <1>5, <1>6, LinkedNext

\* What an end that has taken a frame leaves.
LEMMA TakenWire ==
    ASSUME NEW c \in Connection, NEW s \in Sides, c.wire[s] # <<>>
    PROVE  /\ TakenBy(c, s).wire[s] = Tail(c.wire[s]) /\ c.wire[s] \in Seq(Frames)
           /\ TakenBy(c, s).wire[Other(s)] = c.wire[Other(s)]
<1> DEFINE w == c.wire[s]
           v == Tail(w)
           d == [c EXCEPT !.wire[s] = v]
<1>1. w \in Seq(Frames)
  BY DEF Connection
<1>2. v \in Seq(Frames)
  BY <1>1, TailParts
<1>3. TakenBy(c, s) = d
  BY DEF TakenBy
<1>4. ASSUME NEW x \in Seq(Frames)
      PROVE  LET e == [c EXCEPT !.wire[s] = x]
             IN e.wire[s] = x /\ e.wire[Other(s)] = c.wire[Other(s)]
  BY ONLY <1>4, SetWire, c \in Connection, s \in Sides
<1> HIDE DEF v, w
<1>5. d.wire[s] = v /\ d.wire[Other(s)] = c.wire[Other(s)]
  BY <1>2, <1>4, Zenon
<1> HIDE DEF d
<1> QED BY <1>1, <1>3, <1>5 DEF v, w

\* An end takes a frame that is no news, and may put others on the other's way.
LEMMA TakenAlike ==
    ASSUME NEW c \in Connection, NEW s \in Sides, c.wire[s] # <<>>, NEW d, NEW p, NEW q,
           d.wire[s] = Tail(c.wire[s]), NEW f \in Seq(Frames), Silent(f, p, q),
           d.wire[Other(s)] \in {c.wire[Other(s)], c.wire[Other(s)] \o f}
    PROVE  /\ ~News(Head(c.wire[s]), p, q) => Alike(c, d, p, q)
           /\ \A x \in Linking : Tells(c, p, q, x) => Tells(d, p, q, x)
<1> DEFINE r == Other(s)
           w == c.wire[s]
           v == c.wire[r]
<1>1. w \in Seq(Frames) /\ v \in Seq(Frames) /\ r \in Sides
  BY TwoEnds DEF Connection
<1>2. \A u \in Sides : u = s \/ u = r
  BY DEF Sides, Other
<1> HIDE DEF r, w, v
<1>3. /\ \A x \in Linking : Latest(w, p, q, x) => Latest(Tail(w), p, q, x)
      /\ ~News(Head(w), p, q) => (Silent(Tail(w), p, q) => Silent(w, p, q))
  BY <1>1, TailNews DEF w
<1>4. /\ \A x \in Linking : Latest(v, p, q, x) => Latest(v \o f, p, q, x)
      /\ Silent(v \o f, p, q) => Silent(v, p, q)
  BY <1>1, AppendNone
<1>5. d.wire[s] = Tail(w) /\ d.wire[r] \in {v, v \o f}
  BY DEF w, v, r
<1>6. /\ \A x \in Linking : Latest(v, p, q, x) => Latest(d.wire[r], p, q, x)
      /\ Silent(d.wire[r], p, q) => Silent(v, p, q)
  BY <1>4, <1>5
<1>7. ASSUME NEW x \in Linking, Tells(c, p, q, x) PROVE Tells(d, p, q, x)
  <2>1. Latest(w, p, q, x) /\ Latest(v, p, q, x)
    BY <1>1, <1>7 DEF Tells, w, v
  <2>2. Latest(d.wire[s], p, q, x) /\ Latest(d.wire[r], p, q, x)
    BY <1>3, <1>5, <1>6, <2>1
  <2> QED BY <1>2, <2>2 DEF Tells
<1>8. ASSUME ~News(Head(w), p, q), Mute(d, p, q) PROVE Mute(c, p, q)
  <2>1. Silent(d.wire[s], p, q) /\ Silent(d.wire[r], p, q)
    BY <1>1, <1>8 DEF Mute
  <2>2. Silent(w, p, q) /\ Silent(v, p, q)
    BY <1>3, <1>5, <1>6, <1>8, <2>1
  <2> QED BY <1>2, <2>2 DEF Mute, w, v
<1> QED BY <1>7, <1>8 DEF Alike, w

\* And what is under way is still from those that link.
LEMMA TakenSourced ==
    ASSUME NEW c \in Connection, NEW s \in Sides, c.wire[s] # <<>>, NEW d,
           d.wire[s] = Tail(c.wire[s]), NEW f \in Seq(Frames),
           \A k \in DOMAIN f : FromLinkers(f[k]),
           d.wire[Other(s)] \in {c.wire[Other(s)], c.wire[Other(s)] \o f}, Sourced(c)
    PROVE  Sourced(d)
<1> DEFINE r == Other(s)
           w == c.wire[s]
           v == c.wire[r]
<1>1. w \in Seq(Frames) /\ v \in Seq(Frames) /\ r \in Sides
  BY TwoEnds DEF Connection
<1>2. \A u \in Sides : u = s \/ u = r
  BY DEF Sides, Other
<1>3. /\ \A k \in DOMAIN w : FromLinkers(w[k])
      /\ \A k \in DOMAIN v : FromLinkers(v[k])
  BY <1>1 DEF Sourced
<1> HIDE DEF r, w, v
<1>4. \A k \in DOMAIN Tail(w) : FromLinkers(Tail(w)[k])
  <2>1. \A k \in DOMAIN Tail(w) : k + 1 \in DOMAIN w /\ Tail(w)[k] = w[k + 1]
    BY <1>1, TailParts DEF w
  <2> QED BY <1>3, <2>1
<1>5. \A k \in DOMAIN (v \o f) : FromLinkers((v \o f)[k])
  BY <1>1, <1>3, ConcatParts
<1>6. d.wire[s] = Tail(w) /\ d.wire[r] \in {v, v \o f}
  BY DEF w, v, r
<1>7. \A k \in DOMAIN d.wire[r] : FromLinkers(d.wire[r][k])
  BY <1>3, <1>5, <1>6
<1> QED BY <1>2, <1>4, <1>6, <1>7 DEF Sourced

\* An end takes a frame of the handshake and goes on, with or without an answer.
LEMMA HandshakeAlike ==
    ASSUME NEW c \in Connection, NEW s \in Sides, c.wire[s] # <<>>, Sourced(c),
           ~IsControl(Head(c.wire[s])), NEW x \in Stages, NEW f \in Seq(Frames),
           \A k \in DOMAIN f : ~IsControl(f[k]),
           NEW d, d \in {MovedOn(c, s, x), Answered(c, s, f, x)}
    PROVE  Sourced(d) /\ \A p, q : Alike(c, d, p, q)
<1>1. /\ TakenBy(c, s).wire[s] = Tail(c.wire[s])
      /\ TakenBy(c, s).wire[Other(s)] = c.wire[Other(s)]
  BY TakenWire
<1>2. /\ MovedOn(c, s, x).wire[s] = Tail(c.wire[s])
      /\ MovedOn(c, s, x).wire[Other(s)] = c.wire[Other(s)]
  BY <1>1, MovedFields
<1>3. /\ Answered(c, s, f, x).wire[s] = Tail(c.wire[s])
      /\ Answered(c, s, f, x).wire[Other(s)] \in {c.wire[Other(s)], c.wire[Other(s)] \o f}
  <2>1. /\ Answered(c, s, f, x).wire[s] = TakenBy(c, s).wire[s]
        /\ Answered(c, s, f, x).wire[Other(s)] = IF c.open THEN c.wire[Other(s)] \o f
                                    ELSE c.wire[Other(s)]
    BY AnsweredFields
  <2> QED BY <1>1, <2>1
<1>4. /\ d.wire[s] = Tail(c.wire[s])
      /\ d.wire[Other(s)] \in {c.wire[Other(s)], c.wire[Other(s)] \o f}
  BY <1>2, <1>3
<1>5. \A k \in DOMAIN f : FromLinkers(f[k])
  BY NotNews
<1>6. Sourced(d)
  BY <1>4, <1>5, TakenSourced
<1>7. ASSUME NEW p, NEW q PROVE Alike(c, d, p, q)
  <2>1. Silent(f, p, q) /\ ~News(Head(c.wire[s]), p, q)
    BY NotNews DEF Silent
  <2> QED BY <1>4, <2>1, TakenAlike
<1> QED BY <1>6, <1>7

\* The server takes the name.
LEMMA NamedKeeps ==
    ASSUME IInv, LInv, Calm', NEW i \in DOMAIN conns, ServerNamed(i)
    PROVE  Linked'
<1> DEFINE f == <<[kind |-> "status"], [kind |-> "challenge"]>>
           c == conns[i]
           d == Answered(c, "server", f, "reply")
<1>1. c.at["server"] = "name" /\ c.wire["server"] # <<>>
  BY DEF ServerNamed, Ready
<1>2. conns' = [conns EXCEPT ![i] = d]
  <2> HIDE DEF f
  <2> USE TwoEnds, InvConn
  <2>1. conns' = [Taken(i, "server") EXCEPT ![i] =
                    [Put(@, "client", f) EXCEPT !.at["server"] = "reply"]]
    BY DEF ServerNamed, f
  <2>2. Taken(i, "server") = [conns EXCEPT ![i] = TakenBy(c, "server")]
    BY DEF Taken, TakenBy
  <2> QED BY <2>1, <2>2 DEF Answered
<1>3. /\ todo' = todo /\ status' = status /\ faults' = faults /\ raised' = raised
      /\ remote_links' = remote_links
  BY DEF ServerNamed, Aside, Kept
<1>4. c \in Connection /\ Good(c) /\ conns \in Seq(Connection)
  BY InvConn
<1>5. ~IsControl(Head(c.wire["server"]))
  <2>1. Head(c.wire["server"]) = c.wire["server"][1] /\ 1 \in DOMAIN c.wire["server"]
    BY <1>1, <1>4, TwoEnds, TakeFields
  <2> QED BY <1>1, <1>4, <2>1 DEF Good, ServerStage
<1>6. f \in Seq(Frames) /\ \A k \in DOMAIN f : ~IsControl(f[k])
  BY DEF Frames, IsControl, Kinds
<1>7. "reply" \in Stages
  BY DEF Stages
<1> HIDE DEF f, d, c
<1>8. ASSUME Linked
      PROVE  /\ Whole(d) /\ Sourced(d)
             /\ \A p, q : Alike(c, d, p, q)
  <2>1. Whole(c) /\ Sourced(c)
    BY <1>8 DEF Linked, Tidy, c
  <2>2. d.open = c.open /\ c.open
    BY <1>1, <1>4, <1>6, <1>7, <2>1, AnsweredFields, TwoEnds DEF d, Whole
  <2>3. Sourced(d) /\ \A p, q : Alike(c, d, p, q)
    BY <1>1, <1>4, <1>5, <1>6, <1>7, <2>1, HandshakeAlike, TwoEnds DEF d
  <2> QED BY <2>2, <2>3 DEF Whole
<1> QED BY <1>2, <1>3, <1>4, <1>8, OneKeeps DEF c

\* A client that takes one of the first two frames.
LEMMA WholeOn ==
    ASSUME NEW c \in Connection, Whole(c), c.wire["client"] # <<>>,
           NEW d, d.open = c.open, d.at["server"] = c.at["server"],
           \/ c.at["client"] = "status" /\ d.at["client"] = "challenge"
           \/ c.at["client"] = "challenge" /\ d.at["client"] = "ack",
           d.wire["client"] = Tail(c.wire["client"])
    PROVE  Whole(d)
<1> DEFINE w == c.wire["client"]
<1>1. w \in Seq(Frames)
  BY TwoEnds DEF Connection
<1>2. Len(Tail(w)) = Len(w) - 1 /\ Len(w) \in Nat
  BY <1>1, TailParts
<1> HIDE DEF w
<1>3. Taken3(d) = Taken3(c) + 1 /\ Taken3(c) \in Nat
  BY DEF Taken3
<1>4. c.at["client"] \in Handshaking /\ d.at["client"] # "up"
  BY DEF Handshaking
<1>5. ~c.open => c.at["server"] = "closed" /\ Len(w) + Taken3(c) <= 2
  BY <1>4 DEF Whole, w
<1>6. Len(d.wire["client"]) = Len(w) - 1
  BY <1>2 DEF w
<1> QED BY <1>2, <1>3, <1>4, <1>5, <1>6 DEF Whole

\* The client takes the status.
LEMMA GoesOnKeeps ==
    ASSUME IInv, LInv, Calm', NEW i \in DOMAIN conns, ClientGoesOn(i)
    PROVE  Linked'
<1> DEFINE c == conns[i]
           d == MovedOn(c, "client", "challenge")
<1>1. c.at["client"] = "status" /\ c.wire["client"] # <<>>
  BY DEF ClientGoesOn, Ready
<1>2. conns' = [conns EXCEPT ![i] = d]
  <2>1. conns' = [Taken(i, "client") EXCEPT ![i].at["client"] = "challenge"]
    BY DEF ClientGoesOn
  <2>2. Taken(i, "client") = [conns EXCEPT ![i] = TakenBy(c, "client")]
    BY DEF Taken, TakenBy
  <2> QED BY <2>1, <2>2, InvConn DEF MovedOn
<1>3. /\ todo' = todo /\ status' = status /\ faults' = faults /\ raised' = raised
      /\ remote_links' = remote_links
  BY DEF ClientGoesOn, Aside, Kept
<1>4. c \in Connection /\ Good(c) /\ conns \in Seq(Connection)
  BY InvConn
<1>5. ~IsControl(Head(c.wire["client"]))
  <2>1. Head(c.wire["client"]) = c.wire["client"][1] /\ 1 \in DOMAIN c.wire["client"]
    BY <1>1, <1>4, TwoEnds, TakeFields
  <2>2. Taken3(c) = 0 /\ c.at["client"] \in Handshaking
    BY <1>1 DEF Taken3, Handshaking
  <2> QED BY <1>4, <2>1, <2>2 DEF Good, ClientStage
<1>6. "challenge" \in Stages /\ <<>> \in Seq(Frames) /\ "client" \in Sides
  BY TwoEnds DEF Stages, Handshaking
<1> HIDE DEF d, c
<1>7. ASSUME Linked
      PROVE  /\ Whole(d) /\ Sourced(d)
             /\ \A p, q : Alike(c, d, p, q)
  <2>1. Whole(c) /\ Sourced(c)
    BY <1>7 DEF Linked, Tidy, c
  <2>2. /\ d.open = c.open /\ d.at["client"] = "challenge" /\ d.at["server"] = c.at["server"]
        /\ d.wire["client"] = Tail(c.wire["client"])
    BY <1>1, <1>4, <1>6, MovedFields, TakenWire, TwoEnds DEF d
  <2>3. Whole(d)
    BY <1>1, <1>4, <2>1, <2>2, WholeOn
  <2>4. Sourced(d) /\ \A p, q : Alike(c, d, p, q)
    <3> DEFINE f == <<>>
    <3>1. f \in Seq(Frames) /\ \A k \in DOMAIN f : ~IsControl(f[k])
      OBVIOUS
    <3> HIDE DEF f
    <3> QED BY <1>1, <1>4, <1>5, <1>6, <2>1, <3>1, HandshakeAlike DEF d
  <2> QED BY <2>3, <2>4
<1> QED BY <1>2, <1>3, <1>4, <1>7, OneKeeps DEF c

\* The client replies to the challenge.
LEMMA RepliesKeeps ==
    ASSUME IInv, LInv, Calm', NEW i \in DOMAIN conns, ClientReplies(i)
    PROVE  Linked'
<1> DEFINE c == conns[i]
           f == <<[kind |-> "reply", digest |-> Digest(c.node["client"], "server")]>>
           d == Answered(c, "client", f, "ack")
<1>1. c.at["client"] = "challenge" /\ c.wire["client"] # <<>>
  BY DEF ClientReplies, Ready
<1>2. conns' = [conns EXCEPT ![i] = d]
  <2>1. conns' = [Taken(i, "client") EXCEPT ![i] =
                    [Put(@, "server", f) EXCEPT !.at["client"] = "ack"]]
    BY DEF ClientReplies
  <2>2. Taken(i, "client") = [conns EXCEPT ![i] = TakenBy(c, "client")]
    BY DEF Taken, TakenBy
  <2> HIDE DEF f
  <2> QED BY <2>1, <2>2, InvConn, TwoEnds DEF Answered
<1>3. /\ todo' = todo /\ status' = status /\ faults' = faults /\ raised' = raised
      /\ remote_links' = remote_links
  BY DEF ClientReplies, Aside, Kept
<1>4. c \in Connection /\ Good(c) /\ conns \in Seq(Connection)
  BY InvConn
<1>5. ~IsControl(Head(c.wire["client"]))
  <2>1. Head(c.wire["client"]) = c.wire["client"][1] /\ 1 \in DOMAIN c.wire["client"]
    BY <1>1, <1>4, TwoEnds, TakeFields
  <2>2. Taken3(c) = 1 /\ c.at["client"] \in Handshaking
    BY <1>1 DEF Taken3, Handshaking
  <2> QED BY <1>4, <2>1, <2>2 DEF Good, ClientStage
<1>6. f \in Seq(Frames) /\ \A k \in DOMAIN f : ~IsControl(f[k])
  <2> DEFINE x == [kind |-> "reply", digest |-> Digest(c.node["client"], "server")]
  <2>1. x \in Frames
    BY InvConn, HandshakeFrames, TwoEnds
  <2>2. ~IsControl(x)
    BY DEF IsControl, Kinds
  <2> HIDE DEF x
  <2> QED BY <2>1, <2>2 DEF x
<1>7. "ack" \in Stages /\ "client" \in Sides
  BY TwoEnds DEF Stages, Handshaking
<1> HIDE DEF d, c, f
<1>8. ASSUME Linked
      PROVE  /\ Whole(d) /\ Sourced(d)
             /\ \A p, q : Alike(c, d, p, q)
  <2>1. Whole(c) /\ Sourced(c)
    BY <1>8 DEF Linked, Tidy, c
  <2>2. /\ d.open = c.open /\ d.at["client"] = "ack" /\ d.at["server"] = c.at["server"]
        /\ d.wire["client"] = Tail(c.wire["client"])
    <3>1. /\ d.open = c.open /\ d.at["client"] = "ack" /\ d.at["server"] = c.at["server"]
          /\ d.wire["client"] = TakenBy(c, "client").wire["client"]
      BY <1>1, <1>4, <1>6, <1>7, AnsweredFields, TwoEnds DEF d
    <3> QED BY <1>1, <1>4, <1>7, <3>1, TakenWire
  <2>3. Whole(d)
    BY <1>1, <1>4, <2>1, <2>2, WholeOn
  <2>4. Sourced(d) /\ \A p, q : Alike(c, d, p, q)
    BY <1>1, <1>4, <1>5, <1>6, <1>7, <2>1, HandshakeAlike DEF d
  <2> QED BY <2>3, <2>4
<1> QED BY <1>2, <1>3, <1>4, <1>8, OneKeeps DEF c

\* The server checks the reply.
LEMMA ChecksKeeps ==
    ASSUME IInv, LInv, Calm', NEW i \in DOMAIN conns, ServerChecks(i)
    PROVE  Linked'
<1> DEFINE c == conns[i]
           x == [kind |-> "ack", digest |-> Digest(c.node["server"], "client")]
           f == <<x>>
           d == Answered(c, "server", f, "up")
           e == ClosedAt(c, "server")
<1>1. c.at["server"] = "reply" /\ c.wire["server"] # <<>>
  BY DEF ServerChecks, Ready
<1>2. /\ todo' = todo /\ status' = status /\ faults' = faults /\ raised' = raised
      /\ remote_links' = remote_links
  BY DEF ServerChecks, Aside, Kept
<1>3. c \in Connection /\ Good(c) /\ conns \in Seq(Connection)
  BY InvConn
<1>4. \A k \in DOMAIN c.wire["server"] : ~IsControl(c.wire["server"][k])
  BY <1>1, <1>3 DEF Good, ServerStage, IsControl, Kinds
<1>5. ~IsControl(Head(c.wire["server"]))
  <2>1. Head(c.wire["server"]) = c.wire["server"][1] /\ 1 \in DOMAIN c.wire["server"]
    BY <1>1, <1>3, TwoEnds, TakeFields
  <2> QED BY <1>4, <2>1
<1>6. f \in Seq(Frames) /\ \A k \in DOMAIN f : ~IsControl(f[k])
  <2>1. x \in Frames
    BY InvConn, HandshakeFrames, TwoEnds
  <2>2. ~IsControl(x)
    BY DEF IsControl, Kinds
  <2> HIDE DEF x
  <2> QED BY <2>1, <2>2
<1>7. "up" \in Stages /\ "server" \in Sides
  BY TwoEnds DEF Stages
<1>8. Taken(i, "server") = [conns EXCEPT ![i] = TakenBy(c, "server")]
  BY DEF Taken, TakenBy
<1>9. ASSUME Linked PROVE Whole(c) /\ Sourced(c)
  BY <1>9 DEF Linked, Tidy
<1>10. CASE Head(c.wire["server"]).digest = Digest(c.node["server"], "server")
  <2>1. conns' = [conns EXCEPT ![i] = d]
    <3>1. conns' = [Taken(i, "server") EXCEPT ![i] =
                    [Put(@, "client", f) EXCEPT !.at["server"] = "up"]]
      BY <1>10 DEF ServerChecks, Frame
    <3> HIDE DEF f
    <3> QED BY <1>8, <3>1, InvConn, TwoEnds DEF Answered
  <2> HIDE DEF d, c, f
  <2>2. ASSUME Linked
        PROVE  /\ Whole(d) /\ Sourced(d)
               /\ \A p, q : Alike(c, d, p, q)
    <3>1. Whole(c) /\ Sourced(c)
      BY <1>9, <2>2
    <3>2. d.open = c.open /\ c.open
      BY <1>1, <1>3, <1>6, <1>7, <3>1, AnsweredFields DEF d, Whole
    <3>3. Sourced(d) /\ \A p, q : Alike(c, d, p, q)
      BY <1>1, <1>3, <1>5, <1>6, <1>7, <3>1, HandshakeAlike DEF d
    <3> QED BY <3>2, <3>3 DEF Whole
  <2> QED BY <1>2, <1>3, <2>1, <2>2, OneKeeps DEF c
<1>11. CASE Head(c.wire["server"]).digest # Digest(c.node["server"], "server")
  <2>1. conns' = Closing(Taken(i, "server"), i, "server")
    BY <1>11 DEF ServerChecks, Frame
  <2>2. conns' = [conns EXCEPT ![i] = e]
    <3> DEFINE b == TakenBy(c, "server")
    <3>1. b \in Connection
      BY <1>1, InvConn, TakeFields, TwoEnds
    <3>2. ClosedAt(b, "server") = ClosedAt(c, "server")
      BY InvConn DEF ClosedAt, TakenBy, Connection
    <3> HIDE DEF b
    <3> DEFINE cs == [conns EXCEPT ![i] = b]
    <3>3. cs \in Seq(Connection) /\ i \in DOMAIN cs /\ cs[i] = b
      BY <3>1, InvConn
    <3>4. Taken(i, "server") = cs
      BY <1>8 DEF b
    <3>5. [cs EXCEPT ![i] = e] = [conns EXCEPT ![i] = e]
      BY InvConn
    <3> HIDE DEF cs
    <3>6. Closing(cs, i, "server") = [cs EXCEPT ![i] = ClosedAt(b, "server")]
      BY <3>3, ClosingOne, TwoEnds
    <3> QED BY <2>1, <3>2, <3>4, <3>5, <3>6
  <2>3. /\ ~e.open /\ e.at["server"] = "closed" /\ e.at["client"] = c.at["client"]
        /\ e.wire["server"] = <<>> /\ e.wire["client"] = c.wire["client"]
    BY <1>3, TwoEnds DEF ClosedAt, Connection
  <2> HIDE DEF e, c
  <2>4. ASSUME Linked
        PROVE  /\ Whole(e) /\ Sourced(e)
               /\ \A p, q : Alike(c, e, p, q)
    <3>1. Whole(c) /\ Sourced(c)
      BY <1>9, <2>4
    <3>2. Taken3(e) = Taken3(c)
      BY <2>3 DEF Taken3
    <3>3. c.open
      BY <1>1, <3>1 DEF Whole
    <3>4. c.at["client"] # "up"
      BY <1>1, <1>3 DEF Good, ServerStage
    <3>5. c.at["client"] \in Handshaking => Len(c.wire["client"]) + Taken3(c) = 2
      BY <1>1, <1>3, <3>3 DEF Good, ClientStage
    <3>6. Whole(e)
      BY <2>3, <3>2, <3>4, <3>5 DEF Whole
    <3>7. Sourced(e)
      BY <2>3, <3>1 DEF Sourced, Sides
    <3>8. ASSUME NEW p, NEW q PROVE Alike(c, e, p, q)
      <4>1. Silent(c.wire["server"], p, q)
        BY <1>4, NotNews DEF Silent
      <4>2. Silent(<<>>, p, q)
        BY DEF Silent
      <4>3. \A y \in Linking : Latest(<<>>, p, q, y)
        BY <4>2, SilentSays
      <4> QED BY <2>3, <4>1, <4>3 DEF Alike, Tells, Mute, Sides
    <3> QED BY <3>6, <3>7, <3>8
  <2> QED BY <1>2, <1>3, <2>2, <2>4, OneKeeps DEF c
<1> QED BY <1>10, <1>11

\* What a task has to tell of another is one piece of news, or none.
LEMMA OneToTell ==
    ASSUME NEW t \in Tasks, NEW ms \in Seq(Controls), Own(t, ms), NEW p \in Procs, NEW q \in Procs,
           ~Silent(ms, p, q)
    PROVE  /\ p = t /\ 1 \in DOMAIN ms /\ News(ms[1], p, q)
           /\ \A x : Latest(ms, p, q, x) => ms[1].kind = x
<1>1. PICK k \in DOMAIN ms : News(ms[k], p, q)
  BY DEF Silent
<1>2. p = t /\ Len(ms) = 1
  BY <1>1 DEF Own, News
<1>3. DOMAIN ms = {1}
  BY <1>2
<1>4. News(ms[1], p, q) /\ \A l \in DOMAIN ms : ~(l > 1)
  BY <1>1, <1>3
<1> QED BY <1>2, <1>3, <1>4 DEF Latest

\* The client checks the answer and goes on sending.
LEMMA ClientChecksKeeps ==
    ASSUME IInv, LInv, Calm', NEW i \in DOMAIN conns, ClientChecks(i)
    PROVE  Linked'
<1> DEFINE c == conns[i]
           d == MovedOn(c, "client", "up")
           t == c.owner
           n == c.node["client"]
           cs == [conns EXCEPT ![i] = d]
           reg == Register(i, "client")
           ending == t \in Procs /\ status[t] = "ending"
           ms == todo[t]
<1>1. /\ c.at["client"] = "ack" /\ c.wire["client"] # <<>>
      /\ Head(c.wire["client"]).digest = Digest(n, "client")
      /\ connections' = reg /\ remote_links' = remote_links
  BY DEF ClientChecks, Ready, Frame, Kept
<1>2. Emit(t, n, [Taken(i, "client") EXCEPT ![i].at["client"] = "up"], connections', ms, ending)
  BY DEF ClientChecks
<1>3. [Taken(i, "client") EXCEPT ![i].at["client"] = "up"] = cs
  <2>1. Taken(i, "client") = [conns EXCEPT ![i] = TakenBy(c, "client")]
    BY DEF Taken, TakenBy
  <2> QED BY <2>1, InvConn DEF MovedOn
<1>4. /\ Good(d) /\ d.node = c.node /\ d.owner = c.owner
      /\ d.at["server"] = c.at["server"] /\ d.at["client"] = "up"
  BY <1>1, InvConn, AcceptedGood
<1>5. c \in Connection /\ Good(c) /\ conns \in Seq(Connection)
  BY InvConn
<1>6. "up" \in Stages /\ "client" \in Sides
  BY TwoEnds DEF Stages
<1>7. d.open = c.open
  BY <1>1, <1>5, <1>6, MovedFields
<1> HIDE DEF d
<1>8. Served(cs, reg)
  BY <1>4, TwoEnds, RegisterServed
<1>9. ConnsGood(cs)
  BY <1>4, InvConn, ReplaceGood
<1>10. Len(cs) = Len(conns) /\ DOMAIN cs = DOMAIN conns
  BY <1>5
<1>11. t \in Tasks /\ n \in Node /\ TaskOf(conns, t, n)
  BY InvConn
<1>12. ms \in Seq(Controls) /\ \A k \in DOMAIN ms : Crosses(ms[k], n)
  <2>1. ms \in Seq(Controls)
    BY <1>11 DEF IInv, TypeOK
  <2>2. ASSUME NEW k \in DOMAIN ms PROVE Crosses(ms[k], n)
    <3>1. PICK x \in Node : TaskOf(conns, t, x) /\ Crosses(ms[k], x)
      BY <1>11 DEF IInv, TodoCrosses
    <3>2. x = n
      BY <1>11, <3>1 DEF TaskOf
    <3> QED BY <3>1, <3>2
  <2> QED BY <2>1, <2>2
<1>13. Taken3(c) = 2 /\ c.at["client"] \in Handshaking /\ ~IsControl(Head(c.wire["client"]))
       /\ Len(c.wire["client"]) \in Nat /\ Len(c.wire["client"]) >= 1
  <2>1. /\ Head(c.wire["client"]) = c.wire["client"][1] /\ 1 \in DOMAIN c.wire["client"]
        /\ Len(c.wire["client"]) \in Nat /\ Len(c.wire["client"]) >= 1
    BY <1>1, <1>5, TwoEnds, TakeFields
  <2>2. Taken3(c) = 2 /\ c.at["client"] \in Handshaking
    BY <1>1 DEF Taken3, Handshaking
  <2> QED BY <1>5, <2>1, <2>2 DEF Good, ClientStage
<1>14. ASSUME Linked
       PROVE  Tidy(cs) /\ \A p, q : SameNews(conns, cs, p, q)
  <2>1. Whole(c) /\ Sourced(c)
    BY <1>14 DEF Linked, Tidy
  <2>2. c.open
    BY <1>13, <2>1 DEF Whole
  <2> DEFINE f == <<>>
  <2>3. f \in Seq(Frames) /\ \A k \in DOMAIN f : ~IsControl(f[k])
    OBVIOUS
  <2> HIDE DEF f, c
  <2>4. Sourced(d) /\ \A p, q : Alike(c, d, p, q)
    BY <1>1, <1>5, <1>6, <1>13, <2>1, <2>3, HandshakeAlike DEF d
  <2>5. Whole(d)
    BY <1>7, <2>2 DEF Whole
  <2>6. \A j \in DOMAIN conns : cs[j] = IF j = i THEN d ELSE conns[j]
    OBVIOUS
  <2>7. Tidy(cs)
    BY <1>10, <1>14, <2>4, <2>5, <2>6 DEF Tidy, Linked
  <2>8. \A p, q : SameNews(conns, cs, p, q)
    BY <2>4, ReplaceNone DEF c
  <2> QED BY <2>7, <2>8
<1> HIDE DEF cs, reg
<1>15. Emit(t, n, cs, reg, ms, ending)
  BY <1>1, <1>2, <1>3
<1>16. ASSUME Linked
       PROVE  /\ Tidy(cs) /\ Own(t, ms)
              /\ \A p \in Linkers, q \in Procs \ Linkers :
                  BothLive(p, q)' /\ BothLive(p, q) =>
                    \/ /\ Silent(ms, p, q) /\ (p = t => Silent(todo[p], p, q))
                       /\ SameNews(conns, cs, p, q)
                       /\ q \in remote_links'[p] <=> q \in remote_links[p]
                       /\ p \in remote_links'[q] <=> p \in remote_links[q]
                    \/ /\ p = t /\ 1 \in DOMAIN ms /\ News(ms[1], p, q)
                       /\ ms[1].kind = Verdict(p, q)'
  <2>1. Own(t, ms)
    BY <1>11, <1>16 DEF Linked, TodoOwn
  <2>2. ASSUME NEW p \in Linkers, NEW q \in Procs \ Linkers, BothLive(p, q), ~Silent(ms, p, q)
        PROVE  /\ p = t /\ 1 \in DOMAIN ms /\ News(ms[1], p, q)
               /\ ms[1].kind = Verdict(p, q)'
    <3>1. p \in Procs /\ q \in Procs
      BY NodesAssumption
    <3>2. Latest(todo[p], p, q, Verdict(p, q))
      BY <1>16, <2>2 DEF Linked, AllAgreed, Agreed
    <3>3. /\ p = t /\ 1 \in DOMAIN ms /\ News(ms[1], p, q)
          /\ \A x : Latest(ms, p, q, x) => ms[1].kind = x
      BY <1>11, <1>12, <2>1, <2>2, <3>1, OneToTell
    <3>4. Verdict(p, q)' = Verdict(p, q)
      BY <1>1 DEF Verdict
    <3> QED BY <3>2, <3>3, <3>4
  <2>3. ASSUME NEW p, NEW q
        PROVE  /\ SameNews(conns, cs, p, q) /\ (Silent(ms, p, q) /\ p = t => Silent(todo[p], p, q))
               /\ q \in remote_links'[p] <=> q \in remote_links[p]
               /\ p \in remote_links'[q] <=> p \in remote_links[q]
    BY <1>1, <1>14, <1>16
  <2> HIDE DEF ms, t
  <2> QED BY <1>14, <1>16, <2>1, <2>2, <2>3
<1>17. ending \in BOOLEAN /\ (ending => t \in Procs)
  OBVIOUS
<1> HIDE DEF ms, ending, t, n
<1> QED BY <1>8, <1>9, <1>10, <1>11, <1>12, <1>15, <1>16, <1>17, SendingKeeps

\* A step of the handshake.
LEMMA HandshakeKeeps ==
    ASSUME IInv, LInv, Calm', NEW i \in DOMAIN conns, Handshake(i)
    PROVE  Linked'
<1>1. CASE ServerLost(i)
  <2>1. /\ conns[i].at["server"] \in {"name", "reply"} /\ ~conns[i].open
        /\ conns' = Closing(conns, i, "server") /\ faults' = faults /\ raised' = raised
    BY <1>1 DEF ServerLost, Closed, Aside
  <2>2. Len(conns') = Len(conns)
    BY <2>1, InvConn DEF Closing
  <2>3. Linked
    BY <2>1, <2>2 DEF LInv, Calm
  <2> QED BY <2>1, <2>3 DEF Linked, Tidy, Whole
<1>2. CASE ClientFails(i)
  BY <1>2 DEF ClientFails, Calm
<1> QED BY <1>1, <1>2, NamedKeeps, ChecksKeeps, GoesOnKeeps, RepliesKeeps, ClientChecksKeeps
        DEF Handshake

\* No receive loop ends, for no connection is closed.
LEMMA LoopEndsKeep ==
    ASSUME IInv, LInv, Calm', NEW i \in DOMAIN conns, NEW s \in Sides, LoopEnds(i, s)
    PROVE  Linked'
<1>1. /\ conns[i].at[s] = "up" /\ ~conns[i].open
      /\ conns' = Closing(conns, i, s) /\ faults' = faults /\ raised' = raised
  BY DEF LoopEnds, Closed, Aside
<1>2. Len(conns') = Len(conns)
  BY <1>1, InvConn DEF Closing
<1>3. Linked
  BY <1>1, <1>2 DEF LInv, Calm
<1> QED BY <1>1, <1>3 DEF Linked, Tidy, Whole, Sides

\* A connection that breaks is a fault.
LEMMA BreakKeeps ==
    ASSUME IInv, Calm', NEW i \in DOMAIN conns, Break(i)
    PROVE  Linked'
<1>1. faults' = faults + 1 /\ faults \in Nat /\ faults' = 0
  BY InvConn DEF Break, Calm
<1> QED BY <1>1

\* What is left when a receive loop has taken a message.
LEMMA TakenKeeps ==
    ASSUME IInv, NEW i \in DOMAIN conns, NEW s \in Sides, conns[i].at[s] = "up", Ready(i, s),
           Linked
    PROVE  /\ Tidy(Taken(i, s)) /\ Len(Taken(i, s)) = Len(conns) /\ FromLinkers(Frame(i, s))
           /\ \A p, q :
                /\ ~News(Frame(i, s), p, q) => SameNews(conns, Taken(i, s), p, q)
                /\ \A x \in Linking :
                      AllTell(conns, p, q, x) => AllTell(Taken(i, s), p, q, x)
           /\ \A p, q, x :
                /\ x \in Linking /\ News(Frame(i, s), p, q) /\ Len(conns) <= 1
                /\ AllTell(conns, p, q, x) /\ AllMute(Taken(i, s), p, q)
                => Frame(i, s).kind = x
<1> DEFINE c == conns[i]
           d == TakenBy(c, s)
           cs == Taken(i, s)
           m == Frame(i, s)
<1>1. c.wire[s] # <<>> /\ m = Head(c.wire[s]) /\ c.at[s] = "up"
  BY DEF Ready, Frame
<1>2. c \in Connection /\ conns \in Seq(Connection) /\ c.wire[s] \in Seq(Frames)
  BY InvConn DEF Connection
<1>3. cs = [conns EXCEPT ![i] = d]
  BY DEF Taken, TakenBy
<1>4. Len(cs) = Len(conns) /\ DOMAIN cs = DOMAIN conns
      /\ \A j \in DOMAIN conns : cs[j] = IF j = i THEN d ELSE conns[j]
  BY <1>2, <1>3
<1>5. /\ d.wire[s] = Tail(c.wire[s]) /\ d.wire[Other(s)] = c.wire[Other(s)]
      /\ d.open = c.open
  BY <1>1, <1>2, TakenWire, TakeFields
<1>6. Whole(c) /\ Sourced(c)
  BY DEF Linked, Tidy
<1>7. c.open
  BY <1>1, <1>6 DEF Whole, Sides
<1>8. /\ m = c.wire[s][1] /\ 1 \in DOMAIN c.wire[s]
  BY <1>1, <1>2, TailParts
<1> DEFINE f == <<>>
<1>9. f \in Seq(Frames) /\ DOMAIN f = {}
  OBVIOUS
<1> HIDE DEF c, d, cs, m, f
<1>10. FromLinkers(m)
  BY <1>6, <1>8 DEF Sourced
<1>11. Sourced(d)
  BY <1>1, <1>2, <1>5, <1>6, <1>9, TakenSourced
<1>12. Tidy(cs)
  BY <1>4, <1>5, <1>7, <1>11 DEF Tidy, Linked, Whole
<1>13. ASSUME NEW p, NEW q
       PROVE  /\ ~News(m, p, q) => Alike(c, d, p, q)
              /\ \A x \in Linking : Tells(c, p, q, x) => Tells(d, p, q, x)
  <2>1. Silent(f, p, q)
    BY <1>9 DEF Silent
  <2> QED BY <1>1, <1>2, <1>5, <1>9, <2>1, TakenAlike
<1>14. ASSUME NEW p, NEW q
       PROVE  /\ ~News(m, p, q) => SameNews(conns, cs, p, q)
              /\ \A x \in Linking : AllTell(conns, p, q, x) => AllTell(cs, p, q, x)
  <2>1. ~News(m, p, q) => SameNews(conns, cs, p, q)
    BY <1>3, <1>13, ReplaceNone DEF c
  <2>2. \A x \in Linking : AllTell(conns, p, q, x) => AllTell(cs, p, q, x)
    BY <1>4, <1>13 DEF AllTell, c
  <2> QED BY <2>1, <2>2
<1>15. ASSUME NEW p, NEW q, NEW x, x \in Linking, News(m, p, q),
              AllTell(conns, p, q, x), AllMute(cs, p, q)
       PROVE  m.kind = x
  <2>1. Latest(c.wire[s], p, q, x)
    BY <1>15 DEF AllTell, Tells, c
  <2>2. Silent(Tail(c.wire[s]), p, q)
    BY <1>4, <1>5, <1>15 DEF AllMute, Mute
  <2> QED BY <1>1, <1>2, <1>15, <2>1, <2>2, TailNews
<1> QED BY <1>4, <1>10, <1>12, <1>14, <1>15 DEF cs, m

\* A message that is tracked: no news, or news that is heard.
LEMMA TrackKeeps ==
    ASSUME IInv, LInv, Calm', NEW i \in DOMAIN conns, NEW s \in Sides,
           conns[i].at[s] = "up", Ready(i, s), conns' = Taken(i, s),
           todo' = todo, status' = status, faults' = faults, raised' = raised,
           FromLinkers(Frame(i, s)) =>
             \A p \in Linkers, q \in Procs \ Linkers :
                /\ q \in remote_links'[p] <=> q \in remote_links[p]
                /\ IF News(Frame(i, s), p, q)
                   THEN p \in remote_links'[q] <=> Frame(i, s).kind = "link"
                   ELSE p \in remote_links'[q] <=> p \in remote_links[q]
    PROVE  Linked'
<1> DEFINE cs == Taken(i, s)
           m == Frame(i, s)
<1>1. Len(cs) = Len(conns)
  BY InvConn DEF Taken
<1>2. Calm /\ Linked
  BY <1>1 DEF Calm, LInv
<1>3. /\ Tidy(cs) /\ FromLinkers(m)
      /\ \A p, q :
            /\ ~News(m, p, q) => SameNews(conns, cs, p, q)
            /\ \A x \in Linking : AllTell(conns, p, q, x) => AllTell(cs, p, q, x)
      /\ \A p, q, x :
            /\ x \in Linking /\ News(m, p, q) /\ Len(conns) <= 1
            /\ AllTell(conns, p, q, x) /\ AllMute(cs, p, q)
            => m.kind = x
  BY <1>2, TakenKeeps
<1>4. conns' = cs
  OBVIOUS
<1> HIDE DEF cs, m
<1>5. \A t \in Tasks : Own(t, todo'[t])
  BY <1>2 DEF Linked, TodoOwn
<1>6. ASSUME NEW p \in Linkers, NEW q \in Procs \ Linkers, BothLive(p, q)'
      PROVE  Agreed(p, q)'
  <2>1. p \in Procs /\ q \in Procs
    BY NodesAssumption
  <2>2. Agreed(p, q)
    BY <1>2, <1>6 DEF Linked, AllAgreed, BothLive
  <2>3. q \in remote_links'[p] <=> q \in remote_links[p]
    BY <1>3 DEF m
  <2>4. CASE ~News(m, p, q)
    <3>1. p \in remote_links'[q] <=> p \in remote_links[q]
      BY <1>3, <2>4 DEF m
    <3> QED BY <1>3, <1>4, <2>1, <2>2, <2>3, <2>4, <3>1, AgreeKept
  <2>5. CASE News(m, p, q)
    <3> DEFINE x == Verdict(p, q)
    <3>1. p \in remote_links'[q] <=> m.kind = "link"
      BY <1>3, <2>5 DEF m
    <3>2. Verdict(p, q)' = x /\ x \in Linking /\ (x = "link" <=> q \in remote_links'[p])
      BY <2>3 DEF Verdict, Linking
    <3>3. /\ Latest(todo[p], p, q, x)
          /\ Silent(todo[p], p, q) => AllTell(conns, p, q, x)
      BY <2>2 DEF Agreed
    <3> HIDE DEF x
    <3>4. Silent(todo[p], p, q) => AllTell(cs, p, q, x)
      BY <1>3, <3>2, <3>3
    <3>5. Silent(todo[p], p, q) /\ AllMute(cs, p, q) => m.kind = x
      BY <1>2, <1>3, <2>5, <3>2, <3>3 DEF Calm
    <3>6. /\ Latest(todo'[p], p, q, Verdict(p, q)')
          /\ Silent(todo'[p], p, q) => AllTell(conns', p, q, Verdict(p, q)')
          /\ Silent(todo'[p], p, q) /\ AllMute(conns', p, q)
                => (p \in remote_links'[q] <=> q \in remote_links'[p])
      BY <1>4, <3>1, <3>2, <3>3, <3>4, <3>5
    <3>7. /\ Latest(todo[p], p, q, Verdict(p, q))' = Latest(todo'[p], p, q, Verdict(p, q)')
          /\ Silent(todo[p], p, q)' = Silent(todo'[p], p, q)
          /\ AllTell(conns, p, q, Verdict(p, q))' = AllTell(conns', p, q, Verdict(p, q)')
          /\ AllMute(conns, p, q)' = AllMute(conns', p, q)
      BY <3>6 DEF Latest, News, Silent, AllTell, AllMute, Tells, Mute
    <3> QED BY <3>6, <3>7 DEF Agreed
  <2> QED BY <2>4, <2>5
<1> QED BY <1>3, <1>4, <1>5, <1>6, LinkedNext

\* A message that is answered with no news: it was none, or for a process gone.
LEMMA AnswerKeeps ==
    ASSUME IInv, LInv, Calm', NEW i \in DOMAIN conns, NEW s \in Sides,
           conns[i].at[s] = "up", Ready(i, s), Frame(i, s).kind \in Kinds,
           NEW a \in Controls, a.kind \notin Linking, Crosses(a, conns[i].node[s]),
           Answer(<<i, s>>, conns[i].node[s], Taken(i, s), a),
           \A p \in Linkers, q \in Procs \ Linkers :
              News(Frame(i, s), p, q) => ~BothLive(p, q)
    PROVE  Linked'
<1> DEFINE n == conns[i].node[s]
           t == <<i, s>>
           cs == Taken(i, s)
           m == Frame(i, s)
           ms == <<a>>
<1>1. /\ ConnsGood(cs) /\ Served(cs, connections)
      /\ n \in Node /\ t \in Tasks /\ TaskOf(conns, t, n)
  BY FrameTaken
<1>2. t \notin Procs
  <2>1. i \in 1 .. MaxConns
    BY InvConn DEF ConnsGood
  <2> QED BY <2>1, NodesAssumption
<1>3. /\ Emit(t, n, cs, connections, ms, FALSE) /\ remote_links' = remote_links
  BY DEF Answer, tables
<1>4. ms \in Seq(Controls) /\ \A k \in DOMAIN ms : Crosses(ms[k], n) /\ ms[k].kind \notin Linking
  OBVIOUS
<1>5. Len(cs) = Len(conns)
  BY InvConn DEF Taken
<1> HIDE DEF ms
<1>6. Own(t, ms) /\ \A p, q : Silent(ms, p, q)
  BY <1>4, NoNews
<1>7. ASSUME Linked
      PROVE  /\ Tidy(cs)
             /\ \A p, q : ~News(m, p, q) => SameNews(conns, cs, p, q)
  BY <1>7, TakenKeeps
<1>8. \A p \in Linkers, q \in Procs \ Linkers : News(m, p, q) => ~BothLive(p, q)
  OBVIOUS
<1> HIDE DEF n, t, cs, m
<1>9. ASSUME Linked
      PROVE  /\ Tidy(cs) /\ Own(t, ms)
              /\ \A p \in Linkers, q \in Procs \ Linkers :
                  BothLive(p, q)' /\ BothLive(p, q) =>
                    \/ /\ Silent(ms, p, q) /\ (p = t => Silent(todo[p], p, q))
                       /\ SameNews(conns, cs, p, q)
                       /\ q \in remote_links'[p] <=> q \in remote_links[p]
                       /\ p \in remote_links'[q] <=> p \in remote_links[q]
                    \/ /\ p = t /\ 1 \in DOMAIN ms /\ News(ms[1], p, q)
                       /\ ms[1].kind = Verdict(p, q)'
  <2>1. \A p \in Linkers : p # t
    BY <1>2, NodesAssumption
  <2>2. ASSUME NEW p \in Linkers, NEW q \in Procs \ Linkers, BothLive(p, q)
        PROVE  SameNews(conns, cs, p, q)
    BY <1>7, <1>8, <1>9, <2>2
  <2> QED BY <1>3, <1>6, <1>7, <1>9, <2>1, <2>2
<1>10. FALSE \in BOOLEAN
  OBVIOUS
<1> QED BY <1>1, <1>3, <1>4, <1>5, <1>9, <1>10, SendingKeeps

\* A LINK that arrives.
LEMMA LinkedKeeps ==
    ASSUME IInv, LInv, Calm', NEW i \in DOMAIN conns, NEW s \in Sides,
           conns[i].at[s] = "up", Ready(i, s), Frame(i, s).kind = "link",
           LinkIncoming(<<i, s>>, conns[i].node[s], Taken(i, s), Frame(i, s))
    PROVE  Linked'
<1> DEFINE n == conns[i].node[s]
           t == <<i, s>>
           cs == Taken(i, s)
           m == Frame(i, s)
<1>1. m.kind \in Kinds
  BY DEF Kinds
<1>2. m \in Controls /\ Home[m.to] = n /\ Remote(m.to, m.from) /\ n \in Node
  BY <1>1, FrameTaken
<1>3. /\ m.to \in Procs /\ m.from \in Procs /\ m.ref \in RefValues
  BY <1>2 DEF Controls
<1>4. CASE Alive(m.to)
  <2>1. /\ remote_links' = [remote_links EXCEPT ![m.to] = @ \union {m.from}]
        /\ Track(cs)
    BY <1>4 DEF LinkIncoming
  <2>2. /\ conns' = cs /\ todo' = todo /\ status' = status /\ faults' = faults
        /\ raised' = raised
    BY <2>1 DEF Track
  <2>3. remote_links \in [Procs -> SUBSET Procs]
    BY DEF IInv, TypeOK
  <2> HIDE DEF m
  <2>4. ASSUME FromLinkers(m), NEW p \in Linkers, NEW q \in Procs \ Linkers
        PROVE  /\ q \in remote_links'[p] <=> q \in remote_links[p]
               /\ IF News(m, p, q)
                  THEN p \in remote_links'[q] <=> m.kind = "link"
                  ELSE p \in remote_links'[q] <=> p \in remote_links[q]
    <3>1. p \in Procs /\ q # p /\ m.from # q
      BY <2>4, NodesAssumption DEF FromLinkers, Linking, m
    <3>2. News(m, p, q) <=> m.from = p /\ m.to = q
      BY DEF News, Linking, m
    <3>3. \A x \in Procs : remote_links'[x] =
              IF x = m.to THEN remote_links[x] \union {m.from} ELSE remote_links[x]
      BY <1>3, <2>1, <2>3
    <3>4. m.kind = "link"
      BY DEF m
    <3> QED BY <3>1, <3>2, <3>3, <3>4
  <2> QED BY <2>2, <2>4, TrackKeeps DEF m
<1>5. CASE ~Alive(m.to)
  <2> DEFINE a == ExitMessage(m.to, m.from, "noproc")
  <2>1. Answer(t, n, cs, a)
    BY <1>5 DEF LinkIncoming
  <2>2. a \in Controls /\ Crosses(a, n)
    BY <1>2, <1>3, MessageTyped, References DEF ExitMessage, Kinds, Reasons
  <2>3. a.kind \notin Linking
    BY DEF ExitMessage, Message, Linking
  <2>4. \A p, q : News(m, p, q) => ~BothLive(p, q)
    BY <1>5 DEF News, BothLive, Alive
  <2> HIDE DEF a
  <2> QED BY <1>1, <2>1, <2>2, <2>3, <2>4, AnswerKeeps
<1> QED BY <1>4, <1>5

\* An UNLINK that arrives.
LEMMA UnlinkedKeeps ==
    ASSUME IInv, LInv, Calm', NEW i \in DOMAIN conns, NEW s \in Sides,
           conns[i].at[s] = "up", Ready(i, s), Frame(i, s).kind = "unlink",
           UnlinkIncoming(Taken(i, s), Frame(i, s))
    PROVE  Linked'
<1> DEFINE cs == Taken(i, s)
           m == Frame(i, s)
<1>1. m.kind \in Kinds
  BY DEF Kinds
<1>2. m.to \in Procs /\ m.from \in Procs
  BY <1>1, FrameTaken DEF Controls
<1>3. /\ remote_links' = [remote_links EXCEPT ![m.to] = @ \ {m.from}]
      /\ Track(cs)
  BY DEF UnlinkIncoming
<1>4. /\ conns' = cs /\ todo' = todo /\ status' = status /\ faults' = faults
      /\ raised' = raised
  BY <1>3 DEF Track
<1>5. remote_links \in [Procs -> SUBSET Procs]
  BY DEF IInv, TypeOK
<1> HIDE DEF m
<1>6. ASSUME FromLinkers(m), NEW p \in Linkers, NEW q \in Procs \ Linkers
      PROVE  /\ q \in remote_links'[p] <=> q \in remote_links[p]
             /\ IF News(m, p, q)
                THEN p \in remote_links'[q] <=> m.kind = "link"
                ELSE p \in remote_links'[q] <=> p \in remote_links[q]
  <2>1. p \in Procs /\ q # p /\ m.from # q
    BY <1>6, NodesAssumption DEF FromLinkers, Linking, m
  <2>2. News(m, p, q) <=> m.from = p /\ m.to = q
    BY DEF News, Linking, m
  <2>3. \A x \in Procs : remote_links'[x] =
            IF x = m.to THEN remote_links[x] \ {m.from} ELSE remote_links[x]
    BY <1>2, <1>3, <1>5
  <2>4. m.kind = "unlink"
    BY DEF m
  <2> QED BY <2>1, <2>2, <2>3, <2>4
<1> QED BY <1>4, <1>6, TrackKeeps DEF m

\* A message that changes no table of links.
LEMMA QuietKeeps ==
    ASSUME IInv, LInv, Calm', NEW i \in DOMAIN conns, NEW s \in Sides,
           conns[i].at[s] = "up", Ready(i, s), Frame(i, s).kind \notin Linking,
           conns' = Taken(i, s), todo' = todo, status' = status, faults' = faults,
           raised' = raised, remote_links' = remote_links
    PROVE  Linked'
<1>1. \A p, q : ~News(Frame(i, s), p, q)
  BY DEF News
<1> QED BY <1>1, TrackKeeps

\* An EXIT that arrives: a process that was ending is stuck.
LEMMA ExitKeeps ==
    ASSUME IInv, LInv, Calm', NEW i \in DOMAIN conns, NEW s \in Sides,
           conns[i].at[s] = "up", Ready(i, s), Frame(i, s).kind = "exit",
           ExitIncoming(Taken(i, s), Frame(i, s))
    PROVE  Linked'
<1> DEFINE cs == Taken(i, s)
           m == Frame(i, s)
<1>1. m.kind \in Kinds /\ m.kind \notin Linking
  BY DEF Kinds, Linking
<1>2. m.to \in Procs /\ ConnsGood(cs)
  BY <1>1, FrameTaken DEF Controls
<1>3. CASE status' = status
  <2>1. /\ conns' = cs /\ todo' = todo /\ faults' = faults /\ raised' = raised
        /\ remote_links' = remote_links
    <3>1. status[m.to] = "ending" => status' # [status EXCEPT ![m.to] = "stuck"]
      BY <1>2, <1>3 DEF IInv, TypeOK
    <3> QED BY <3>1 DEF ExitIncoming, Delivered, Track, tables
  <2> QED BY <1>1, <1>3, <2>1, QuietKeeps
<1>4. CASE status' # status
  <2>1. /\ status[m.to] = "ending" /\ status' = [status EXCEPT ![m.to] = "stuck"]
        /\ todo' = [todo EXCEPT ![m.to] = <<>>]
        /\ conns' = Abandoned(cs, m.to)
        /\ faults' = faults /\ raised' = raised /\ remote_links' = remote_links
    BY <1>4 DEF ExitIncoming, Delivered, Track, tables
  <2>2. cs \in Seq(Connection) /\ Len(cs) = Len(conns)
    BY <1>2, InvConn DEF ConnsGood, Taken
  <2> DEFINE ds == Abandoned(cs, m.to)
  <2>3. /\ Len(ds) = Len(cs) /\ (Tidy(cs) => Tidy(ds))
        /\ \A p, q : SameNews(cs, ds, p, q)
    BY <2>2, AbandonedTidy
  <2>4. Calm /\ Linked
    BY <2>1, <2>2, <2>3 DEF Calm, LInv
  <2>5. Tidy(cs) /\ \A p, q : SameNews(conns, cs, p, q)
    <3>1. \A p, q : ~News(m, p, q)
      BY <1>1 DEF News
    <3> QED BY <2>4, <3>1, TakenKeeps
  <2> HIDE DEF ds, cs
  <2>6. Tidy(conns')
    BY <2>1, <2>3, <2>5 DEF ds
  <2>7. \A p, q : SameNews(conns, conns', p, q)
    BY <2>1, <2>3, <2>5, SameTwice DEF ds
  <2>8. todo \in [Tasks -> Seq(Controls)] /\ status \in [Procs -> Status]
    BY DEF IInv, TypeOK, Status
  <2> HIDE DEF m
  <2>9. \A u \in Tasks : todo'[u] = todo[u] \/ todo'[u] = <<>>
    BY <2>1, <2>8
  <2>10. \A u \in Tasks : Own(u, todo'[u])
    <3>1. \A u : Own(u, <<>>)
      BY DEF Own
    <3> QED BY <2>4, <2>9, <3>1 DEF Linked, TodoOwn
  <2>11. ASSUME NEW p \in Linkers, NEW q \in Procs \ Linkers, BothLive(p, q)'
         PROVE  Agreed(p, q)'
    <3>1. p \in Procs /\ q \in Procs /\ p \in Tasks
      BY NodesAssumption DEF Tasks
    <3>2. BothLive(p, q) /\ p # m.to
      BY <1>2, <2>1, <2>8, <2>11, <3>1 DEF BothLive
    <3>3. Agreed(p, q)
      BY <2>4, <3>2 DEF Linked, AllAgreed
    <3>4. todo'[p] = todo[p]
      BY <2>1, <2>8, <3>1, <3>2
    <3> QED BY <2>1, <2>7, <3>1, <3>3, <3>4, AgreeKept
  <2> QED BY <2>6, <2>10, <2>11, LinkedNext
<1> QED BY <1>3, <1>4

\* A MONITOR that arrives.
LEMMA MonitoredKeeps ==
    ASSUME IInv, LInv, Calm', NEW i \in DOMAIN conns, NEW s \in Sides,
           conns[i].at[s] = "up", Ready(i, s), Frame(i, s).kind = "monitor",
           MonitorIncoming(<<i, s>>, conns[i].node[s], Taken(i, s), Frame(i, s))
    PROVE  Linked'
<1> DEFINE n == conns[i].node[s]
           t == <<i, s>>
           cs == Taken(i, s)
           m == Frame(i, s)
<1>1. m.kind \in Kinds /\ m.kind \notin Linking
  BY DEF Kinds, Linking
<1>2. m \in Controls /\ Home[m.to] = n /\ Remote(m.to, m.from) /\ n \in Node
  BY <1>1, FrameTaken
<1>3. /\ m.to \in Procs /\ m.from \in Procs /\ m.ref \in RefValues
  BY <1>2 DEF Controls
<1>4. CASE Alive(m.to)
  <2>1. /\ conns' = cs /\ todo' = todo /\ status' = status /\ faults' = faults
        /\ raised' = raised /\ remote_links' = remote_links
    BY <1>4 DEF MonitorIncoming, Track
  <2> QED BY <1>1, <2>1, QuietKeeps
<1>5. CASE ~Alive(m.to)
  <2> DEFINE a == MonitorExitMessage(m.to, m.from, m.ref, "noproc")
  <2>1. Answer(t, n, cs, a)
    BY <1>5 DEF MonitorIncoming
  <2>2. a \in Controls /\ Crosses(a, n)
    BY <1>2, <1>3, MessageTyped DEF MonitorExitMessage, Kinds, Reasons
  <2>3. a.kind \notin Linking
    BY DEF MonitorExitMessage, Message, Linking
  <2>4. \A p, q : ~News(m, p, q)
    BY <1>1 DEF News
  <2> HIDE DEF a
  <2> QED BY <1>1, <2>1, <2>2, <2>3, <2>4, AnswerKeeps
<1> QED BY <1>4, <1>5

\* A receive loop handles a control message, of whatever kind.
LEMMA ReceiveKeeps ==
    ASSUME IInv, LInv, Calm', NEW i \in DOMAIN conns, NEW s \in Sides, ReceiveControl(i, s)
    PROVE  Linked'
<1> DEFINE n == conns[i].node[s]
           t == <<i, s>>
           cs == Taken(i, s)
           m == Frame(i, s)
<1>1. conns[i].at[s] = "up" /\ Ready(i, s) /\ Handle(t, n, cs, m)
  BY DEF ReceiveControl
<1>2. ASSUME m.kind \notin Linking, Delivered(cs, m) \/ DemonitorIncoming(cs, m)
      PROVE  Linked'
  <2>1. /\ conns' = cs /\ todo' = todo /\ status' = status /\ faults' = faults
        /\ raised' = raised /\ remote_links' = remote_links
    BY <1>2 DEF Delivered, DemonitorIncoming, Track, tables
  <2> QED BY <1>1, <1>2, <2>1, QuietKeeps
<1>3. \/ m.kind = "link"      /\ LinkIncoming(t, n, cs, m)
      \/ m.kind = "unlink"    /\ UnlinkIncoming(cs, m)
      \/ m.kind = "exit"      /\ ExitIncoming(cs, m)
      \/ m.kind = "monitor"   /\ MonitorIncoming(t, n, cs, m)
      \/ m.kind \notin Linking /\ (Delivered(cs, m) \/ DemonitorIncoming(cs, m))
  BY <1>1 DEF Handle, MonitorExitIncoming, Linking
<1> QED BY <1>1, <1>2, <1>3, LinkedKeeps, UnlinkedKeeps, ExitKeeps, MonitoredKeeps

\* What a process monitors, demonitors or sends.
LEMMA MonitorKeeps ==
    ASSUME IInv, LInv, Calm', NEW p \in Procs, NEW q \in Procs, Remote(p, q), Monitor(p, q)
    PROVE  Linked'
<1> DEFINE ref == Exact(ops[p] + 1)
           m == MonitorMessage(p, q, ref)
<1>1. ops[p] + 1 \in Nat
  BY DEF IInv, TypeOK
<1>2. ref \in RefValues
  BY <1>1, References
<1>3. remote_links' = remote_links /\ Operation(p, m)
  BY DEF Monitor
<1> HIDE DEF ref
<1>4. m \in Controls /\ Crosses(m, Home[p])
  BY <1>2, MessageTyped DEF MonitorMessage, Kinds, Reasons
<1>5. m.kind \notin Linking
  BY DEF MonitorMessage, Message, Linking
<1> HIDE DEF m
<1> QED BY <1>3, <1>4, <1>5, OthersKeep

\* Undone again.
LEMMA DemonitorKeeps ==
    ASSUME IInv, LInv, Calm', NEW p \in Procs, NEW mon \in remote_monitors[p], Demonitor(p, mon)
    PROVE  Linked'
<1> DEFINE m == DemonitorMessage(p, mon.pid, Hashed(mon.ref))
<1>1. mon \in Monitors /\ Remote(p, mon.pid)
  BY DEF IInv, TypeOK, TablesCross
<1>2. mon.pid \in Procs /\ Hashed(mon.ref) \in RefValues
  BY <1>1, References DEF Monitors
<1>3. remote_links' = remote_links /\ Operation(p, m)
  BY DEF Demonitor
<1>4. m \in Controls /\ Crosses(m, Home[p])
  BY <1>1, <1>2, MessageTyped DEF DemonitorMessage, Kinds, Reasons
<1>5. m.kind \notin Linking
  BY DEF DemonitorMessage, Message, Linking
<1> HIDE DEF m
<1> QED BY <1>3, <1>4, <1>5, OthersKeep

\* Anything sent to a process or a name.
LEMMA SendKeeps ==
    ASSUME IInv, LInv, Calm', NEW p \in Procs, NEW q \in Procs, Remote(p, q), Send(p, q)
    PROVE  Linked'
<1>1. ASSUME NEW kind \in {"send", "reg_send"}, Operation(p, Message(kind, p, q, NoRef, "none")),
             remote_links' = remote_links
      PROVE  Linked'
  <2> DEFINE m == Message(kind, p, q, NoRef, "none")
  <2>1. m \in Controls /\ Crosses(m, Home[p])
    BY <1>1, MessageTyped, References DEF Kinds, Reasons
  <2>2. m.kind \notin Linking
    BY <1>1 DEF Message, Linking
  <2> HIDE DEF m
  <2> QED BY <1>1, <2>1, <2>2, OthersKeep DEF m
<1> QED BY <1>1 DEF Send, SendMessage, RegSendMessage

\* Every step of the system.
LEMMA LStepping == ASSUME IInv, LInv, [Next]_vars PROVE LInv'
<1> SUFFICES ASSUME Calm' PROVE Linked'
  BY DEF LInv
<1>1. CASE Calls
  <2>1. PICK p \in Procs, q \in Procs :
          /\ Remote(p, q)
          /\ \/ Send(p, q)
             \/ p \in Linkers /\ (Link(p, q) \/ Unlink(p, q) \/ Monitor(p, q))
    BY <1>1 DEF Calls
  <2> QED BY <2>1, SendKeeps, LinkKeeps, UnlinkKeeps, MonitorKeeps
<1>2. CASE Demonitors
  BY <1>2, DemonitorKeeps DEF Demonitors
<1>3. CASE Ends
  BY <1>3, EndKeeps DEF Ends
<1>4. CASE \E i \in DOMAIN conns : Handshake(i) \/ Loop(i) \/ Break(i)
  <2>1. PICK i \in DOMAIN conns : Handshake(i) \/ Loop(i) \/ Break(i)
    BY <1>4
  <2> QED BY <2>1, HandshakeKeeps, ReceiveKeeps, LoopEndsKeep, BreakKeeps DEF Loop
<1>5. CASE UNCHANGED vars
  <2>1. Calm /\ Linked
    BY <1>5 DEF Calm, LInv, vars
  <2>2. Tidy(conns')
    BY <1>5, <2>1 DEF Linked, vars
  <2>3. \A t \in Tasks : Own(t, todo'[t])
    BY <1>5, <2>1 DEF Linked, TodoOwn, vars
  <2>4. ASSUME NEW p \in Linkers, NEW q \in Procs \ Linkers, BothLive(p, q)'
        PROVE  Agreed(p, q)'
    <3>1. p \in Procs /\ q \in Procs
      BY NodesAssumption
    <3>2. /\ conns' = conns /\ todo' = todo /\ status' = status
          /\ remote_links' = remote_links
      BY <1>5 DEF vars
    <3>3. Agreed(p, q)
      BY <2>1, <2>4, <3>2 DEF Linked, AllAgreed, BothLive
    <3>4. SameNews(conns, conns', p, q)
      BY <3>2 DEF SameNews
    <3> QED BY <3>1, <3>2, <3>3, <3>4, AgreeKept
  <2> QED BY <2>2, <2>3, <2>4, LinkedNext
<1> QED BY <1>1, <1>2, <1>3, <1>4, <1>5 DEF Next

\* No one has told anything at the start.
LEMMA LStarting == ASSUME Init PROVE LInv
<1> DEFINE e == <<>>
<1>1. /\ conns = e /\ todo = [t \in Tasks |-> e]
      /\ remote_links = [p \in Procs |-> {}]
  BY DEF Init
<1>2. DOMAIN e = {}
  OBVIOUS
<1> HIDE DEF e
<1>3. Tidy(conns)
  BY <1>1, <1>2 DEF Tidy
<1>4. TodoOwn
  BY <1>1, <1>2 DEF TodoOwn, Own
<1>5. ASSUME NEW p \in Linkers, NEW q \in Procs \ Linkers PROVE Agreed(p, q)
  <2>1. p \in Procs /\ q \in Procs /\ p \in Tasks
    BY NodesAssumption DEF Tasks
  <2>2. todo[p] = e
    BY <1>1, <2>1
  <2>3. \A x : Latest(todo[p], p, q, x)
    BY <1>2, <2>2 DEF Latest
  <2>4. \A x : AllTell(conns, p, q, x)
    BY <1>1, <1>2 DEF AllTell
  <2>5. remote_links[p] = {} /\ remote_links[q] = {}
    BY <1>1, <2>1
  <2> QED BY <2>3, <2>4, <2>5 DEF Agreed
<1> QED BY <1>3, <1>4, <1>5 DEF LInv, Linked, AllAgreed

\* With nothing under way, what was agreed on is what both hold.
LEMMA LImplies == ASSUME LInv PROVE LinksAgree
<1> SUFFICES ASSUME Quiet, Calm, NEW p \in Linkers, NEW q \in Procs \ Linkers, BothLive(p, q)
             PROVE  q \in remote_links[p] <=> p \in remote_links[q]
  BY DEF LinksAgree, Calm, BothLive
<1>1. p \in Tasks
  BY NodesAssumption DEF Tasks
<1>2. Agreed(p, q)
  BY DEF LInv, Linked, AllAgreed
<1> DEFINE e == <<>>
<1>3. DOMAIN e = {}
  OBVIOUS
<1>4. todo[p] = e /\ \A i \in DOMAIN conns, s \in Sides : conns[i].wire[s] = e
  BY <1>1 DEF Quiet
<1> HIDE DEF e
<1>5. Silent(todo[p], p, q) /\ AllMute(conns, p, q)
  BY <1>3, <1>4 DEF Silent, AllMute, Mute
<1> QED BY <1>2, <1>5 DEF Agreed

-----------------------------------------------------------------------------
(* The theorems.                                                           *)

\* The invariant holds before the first step, whatever the cookies are.
LEMMA Starting == ASSUME Init PROVE IInv
<1>1. /\ \E start \in Starts : cookie = start.cookie
      /\ conns = <<>> /\ connections = [n \in Node |-> [m \in Node |-> 0]]
      /\ status = [p \in Procs |-> "live"]
      /\ todo = [t \in Tasks |-> <<>>]
      /\ remote_links = [p \in Procs |-> {}]
      /\ remote_monitors = [p \in Procs |-> {}]
      /\ monitored_by = [p \in Procs |-> {}] /\ inbox = [p \in Procs |-> {}]
      /\ ops = [p \in Procs |-> 0] /\ faults = 0
  BY DEF Init
<1>2. TypeOK
  BY <1>1 DEF TypeOK
<1>3. ConnsGood(conns)
  BY <1>1 DEF ConnsGood
<1>4. Served(conns, connections)
  BY <1>1 DEF Served
<1>5. TodoCrosses
  BY <1>1 DEF TodoCrosses
<1>6. TablesCross
  BY <1>1, FS_EmptySet DEF TablesCross
<1> QED BY <1>2, <1>3, <1>4, <1>5, <1>6 DEF IInv

\* A step that changes nothing.
LEMMA Stuttering == ASSUME IInv, UNCHANGED vars PROVE IInv'
<1>1. /\ cookie' = cookie /\ conns' = conns /\ connections' = connections
      /\ status' = status /\ todo' = todo /\ faults' = faults
      /\ remote_links' = remote_links /\ remote_monitors' = remote_monitors
      /\ monitored_by' = monitored_by /\ inbox' = inbox /\ ops' = ops
  BY DEF vars
<1>2. TablesOK'
  BY <1>1, InvTables DEF TablesOK, TablesCross
<1>3. Moved
  BY <1>1 DEF Moved, IInv, TypeOK, Extends, Status
<1>4. (inbox \in [Procs -> SUBSET Controls])' /\ (ops \in [Procs -> Nat])'
  BY <1>1 DEF IInv, TypeOK
<1> QED BY <1>2, <1>3, <1>4, MovedKeeps

\* Every step keeps the invariant: one case for each action.
LEMMA Stepping == ASSUME IInv, [Next]_vars PROVE IInv'
<1>1. CASE Calls
  <2>1. PICK p \in Procs, q \in Procs :
          /\ Remote(p, q)
          /\ Send(p, q) \/ Link(p, q) \/ Unlink(p, q) \/ Monitor(p, q)
    BY <1>1 DEF Calls
  <2> QED BY <2>1, SendStep, LinkStep, UnlinkStep, MonitorStep
<1>2. CASE Demonitors
  BY <1>2, DemonitorStep DEF Demonitors
<1>3. CASE \E p \in Procs, reason \in {"normal", "shutdown", "exception"} : End(p, reason)
  BY <1>3, EndStep
<1>4. ASSUME NEW i \in DOMAIN conns, Handshake(i) PROVE IInv'
  BY <1>4, NamedStep, ChecksStep, LostStep, GoesOnStep, RepliesStep, ClientChecksStep,
     FailsStep DEF Handshake
<1>5. ASSUME NEW i \in DOMAIN conns, Loop(i) PROVE IInv'
  BY <1>5, ReceiveStep, LoopEndsStep DEF Loop
<1>6. ASSUME NEW i \in DOMAIN conns, Break(i) PROVE IInv'
  BY <1>6, BreakStep
<1>7. CASE UNCHANGED vars
  BY <1>7, Stuttering
<1> QED BY <1>1, <1>2, <1>3, <1>4, <1>5, <1>6, <1>7 DEF Next, Ends

\* The invariant holds of every behaviour.
LEMMA Invariance == Spec => []IInv
BY Starting, Stepping, PTL DEF Spec

\* Connections, registrations, tables and what tasks have yet to send are of
\* their types: no frame but those of the handshake and of the control messages
\* is ever under way.
THEOREM NodesTyped == Spec => []TypeOK
BY Invariance, PTL DEF IInv

\* A registered connection is one of its two nodes and has its receive loop:
\* whatever crosses, breaks, is lost, refused or abandoned, and however many
\* connections two nodes open to each other, no entry of a node's table is left
\* that nothing would take away when the connection ends.
THEOREM RegisteredAlwaysServed == Spec => []RegisteredServed
<1>1. ASSUME IInv PROVE RegisteredServed
  BY <1>1 DEF IInv, Served, RegisteredServed
<1> QED BY <1>1, Invariance, PTL

\* Neither end of a connection is up, sends or takes control messages, before it
\* has seen that the other has its cookie.
THEOREM CookiesAlwaysAgree == Spec => []CookiesAgree
<1>1. ASSUME IInv PROVE CookiesAgree
  BY <1>1 DEF IInv, ConnsGood, Good, UpAgreed, CookiesAgree
<1> QED BY <1>1, Invariance, PTL

\* A control message is only ever under way between two processes of the two
\* ends of its connection: none reaches a node that its target is not on.
NoneStrays == \A i \in DOMAIN conns : WiresCross(conns[i])

\* Whatever breaks off, is refused or waits, this holds of every state.
THEOREM NoMessageStrays == Spec => []NoneStrays
<1>1. ASSUME IInv PROVE NoneStrays
  BY <1>1 DEF IInv, ConnsGood, Good, NoneStrays
<1> QED BY <1>1, Invariance, PTL

\* Two live processes of two nodes agree that they are linked, when only one of
\* them links and unlinks, every call went well and one connection served them:
\* the last LINK or UNLINK still to send or under way says what its sender holds.
THEOREM LinksAlwaysAgree == Spec => []LinksAgree
<1>1. Init => LInv
  BY LStarting
<1>2. IInv /\ LInv /\ [Next]_vars => LInv'
  BY LStepping
<1>3. LInv => LinksAgree
  BY LImplies
<1> QED BY <1>1, <1>2, <1>3, Invariance, PTL DEF Spec
=============================================================================
