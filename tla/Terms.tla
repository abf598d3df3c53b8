------------------------------- MODULE Terms --------------------------------
(***************************************************************************)
(* The external term format (distribution/etf.py) and the frames a         *)
(* connection makes of it (connection.py): a frame is a control tuple and  *)
(* a message, one behind the other, with nothing between them.             *)
(*                                                                         *)
(* A term is a record with one field, named for its type.  A frame is a    *)
(* sequence of tokens: a tag, a length or number of fixed width, a letter, *)
(* or a digit of a large number.  Widths are scaled: ByteLimit stands for  *)
(* 256 and WordLimit for 2^31.                                             *)
(***************************************************************************)
EXTENDS Integers, Sequences, FiniteSets

CONSTANTS
    ByteLimit, WordLimit,
    Messages,       \* terms this node's processes send
    PeerMessages,   \* terms a process of a peer sends
    MaxFrames       \* bound: frames sent

VARIABLES
    stream,         \* frames written and not yet read
    expected,       \* history: what each of them carries
    delivered,      \* history: what receive returned, and what the frame carried
    connected,      \* the receive loop goes on
    sentFrames

termVars == <<stream, expected, delivered, connected, sentFrames>>

-----------------------------------------------------------------------------
(* Types and tags.                                                         *)

Is(type, t) == type \in DOMAIN t

Tag == [SMALL_INTEGER |-> 97, INTEGER |-> 98, FLOAT |-> 99, ATOM |-> 100,
        SMALL_TUPLE |-> 104, LARGE_TUPLE |-> 105, NIL |-> 106, STRING |-> 107,
        LIST |-> 108, BINARY |-> 109, SMALL_BIG |-> 110, LARGE_BIG |-> 111,
        NEW_FLOAT |-> 70, ATOM_UTF8 |-> 118, SMALL_ATOM_UTF8 |-> 119, MAP |-> 116,
        PID |-> 103, NEW_PID |-> 88, NEW_REFERENCE |-> 114, NEWER_REFERENCE |-> 90,
        PORT |-> 102, NEW_PORT |-> 89]

\* Atoms by their letters; "nil", "true" and "false" have one letter here.
Nil == [atom |-> <<1>>]
Truth(b) == [atom |-> IF b THEN <<2>> ELSE <<3>>]
EmptyList == [list |-> <<>>]

-----------------------------------------------------------------------------
(* The encoder.                                                            *)

\* What no encoding exists for: encode raises, and nothing is written.
Unencodable == -WordLimit - 1

RECURSIVE Concat(_)
Concat(parts) == IF parts = <<>> THEN <<>> ELSE Head(parts) \o Concat(Tail(parts))

\* The short form when the length fits a byte.
Sized(short, long, n) == IF n < ByteLimit THEN <<short, n>> ELSE <<long, n>>

RECURSIVE Digits(_)
Digits(n) == IF n = 0 THEN <<>> ELSE <<n % ByteLimit>> \o Digits(n \div ByteLimit)
Magnitude(n) == IF n < 0 THEN -n ELSE n

EncodeInt(n) ==
    IF n \in 0 .. ByteLimit - 1 THEN <<Tag.SMALL_INTEGER, n>>
    ELSE IF n \in -WordLimit .. WordLimit - 1 THEN <<Tag.INTEGER, n>>
    ELSE LET digits == Digits(Magnitude(n))
         IN Sized(Tag.SMALL_BIG, Tag.LARGE_BIG, Len(digits))
            \o <<IF n < 0 THEN 1 ELSE 0>> \o digits

\* Fault: the tail of a proper list is left out.
NoTail == <<>>
ProperTail == <<Tag.NIL>>

RECURSIVE Encode(_)
EncodeAll(ts) == Concat([i \in DOMAIN ts |-> Encode(ts[i])])

Encode(t) ==
    CASE Is("pid", t)   -> <<Tag.NEW_PID>> \o Encode([atom |-> t.pid.node])
                           \o <<t.pid.id, t.pid.serial, t.pid.creation>>
      [] Is("atom", t)  -> Sized(Tag.SMALL_ATOM_UTF8, Tag.ATOM_UTF8, Len(t.atom)) \o t.atom
      [] Is("none", t)  -> Encode(Nil)
      [] Is("bool", t)  -> Encode(Truth(t.bool))
      [] Is("int", t)   -> EncodeInt(t.int)
      [] Is("float", t) -> <<Tag.NEW_FLOAT, t.float>>
      [] Is("bytes", t) -> <<Tag.BINARY, Len(t.bytes)>> \o t.bytes
      [] Is("str", t)   -> Encode([bytes |-> t.str])
      [] Is("tuple", t) -> Sized(Tag.SMALL_TUPLE, Tag.LARGE_TUPLE, Len(t.tuple))
                           \o EncodeAll(t.tuple)
      [] Is("list", t)  -> IF t.list = <<>> THEN <<Tag.NIL>>
                           ELSE <<Tag.LIST, Len(t.list)>> \o EncodeAll(t.list) \o ProperTail
      [] Is("items", t) -> <<Tag.MAP, Len(t.items)>>
                           \o Concat([i \in DOMAIN t.items |-> EncodeAll(t.items[i])])
      [] Is("ref", t)   -> <<Tag.NEWER_REFERENCE, Len(t.ref.ids)>>
                           \o Encode([atom |-> t.ref.node]) \o <<t.ref.creation>> \o t.ref.ids
      [] Is("port", t)  -> <<Tag.NEW_PORT>> \o Encode([atom |-> t.port.node])
                           \o <<t.port.id, t.port.creation>>
      [] OTHER          -> <<Unencodable>>

\* A peer that writes the older forms, strings of bytes and improper lists.
RECURSIVE PeerEncode(_)
PeerEncodeAll(ts) == Concat([i \in DOMAIN ts |-> PeerEncode(ts[i])])

PeerEncode(t) ==
    CASE Is("atom", t)   -> <<Tag.ATOM, Len(t.atom)>> \o t.atom
      [] Is("float", t)  -> <<Tag.FLOAT, t.float>>
      [] Is("pid", t)    -> <<Tag.PID>> \o PeerEncode([atom |-> t.pid.node])
                            \o <<t.pid.id, t.pid.serial, t.pid.creation>>
      [] Is("ref", t)    -> <<Tag.NEW_REFERENCE, Len(t.ref.ids)>>
                            \o PeerEncode([atom |-> t.ref.node]) \o <<t.ref.creation>> \o t.ref.ids
      [] Is("port", t)   -> <<Tag.PORT>> \o PeerEncode([atom |-> t.port.node])
                            \o <<t.port.id, t.port.creation>>
      [] Is("string", t) -> <<Tag.STRING, Len(t.string)>> \o t.string
      [] Is("improper", t) -> <<Tag.LIST, Len(t.improper) - 1>> \o PeerEncodeAll(t.improper)
      [] Is("tuple", t)  -> <<Tag.LARGE_TUPLE, Len(t.tuple)>> \o PeerEncodeAll(t.tuple)
      [] Is("items", t)  -> <<Tag.MAP, Len(t.items)>>
                            \o Concat([i \in DOMAIN t.items |-> PeerEncodeAll(t.items[i])])
      [] OTHER           -> Encode(t)

-----------------------------------------------------------------------------
(* The decoder: a term and the position behind it, or Fail.                *)

Fail == [fail |-> TRUE]
Got(t, pos) == [term |-> t, pos |-> pos]

RECURSIVE FromDigits(_)
FromDigits(ds) == IF ds = <<>> THEN 0 ELSE Head(ds) + ByteLimit * FromDigits(Tail(ds))
Signed(sign, n) == IF sign = 1 THEN -n ELSE n

\* What a type makes of the tokens that are its own.
Built(type, s) ==
    CASE type = "atom"  -> [atom |-> s]
      [] type = "bytes" -> [bytes |-> s]
      [] type = "list"  -> [list |-> [i \in DOMAIN s |-> [int |-> s[i]]]]
      [] type = "int"   -> [int |-> Signed(s[1], FromDigits(Tail(s)))]

\* read_bytes: "Unexpected end of ETF data" when there are not enough.
Take(data, pos, n, type) ==
    IF pos + n - 1 > Len(data) THEN Fail
    ELSE Got(Built(type, SubSeq(data, pos, pos + n - 1)), pos + n)

\* A key must be hashable: no list, no dict and no port (a dataclass that compares by
\* value and is not frozen) in it.
RECURSIVE Hashable(_)
Hashable(t) ==
    IF Is("tuple", t) THEN \A i \in DOMAIN t.tuple : Hashable(t.tuple[i])
    ELSE ~ \E type \in {"list", "map", "port"} : Is(type, t)

\* The dict that pairs k1, v1, k2, v2, ... make: a later value replaces an earlier.
DictOf(flat) ==
    LET keys == {flat[i] : i \in {j \in DOMAIN flat : j % 2 = 1}}
        last(k) == CHOOSE j \in DOMAIN flat :
                       /\ j % 2 = 1 /\ flat[j] = k
                       /\ \A i \in DOMAIN flat : i % 2 = 1 /\ flat[i] = k => i <= j
    IN [map |-> [k \in keys |-> flat[last(k) + 1]]]

RECURSIVE DecodeAt(_, _)
RECURSIVE DecodeMany(_, _, _)

DecodeMany(data, pos, n) ==
    IF n = 0 THEN Got(<<>>, pos)
    ELSE LET first == DecodeAt(data, pos) IN
         IF first = Fail THEN Fail
         ELSE LET others == DecodeMany(data, first.pos, n - 1)
              IN IF others = Fail THEN Fail ELSE Got(<<first.term>> \o others.term, others.pos)

DecodeTuple(data, pos, n) ==
    LET some == DecodeMany(data, pos, n)
    IN IF some = Fail THEN Fail ELSE Got([tuple |-> some.term], some.pos)

\* The items and the tail; a tail other than the empty list becomes an item.
DecodeList(data, pos, n) ==
    LET some == DecodeMany(data, pos, n + 1)
        items == SubSeq(some.term, 1, n)
    IN IF some = Fail THEN Fail
       ELSE Got([list |-> IF some.term[n + 1] = EmptyList THEN items ELSE some.term], some.pos)

DecodeMap(data, pos, n) ==
    LET some == DecodeMany(data, pos, 2 * n)
    IN IF some = Fail THEN Fail
       ELSE IF \E i \in DOMAIN some.term : i % 2 = 1 /\ ~ Hashable(some.term[i]) THEN Fail
       ELSE Got(DictOf(some.term), some.pos)

\* Numbers f that follow a node's atom.
BuiltIdentity(type, node, f) ==
    CASE type = "pid"  -> [pid |-> [node |-> node, id |-> f[1], serial |-> f[2], creation |-> f[3]]]
      [] type = "ref"  -> [ref |-> [node |-> node, creation |-> f[1], ids |-> Tail(f)]]
      [] type = "port" -> [port |-> [node |-> node, id |-> f[1], creation |-> f[2]]]

DecodeIdentity(data, pos, n, type) ==
    LET node == DecodeAt(data, pos)
    IN IF node = Fail \/ node.pos + n - 1 > Len(data) THEN Fail
       ELSE Got(BuiltIdentity(type, node.term.atom, SubSeq(data, node.pos, node.pos + n - 1)),
                node.pos + n)

DecodeAt(data, pos) ==
    LET tag == data[pos]
        n == data[pos + 1]
        rest == pos + 2
    IN IF pos > Len(data) \/ (pos = Len(data) /\ tag # Tag.NIL) THEN Fail
       ELSE CASE tag \in {Tag.SMALL_INTEGER, Tag.INTEGER} -> Got([int |-> n], rest)
              [] tag \in {Tag.FLOAT, Tag.NEW_FLOAT} -> Got([float |-> n], rest)
              [] tag \in {Tag.ATOM, Tag.ATOM_UTF8, Tag.SMALL_ATOM_UTF8} -> Take(data, rest, n, "atom")
              [] tag \in {Tag.SMALL_TUPLE, Tag.LARGE_TUPLE} -> DecodeTuple(data, rest, n)
              [] tag = Tag.NIL -> Got(EmptyList, pos + 1)
              [] tag = Tag.STRING -> Take(data, rest, n, "list")
              [] tag = Tag.LIST -> DecodeList(data, rest, n)
              [] tag = Tag.BINARY -> Take(data, rest, n, "bytes")
              [] tag \in {Tag.SMALL_BIG, Tag.LARGE_BIG} -> Take(data, rest, n + 1, "int")
              [] tag = Tag.MAP -> DecodeMap(data, rest, n)
              [] tag \in {Tag.PID, Tag.NEW_PID} -> DecodeIdentity(data, pos + 1, 3, "pid")
              [] tag \in {Tag.NEW_REFERENCE, Tag.NEWER_REFERENCE} ->
                    DecodeIdentity(data, rest, n + 1, "ref")
              [] tag \in {Tag.PORT, Tag.NEW_PORT} -> DecodeIdentity(data, pos + 1, 2, "port")
              [] OTHER -> Fail

-----------------------------------------------------------------------------
(* What a term is on the other side.                                       *)

RECURSIVE Wire(_)
WireAll(ts) == [i \in DOMAIN ts |-> Wire(ts[i])]

Wire(t) ==
    CASE Is("none", t)  -> Nil
      [] Is("bool", t)  -> Truth(t.bool)
      [] Is("str", t)   -> [bytes |-> t.str]
      [] Is("tuple", t) -> [tuple |-> WireAll(t.tuple)]
      [] Is("list", t)  -> [list |-> WireAll(t.list)]
      [] Is("improper", t) -> [list |-> WireAll(t.improper)]
      [] Is("string", t) -> [list |-> [i \in DOMAIN t.string |-> [int |-> t.string[i]]]]
      [] Is("items", t) -> DictOf(Concat([i \in DOMAIN t.items |-> WireAll(t.items[i])]))
      [] OTHER          -> t

-----------------------------------------------------------------------------
(* Frames.  The control tuple names the process the message is for.        *)

Frame(control, message) == [control |-> control, message |-> message]
NoMessage == [fail |-> FALSE]

TermsInit ==
    /\ stream = <<>> /\ expected = <<>>
    /\ delivered = <<>>
    /\ connected = TRUE
    /\ sentFrames = 0

Write(tokens, frame) ==
    /\ connected /\ sentFrames < MaxFrames
    /\ IF \E i \in DOMAIN tokens : tokens[i] = Unencodable
         THEN UNCHANGED <<stream, expected>>
         ELSE stream' = Append(stream, tokens) /\ expected' = Append(expected, frame)
    /\ sentFrames' = sentFrames + 1
    /\ UNCHANGED <<delivered, connected>>

ControlOf(pid) == [tuple |-> <<[int |-> 2], [atom |-> <<>>], pid>>]
ToPid == ControlOf([pid |-> [node |-> <<1, 2>>, id |-> 7, serial |-> 0, creation |-> 1]])

\* send_to_pid and send_reg_send: a message behind its control tuple.
SendTerm ==
    \E m \in Messages :
        Write(Encode(ToPid) \o Encode(m), Frame(Wire(ToPid), Wire(m)))

\* send_message: a control message alone.
SendControl == Write(Encode(ToPid), Frame(Wire(ToPid), NoMessage))

\* A peer's frame.
PeerSends ==
    \E m \in PeerMessages :
        Write(PeerEncode(ToPid) \o PeerEncode(m), Frame(Wire(ToPid), Wire(m)))

\* receive: the control term, and the message from where it ended.
Parse(data) ==
    LET control == DecodeAt(data, 1) IN
    IF control = Fail THEN Fail
    ELSE IF control.pos > Len(data) THEN Frame(control.term, NoMessage)
    ELSE LET message == DecodeAt(data, control.pos)
         IN IF message = Fail THEN Fail ELSE Frame(control.term, message.term)

\* The next frame; one that cannot be decoded ends the receive loop.
Receive ==
    /\ connected /\ stream # <<>>
    /\ LET frame == Parse(Head(stream))
       IN /\ delivered' = Append(delivered, [got |-> frame, sent |-> Head(expected)])
          /\ connected' = (frame # Fail)
    /\ stream' = Tail(stream) /\ expected' = Tail(expected)
    /\ UNCHANGED sentFrames

TermsNext == SendTerm \/ SendControl \/ PeerSends \/ Receive

-----------------------------------------------------------------------------
(* Properties.                                                             *)

RECURSIVE Storable(_)
Storable(t) ==
    CASE Is("tuple", t) -> \A i \in DOMAIN t.tuple : Storable(t.tuple[i])
      [] Is("list", t)  -> \A i \in DOMAIN t.list : Storable(t.list[i])
      [] Is("map", t)   -> \A k \in DOMAIN t.map : Hashable(k) /\ Storable(t.map[k])
      [] OTHER          -> TRUE

\* Whoever wrote it, in the newer forms or the older, a frame is read as the control
\* tuple and the message that were sent, up to what the format cannot tell apart (None
\* and nil, booleans and atoms, strings and bytes, equal keys, an improper tail), and
\* only a dict whose key holds a list, a dict or a port ends the connection.
FramesArrive ==
    \A i \in DOMAIN delivered :
        LET got == delivered[i].got  sent == delivered[i].sent
        IN IF got = Fail THEN ~ Storable(sent.message) ELSE got = sent
=============================================================================
