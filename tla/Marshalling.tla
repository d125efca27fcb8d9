---------------------------- MODULE Marshalling ----------------------------
(***************************************************************************)
(* The byte encodings of the messages of the hosts (marshal_v.rs,          *)
(* marshal_ironsht_specific_v.rs). A byte is a number below Base, a u64 or *)
(* a usize takes WordSize bytes, the lowest first. Indices into the data   *)
(* start at 0, as in the code.                                             *)
(*                                                                         *)
(* deserialize returns an Option<(Self, usize)>: here the set of what it   *)
(* returns, which is empty or has one element, so that the parts of a      *)
(* message are parsed one after the other by comprehension. An Option that *)
(* is itself part of a message is a sequence of at most one element.       *)
(*                                                                         *)
(* Definitions with a bug, used by no action, stand beside the correct     *)
(* ones: the properties are shown to tell the two apart.                   *)
(***************************************************************************)
EXTENDS Integers, SequencesExt

CONSTANTS
    Base,           \* 256
    WordSize,       \* 8
    MaxTableSize,   \* ckeyhashmap_max_serialized_size: 0x100000
    AddressLimit    \* an address is shorter than this: 0x100000

ASSUME WidthAssumption == Base \in Nat /\ Base > 5 /\ WordSize \in Nat \ {0}
ASSUME LimitAssumption == MaxTableSize \in Nat /\ AddressLimit \in Nat

Byte == 0 .. Base - 1

\* What a byte counts for: Base ^ i for the one behind i others.
Weight[i \in 0 .. WordSize] == IF i = 0 THEN 1 ELSE Base * Weight[i - 1]

UsizeMax == Weight[WordSize] - 1
U64 == 0 .. UsizeMax

(***************************************************************************)
(* The messages.                                                           *)
(***************************************************************************)
GetRequest(k) == [type |-> "GetRequest", k |-> k]
SetRequest(k, v) == [type |-> "SetRequest", k |-> k, v |-> v]
Reply(k, v) == [type |-> "Reply", k |-> k, v |-> v]
Redirect(k, id) == [type |-> "Redirect", k |-> k, id |-> id]
Shard(kr, recipient) == [type |-> "Shard", kr |-> kr, recipient |-> recipient]
Delegate(range, h) == [type |-> "Delegate", range |-> range, h |-> h]

Message(seqno, dst, m) == [type |-> "Message", seqno |-> seqno, dst |-> dst, m |-> m]
Ack(seqno) == [type |-> "Ack", ack_seqno |-> seqno]
InvalidMessage == [type |-> "InvalidMessage"]

KeyRange(lo, hi) == [lo |-> lo, hi |-> hi]

Bytes == Seq(Byte)
Option(T) == {o \in Seq(T) : Len(o) <= 1}
KeyRanges == [lo : Option(U64), hi : Option(U64)]
IsTable(h) == DOMAIN h \subseteq U64 /\ h \in [DOMAIN h -> Bytes]

IsCMessage(m) ==
    \/ m \in [type : {"GetRequest"}, k : U64]
    \/ m \in [type : {"SetRequest", "Reply"}, k : U64, v : Option(Bytes)]
    \/ m \in [type : {"Redirect"}, k : U64, id : Bytes]
    \/ m \in [type : {"Shard"}, kr : KeyRanges, recipient : Bytes]
    \/ m.type = "Delegate" /\ m = Delegate(m.range, m.h) /\ m.range \in KeyRanges /\ IsTable(m.h)

IsCSingleMessage(sm) ==
    \/ /\ sm.type = "Message" /\ sm = Message(sm.seqno, sm.dst, sm.m)
       /\ sm.seqno \in U64 /\ sm.dst \in Bytes /\ IsCMessage(sm.m)
    \/ sm \in [type : {"Ack"}, ack_seqno : U64]
    \/ sm = InvalidMessage

(***************************************************************************)
(* The vector of a table and the table of a vector.                        *)
(***************************************************************************)
Sorted(S) ==
    CHOOSE keys \in [1 .. Cardinality(S) -> S] :
        \A i, j \in 1 .. Cardinality(S) : i < j => keys[i] < keys[j]

ToVec(h) ==
    LET keys == Sorted(DOMAIN h)
    IN  [i \in DOMAIN keys |-> [k |-> keys[i], v |-> h[keys[i]]]]

\* A later element for the same key replaces the value.
FromVec(v) ==
    [key \in {v[i].k : i \in DOMAIN v} |->
        v[CHOOSE i \in DOMAIN v : v[i].k = key /\ \A j \in i + 1 .. Len(v) : v[j].k # key].v]

\* Bug: keys may repeat.
KeysDoNotFall(v) == \A i \in 2 .. Len(v) : v[i - 1].k <= v[i].k

SortedKeys(v) == \A i \in 2 .. Len(v) : v[i - 1].k < v[i].k

(***************************************************************************)
(* serialize                                                               *)
(***************************************************************************)
SerializeU64(n) == [i \in 1 .. WordSize |-> (n \div Weight[i - 1]) % Base]

SerializeBytes(b) == SerializeU64(Len(b)) \o b

SerializeOption(S(_), o) == IF o = <<>> THEN <<0>> ELSE <<1>> \o S(o[1])
SerializeOptionU64(o) == SerializeOption(SerializeU64, o)
SerializeOptionBytes(o) == SerializeOption(SerializeBytes, o)

SerializeCKeyKV(kv) == SerializeU64(kv.k) \o SerializeBytes(kv.v)

SerializeVec(v) ==
    SerializeU64(Len(v)) \o FlattenSeq([i \in DOMAIN v |-> SerializeCKeyKV(v[i])])

SerializeCKeyHashMap(h) == SerializeVec(ToVec(h))

SerializeKeyRange(kr) == SerializeOptionU64(kr.lo) \o SerializeOptionU64(kr.hi)

SerializeCMessage(m) ==
    CASE m.type = "GetRequest" -> <<0>> \o SerializeU64(m.k)
      [] m.type = "SetRequest" ->
            <<1>> \o SerializeU64(m.k) \o SerializeOptionBytes(m.v)
      [] m.type = "Reply" ->
            <<2>> \o SerializeU64(m.k) \o SerializeOptionBytes(m.v)
      [] m.type = "Redirect" -> <<3>> \o SerializeU64(m.k) \o SerializeBytes(m.id)
      [] m.type = "Shard" ->
            <<4>> \o SerializeKeyRange(m.kr) \o SerializeBytes(m.recipient)
      [] m.type = "Delegate" ->
            <<5>> \o SerializeKeyRange(m.range) \o SerializeCKeyHashMap(m.h)

Serialize(sm) ==
    CASE sm.type = "Message" ->
            <<0>> \o SerializeU64(sm.seqno) \o SerializeBytes(sm.dst)
                  \o SerializeCMessage(sm.m)
      [] sm.type = "Ack" -> <<1>> \o SerializeU64(sm.ack_seqno)
      [] sm.type = "InvalidMessage" -> <<2>>

\* Only a table has a limit of its own.
IsMarshalable(sm) ==
    /\ Len(Serialize(sm)) <= UsizeMax
    /\ sm.type = "Message" /\ sm.m.type = "Delegate" =>
            /\ SortedKeys(ToVec(sm.m.h))
            /\ Len(SerializeCKeyHashMap(sm.m.h)) <= MaxTableSize

(***************************************************************************)
(* deserialize                                                             *)
(***************************************************************************)
Parsed(v, end) == [val |-> v, end |-> end]
As(F(_), results) == {Parsed(F(r.val), r.end) : r \in results}

FromLeBytes(b) ==
    LET upTo[i \in 0 .. Len(b)] ==
            IF i = 0 THEN 0 ELSE upTo[i - 1] + b[i] * Weight[i - 1]
    IN  upTo[Len(b)]

DeserializeU64(data, start) ==
    IF Len(data) < WordSize \/ start > Len(data) - WordSize
    THEN {}
    ELSE {Parsed(FromLeBytes(SubSeq(data, start + 1, start + WordSize)), start + WordSize)}

DeserializeUsize(data, start) == {r \in DeserializeU64(data, start) : r.val <= UsizeMax}

\* Bug: a vector that is cut short is what is left of it.
DeserializeWhatIsLeft(data, start) ==
    {Parsed(SubSeq(data, len.end + 1, Min({Len(data), len.end + len.val})),
            Min({Len(data), len.end + len.val})) : len \in DeserializeUsize(data, start)}

DeserializeBytes(data, start) ==
    {Parsed(SubSeq(data, len.end + 1, len.end + len.val), len.end + len.val) :
        len \in {r \in DeserializeUsize(data, start) :
                    UsizeMax - r.end >= r.val /\ r.end + r.val <= Len(data)}}

DeserializeOption(D(_, _), data, start) ==
    IF Len(data) = 0 \/ start > Len(data) - 1
    THEN {}
    ELSE CASE data[start + 1] = 0 -> {Parsed(<<>>, start + 1)}
           [] data[start + 1] = 1 -> As(LAMBDA x : <<x>>, D(data, start + 1))
           [] OTHER -> {}

DeserializeOptionU64(data, start) == DeserializeOption(DeserializeU64, data, start)
DeserializeOptionBytes(data, start) == DeserializeOption(DeserializeBytes, data, start)

DeserializePair(D(_, _), E(_, _), data, start) ==
    UNION {As(LAMBDA y : <<x.val, y>>, E(data, x.end)) : x \in D(data, start)}

DeserializeCKeyKV(data, start) ==
    As(LAMBDA p : [k |-> p[1], v |-> p[2]],
       DeserializePair(DeserializeU64, DeserializeBytes, data, start))

\* The loop ends at the latest when the data does, since every element takes
\* some of it: a longer vector than that is not worth trying.
DeserializeVec(data, start) ==
    UNION {LET elements[i \in 0 .. len.val] ==
                   IF i = 0
                   THEN {Parsed(<<>>, len.end)}
                   ELSE UNION {As(LAMBDA x : Append(v.val, x), DeserializeCKeyKV(data, v.end)) :
                                   v \in elements[i - 1]}
           IN  elements[len.val] :
                len \in {r \in DeserializeUsize(data, start) : r.val <= Len(data)}}

DeserializeCKeyHashMap(data, start) ==
    As(FromVec, {r \in DeserializeVec(data, start) :
                    SortedKeys(r.val) /\ r.end - start <= MaxTableSize})

DeserializeKeyRange(data, start) ==
    As(LAMBDA p : KeyRange(p[1], p[2]),
       DeserializePair(DeserializeOptionU64, DeserializeOptionU64, data, start))

\* A tag that is the last byte is never looked at.
DeserializeCMessage(data, start) ==
    LET mid == start + 1
    IN  IF Len(data) = 0 \/ start >= Len(data) - 1
        THEN {}
        ELSE CASE data[mid] = 0 -> As(GetRequest, DeserializeU64(data, mid))
               [] data[mid] = 1 -> As(LAMBDA p : SetRequest(p[1], p[2]),
                        DeserializePair(DeserializeU64, DeserializeOptionBytes, data, mid))
               [] data[mid] = 2 -> As(LAMBDA p : Reply(p[1], p[2]),
                        DeserializePair(DeserializeU64, DeserializeOptionBytes, data, mid))
               [] data[mid] = 3 -> As(LAMBDA p : Redirect(p[1], p[2]),
                        DeserializePair(DeserializeU64, DeserializeBytes, data, mid))
               [] data[mid] = 4 -> As(LAMBDA p : Shard(p[1], p[2]),
                        DeserializePair(DeserializeKeyRange, DeserializeBytes, data, mid))
               [] data[mid] = 5 -> As(LAMBDA p : Delegate(p[1], p[2]),
                        DeserializePair(DeserializeKeyRange, DeserializeCKeyHashMap, data, mid))
               [] OTHER -> {}

DeserializeCSingleMessage(data, start) ==
    LET mid == start + 1
        DstAndM(d, s) == DeserializePair(DeserializeBytes, DeserializeCMessage, d, s)
    IN  IF Len(data) = 0 \/ start >= Len(data) - 1
        THEN {}
        ELSE CASE data[mid] = 0 -> As(LAMBDA p : Message(p[1], p[2][1], p[2][2]),
                        DeserializePair(DeserializeU64, DstAndM, data, mid))
               [] data[mid] = 1 -> As(Ack, DeserializeU64(data, mid))
               [] data[mid] = 2 -> {Parsed(InvalidMessage, mid)}
               [] OTHER -> {}

(***************************************************************************)
(* sht_demarshall_data_method: all of the buffer is one message, whose     *)
(* addresses are valid.                                                    *)
(***************************************************************************)
ValidPhysicalAddress(id) == Len(id) < AddressLimit

AddressesValid(sm) ==
    sm.type = "Message" =>
        /\ ValidPhysicalAddress(sm.dst)
        /\ sm.m.type = "Redirect" => ValidPhysicalAddress(sm.m.id)
        /\ sm.m.type = "Shard" => ValidPhysicalAddress(sm.m.recipient)

\* Bug: bytes behind the message are ignored.
IgnoresTheRest(buffer, count) == count <= Len(buffer)

IsWhole(buffer, count) == count = Len(buffer)

ShtDemarshallData(buffer) ==
    LET messages == {r \in DeserializeCSingleMessage(buffer, 0) :
                        IsWhole(buffer, r.end) /\ AddressesValid(r.val)}
    IN  IF messages = {} THEN InvalidMessage ELSE (CHOOSE r \in messages : TRUE).val
=============================================================================
