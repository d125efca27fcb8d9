-------------------------------- MODULE Wire --------------------------------
(***************************************************************************)
(* What arrives on the wire: a message as a host (net_sht_v.rs send_packet)*)
(* or a client (Client.cs) encodes it, or bytes that differ from one, which*)
(* a peer of another version may send. The hosts are verified to parse what*)
(* they marshal; that host and client understand each other is not.        *)
(***************************************************************************)
EXTENDS Marshalling

CONSTANTS
    IntSize,        \* the bytes of an int of the client: 4
    HostMessages,   \* what hosts, or peers with larger tables, send
    ClientMessages, \* what clients send
    MaxChanges      \* bound: how many changes are made to an encoding

ASSUME IntAssumption == IntSize \in 1 .. WordSize
ASSUME ChangesAssumption == MaxChanges \in Nat

IntMax == Weight[IntSize] \div 2 - 1

VARIABLES
    sent,       \* the message that was meant
    original,   \* its encoding
    wire,       \* the bytes that arrive
    changes     \* how many changes lead from one to the other

vars == <<sent, original, wire, changes>>

(***************************************************************************)
(* The encoders of the client. They need no Serialize: a value is always   *)
(* present, and a range always has both ends.                              *)
(***************************************************************************)
EncodeUlong(n) == [i \in 1 .. WordSize |-> (n \div Weight[i - 1]) % Base]
EncodeBytes(b) == EncodeUlong(Len(b)) \o b
EncodeHeader(sm) == <<0>> \o EncodeUlong(sm.seqno) \o EncodeBytes(sm.dst)

EncodeGetRequest(sm) == EncodeHeader(sm) \o <<0>> \o EncodeUlong(sm.m.k)

\* Bug: the tag of the option is missing.
EncodeBareValue(sm) == EncodeHeader(sm) \o <<1>> \o EncodeUlong(sm.m.k) \o EncodeBytes(sm.m.v[1])

EncodeSetRequest(sm) ==
    EncodeHeader(sm) \o <<1>> \o EncodeUlong(sm.m.k) \o <<1>> \o EncodeBytes(sm.m.v[1])

EncodeShardRequest(sm) ==
    EncodeHeader(sm) \o <<4>> \o <<1>> \o EncodeUlong(sm.m.kr.lo[1])
                     \o <<1>> \o EncodeUlong(sm.m.kr.hi[1]) \o EncodeBytes(sm.m.recipient)

EncodeAck(sm) == <<1>> \o EncodeUlong(sm.ack_seqno)

Encode(sm) ==
    CASE sm.type = "Ack" -> EncodeAck(sm)
      [] sm.type = "Message" /\ sm.m.type = "GetRequest" -> EncodeGetRequest(sm)
      [] sm.type = "Message" /\ sm.m.type = "SetRequest" -> EncodeSetRequest(sm)
      [] sm.type = "Message" /\ sm.m.type = "Shard" -> EncodeShardRequest(sm)

\* A client asks, moves a range it gives the ends of, and acknowledges.
IsClientMessage(sm) ==
    /\ IsCSingleMessage(sm)
    /\ \/ sm.type = "Ack"
       \/ /\ sm.type = "Message"
          /\ \/ sm.m.type = "GetRequest"
             \/ sm.m.type = "SetRequest" /\ Len(sm.m.v) = 1
             \/ sm.m.type = "Shard" /\ Len(sm.m.kr.lo) = 1 /\ Len(sm.m.kr.hi) = 1

ASSUME MessagesAssumption ==
    /\ \A sm \in HostMessages : IsCSingleMessage(sm)
    /\ \A sm \in ClientMessages : IsClientMessage(sm)

\* What arrives is in a span of bytes, whose length is an int, at a host
\* (IronSHTServer/Program.cs BufferToSpan) as at a client.
ASSUME BufferAssumption ==
    /\ \A sm \in HostMessages : Len(Serialize(sm)) + MaxChanges <= IntMax
    /\ \A sm \in ClientMessages : Len(Encode(sm)) + MaxChanges <= IntMax

(***************************************************************************)
(* The parser of the client.                                               *)
(***************************************************************************)
\* A ulong, or a sum of ints, becomes an int by its lowest bytes.
ToInt(n) ==
    LET low == n % Weight[IntSize]
    IN  IF low <= IntMax THEN low ELSE low - Weight[IntSize]

HasBytes(bytes, offset, n) == Len(bytes) >= ToInt(offset + n)
LE64At(bytes, offset) == FromLeBytes(SubSeq(bytes, offset + 1, offset + WordSize))

Null == [type |-> "null"]
Exception == [type |-> "Exception"]   \* a negative index

\* The key of a reply: 0 if it is cut short, for nothing looks at ok.
KeyAt(bytes, offset) ==
    IF HasBytes(bytes, offset, WordSize) THEN LE64At(bytes, offset) ELSE 0

\* Bug: the address is taken for as long as the value of a tag.
SkipsTheLength(bytes, offset) == offset + WordSize

\* Where the address whose length is at offset ends.
SkipAddress(bytes, offset) == ToInt(offset + WordSize + ToInt(LE64At(bytes, offset)))

ParseCMessage(bytes, offset, seqno) ==
    IF ~HasBytes(bytes, offset, 1) THEN Null
    ELSE IF offset < 0 THEN Exception
    ELSE CASE bytes[offset + 1] = 2 ->
                [type |-> "Reply", seqno |-> seqno, k |-> KeyAt(bytes, offset + 1)]
           [] bytes[offset + 1] = 3 ->
                [type |-> "Redirect", seqno |-> seqno, k |-> KeyAt(bytes, offset + 1)]
           [] OTHER -> Null

ParseMessageFromBytes(bytes) ==
    IF ~HasBytes(bytes, 0, 1 + WordSize) THEN Null
    ELSE CASE bytes[1] = 1 -> Ack(LE64At(bytes, 1))
           [] bytes[1] = 0 ->
                IF ~HasBytes(bytes, 1 + WordSize, WordSize) THEN Null
                ELSE LET offset == SkipAddress(bytes, 1 + WordSize)
                     IN  IF Len(bytes) < offset THEN Null
                         ELSE ParseCMessage(bytes, offset, LE64At(bytes, 1))
           [] OTHER -> Null

-----------------------------------------------------------------------------
Init ==
    /\ \/ sent \in HostMessages /\ original = Serialize(sent)
       \/ sent \in ClientMessages /\ original = Encode(sent)
    /\ wire = original
    /\ changes = 0

Change(bytes) ==
    /\ changes < MaxChanges
    /\ wire' = bytes
    /\ changes' = changes + 1
    /\ UNCHANGED <<sent, original>>

Truncate == \E n \in 0 .. Len(wire) - 1 : Change(SubSeq(wire, 1, n))
Replace == \E i \in DOMAIN wire, b \in Byte : Change([wire EXCEPT ![i] = b])
Extend == \E b \in Byte : Change(Append(wire, b))

Next == Truncate \/ Replace \/ Extend
Spec == Init /\ [][Next]_vars

-----------------------------------------------------------------------------
(***************************************************************************)
(* Properties.                                                             *)
(***************************************************************************)

\* A host understands every message of a host or of a client that is within
\* the limits: the encoders of two languages agree with the one parser, and
\* a table is the same after to_vec, which sorts, and from_vec, which
\* inserts; the code states the latter as axioms (hashmap_t.rs 129-150).
HostsUnderstand ==
    changes = 0 =>
        ShtDemarshallData(wire) =
            IF IsMarshalable(sent) /\ AddressesValid(sent) THEN sent ELSE InvalidMessage

\* Whatever bytes arrive, what a host takes for a message is within the
\* limits and is encoded by exactly these bytes (the contract of
\* sht_demarshall_data_method, net_sht_v.rs 130-135): no message is
\* understood in two ways, and no host stores what it could not send on.
ParsesExactly ==
    LET sm == ShtDemarshallData(wire)
    IN  sm # InvalidMessage => IsMarshalable(sm) /\ AddressesValid(sm) /\ Serialize(sm) = wire

\* A part of a message, or a message with bytes behind it, is no message.
PartsAreRejected ==
    IsStrictPrefix(wire, original) \/ IsStrictPrefix(original, wire) =>
        ShtDemarshallData(wire) = InvalidMessage

\* Whatever a host would take for a reply, a redirect or an acknowledgement
\* the client takes for the same, with the same sequence number and key,
\* whatever the addresses and values in it are.
ClientsUnderstand ==
    LET sm == ShtDemarshallData(wire)
    IN  /\ sm.type = "Ack" => ParseMessageFromBytes(wire) = sm
        /\ sm.type = "Message" /\ sm.m.type \in {"Reply", "Redirect"} =>
                ParseMessageFromBytes(wire) =
                    [type |-> sm.m.type, seqno |-> sm.seqno, k |-> sm.m.k]
=============================================================================
