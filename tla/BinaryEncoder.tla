--------------------------- MODULE BinaryEncoder ---------------------------
(***************************************************************************)
(* bus/encoders/binary_encoder.ts: the bytes a bus message travels as.     *)
(*                                                                         *)
(* A string is a sequence of characters and Utf8 gives the bytes of each,  *)
(* so that the length of a string and the length of its bytes differ.      *)
(***************************************************************************)
EXTENDS Naturals, Sequences, SequencesExt

CONSTANTS
  Utf8,         \* Utf8[ch]: the bytes of character ch
  BusIdLength   \* the bytes reserved for the id of the sender

Chars == DOMAIN Utf8
Bytes == UNION {{Utf8[ch][i] : i \in DOMAIN Utf8[ch]} : ch \in Chars}
Continuing == 128..191   \* what follows the first byte of a character

(* UTF-8 tells characters apart, and where each starts. *)
ASSUME EncoderAssumption ==
  /\ BusIdLength \in Nat
  /\ \A ch \in Chars :
       /\ Utf8[ch] \in Seq(Bytes) /\ Utf8[ch] # <<>>
       /\ \A i \in DOMAIN Utf8[ch] : Utf8[ch][i] \in Continuing <=> i # 1
       /\ \A other \in Chars : Utf8[ch] = Utf8[other] => ch = other

MessageTypes == {"set", "clear", "delete", "expire"}

(* Mutant of TypeByte: a delete is sent with the byte of a clear. *)
TypeByteShared == [type \in MessageTypes |->
  CASE type = "set" -> 1 [] type \in {"clear", "delete"} -> 2 [] type = "expire" -> 4]

(* busMessageTypeToNum, and numToBusMessageType: its inverse. *)
TypeByte == [type \in MessageTypes |->
  CASE type = "set" -> 1 [] type = "clear" -> 2
    [] type = "delete" -> 3 [] type = "expire" -> 4]

TypeOf(byte) == CHOOSE type \in MessageTypes : TypeByte[type] = byte

(* buffer.write: the bytes of a string. *)
ToBytes(str) == FlattenSeq([i \in DOMAIN str |-> Utf8[str[i]]])

(* buffer.toString: a character starts at each byte that continues none.   *)
ToText(bytes) ==
  LET text[n \in 0..Len(bytes)] ==
        IF n = 0 THEN <<>>
        ELSE LET start == Max({i \in 1..n : bytes[i] \notin Continuing}) IN
             Append(text[start - 1],
                    CHOOSE ch \in Chars : Utf8[ch] = SubSeq(bytes, start, n))
  IN text[Len(bytes)]

(* The id is cut, or filled with zeros, to the bytes reserved for it. *)
FixedBytes(str) ==
  LET bytes == ToBytes(str) IN
  [i \in 1..BusIdLength |-> IF i <= Len(bytes) THEN bytes[i] ELSE 0]

(* V8 makes no string too long for it. *)
UInt32BE(n) ==
  <<n \div 16777216, (n \div 65536) % 256, (n \div 256) % 256, n % 256>>

ReadUInt32BE(bytes, at) ==
  bytes[at] * 16777216 + bytes[at + 1] * 65536 + bytes[at + 2] * 256 + bytes[at + 3]

(* A string behind the number of its bytes. *)
WithLength(str) == UInt32BE(Len(ToBytes(str))) \o ToBytes(str)

Encode(message) ==
  FixedBytes(message.busId) \o <<TypeByte[message.type]>>
  \o WithLength(message.namespace)
  \o FlattenSeq([i \in DOMAIN message.keys |-> WithLength(message.keys[i])])

(* The strings behind their lengths, from a position to the end. *)
TextsFrom(bytes, from) ==
  LET texts[at \in from..Len(bytes)] ==
        LET next == at + 4 + ReadUInt32BE(bytes, at) IN
        <<ToText(SubSeq(bytes, at + 4, next - 1))>>
        \o (IF next \in (at + 1)..Len(bytes) THEN texts[next] ELSE <<>>)
  IN texts[from]

Decode(bytes) ==
  LET texts == TextsFrom(bytes, BusIdLength + 2) IN
  [busId |-> ToText(SubSeq(bytes, 1, BusIdLength)),
   type |-> TypeOf(bytes[BusIdLength + 1]),
   namespace |-> Head(texts), keys |-> Tail(texts)]
=============================================================================
