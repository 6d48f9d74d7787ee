----------------------------- MODULE ImpuEncoding -----------------------------
(***************************************************************************)
(* How a record becomes the bytes that memcached keeps, and back:          *)
(* Impu::to_data and Impu::from_data with encode_varbyte, decode_varbyte   *)
(* and compress_data_v0 (src/impu_store.cpp).                              *)
(*                                                                         *)
(* A value is a version byte (0), the length of the JSON text in a         *)
(* variable number of bytes, and the LZ4-compressed text.  A byte of the   *)
(* length holds GroupBits bits and a flag that says whether more follow;   *)
(* the code has GroupBits = 7 and an int of IntBits = 32.  The text itself *)
(* is abstracted to its members and its length, LZ4 (external) to the      *)
(* block of bytes it makes of the text.                                    *)
(***************************************************************************)
EXTENDS Integers, Sequences, Bitwise, TLC

CONSTANTS
  GroupBits,    \* bits of the length in one byte
  IntBits,      \* width of an int
  MinBuffer,    \* size of the first buffer compress_data_v0 tries
  MaxBuffer,    \* MAX_BUFFER_LEN
  Sizes,        \* lengths of a JSON text
  Blocks,       \* what LZ4 may make of a text: sequences of bytes
  Foreign,      \* values another writer, or damage, may leave in the store
  Expiry        \* expiry times

ASSUME EncodingAssumption ==
  /\ GroupBits \in Nat \ {0} /\ IntBits > GroupBits
  /\ MinBuffer \in Nat \ {0} /\ MaxBuffer >= MinBuffer
  /\ Sizes \subseteq Nat \ {0}

IntMax == 2 ^ (IntBits - 1) - 1
More == 2 ^ GroupBits            \* the flag 0x80
Bytes == 0..(2 * More - 1)

RegStates == {"REGISTERED", "UNREGISTERED", "NOT_REGISTERED"}
Impus == [kind : {"default"}, reg : RegStates, expiry : Expiry]
           \cup [kind : {"associated"}, default : {"impu"}, expiry : Expiry]
NoImpu == [kind |-> "none"]

VARIABLES
  impu,     \* the record to write
  size,     \* uncomp_size: the length of its JSON text
  block,    \* the compressed text
  buffer,   \* buffer_length
  data,     \* the value in the store
  pc,
  offset, i, length,   \* decode_varbyte
  out       \* what get_impu returns: the record, or NoImpu with an ERROR

vars == <<impu, size, block, buffer, data, pc, offset, i, length, out>>
reading == <<offset, i, length>>

TypeOK ==
  /\ impu \in Impus \cup {NoImpu} /\ size \in Sizes \cup {0}
  /\ block \in Blocks \cup {<<>>} /\ buffer \in Nat
  /\ data \in Seq(Bytes)
  /\ pc \in {"compress", "refused", "stored", "length", "decompress", "done"}
  /\ offset \in Nat /\ i \in Nat /\ length \in Nat
  /\ out \in Impus \cup {NoImpu}

\* Either a record is about to be written, or the store has a value that
\* this writer did not make.
Init ==
  /\ \/ impu \in Impus /\ size \in Sizes /\ block \in Blocks
        /\ data = <<>> /\ pc = "compress"
     \/ impu = NoImpu /\ size = 0 /\ block = <<>>
        /\ data \in Foreign /\ pc = "stored"
  /\ buffer = MinBuffer
  /\ offset = 0 /\ i = 0 /\ length = 0 /\ out = NoImpu

-----------------------------------------------------------------------------
(* The JSON text: a function from member names to values.                  *)

\* DefaultImpu::write_json and AssociatedImpu::write_json.
write_json(r) ==
  IF r.kind = "default"
  THEN "registration_state" :> (r.reg = "REGISTERED") @@ "expiry" :> r.expiry
  ELSE "default_impu" :> r.default @@ "expiry" :> r.expiry

\* Mutant: the expiry of an associated record is not read back.
from_json_lasting(json) ==
  IF "default_impu" \in DOMAIN json
  THEN [kind |-> "associated", default |-> json["default_impu"]]
  ELSE [kind |-> "default", expiry |-> json["expiry"],
        reg |-> IF json["registration_state"] THEN "REGISTERED"
                                              ELSE "UNREGISTERED"]

\* The two from_json.  A member default_impu makes an AssociatedImpu.
from_json(json) ==
  IF "default_impu" \in DOMAIN json
  THEN [kind |-> "associated", default |-> json["default_impu"],
        expiry |-> json["expiry"]]
  ELSE [kind |-> "default", expiry |-> json["expiry"],
        reg |-> IF json["registration_state"] THEN "REGISTERED"
                                              ELSE "UNREGISTERED"]

-----------------------------------------------------------------------------
(* Writing.                                                                *)

\* For the mutant of to_data: every byte has the flag.
encode_varbyte_flag[n \in Nat] ==
  IF n = 0 THEN <<>>
  ELSE <<(n % More) + More>> \o encode_varbyte_flag[n \div More]

\* The low bits come first; zero has no bytes at all.
encode_varbyte[n \in Nat] ==
  IF n = 0 THEN <<>>
  ELSE <<(n % More) + (IF n \div More > 0 THEN More ELSE 0)>>
         \o encode_varbyte[n \div More]

\* Mutant: the flag is set on the last byte, too.
to_data_flagged == <<0>> \o encode_varbyte_flag[size] \o block

\* The version, the length of the text and the compressed text.
to_data == <<0>> \o encode_varbyte[size] \o block

\* LZ4_compress_fast_continue succeeds if the block fits into the buffer; its
\* largest input is below INT_MAX (external).
Compresses == Len(block) <= buffer /\ size < IntMax

\* Mutant: the largest buffer is not tried.
GrowsBelow == 2 * buffer < MaxBuffer

\* compress_data_v0 doubles the buffer up to its limit.
Grows == 2 * buffer <= MaxBuffer

\* One turn of the loop in compress_data_v0 and, after the last, the rest of
\* to_data and the call of the store.
Compress ==
  /\ pc = "compress"
  /\ \/ /\ Compresses
        /\ data' = to_data
        /\ pc' = "stored" /\ UNCHANGED buffer
     \/ /\ ~Compresses /\ Grows
        /\ buffer' = 2 * buffer /\ UNCHANGED <<data, pc>>
     \/ /\ ~Compresses /\ ~Grows
        /\ pc' = "refused" /\ UNCHANGED <<data, buffer>>
  /\ UNCHANGED <<impu, size, block, reading, out>>

-----------------------------------------------------------------------------
(* Reading.                                                                *)

\* from_data returns nullptr, get_impu an ERROR.
Fail == pc' = "done" /\ UNCHANGED out

IsVersion0 == data # <<>> /\ data[1] = 0

\* from_data, up to the loop of decode_varbyte.
OnData ==
  /\ pc = "stored"
  /\ \/ /\ ~IsVersion0
        /\ Fail /\ UNCHANGED reading
     \/ /\ IsVersion0
        /\ offset' = 1 /\ i' = 0 /\ length' = 0
        /\ pc' = "length" /\ UNCHANGED out
  /\ UNCHANGED <<impu, size, block, buffer, data>>

\* data[offset]: the character after the last one of a string is 0.
ByteAt(n) == IF n < Len(data) THEN data[n + 1] ELSE 0

\* bits << (7 * i), an int.  A shift by its width or more is undefined: the
\* processor uses the count modulo the width, a compiler may make it 0.
Shifted(bits, n) ==
  LET s == GroupBits * n IN
  IF s < IntBits THEN {(bits * 2 ^ s) % 2 ^ IntBits}
  ELSE {(bits * 2 ^ (s % IntBits)) % 2 ^ IntBits, 0}

\* length |= v, where a negative int is extended to a number far beyond INT_MAX.
OrInto(n, v) == IF v > IntMax THEN 2 ^ IntBits ELSE n | v

\* Mutant: the loop does not look at the end of the data.
ReadsOnForever(done) == ~done /\ length' < IntMax

\* Mutant: a length has at most the bytes an int needs.
ReadsOnBriefly(done) ==
  ~done /\ length' < IntMax /\ offset' < Len(data) /\ GroupBits * i' < IntBits

\* The condition of the loop, after offset and length have moved on.
ReadsOn(done) == ~done /\ length' < IntMax /\ offset' < Len(data)

\* One turn of the loop in decode_varbyte and, after the last, the check of
\* its result.
DecodeByte ==
  /\ pc = "length"
  /\ LET byte == ByteAt(offset)
         done == byte < More
     IN /\ \E v \in Shifted(byte % More, i) : length' = OrInto(length, v)
        /\ offset' = offset + 1 /\ i' = i + 1
        /\ IF ReadsOn(done) THEN UNCHANGED <<pc, out>>
           ELSE IF ~done \/ length' >= IntMax \/ length' = 0 THEN Fail
           ELSE pc' = "decompress" /\ UNCHANGED out
  /\ UNCHANGED <<impu, size, block, buffer, data>>

\* LZ4_decompress_safe_usingDict: the number of bytes it has written to a
\* buffer of the given length, or -1 (external).  Nothing is known of bytes
\* that it did not make.
Decompressed(bytes) ==
  IF bytes = block /\ block # <<>>
  THEN {IF size <= length THEN size ELSE -1}
  ELSE {-1} \cup 0..length

\* The rest of from_data: a text of the wrong length, or one that is not a
\* JSON object, is an error.
OnText ==
  /\ pc = "decompress"
  /\ LET bytes == SubSeq(data, offset + 1, Len(data))
     IN \E rc \in Decompressed(bytes) :
          IF rc = 0 \/ rc # length THEN Fail
          ELSE /\ pc' = "done"
               /\ out' \in IF impu # NoImpu THEN {from_json(write_json(impu))}
                           ELSE Impus \cup {NoImpu}
  /\ UNCHANGED <<impu, size, block, buffer, data, reading>>

Next == Compress \/ OnData \/ DecodeByte \/ OnText

Spec == Init /\ [][Next]_vars

-----------------------------------------------------------------------------
(* Properties.                                                             *)

\* What is written can be read: whatever the length of its text up to the
\* largest int and whatever bytes LZ4 makes of it, a stored record comes back
\* as it was, but for the registration state, of which one bit is kept
\* (to_data and from_data).
RoundTrip ==
  pc = "done" /\ impu # NoImpu =>
    out = IF impu.kind = "default" /\ impu.reg # "REGISTERED"
          THEN [impu EXCEPT !.reg = "UNREGISTERED"] ELSE impu

\* A record is refused only if its text cannot be compressed into the largest
\* buffer (compress_data_v0 and the ERROR of to_data).
RefusedOnlyIfTooBig ==
  pc = "refused" => Len(block) > MaxBuffer \/ size >= IntMax

\* Whatever is in the store, decode_varbyte reads no byte beyond the 0 at the
\* end of the string, and what it returns is safe to use: LZ4 gets a positive
\* int as the length of the text and a size of the block that is not negative.
LengthIsSafe ==
  /\ pc = "length" => offset <= Len(data)
  /\ pc = "decompress" => length \in 1..(IntMax - 1) /\ offset <= Len(data)

\* The number that n bytes of a length stand for.
Value[n \in Nat] ==
  IF n = 0 THEN 0
  ELSE Value[n - 1] + (data[n + 1] % More) * 2 ^ (GroupBits * (n - 1))

\* The bytes of the length in data, up to the first without the flag.
LengthBytes ==
  {n \in 1..(Len(data) - 1) :
     data[n + 1] < More /\ \A m \in 1..(n - 1) : data[m + 1] >= More}

\* Any spelling of a length below INT_MAX is understood, also one with more
\* bytes than it needs (decode_varbyte): the number that is read is the one the
\* bytes stand for, and the block begins right after them.
LengthIsUnderstood ==
  \A n \in LengthBytes :
    (/\ pc \in {"decompress", "done"} /\ data[1] = 0
     /\ Value[n] \in 1..(IntMax - 1)) =>
       length = Value[n] /\ offset = n + 1
=============================================================================
