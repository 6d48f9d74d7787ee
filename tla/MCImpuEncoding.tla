---------------------------- MODULE MCImpuEncoding ----------------------------
(* Instances of ImpuEncoding for TLC: bytes with 3 bits of a length and a  *)
(* flag, and an int of 8 bits.  As in the code, the sign bit of the int is *)
(* neither the first nor the last bit of its group, and one more group is  *)
(* shifted by more than the width of an int.                               *)
EXTENDS ImpuEncoding

MCSizes == 1..(IntMax + 1)

\* Blocks that begin with any byte, and blocks of one byte less than the
\* largest buffer, as long as it, and longer.
MCBlocks ==
  {<<b>> : b \in Bytes} \cup {<<b, 0, 8>> : b \in {0, 7, 8, 15}}
    \cup {[n \in 1..4 |-> 9], [n \in 1..5 |-> 1]}

StringsOf(n) == [1..n -> Bytes]

\* Every value of version 0 with up to four bytes after it, and some others.
MCForeign ==
  {<<>>, <<1>>, <<9, 1>>}
    \cup {<<0>> \o s : s \in UNION {StringsOf(n) : n \in 0..4}}
=============================================================================
