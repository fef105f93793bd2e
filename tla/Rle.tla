-------------------------------- MODULE Rle ---------------------------------
(***************************************************************************)
(* The run-length code of the file server's COMPRESS and DECOMPRESS        *)
(* (rle_compress_bytes and rle_decompress_bytes in file_ops.c).  A file is *)
(* a sequence of bytes; a compressed file is a header followed by pairs    *)
(* of a run length and a byte.                                             *)
(***************************************************************************)
EXTENDS Integers, Sequences

CONSTANTS MaxRun,        \* the longest run of a pair, 255
          Magic,         \* the header, "RLE1"
          MAX_FILE_SIZE  \* the largest file the server reads into memory

ASSUME RleAssumption ==
  /\ MaxRun \in Nat \ {0}
  /\ Magic \in Seq(Nat)
  /\ MAX_FILE_SIZE \in Nat

\* The run that starts after the first i bytes: the inner loop stops at the
\* end of the input, at another byte and at the longest run.
Bug_RunAt(in, i) ==
  CHOOSE r \in 1..MaxRun + 1 :
    /\ i + r <= Len(in)
    /\ \A k \in 1..r : in[i + k] = in[i + 1]
    /\ r = MaxRun + 1 \/ i + r = Len(in) \/ in[i + r + 1] # in[i + 1]
RunAt(in, i) ==
  CHOOSE r \in 1..MaxRun :
    /\ i + r <= Len(in)
    /\ \A k \in 1..r : in[i + k] = in[i + 1]
    /\ r = MaxRun \/ i + r = Len(in) \/ in[i + r + 1] # in[i + 1]

\* The pairs the outer loop writes from byte i on.
Pairs(in) ==
  LET from[i \in 0..Len(in)] ==
        IF i = Len(in) THEN <<>>
        ELSE <<RunAt(in, i), in[i + 1]>> \o from[i + RunAt(in, i)]
  IN  from[0]

rle_compress_bytes(in) == Magic \o Pairs(in)

HasMagic(in) ==
  Len(in) >= Len(Magic) /\ SubSeq(in, 1, Len(Magic)) = Magic

\* The length of the output, summed over the whole pairs after the header.
Total(in) ==
  LET upto[k \in 0..(Len(in) - Len(Magic)) \div 2] ==
        IF k = 0 THEN 0 ELSE upto[k - 1] + in[Len(Magic) + 2 * k - 1]
  IN  upto[(Len(in) - Len(Magic)) \div 2]

\* rle_decompress_bytes() accepts its input.
Decodable(in) ==
  /\ HasMagic(in)
  /\ Total(in) <= MAX_FILE_SIZE
  /\ (Len(in) - Len(Magic)) % 2 = 0

\* memset() for each pair.
rle_decompress_bytes(in) ==
  LET upto[k \in 0..(Len(in) - Len(Magic)) \div 2] ==
        IF k = 0 THEN <<>>
        ELSE upto[k - 1] \o [j \in 1..in[Len(Magic) + 2 * k - 1] |-> in[Len(Magic) + 2 * k]]
  IN  upto[(Len(in) - Len(Magic)) \div 2]
=============================================================================
