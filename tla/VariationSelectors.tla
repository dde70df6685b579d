------------------------- MODULE VariationSelectors -------------------------
(***************************************************************************)
(* The transport alphabet (src/vs.rs): one byte is one invisible variation *)
(* selector.  Bytes 0x00..0x0F use the Variation Selectors block, three    *)
(* UTF-8 bytes each; bytes 0x10..0xFF use the Supplement, four each.       *)
(***************************************************************************)
EXTENDS Utf8Str

VS_START     == \hFE00
VS_END       == \hFE0F
VS_SUP_START == \hE0100
VS_SUP_END   == \hE01EF

ByteToVs(b) ==
  IF b <= \h0F THEN VS_START + b ELSE VS_SUP_START + (b - \h10)

\* The None of vs_to_byte.
NoByte == -1

VsToByte(c) ==
  CASE c \in VS_START .. VS_END         -> c - VS_START
    [] c \in VS_SUP_START .. VS_SUP_END -> c - VS_SUP_START + \h10
    [] OTHER                            -> NoByte

IsVs(c) == VsToByte(c) # NoByte

EncodeRun(bytes) == [i \in 1 .. Len(bytes) |-> ByteToVs(bytes[i])]

DecodeBytes(s) == [i \in 1 .. Len(s) |-> VsToByte(s[i])]

\* The number of selectors s begins with: the iterations of decode_run's loop
\* before it meets a character outside the alphabet or the end of s.
RunLen(s) ==
  CHOOSE n \in 0 .. Len(s) :
    /\ n < Len(s) => ~IsVs(s[n + 1])
    /\ \A i \in 1 .. n : IsVs(s[i])

DecodeRun(s) ==
  LET selectors == SubSeq(s, 1, RunLen(s))
  IN  [bytes |-> DecodeBytes(selectors), consumed |-> ByteLen(selectors)]

=============================================================================
