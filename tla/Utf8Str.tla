------------------------------ MODULE Utf8Str ------------------------------
(***************************************************************************)
(* A Rust string slice (&str) as the crate uses it: a sequence of Unicode  *)
(* scalar values that is addressed by BYTE offset in its UTF-8 encoding.   *)
(* This is the standard library, not code of the crate; it is modelled     *)
(* from the calls the crate makes (len, len_utf8, is_char_boundary, and    *)
(* slicing by byte range).                                                 *)
(*                                                                         *)
(* Indices into the sequence are 1-based and private to the model.         *)
(* Everything the program stores, reports or is given is a byte offset.    *)
(***************************************************************************)
EXTENDS Integers, Sequences

Byte == 0 .. 255

\* char.  Surrogates are code points too; a Rust char never is one, and nothing
\* here depends on that.
CHAR_MAX == \h10FFFF   \* char::MAX
Char     == 0 .. CHAR_MAX

\* char::len_utf8
LenUtf8(c) ==
  IF c < \h80 THEN 1 ELSE IF c < \h800 THEN 2 ELSE IF c < \h10000 THEN 3 ELSE 4

\* The byte length of every prefix of s: a recursive function, so that the
\* module can be reasoned about by induction.
PrefixLen(s) ==
  LET sum[i \in 0 .. Len(s)] ==
        IF i = 0 THEN 0 ELSE sum[i - 1] + LenUtf8(s[i])
  IN  sum

\* str::len
ByteLen(s) == PrefixLen(s)[Len(s)]

\* The byte offset at which the first i characters end.
Offset(s, i) == ByteLen(SubSeq(s, 1, i))

\* A character is one to four bytes: only these prefixes can be b bytes long.
Prefixes(s, b) == {i \in 0 .. Len(s) : i <= b /\ b <= 4 * i}

\* str::is_char_boundary
IsCharBoundary(s, b) == \E i \in Prefixes(s, b) : Offset(s, i) = b

\* The number of characters before the character boundary b.
CharsBefore(s, b) == CHOOSE i \in Prefixes(s, b) : Offset(s, i) = b

\* &s[from..to], for two character boundaries.
Slice(s, from, to) == SubSeq(s, CharsBefore(s, from) + 1, CharsBefore(s, to))

\* Result<T, E>, and what a call that panics comes to.
Ok(v)   == [ok |-> v]
Err(e)  == [err |-> e]
IsOk(r) == "ok" \in DOMAIN r
Panic   == [panic |-> TRUE]
=============================================================================
