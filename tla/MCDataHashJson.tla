-------------------------- MODULE MCDataHashJson --------------------------
(***************************************************************************)
(* DataHashJson on digests and paddings of up to four bytes, so that the   *)
(* last chunk of base64 is empty, short or whole.                          *)
(***************************************************************************)
EXTENDS DataHashJson

Bits    == {0, 1, 63, 64, 255}
UpTo(n) == UNION {[1 .. k -> Bits] : k \in 0 .. n}

First  == [start |-> 73, length |-> 114]
Second == [start |-> 187, length |-> 0]

Binding(ranges, hash, pad, name) ==
  [exclusions |-> ranges, alg |-> "sha256", hash |-> hash, pad |-> pad, name |-> name]

\* Every hash of up to four bytes; every pad of up to two; a name or none.
PlainBindings ==
  {Binding(<<First>>, h, p, n) : h \in UpTo(3) \cup [1 .. 4 -> {1, 255}],
                                 p \in {<<>>, <<0, 0>>}, n \in {<<>>, << <<>> >>, << <<"a", "}", ",", ":", "=">> >>}}
  \cup {Binding(r, <<7>>, p, <<>>) : r \in {<<>>, <<First, Second>>, <<Second, First>>},
                                     p \in UpTo(2)}

\* The bindings the theorems of DataHashJsonProofs are about, and those they are
\* not about.
ASSUME LegibleAssumption == \A d \in PlainBindings : Legible(d)

\* A name with a quotation mark in it, a backslash or a control character.
Named(c)       == Binding(<<First>>, <<7>>, <<>>, << <<"a", c, "b">> >>)
QuotedBindings == {Named(Quote)}

ASSUME IllegibleAssumption == \A c \in {Quote, "\\", Control} : ~Legible(Named(c))
=============================================================================
