-------------------------- MODULE MCExclusionLoop --------------------------
(***************************************************************************)
(* ExclusionLoop on a build whose usize is one byte: ranges end at 255 or  *)
(* overflow.  apply_exclusions is called with every list of up to two      *)
(* ranges over a text of characters one to four bytes long, and with the   *)
(* lists of three that go through it in steps; verify_data_hash with every *)
(* list of up to two ranges near the wrappers of a text that holds two.    *)
(***************************************************************************)
EXTENDS ExclusionLoop

IdealDigest(alg, data) == <<alg, data>>
AsStored(s) == s

UpToTwo(S) == {<<>>} \cup {<<r>> : r \in S} \cup {<<q, r>> : q, r \in S}

\* Two, three and four bytes: boundaries at 0, 2, 5 and 9.
Mixed  == <<233, MARKER, VS_SUP_START>>
Ranges == [start : 0 .. 10, length : {0, 2, 3, 4, 5, 9, 250}]
Tiles  == [start : {0, 2, 5, 9}, length : {0, 2, 3, 4}]
Lists  == UpToTwo(Ranges) \cup {<<p, q, r>> : p, q, r \in Tiles}

Applied ==
  {[entry |-> "apply", text |-> Mixed,
    dataHash |-> [exclusions |-> l, alg |-> "sha256", hash |-> <<>>]] : l \in Lists}

One       == Carry(Framed(<<1>>, <<>>))
Two       == Carry(Framed(<<200>>, <<0>>))
Truncated == Carry(SubSeq(Framed(<<1>>, <<>>), 1, HEADER_LEN))

Signed == {<<101>>, <<101>> \o One \o <<233>>, One \o <<101>> \o Two,
           <<101>> \o One \o Truncated}

\* The ranges of the wrappers, off by a byte at either end, and whole texts.
Near(s) ==
  {[start |-> w.start + d, length |-> w.length + g] :
     w \in LocateAll(s), d \in {0, 1}, g \in {0, 1}}
  \cup {[start |-> 0, length |-> ByteLen(s)], [start |-> 1, length |-> 255]}

\* Hashes: of what the ranges leave, of the whole text, of nothing.
Hashes(s, l) ==
  {IdealDigest("sha256", s), <<>>} \cup
  (LET rest == ApplyExclusions(s, l)
   IN  IF IsOk(rest) THEN {IdealDigest("sha256", rest.ok)} ELSE {})

Verified ==
  UNION {UNION {{[entry |-> "verify", text |-> s,
                  dataHash |-> [exclusions |-> l, alg |-> a, hash |-> h]] :
                   a \in {"sha256", "sha1"}, h \in Hashes(s, l)} :
                   l \in UpToTwo(Near(s))} : s \in Signed}

AllCalls == Applied \cup Verified
=============================================================================
