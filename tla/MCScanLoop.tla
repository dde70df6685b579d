----------------------------- MODULE MCScanLoop -----------------------------
(***************************************************************************)
(* ScanLoop on every text of up to two pieces: characters of one, two and  *)
(* three bytes, a marker and a selector on their own, a carrier that       *)
(* decodes, one of another version, and a truncated one; and on those with *)
(* a third piece that a run can take in or begin with.  ScanLoop has the   *)
(* frame of the specification, so the published vectors are evaluated here.*)
(***************************************************************************)
EXTENDS ScanLoop, PublishedVectors

\* The digest and the normaliser of module HardBinding, which no vector needs.
IdealDigest(alg, data) == <<alg, data>>
AsStored(s)            == s

Whole     == Carry(Framed(<<7, 200>>, <<16>>))
Version2  == Carry(MAGIC \o <<VERSION + 1>> \o ToBeBytes(0))
Truncated == Carry(SubSeq(Framed(<<7>>, <<>>), 1, HEADER_LEN))

Pieces == {<<101>>, <<233>>, <<MARKER>>, <<VS_END>>, Whole, Version2, Truncated}

Pairs   == {p \o q : p, q \in Pieces}
Triples == {p \o q : p \in Pairs, q \in {<<MARKER>>, <<VS_END>>, Whole}}

UpToThree == {<<>>} \cup Pieces \cup Pairs \cup Triples
=============================================================================
