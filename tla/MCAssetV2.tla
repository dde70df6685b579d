----------------------------- MODULE MCAssetV2 -----------------------------
(***************************************************************************)
(* AssetV2 with a one-byte length field, a small concrete hash, and a      *)
(* usize as narrow as the field: HEADER_LEN plus a declared length can     *)
(* overflow it, as 13 + 2^32 - 1 does on a 32-bit build.  The texts stay   *)
(* shorter than 255 bytes.                                                 *)
(***************************************************************************)
EXTENDS AssetV2

e     == 101
acute == \h301
emoji == VS_END

\* A polynomial hash modulo 65521, in four bytes.
Poly(data, k) ==
  LET h[i \in 0 .. Len(data)] ==
        IF i = 0 THEN k ELSE (h[i - 1] * k + data[i] + 1) % 65521
  IN  h[Len(data)]
SmallDigest(alg, data) ==
  <<Poly(data, 257) % 256, Poly(data, 257) \div 256,
    Poly(data, 263) % 256, Poly(data, 263) \div 256>>

\* What composes is left to MCAsset.
AsStored(s) == s

\* One host arrives with what is left of somebody's v1 wrapper.
Relic      == <<e>> \o Carry(SubSeq(Framed(<<1>>, <<>>), 1, HEADER_LEN))
V2Hosts    == {<<e, acute>>, Relic}
V2Payloads == {<<1>>, <<200>>}
V2Typed    == {<<>>, <<emoji>>}

ASSUME ChecksumAssumption == ChecksumsWhole({HeaderAndBody(p) : p \in V2Payloads})

\* Drop a selector, or put another in its place: the other version, or the
\* largest length a one-byte field declares, to which no header can be added
\* (10 + 255 > 255).
V2Mangling   == {<<>>, <<ByteToVs(2)>>, <<ByteToVs(255)>>}

\* An unsigned text: what is documented of texts with several wrappers.
PlainHosts == {<<e, acute>>}

\* A length to which a header can be added and a checksum cannot (10 + 244 + 4
\* > 255).
LongMangling == {<<ByteToVs(244)>>}
=============================================================================
