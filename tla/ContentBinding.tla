--------------------------- MODULE ContentBinding ---------------------------
(***************************************************************************)
(* What the hard binding promises, with no wrapper, offset or hash in it:  *)
(* an asset shows some content to its reader; a claim signs the content it *)
(* is made for and is accepted on the spot; from then on a validator may   *)
(* reject any claim, but accepts none made for different content.          *)
(*                                                                         *)
(* src/lib.rs and src/hardbinding.rs state it in prose: "Bind the visible  *)
(* text", "the exact c2pa.hash.data coverage, with compute and verify".    *)
(***************************************************************************)
CONSTANT Content

VARIABLES
  content,   \* what a reader of the asset sees now, in NFC
  signed,    \* the contents that claims have been made for
  accepted   \* the signed contents whose claims verify against the asset

cvars == <<content, signed, accepted>>

Init ==
  /\ content \in Content
  /\ signed = {}
  /\ accepted = {}

\* Computing a claim binds the content as it is, and the claim verifies.
Sign ==
  /\ content' = content
  /\ signed' = signed \cup {content}
  /\ accepted' = {content}

\* Anything else may change the content, and may make claims fail; it cannot
\* make a claim hold for content it was not made for.
Change ==
  /\ content' \in Content
  /\ signed' = signed
  /\ accepted' \in SUBSET (signed \cap {content'})

Next == Sign \/ Change

Spec == Init /\ [][Next]_cvars
=============================================================================
