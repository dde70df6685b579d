--------------------------- MODULE ExclusionLoop ---------------------------
(***************************************************************************)
(* verify_data_hash and apply_exclusions as they run, on ranges that       *)
(* nobody computed for the text: an assertion may name any list of ranges, *)
(* overflowing, overlapping, out of order, inside a character, or of a     *)
(* wrapper that is not there.  apply_exclusions is also called on its own, *)
(* as hashed_bytes does for a generator.                                   *)
(*                                                                         *)
(* Module HardBinding says in one expression what the calls answer; here   *)
(* is the loop, with a cursor, over a text it slices by byte.              *)
(***************************************************************************)
EXTENDS HardBinding

CONSTANT Calls   \* the calls made: entry, text and assertion of each

ASSUME CallsAssumption ==
  \A c \in Calls : /\ c.entry \in {"verify", "apply"}
                   /\ c.text \in Seq(Char)
                   /\ c.dataHash.exclusions \in Seq(Exclusions)

VARIABLES
  invoked,   \* the call
  pc,        \* what is checked or run next
  next,      \* the exclusion the loop takes up next
  cursor,    \* byte offset up to which the text is dealt with
  out,       \* what is kept of it
  result

vars == <<invoked, pc, next, cursor, out, result>>

text       == invoked.text
dataHash   == invoked.dataHash
exclusions == dataHash.exclusions

\* No result yet.
Running == [running |-> TRUE]

Init ==
  /\ invoked \in Calls
  /\ pc = IF invoked.entry = "verify" THEN "algorithm" ELSE "apply"
  /\ next = 1
  /\ cursor = 0
  /\ out = <<>>
  /\ result = Running

Return(r) == pc' = "done" /\ result' = r /\ UNCHANGED <<invoked, next, cursor, out>>
Goto(l)   == pc' = l /\ UNCHANGED <<invoked, next, cursor, out, result>>

\* Algorithm::from_id(&data_hash.alg)?
CheckAlgorithm ==
  /\ pc = "algorithm"
  /\ IF IsOk(FromId(dataHash.alg)) THEN Goto("corrupted")
                                   ELSE Return(FromId(dataHash.alg))

\* Only the asserted ranges decide.
CheckCorrupted_Skipped == pc = "corrupted" /\ Goto("select")

CheckCorrupted ==
  /\ pc = "corrupted"
  /\ IF HasCorruptedCandidate(text) THEN Return(Err("CorruptedWrapper"))
                                    ELSE Goto("select")

\* Any asserted range will do, as long as one is a wrapper's.
Select_AnyMatch ==
  /\ pc = "select"
  /\ IF Selected(text, exclusions) = {} THEN Return(Err("MalformedExclusion"))
                                        ELSE Goto("apply")

\* Exactly one wrapper is selected, and nothing else is excluded.
Select ==
  /\ pc = "select"
  /\ LET matching == Selected(text, exclusions)
     IN  IF \E v, w \in matching : v # w THEN Return(Err("MultipleWrappers"))
         ELSE IF matching = {} \/ Len(exclusions) # 1
              THEN Return(Err("MalformedExclusion"))
         ELSE Goto("apply")

\* The end of the range is compared with the cursor, not its start.
Refused_Overlap(ex) ==
  \/ EndOf(ex) > USIZE_MAX
  \/ EndOf(ex) < cursor \/ EndOf(ex) > ByteLen(text)
  \/ ~IsCharBoundary(text, ex.start) \/ ~IsCharBoundary(text, EndOf(ex))

\* Only the start of the range is held against the characters.
Refused_StartOnly(ex) ==
  \/ EndOf(ex) > USIZE_MAX
  \/ ex.start < cursor \/ EndOf(ex) > ByteLen(text)
  \/ ~IsCharBoundary(text, ex.start)

\* The end may lie behind the text.
Refused_Unbounded(ex) == ex.start < cursor \/ ~IsCharBoundary(text, ex.start)

\* What makes the loop give up: an end that overflows, is out of order or behind
\* the text, or a boundary inside a character.
Refused(ex) ==
  \/ EndOf(ex) > USIZE_MAX
  \/ ex.start < cursor \/ EndOf(ex) > ByteLen(text)
  \/ ~IsCharBoundary(text, ex.start) \/ ~IsCharBoundary(text, EndOf(ex))

\* One iteration of the loop of apply_exclusions.
Exclude ==
  /\ pc = "apply" /\ next <= Len(exclusions)
  /\ LET ex == exclusions[next]
     IN  IF Refused(ex) THEN Return(Err("MalformedExclusion"))
         ELSE /\ out' = out \o Slice(text, cursor, ex.start)
              /\ cursor' = EndOf(ex)
              /\ next' = next + 1
              /\ UNCHANGED <<invoked, pc, result>>

\* The rest of the text follows the last exclusion.
KeepTail ==
  /\ pc = "apply" /\ next > Len(exclusions)
  /\ out' = out \o Slice(text, cursor, ByteLen(text))
  /\ IF invoked.entry = "verify" THEN pc' = "compare" /\ result' = result
                                 ELSE pc' = "done" /\ result' = Ok(out')
  /\ UNCHANGED <<invoked, next, cursor>>

Compare ==
  /\ pc = "compare"
  /\ Return(IF Digest(dataHash.alg, Nfc(out)) = dataHash.hash
            THEN Ok(TRUE) ELSE Err("HashMismatch"))

Next == CheckAlgorithm \/ CheckCorrupted \/ Select \/ Exclude \/ KeepTail \/ Compare

Spec == Init /\ [][Next]_vars

-----------------------------------------------------------------------------
(* Properties *)

TypeOK ==
  /\ pc \in {"algorithm", "corrupted", "select", "apply", "compare", "done"}
  /\ next \in 1 .. Len(exclusions) + 1
  /\ cursor \in 0 .. ByteLen(text)
  /\ out \in Seq(Char)
  /\ (result = Running) = (pc # "done")

\* The loop never slices inside a character, whatever ranges it is given.
CursorOnBoundary == IsCharBoundary(text, cursor)

\* The bytes the first ranges exclude.
ExcludedBytes(l) ==
  LET sum[k \in 0 .. Len(l)] == IF k = 0 THEN 0 ELSE sum[k - 1] + l[k].length
  IN  sum

\* Nor backwards: every byte in front of the cursor was kept once or excluded
\* once.
BytesAccounted ==
  pc = "apply" => ByteLen(out) + ExcludedBytes(exclusions)[next - 1] = cursor

\* The definition of the exclusion without a cursor: ranges are legal if each
\* is in bounds and on boundaries and any two are disjoint and in order; kept
\* are the characters that begin in none of them.
Legal(s, l) ==
  /\ \A k \in DOMAIN l :
       /\ EndOf(l[k]) <= ByteLen(s)
       /\ EndOf(l[k]) <= USIZE_MAX
       /\ {l[k].start, EndOf(l[k])} \subseteq {Offset(s, i) : i \in 0 .. Len(s)}
  /\ \A j, k \in DOMAIN l : j < k => EndOf(l[j]) <= l[k].start

Excluded(s, l, i) ==
  \E k \in DOMAIN l : Offset(s, i - 1) \in l[k].start .. EndOf(l[k]) - 1

\* What is kept of the first characters.
KeptUpTo(s, l) ==
  LET kept[n \in 0 .. Len(s)] ==
        IF n = 0 THEN <<>>
        ELSE IF Excluded(s, l, n) THEN kept[n - 1] ELSE Append(kept[n - 1], s[n])
  IN  kept

KeptChars(s, l) == KeptUpTo(s, l)[Len(s)]

\* "validating that they are ordered, non-overlapping, within bounds, and on
\* character boundaries": apply_exclusions refuses exactly the illegal lists,
\* and removes exactly the characters the legal ones cover.
ExcludesExactly ==
  pc = "done" /\ invoked.entry = "apply" =>
    result = IF Legal(text, exclusions) THEN Ok(KeptChars(text, exclusions))
                                        ELSE Err("MalformedExclusion")

\* "An assertion that excludes some other span would otherwise hash a document
\* the wrapper does not describe": what verifies excludes one wrapper that is
\* there, whole, and its hash is that of everything else.
VerifiesOneWrapper ==
  invoked.entry = "verify" /\ result = Ok(TRUE) =>
    /\ \E w \in LocateAll(text) : exclusions = <<RangeOf(w)>>
    /\ ~HasCorruptedCandidate(text)
    /\ dataHash.hash = Digest(dataHash.alg, Nfc(KeptChars(text, exclusions)))

\* The call answers what module HardBinding says it answers.
AnswersHardBinding ==
  pc = "done" => result = IF invoked.entry = "verify"
                          THEN VerifyDataHash(text, dataHash)
                          ELSE ApplyExclusions(text, exclusions)
=============================================================================
