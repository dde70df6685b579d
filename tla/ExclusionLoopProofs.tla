------------------------ MODULE ExclusionLoopProofs ------------------------
(***************************************************************************)
(* verify_data_hash and apply_exclusions, as they run, answer what module  *)
(* HardBinding says they answer, for every text, every list of ranges,     *)
(* every digest and normaliser and every width of usize; and no slice of   *)
(* the loop cuts a character.                                              *)
(***************************************************************************)
EXTENDS ExclusionLoop, HardBindingProofs

-----------------------------------------------------------------------------
(* The inductive invariant *)

\* What the early returns of verify_data_hash have ruled out so far.
Passed ==
  invoked.entry = "verify" =>
    /\ pc \in {"corrupted", "select", "apply", "compare"} => IsOk(FromId(dataHash.alg))
    /\ pc \in {"select", "apply", "compare"} => ~HasCorruptedCandidate(text)
    /\ pc \in {"apply", "compare"} =>
         /\ ~ \E v, w \in Selected(text, exclusions) : v # w
         /\ Selected(text, exclusions) # {}
         /\ Len(exclusions) = 1

\* How far the loop has come.
LoopOK ==
  /\ cursor = Cursor(exclusions, next)
  /\ \A k \in 1 .. next - 1 : GoodExclusion(text, exclusions, k)
  /\ pc \in {"algorithm", "corrupted", "select"} => next = 1 /\ out = <<>>
  /\ pc = "apply" => out = KeptBefore(text, exclusions)[next - 1]
  /\ pc = "compare" => ApplyExclusions(text, exclusions) = Ok(out)

ShapeOK ==
  /\ invoked \in Calls
  /\ pc \in {"algorithm", "corrupted", "select", "apply", "compare", "done"}
  /\ invoked.entry = "apply" => pc \in {"apply", "done"}
  /\ next \in 1 .. Len(exclusions) + 1
  /\ out \in Seq(Char)
  /\ (result = Running) <=> (pc # "done")

IInv == ShapeOK /\ Passed /\ LoopOK /\ AnswersHardBinding

\* What is known of a call.
LEMMA CallTyped ==
  ASSUME invoked \in Calls
  PROVE  /\ invoked.entry \in {"verify", "apply"}
         /\ text \in Seq(Char)
         /\ exclusions \in Seq(Exclusions)
         /\ Len(exclusions) \in Nat
         /\ \A k \in 1 .. Len(exclusions) :
              /\ exclusions[k] \in Exclusions
              /\ EndOf(exclusions[k]) \in Nat
              /\ exclusions[k].start \in Nat
<1>1. /\ invoked.entry \in {"verify", "apply"}
      /\ text \in Seq(Char)
      /\ exclusions \in Seq(Exclusions)
  BY CallsAssumption DEF text, exclusions, dataHash
<1>2. Len(exclusions) \in Nat /\ \A k \in 1 .. Len(exclusions) : exclusions[k] \in Exclusions
  BY <1>1
<1>3. \A ex \in Exclusions : EndOf(ex) \in Nat /\ ex.start \in Nat
  BY WidthAssumption DEF EndOf, Exclusions
<1> QED
  BY <1>1, <1>2, <1>3

\* A result is no longer Running.
LEMMA Results ==
  /\ \A v : Ok(v) # Running /\ IsOk(Ok(v)) /\ Ok(v).ok = v
  /\ \A v : Err(v) # Running /\ ~IsOk(Err(v))
<1>1. \A v : DOMAIN Ok(v) = {"ok"} /\ Ok(v).ok = v
  BY DEF Ok
<1>2. \A v : DOMAIN Err(v) = {"err"}
  BY DEF Err
<1>3. DOMAIN Running = {"running"}
  BY DEF Running
<1>4. "ok" # "err" /\ "ok" # "running" /\ "err" # "running"
  OBVIOUS
<1>5. \A v : Ok(v) # Running
  BY <1>1, <1>3, <1>4
<1>6. \A v : Err(v) # Running
  BY <1>2, <1>3, <1>4
<1> QED
  BY <1>1, <1>2, <1>4, <1>5, <1>6 DEF IsOk

LEMMA InitInv == Init => IInv
<1> SUFFICES ASSUME Init
             PROVE  IInv
  OBVIOUS
<1>1. /\ invoked \in Calls /\ next = 1 /\ cursor = 0 /\ out = <<>> /\ result = Running
      /\ pc = IF invoked.entry = "verify" THEN "algorithm" ELSE "apply"
  BY DEF Init
<1>2. invoked.entry \in {"verify", "apply"} /\ Len(exclusions) \in Nat
  BY <1>1, CallTyped
<1>3. ShapeOK
  BY <1>1, <1>2 DEF ShapeOK
<1>4. Passed
  BY <1>1, <1>2 DEF Passed
<1>5. LoopOK
  <2>1. cursor = Cursor(exclusions, next)
    BY <1>1 DEF Cursor
  <2>2. KeptBefore(text, exclusions)[0] = <<>>
    BY <1>2, KeptSteps
  <2>3. \A k \in 1 .. next - 1 : GoodExclusion(text, exclusions, k)
    BY <1>1
  <2> QED
    BY <1>1, <1>2, <2>1, <2>2, <2>3 DEF LoopOK
<1>6. AnswersHardBinding
  BY <1>1 DEF AnswersHardBinding
<1> QED
  BY <1>3, <1>4, <1>5, <1>6 DEF IInv

-----------------------------------------------------------------------------
(* What the calls answer *)

LEMMA AlgorithmKnown ==
  ASSUME NEW id
  PROVE  /\ IsOk(FromId(id)) => FromId(id) = Ok(id) /\ FromId(id).ok = id
         /\ FromId(id) # Running
BY Results DEF FromId

-----------------------------------------------------------------------------
(* The steps *)

\* The call does not change while it runs.
LEMMA SameCall ==
  ASSUME invoked' = invoked
  PROVE  text' = text /\ dataHash' = dataHash /\ exclusions' = exclusions
BY DEF text, dataHash, exclusions

\* A return keeps the invariant if what it returns is the answer.
LEMMA ReturnInv ==
  ASSUME IInv, NEW r, Return(r), r # Running,
         r = IF invoked.entry = "verify" THEN VerifyDataHash(text, dataHash)
                                         ELSE ApplyExclusions(text, exclusions)
  PROVE  IInv'
<1>1. /\ invoked' = invoked /\ next' = next /\ cursor' = cursor /\ out' = out
      /\ pc' = "done" /\ result' = r
  BY DEF Return
<1>2. text' = text /\ dataHash' = dataHash /\ exclusions' = exclusions
  BY <1>1, SameCall
<1>3. ShapeOK'
  BY <1>1, <1>2 DEF IInv, ShapeOK, Running
<1>4. Passed'
  BY <1>1, <1>2 DEF Passed
<1>5. LoopOK'
  BY <1>1, <1>2 DEF IInv, LoopOK
<1>6. AnswersHardBinding'
  BY <1>1, <1>2 DEF AnswersHardBinding
<1> QED
  BY <1>3, <1>4, <1>5, <1>6 DEF IInv

\* So does going on, in front of the loop, if the check was passed.
LEMMA GotoInv ==
  ASSUME IInv, NEW l, Goto(l), pc \in {"algorithm", "corrupted", "select"},
         l \in {"corrupted", "select", "apply"},
         IsOk(FromId(dataHash.alg)),
         l \in {"select", "apply"} => ~HasCorruptedCandidate(text),
         l = "apply" => /\ ~ \E v, w \in Selected(text, exclusions) : v # w
                        /\ Selected(text, exclusions) # {}
                        /\ Len(exclusions) = 1
  PROVE  IInv'
<1>1. /\ invoked' = invoked /\ next' = next /\ cursor' = cursor /\ out' = out
      /\ pc' = l /\ result' = result
  BY DEF Goto
<1>2. text' = text /\ dataHash' = dataHash /\ exclusions' = exclusions
  BY <1>1, SameCall
<1>3. invoked \in Calls /\ invoked.entry = "verify" /\ Len(exclusions) \in Nat
  BY CallTyped DEF IInv, ShapeOK
<1>4. ShapeOK'
  BY <1>1, <1>2, <1>3 DEF IInv, ShapeOK, Running
<1>5. Passed'
  BY <1>1, <1>2 DEF Passed
<1>6. LoopOK'
  <2>1. next = 1 /\ out = <<>>
    BY DEF IInv, LoopOK
  <2>2. KeptBefore(text, exclusions)[0] = <<>>
    BY <1>3, KeptSteps
  <2> QED
    BY <1>1, <1>2, <2>1, <2>2 DEF IInv, LoopOK
<1>7. AnswersHardBinding'
  BY <1>1 DEF AnswersHardBinding
<1> QED
  BY <1>4, <1>5, <1>6, <1>7 DEF IInv

LEMMA CheckAlgorithmInv ==
  ASSUME IInv, CheckAlgorithm
  PROVE  IInv'
<1>1. pc = "algorithm"
  BY DEF CheckAlgorithm
<1>2. invoked.entry = "verify"
  BY <1>1, CallTyped DEF IInv, ShapeOK
<1>3. CASE IsOk(FromId(dataHash.alg))
  BY <1>1, <1>3, GotoInv DEF CheckAlgorithm
<1>4. CASE ~IsOk(FromId(dataHash.alg))
  <2>1. VerifyDataHash(text, dataHash) = FromId(dataHash.alg)
    BY <1>4, Verdicts
  <2>2. Return(FromId(dataHash.alg))
    BY <1>4 DEF CheckAlgorithm
  <2> QED
    BY <1>2, <2>1, <2>2, AlgorithmKnown, ReturnInv
<1> QED
  BY <1>3, <1>4

LEMMA CheckCorruptedInv ==
  ASSUME IInv, CheckCorrupted
  PROVE  IInv'
<1>1. pc = "corrupted"
  BY DEF CheckCorrupted
<1>2. invoked.entry = "verify"
  BY <1>1, CallTyped DEF IInv, ShapeOK
<1>3. IsOk(FromId(dataHash.alg))
  BY <1>1, <1>2 DEF IInv, Passed
<1>4. CASE HasCorruptedCandidate(text)
  <2>1. VerifyDataHash(text, dataHash) = Err("CorruptedWrapper")
    BY <1>3, <1>4, Verdicts
  <2>2. Return(Err("CorruptedWrapper"))
    BY <1>4 DEF CheckCorrupted
  <2> QED
    BY <1>2, <2>1, <2>2, Results, ReturnInv
<1>5. CASE ~HasCorruptedCandidate(text)
  <2>1. Goto("select")
    BY <1>5 DEF CheckCorrupted
  <2> QED
    BY <1>1, <1>3, <1>5, <2>1, GotoInv
<1> QED
  BY <1>4, <1>5

LEMMA SelectInv ==
  ASSUME IInv, Select
  PROVE  IInv'
<1> DEFINE matching == Selected(text, exclusions)
           several == \E v, w \in matching : v # w
<1>1. /\ pc = "select"
      /\ several => Return(Err("MultipleWrappers"))
      /\ ~several /\ (matching = {} \/ Len(exclusions) # 1) =>
           Return(Err("MalformedExclusion"))
      /\ ~several /\ matching # {} /\ Len(exclusions) = 1 => Goto("apply")
  BY DEF Select
<1>2. invoked.entry = "verify"
  BY <1>1, CallTyped DEF IInv, ShapeOK
<1>3. IsOk(FromId(dataHash.alg)) /\ ~HasCorruptedCandidate(text)
  BY <1>1, <1>2 DEF IInv, Passed
<1>4. /\ several => VerifyDataHash(text, dataHash) = Err("MultipleWrappers")
      /\ ~several /\ (matching = {} \/ Len(exclusions) # 1) =>
           VerifyDataHash(text, dataHash) = Err("MalformedExclusion")
  BY <1>3, Verdicts DEF exclusions
<1>5. CASE several
  <2>1. Return(Err("MultipleWrappers"))
    BY <1>1, <1>5
  <2> QED
    BY <1>2, <1>4, <1>5, <2>1, Results, ReturnInv
<1>6. CASE ~several /\ (matching = {} \/ Len(exclusions) # 1)
  <2>1. Return(Err("MalformedExclusion"))
    BY <1>1, <1>6
  <2> QED
    BY <1>2, <1>4, <1>6, <2>1, Results, ReturnInv
<1>7. CASE ~several /\ matching # {} /\ Len(exclusions) = 1
  <2>1. Goto("apply")
    BY <1>1, <1>7
  <2> QED
    BY <1>1, <1>3, <1>7, <2>1, GotoInv
<1> QED
  BY <1>5, <1>6, <1>7

\* The loop refuses an exclusion exactly if it is not a good one, and then both
\* calls fail.
LEMMA RefusedIsBad ==
  ASSUME IInv, pc = "apply", next <= Len(exclusions)
  PROVE  /\ next \in 1 .. Len(exclusions)
         /\ Refused(exclusions[next]) <=> ~GoodExclusion(text, exclusions, next)
         /\ Refused(exclusions[next]) =>
              /\ ApplyExclusions(text, exclusions) = Err("MalformedExclusion")
              /\ invoked.entry = "verify" =>
                   VerifyDataHash(text, dataHash) = Err("MalformedExclusion")
<1>1. /\ invoked \in Calls /\ next \in 1 .. Len(exclusions) + 1
      /\ cursor = Cursor(exclusions, next)
      /\ \A k \in 1 .. next - 1 : GoodExclusion(text, exclusions, k)
  BY DEF IInv, ShapeOK, LoopOK
<1>2. text \in Seq(Char) /\ exclusions \in Seq(Exclusions) /\ Len(exclusions) \in Nat
  BY <1>1, CallTyped
<1>3. next \in 1 .. Len(exclusions)
  BY <1>1, <1>2
<1>4. /\ EndOf(exclusions[next]) \in Nat /\ exclusions[next].start \in Nat
      /\ cursor \in Nat /\ ByteLen(text) \in Nat /\ USIZE_MAX \in Nat
  BY <1>1, <1>2, <1>3, CallTyped, CursorBoundary, ByteLenNat, WidthAssumption
<1>5. Refused(exclusions[next]) <=> ~GoodExclusion(text, exclusions, next)
  BY <1>1, <1>4 DEF Refused, GoodExclusion
<1>6. ASSUME Refused(exclusions[next])
      PROVE  /\ ApplyExclusions(text, exclusions) = Err("MalformedExclusion")
             /\ invoked.entry = "verify" =>
                  VerifyDataHash(text, dataHash) = Err("MalformedExclusion")
  <2>1. ApplyExclusions(text, exclusions) = Err("MalformedExclusion")
    BY <1>2, <1>3, <1>5, <1>6, Applied
  <2>2. ASSUME invoked.entry = "verify"
        PROVE  VerifyDataHash(text, dataHash) = Err("MalformedExclusion")
    <3>1. /\ IsOk(FromId(dataHash.alg)) /\ ~HasCorruptedCandidate(text)
          /\ ~ \E v, w \in Selected(text, exclusions) : v # w
          /\ Selected(text, exclusions) # {} /\ Len(exclusions) = 1
      BY <2>2 DEF IInv, Passed
    <3> QED
      BY <2>1, <3>1, Verdicts DEF exclusions
  <2> QED
    BY <2>1, <2>2
<1> QED
  BY <1>3, <1>5, <1>6

LEMMA ExcludeInv ==
  ASSUME IInv, Exclude
  PROVE  IInv'
<1> DEFINE ex == exclusions[next]
<1>1. /\ pc = "apply" /\ next <= Len(exclusions)
      /\ Refused(ex) => Return(Err("MalformedExclusion"))
      /\ ~Refused(ex) => /\ out' = out \o Slice(text, cursor, ex.start)
                         /\ cursor' = EndOf(ex)
                         /\ next' = next + 1
                         /\ UNCHANGED <<invoked, pc, result>>
  BY DEF Exclude
<1>2. /\ invoked \in Calls /\ out \in Seq(Char) /\ next \in 1 .. Len(exclusions) + 1
      /\ (result = Running) <=> (pc # "done")
      /\ cursor = Cursor(exclusions, next)
      /\ \A k \in 1 .. next - 1 : GoodExclusion(text, exclusions, k)
      /\ out = KeptBefore(text, exclusions)[next - 1]
  BY <1>1 DEF IInv, ShapeOK, LoopOK
<1>3. /\ text \in Seq(Char) /\ exclusions \in Seq(Exclusions) /\ Len(exclusions) \in Nat
      /\ invoked.entry \in {"verify", "apply"}
  BY <1>2, CallTyped
<1>4. CASE Refused(ex)
  <2>1. Return(Err("MalformedExclusion"))
    BY <1>1, <1>4
  <2>2. Err("MalformedExclusion")
          = IF invoked.entry = "verify" THEN VerifyDataHash(text, dataHash)
                                        ELSE ApplyExclusions(text, exclusions)
    BY <1>1, <1>4, RefusedIsBad
  <2> QED
    BY <2>1, <2>2, Results, ReturnInv
<1>5. CASE ~Refused(ex)
  <2>1. next \in 1 .. Len(exclusions) /\ GoodExclusion(text, exclusions, next)
    BY <1>1, <1>5, RefusedIsBad
  <2>2. /\ text' = text /\ dataHash' = dataHash /\ exclusions' = exclusions
        /\ invoked' = invoked /\ pc' = pc /\ result' = result
    BY <1>1, <1>5, SameCall
  <2>3. ShapeOK'
    <3>1. IsCharBoundary(text, cursor) /\ IsCharBoundary(text, ex.start)
      BY <1>2, <1>3, <2>1, CursorBoundary DEF GoodExclusion
    <3>2. Slice(text, cursor, ex.start) \in Seq(Char)
      BY <1>3, <3>1, SliceTyped
    <3>3. out' \in Seq(Char)
      <4> DEFINE piece == Slice(text, cursor, ex.start)
      <4>1. out' = out \o piece /\ out \in Seq(Char) /\ piece \in Seq(Char)
        BY <1>1, <1>2, <1>5, <3>2
      <4> HIDE DEF piece
      <4> QED
        BY <4>1
    <3>4. next' \in 1 .. Len(exclusions) + 1
      BY <1>1, <1>3, <1>5, <2>1
    <3> QED
      BY <1>1, <2>2, <3>3, <3>4 DEF IInv, ShapeOK, Running
  <2>4. Passed'
    BY <2>2 DEF IInv, Passed
  <2>5. LoopOK'
    <3>1. cursor' = Cursor(exclusions, next + 1)
      BY <1>1, <1>5, <2>1 DEF Cursor
    <3>2. \A k \in 1 .. (next + 1) - 1 : GoodExclusion(text, exclusions, k)
      BY <1>2, <2>1
    <3>3. out' = KeptBefore(text, exclusions)[next]
      BY <1>1, <1>2, <1>3, <1>5, <2>1, KeptSteps
    <3>4. (next + 1) - 1 = next
      BY <2>1
    <3> QED
      BY <1>1, <1>5, <2>2, <3>1, <3>2, <3>3, <3>4 DEF LoopOK
  <2>6. AnswersHardBinding'
    BY <1>1, <2>2 DEF AnswersHardBinding
  <2> QED
    BY <2>3, <2>4, <2>5, <2>6 DEF IInv
<1> QED
  BY <1>4, <1>5

LEMMA KeepTailInv ==
  ASSUME IInv, KeepTail
  PROVE  IInv'
<1>1. /\ pc = "apply" /\ next > Len(exclusions)
      /\ out' = out \o Slice(text, cursor, ByteLen(text))
      /\ invoked.entry = "verify" => pc' = "compare" /\ result' = result
      /\ invoked.entry # "verify" => pc' = "done" /\ result' = Ok(out')
      /\ invoked' = invoked /\ next' = next /\ cursor' = cursor
  BY DEF KeepTail
<1>2. /\ invoked \in Calls /\ out \in Seq(Char) /\ next \in 1 .. Len(exclusions) + 1
      /\ result = Running
      /\ cursor = Cursor(exclusions, next)
      /\ \A k \in 1 .. next - 1 : GoodExclusion(text, exclusions, k)
      /\ out = KeptBefore(text, exclusions)[next - 1]
  BY <1>1 DEF IInv, ShapeOK, LoopOK
<1>3. /\ text \in Seq(Char) /\ exclusions \in Seq(Exclusions) /\ Len(exclusions) \in Nat
      /\ invoked.entry \in {"verify", "apply"}
  BY <1>2, CallTyped
<1>4. next = Len(exclusions) + 1 /\ next - 1 = Len(exclusions)
  BY <1>1, <1>2, <1>3
<1>5. ApplyExclusions(text, exclusions) = Ok(out')
  BY <1>1, <1>2, <1>3, <1>4, Applied
<1>6. /\ text' = text /\ dataHash' = dataHash /\ exclusions' = exclusions
  BY <1>1, SameCall
<1>7. ShapeOK'
  <2>1. IsCharBoundary(text, cursor) /\ IsCharBoundary(text, ByteLen(text))
    <3>1. Len(text) \in 0 .. Len(text) /\ Offset(text, Len(text)) = ByteLen(text)
      BY <1>3, OffsetEnds
    <3> QED
      BY <1>2, <1>3, <3>1, CharsBeforeOffset, CursorBoundary
  <2>2. out' \in Seq(Char)
    BY <1>1, <1>2, <1>3, <2>1, SliceTyped
  <2>3. result' = Running <=> pc' # "done"
    BY <1>1, <1>2, <1>3, Results
  <2>4. pc' \in {"compare", "done"} /\ (invoked.entry = "apply" => pc' = "done")
    BY <1>1, <1>3
  <2> QED
    BY <1>1, <1>2, <1>6, <2>2, <2>3, <2>4 DEF ShapeOK, Running
<1>8. Passed'
  BY <1>1, <1>6 DEF IInv, Passed
<1>9. LoopOK'
  BY <1>1, <1>2, <1>3, <1>5, <1>6 DEF LoopOK
<1>10. AnswersHardBinding'
  BY <1>1, <1>3, <1>5, <1>6 DEF AnswersHardBinding
<1> QED
  BY <1>7, <1>8, <1>9, <1>10 DEF IInv

LEMMA CompareInv ==
  ASSUME IInv, Compare
  PROVE  IInv'
<1> DEFINE verdict == IF Digest(dataHash.alg, Nfc(out)) = dataHash.hash
                      THEN Ok(TRUE) ELSE Err("HashMismatch")
<1>1. pc = "compare" /\ Return(verdict)
  BY DEF Compare
<1>2. invoked.entry = "verify"
  BY <1>1, CallTyped DEF IInv, ShapeOK
<1>3. /\ IsOk(FromId(dataHash.alg)) /\ ~HasCorruptedCandidate(text)
      /\ ~ \E v, w \in Selected(text, exclusions) : v # w
      /\ Selected(text, exclusions) # {} /\ Len(exclusions) = 1
  BY <1>1, <1>2 DEF IInv, Passed
<1>4. ApplyExclusions(text, exclusions) = Ok(out)
  BY <1>1 DEF IInv, LoopOK
<1>5. VerifyDataHash(text, dataHash) = verdict
  BY <1>3, <1>4, Verdicts DEF exclusions
<1>6. verdict # Running
  BY Results
<1> QED
  BY <1>1, <1>2, <1>5, <1>6, ReturnInv

LEMMA NextInv == IInv /\ [Next]_vars => IInv'
<1> SUFFICES ASSUME IInv, [Next]_vars
             PROVE  IInv'
  OBVIOUS
<1>1. CASE Next
  BY <1>1, CheckAlgorithmInv, CheckCorruptedInv, SelectInv, ExcludeInv,
     KeepTailInv, CompareInv DEF Next
<1>2. CASE UNCHANGED vars
  <2>1. /\ invoked' = invoked /\ pc' = pc /\ next' = next /\ cursor' = cursor
        /\ out' = out /\ result' = result
    BY <1>2 DEF vars
  <2>2. text' = text /\ dataHash' = dataHash /\ exclusions' = exclusions
    BY <2>1, SameCall
  <2>3. ShapeOK' /\ Passed'
    BY <2>1, <2>2 DEF IInv, ShapeOK, Passed, Running
  <2>4. LoopOK' /\ AnswersHardBinding'
    BY <2>1, <2>2 DEF IInv, LoopOK, AnswersHardBinding
  <2> QED
    BY <2>3, <2>4 DEF IInv
<1> QED
  BY <1>1, <1>2

-----------------------------------------------------------------------------
(* What is kept *)

\* A range starts at a natural number and is some bytes long.
LEMMA RangesTyped ==
  ASSUME NEW l \in Seq(Exclusions)
  PROVE  /\ Len(l) \in Nat
         /\ \A k \in 1 .. Len(l) :
              /\ l[k].start \in Nat
              /\ l[k].length \in Nat
              /\ EndOf(l[k]) = l[k].start + l[k].length
<1>1. Len(l) \in Nat /\ \A k \in 1 .. Len(l) : l[k] \in Exclusions
  OBVIOUS
<1>2. \A ex \in Exclusions : ex.start \in 0 .. USIZE_MAX /\ ex.length \in 0 .. USIZE_MAX
  BY DEF Exclusions
<1>3. \A x \in 0 .. USIZE_MAX : x \in Nat
  BY WidthAssumption
<1> QED
  BY <1>1, <1>2, <1>3 DEF EndOf

\* One range more excludes the bytes it is long.
LEMMA ExcludedBytesDef ==
  ASSUME NEW l \in Seq(Exclusions)
  PROVE  /\ ExcludedBytes(l)[0] = 0
         /\ \A k \in 1 .. Len(l) : ExcludedBytes(l)[k] = ExcludedBytes(l)[k - 1] + l[k].length
<1> DEFINE Is(f) == f = [k \in 0 .. Len(l) |-> IF k = 0 THEN 0 ELSE f[k - 1] + l[k].length]
           g == [k \in 1 .. Len(l) |-> [x \in Nat |-> x + l[k].length]]
<1>1. Len(l) \in Nat /\ \A k \in 1 .. Len(l) : l[k].length \in Nat
  BY RangesTyped
<1>2. g \in [1 .. Len(l) -> [Nat -> Nat]]
  BY <1>1
<1>3. PICK f \in [0 .. Len(l) -> Nat] : Stepwise(f, Len(l), 0, g)
  <2>1. 0 \in Nat /\ Len(l) \in Nat
    BY <1>1
  <2> HIDE DEF g, Is
  <2> QED
    BY <1>2, <2>1, StepwiseFunction
<1>4. \A k \in 1 .. Len(l) : f[k] = f[k - 1] + l[k].length
  <2> TAKE k \in 1 .. Len(l)
  <2>1. f[k - 1] \in Nat
    <3>1. k - 1 \in 0 .. Len(l)
      BY <1>1
    <3> QED
      BY <3>1
  <2>2. f[k] = g[k][f[k - 1]]
    BY <1>3 DEF Stepwise
  <2> QED
    BY <2>1, <2>2
<1>5. Is(f)
  <2>1. f[0] = 0
    BY <1>3 DEF Stepwise
  <2>2. ASSUME NEW k \in 0 .. Len(l)
        PROVE  f[k] = IF k = 0 THEN 0 ELSE f[k - 1] + l[k].length
    <3>1. k = 0 \/ k \in 1 .. Len(l)
      BY <1>1
    <3> QED
      BY <1>1, <1>4, <2>1, <3>1
  <2> QED
    BY <2>2
<1>6. ExcludedBytes(l) = CHOOSE h : Is(h)
  BY DEF ExcludedBytes
<1> DEFINE h == ExcludedBytes(l)
<1>7. Is(h)
  <2> HIDE DEF Is
  <2> QED
    BY <1>5, <1>6
<1> SUFFICES h[0] = 0 /\ \A k \in 1 .. Len(l) : h[k] = h[k - 1] + l[k].length
  OBVIOUS
<1> HIDE DEF h
<1>8. h[0] = 0
  BY <1>1, <1>7
<1>9. ASSUME NEW k \in 1 .. Len(l)
      PROVE  h[k] = h[k - 1] + l[k].length
  <2>1. k \in 0 .. Len(l) /\ k # 0
    BY <1>1
  <2> QED
    BY <1>7, <2>1
<1> QED
  BY <1>8, <1>9

\* As long as the ranges are good, what is kept and what is excluded add up to
\* where the cursor stands.
LEMMA KeptAndExcluded ==
  ASSUME NEW s \in Seq(Char), NEW l \in Seq(Exclusions), NEW n \in 0 .. Len(l),
         \A k \in 1 .. n : GoodExclusion(s, l, k)
  PROVE  /\ KeptBefore(s, l)[n] \in Seq(Char)
         /\ ByteLen(KeptBefore(s, l)[n]) + ExcludedBytes(l)[n] = Cursor(l, n + 1)
<1> DEFINE P(k) == /\ KeptBefore(s, l)[k] \in Seq(Char)
                   /\ ByteLen(KeptBefore(s, l)[k]) + ExcludedBytes(l)[k] = Cursor(l, k + 1)
                   /\ ExcludedBytes(l)[k] \in Nat
           D == {k \in Nat : k <= n => P(k)}
<1>1. Len(l) \in Nat /\ n \in Nat
  OBVIOUS
<1>2. 0 \in D
  <2>1. KeptBefore(s, l)[0] = <<>> /\ ExcludedBytes(l)[0] = 0
    BY <1>1, KeptSteps, ExcludedBytesDef
  <2>2. Cursor(l, 0 + 1) = 0
    BY DEF Cursor
  <2>3. ByteLen(<<>>) = 0
    <3>1. s \o <<>> = s /\ <<>> \in Seq(Char)
      OBVIOUS
    <3>2. ByteLen(s) = ByteLen(s) + ByteLen(<<>>) /\ ByteLen(s) \in Nat /\ ByteLen(<<>>) \in Nat
      BY <3>1, ByteLenConcat, ByteLenNat
    <3> QED
      BY <3>2
  <2>4. <<>> \in Seq(Char)
    OBVIOUS
  <2>5. P(0)
    BY <2>1, <2>2, <2>3, <2>4
  <2> HIDE DEF P
  <2> QED
    BY <2>5
<1>3. \A k \in D : k + 1 \in D
  <2> SUFFICES ASSUME NEW k \in Nat, P(k), k + 1 <= n
               PROVE  P(k + 1)
    BY <1>1
  <2> DEFINE m     == k + 1
             piece == Slice(s, Cursor(l, m), l[m].start)
  <2>1. m \in 1 .. Len(l) /\ m \in 1 .. n /\ m - 1 = k /\ m \in 1 .. Len(l) + 1
    BY <1>1
  <2>2. l[m].start \in Nat /\ l[m].length \in Nat
    BY <2>1, RangesTyped
  <2>3. IsCharBoundary(s, Cursor(l, m)) /\ Cursor(l, m) \in Nat
    <3>1. \A j \in 1 .. m - 1 : GoodExclusion(s, l, j)
      BY <2>1
    <3>2. IsCharBoundary(s, Cursor(l, m)) /\ Cursor(l, m) \in 0 .. ByteLen(s)
      BY <2>1, <3>1, CursorBoundary
    <3>3. ByteLen(s) \in Nat
      BY ByteLenNat
    <3> QED
      BY <3>2, <3>3
  <2>4. l[m].start >= Cursor(l, m) /\ IsCharBoundary(s, l[m].start)
    BY <2>1 DEF GoodExclusion
  <2>5. piece \in Seq(Char) /\ ByteLen(piece) = l[m].start - Cursor(l, m)
    BY <2>2, <2>3, <2>4, SliceLength
  <2>6. KeptBefore(s, l)[m] = KeptBefore(s, l)[k] \o piece
    <3>1. KeptBefore(s, l)[m] = KeptBefore(s, l)[m - 1] \o Slice(s, Cursor(l, m), l[m].start)
      BY <1>1, <2>1, KeptSteps
    <3> QED
      BY <2>1, <3>1
  <2>7. ExcludedBytes(l)[m] = ExcludedBytes(l)[k] + l[m].length
    BY <2>1, ExcludedBytesDef
  <2>8. Cursor(l, m + 1) = l[m].start + l[m].length
    BY <2>1 DEF Cursor, EndOf
  <2> HIDE DEF piece
  <2>9. /\ KeptBefore(s, l)[m] \in Seq(Char)
        /\ ByteLen(KeptBefore(s, l)[m]) = ByteLen(KeptBefore(s, l)[k]) + ByteLen(piece)
    BY <2>5, <2>6, ByteLenConcat, ConcatTexts
  <2>10. ByteLen(KeptBefore(s, l)[k]) \in Nat
    BY ByteLenNat
  <2> HIDE DEF m
  <2>11. ByteLen(KeptBefore(s, l)[m]) + ExcludedBytes(l)[m] = Cursor(l, m + 1)
         /\ ExcludedBytes(l)[m] \in Nat
    <3>1. ByteLen(KeptBefore(s, l)[k]) + ExcludedBytes(l)[k] = Cursor(l, m)
      BY DEF m
    <3>2. ExcludedBytes(l)[k] \in Nat
      OBVIOUS
    <3> DEFINE a == ByteLen(KeptBefore(s, l)[k])
               b == ExcludedBytes(l)[k]
               c == Cursor(l, m)
               d == l[m].start
               e == l[m].length
    <3>3. a \in Nat /\ b \in Nat /\ c \in Nat /\ d \in Nat /\ e \in Nat /\ a + b = c
      BY <2>2, <2>3, <2>10, <3>1, <3>2
    <3>4. (a + (d - c)) + (b + e) = d + e /\ b + e \in Nat
      <4> HIDE DEF P, D, a, b, c, d, e
      <4> QED
        BY <3>3
    <3> QED
      BY <2>5, <2>7, <2>8, <2>9, <3>4
  <2> QED
    BY <2>9, <2>11 DEF m
<1>4. D = Nat
  <2> HIDE DEF D
  <2>1. D \subseteq Nat
    BY DEF D
  <2> QED
    BY <1>2, <1>3, <2>1, NatSetInduction
<1> QED
  BY <1>1, <1>4

\* A good range ends behind all the ranges in front of it.
LEMMA GoodInOrder ==
  ASSUME NEW s \in Seq(Char), NEW l \in Seq(Exclusions), NEW n \in 0 .. Len(l),
         \A k \in 1 .. n : GoodExclusion(s, l, k)
  PROVE  /\ \A j \in 1 .. n : EndOf(l[j]) <= Cursor(l, n + 1)
         /\ \A j, k \in 1 .. n : j < k => EndOf(l[j]) <= l[k].start
<1>1. /\ Len(l) \in Nat
      /\ \A k \in 1 .. Len(l) : /\ l[k].start \in Nat /\ EndOf(l[k]) \in Nat
                                /\ l[k].start <= EndOf(l[k])
  <2>1. \A x, y \in Nat : x + y \in Nat /\ x <= x + y
    OBVIOUS
  <2> QED
    BY <2>1, RangesTyped
<1>2. \A k \in 1 .. Len(l) : Cursor(l, k + 1) = EndOf(l[k])
  BY <1>1 DEF Cursor
<1>3. \A k \in 1 .. n : k = 1 \/ EndOf(l[k - 1]) <= l[k].start
  <2> TAKE k \in 1 .. n
  <2>1. l[k].start >= Cursor(l, k)
    BY DEF GoodExclusion
  <2>2. k # 1 => k - 1 \in 1 .. Len(l) /\ Cursor(l, k) = EndOf(l[k - 1])
    BY <1>1 DEF Cursor
  <2>3. k \in 1 .. Len(l)
    BY <1>1
  <2> QED
    BY <1>1, <2>1, <2>2, <2>3
<1> DEFINE P(k) == \A j \in 1 .. k : EndOf(l[j]) <= EndOf(l[k])
           D == {k \in Nat : k \in 1 .. n => P(k)}
<1>4. D = Nat
  <2>1. D \subseteq Nat /\ 0 \in D
    OBVIOUS
  <2>2. \A k \in D : k + 1 \in D
    <3> SUFFICES ASSUME NEW k \in D, k + 1 \in 1 .. n
                 PROVE  P(k + 1)
      <4> HIDE DEF P
      <4> QED
        OBVIOUS
    <3> SUFFICES ASSUME NEW j \in 1 .. k + 1
                 PROVE  EndOf(l[j]) <= EndOf(l[k + 1])
      OBVIOUS
    <3>1. k + 1 \in 1 .. Len(l) /\ j \in 1 .. Len(l) /\ k \in Nat
      BY <1>1
    <3>2. CASE j = k + 1
      BY <1>1, <3>1, <3>2
    <3>3. CASE j # k + 1
      <4>1. j \in 1 .. k /\ k \in 1 .. n /\ k \in 1 .. Len(l) /\ (k + 1) - 1 = k /\ k + 1 # 1
        BY <1>1, <3>3
      <4>2. EndOf(l[j]) <= EndOf(l[k])
        BY <4>1
      <4>3. EndOf(l[k]) <= l[k + 1].start
        BY <1>3, <4>1
      <4> HIDE DEF P, D
      <4> QED
        BY <1>1, <3>1, <4>1, <4>2, <4>3
    <3> QED
      BY <3>2, <3>3
  <2> HIDE DEF D
  <2> QED
    BY <2>1, <2>2, NatSetInduction
<1>5. \A j \in 1 .. n : EndOf(l[j]) <= Cursor(l, n + 1)
  <2> TAKE j \in 1 .. n
  <2>1. n \in 1 .. n /\ n \in Nat /\ n \in 1 .. Len(l)
    BY <1>1
  <2>2. P(n)
    BY <1>4, <2>1
  <2> QED
    BY <1>2, <2>1, <2>2
<1>6. ASSUME NEW j \in 1 .. n, NEW k \in 1 .. n, j < k
      PROVE  EndOf(l[j]) <= l[k].start
  <2>1. k - 1 \in 1 .. n /\ k - 1 \in Nat /\ j \in 1 .. k - 1 /\ k # 1
        /\ k - 1 \in 1 .. Len(l) /\ k \in 1 .. Len(l) /\ j \in 1 .. Len(l)
    BY <1>1, <1>6
  <2>2. P(k - 1)
    BY <1>4, <2>1
  <2>3. EndOf(l[j]) <= EndOf(l[k - 1]) /\ EndOf(l[k - 1]) <= l[k].start
    BY <1>3, <2>1, <2>2
  <2> HIDE DEF P, D
  <2> QED
    BY <1>1, <2>1, <2>3
<1> QED
  BY <1>5, <1>6

\* Where a character begins or ends is where some prefix ends.
LEMMA BoundaryIsOffset ==
  ASSUME NEW s \in Seq(Char), NEW b
  PROVE  IsCharBoundary(s, b) <=> b \in {Offset(s, i) : i \in 0 .. Len(s)}
<1>1. IsCharBoundary(s, b) => \E i \in 0 .. Len(s) : Offset(s, i) = b
  BY DEF IsCharBoundary, Prefixes
<1>2. \A i \in 0 .. Len(s) : IsCharBoundary(s, Offset(s, i))
  BY CharsBeforeOffset
<1> QED
  BY <1>1, <1>2

\* The checks of the loop, one range against the one in front of it, are the
\* definition of a legal list, any range against any other.
LEMMA LegalIsGood ==
  ASSUME NEW s \in Seq(Char), NEW l \in Seq(Exclusions)
  PROVE  Legal(s, l) <=> \A k \in 1 .. Len(l) : GoodExclusion(s, l, k)
<1>1. DOMAIN l = 1 .. Len(l) /\ Len(l) \in Nat
  OBVIOUS
<1>2. /\ \A k \in 1 .. Len(l) : l[k].start \in Nat /\ EndOf(l[k]) \in Nat
      /\ ByteLen(s) \in Nat
  <2>1. \A x, y \in Nat : x + y \in Nat
    OBVIOUS
  <2> QED
    BY <2>1, RangesTyped, ByteLenNat
<1>3. ASSUME Legal(s, l), NEW k \in 1 .. Len(l)
      PROVE  GoodExclusion(s, l, k)
  <2>1. /\ EndOf(l[k]) <= ByteLen(s) /\ EndOf(l[k]) <= USIZE_MAX
        /\ l[k].start \in {Offset(s, i) : i \in 0 .. Len(s)}
        /\ EndOf(l[k]) \in {Offset(s, i) : i \in 0 .. Len(s)}
    BY <1>1, <1>3 DEF Legal
  <2>2. l[k].start >= Cursor(l, k)
    <3>1. CASE k = 1
      BY <1>2, <3>1 DEF Cursor
    <3>2. CASE k # 1
      <4>1. k - 1 \in 1 .. Len(l) /\ k - 1 < k
        BY <1>1, <3>2
      <4>2. EndOf(l[k - 1]) <= l[k].start
        BY <1>1, <1>3, <4>1 DEF Legal
      <4> QED
        BY <1>2, <3>2, <4>1, <4>2 DEF Cursor
    <3> QED
      BY <3>1, <3>2
  <2> QED
    BY <2>1, <2>2, BoundaryIsOffset DEF GoodExclusion
<1>4. ASSUME \A k \in 1 .. Len(l) : GoodExclusion(s, l, k)
      PROVE  Legal(s, l)
  <2>1. \A k \in DOMAIN l : /\ EndOf(l[k]) <= ByteLen(s)
                            /\ EndOf(l[k]) <= USIZE_MAX
                            /\ IsCharBoundary(s, l[k].start)
                            /\ IsCharBoundary(s, EndOf(l[k]))
    BY <1>1, <1>4 DEF GoodExclusion
  <2>2. \A k \in DOMAIN l : {l[k].start, EndOf(l[k])} \subseteq {Offset(s, i) : i \in 0 .. Len(s)}
    BY <2>1, BoundaryIsOffset
  <2>3. \A j, k \in DOMAIN l : j < k => EndOf(l[j]) <= l[k].start
    <3>1. Len(l) \in 0 .. Len(l)
      BY <1>1
    <3> QED
      BY <1>1, <1>4, <3>1, GoodInOrder
  <2> QED
    BY <2>1, <2>2, <2>3 DEF Legal
<1> QED
  BY <1>3, <1>4

\* One character more is kept or not.
LEMMA KeptUpToDef ==
  ASSUME NEW s \in Seq(Char), NEW l
  PROVE  /\ KeptUpTo(s, l)[0] = <<>>
         /\ \A n \in 1 .. Len(s) :
              KeptUpTo(s, l)[n] = IF Excluded(s, l, n) THEN KeptUpTo(s, l)[n - 1]
                                  ELSE Append(KeptUpTo(s, l)[n - 1], s[n])
         /\ \A n \in 0 .. Len(s) : KeptUpTo(s, l)[n] \in Seq(Char)
<1> DEFINE Is(f) == f = [n \in 0 .. Len(s) |->
                           IF n = 0 THEN <<>>
                           ELSE IF Excluded(s, l, n) THEN f[n - 1] ELSE Append(f[n - 1], s[n])]
           g == [n \in 1 .. Len(s) |-> [x \in Seq(Char) |->
                   IF Excluded(s, l, n) THEN x ELSE Append(x, s[n])]]
<1>1. Len(s) \in Nat /\ \A n \in 1 .. Len(s) : s[n] \in Char
  BY ElementOfSeq
<1>2. g \in [1 .. Len(s) -> [Seq(Char) -> Seq(Char)]]
  <2>1. \A x \in Seq(Char), c \in Char : Append(x, c) \in Seq(Char)
    OBVIOUS
  <2> QED
    BY <1>1, <2>1
<1>3. PICK f \in [0 .. Len(s) -> Seq(Char)] : Stepwise(f, Len(s), <<>>, g)
  <2>1. <<>> \in Seq(Char) /\ Len(s) \in Nat
    BY <1>1
  <2> HIDE DEF g, Is
  <2> QED
    BY <1>2, <2>1, StepwiseFunction
<1>4. \A n \in 1 .. Len(s) :
        f[n] = IF Excluded(s, l, n) THEN f[n - 1] ELSE Append(f[n - 1], s[n])
  <2> TAKE n \in 1 .. Len(s)
  <2>1. f[n - 1] \in Seq(Char)
    <3>1. n - 1 \in 0 .. Len(s)
      BY <1>1
    <3> QED
      BY <3>1
  <2> QED
    BY <1>3, <2>1 DEF Stepwise
<1>5. Is(f)
  <2>1. f[0] = <<>> /\ f \in [0 .. Len(s) -> Seq(Char)]
    BY <1>3 DEF Stepwise
  <2>2. ASSUME NEW n \in 0 .. Len(s)
        PROVE  f[n] = IF n = 0 THEN <<>>
                      ELSE IF Excluded(s, l, n) THEN f[n - 1] ELSE Append(f[n - 1], s[n])
    <3>1. CASE n = 0
      BY <2>1, <3>1
    <3>2. CASE n # 0
      <4>1. n \in 1 .. Len(s)
        BY <1>1, <3>2
      <4> QED
        BY <1>4, <3>2, <4>1
    <3> QED
      BY <3>1, <3>2
  <2> HIDE DEF Excluded
  <2> QED
    BY <2>1, <2>2
<1>6. KeptUpTo(s, l) = CHOOSE h : Is(h)
  BY DEF KeptUpTo
<1> DEFINE h == KeptUpTo(s, l)
<1>7. Is(h)
  <2> HIDE DEF Is
  <2> QED
    BY <1>5, <1>6
<1> SUFFICES /\ h[0] = <<>>
             /\ \A n \in 1 .. Len(s) :
                  h[n] = IF Excluded(s, l, n) THEN h[n - 1] ELSE Append(h[n - 1], s[n])
             /\ \A n \in 0 .. Len(s) : h[n] \in Seq(Char)
  OBVIOUS
<1> HIDE DEF h
<1>8. h[0] = <<>>
  BY <1>1, <1>7
<1>9. ASSUME NEW n \in 1 .. Len(s)
      PROVE  h[n] = IF Excluded(s, l, n) THEN h[n - 1] ELSE Append(h[n - 1], s[n])
  <2>1. n \in 0 .. Len(s) /\ n # 0
    BY <1>1
  <2> QED
    BY <1>7, <2>1
<1>10. \A n \in 0 .. Len(s) : h[n] \in Seq(Char)
  <2> DEFINE D == {n \in Nat : n <= Len(s) => h[n] \in Seq(Char)}
  <2>1. 0 \in D /\ D \subseteq Nat
    <3>1. <<>> \in Seq(Char)
      OBVIOUS
    <3> QED
      BY <1>8, <3>1
  <2>2. \A n \in D : n + 1 \in D
    <3> SUFFICES ASSUME NEW n \in Nat, h[n] \in Seq(Char), n + 1 <= Len(s)
                 PROVE  h[n + 1] \in Seq(Char)
      BY <1>1
    <3>1. n + 1 \in 1 .. Len(s) /\ (n + 1) - 1 = n
      BY <1>1
    <3>2. s[n + 1] \in Char
      BY <1>1, <3>1
    <3>3. Append(h[n], s[n + 1]) \in Seq(Char)
      BY <3>2
    <3>4. h[n + 1] = IF Excluded(s, l, n + 1) THEN h[n] ELSE Append(h[n], s[n + 1])
      BY <1>9, <3>1
    <3> QED
      BY <3>3, <3>4
  <2> HIDE DEF D
  <2>3. D = Nat
    BY <2>1, <2>2, NatSetInduction
  <2> QED
    BY <1>1, <2>3 DEF D
<1> QED
  BY <1>8, <1>9, <1>10

\* Where no range covers a character, the characters are kept as they are.
LEMMA KeptStretch ==
  ASSUME NEW s \in Seq(Char), NEW l, NEW a \in 0 .. Len(s), NEW b \in 0 .. Len(s), a <= b,
         \A i \in a + 1 .. b : ~Excluded(s, l, i)
  PROVE  KeptUpTo(s, l)[b] = KeptUpTo(s, l)[a] \o SubSeq(s, a + 1, b)
<1> DEFINE h == KeptUpTo(s, l)
           P(n) == h[a + n] = h[a] \o SubSeq(s, a + 1, a + n)
           D == {n \in Nat : a + n <= b => P(n)}
<1>1. Len(s) \in Nat /\ a \in Nat /\ b \in Nat
  OBVIOUS
<1>2. h[a] \in Seq(Char)
  BY KeptUpToDef
<1>3. 0 \in D /\ D \subseteq Nat
  <2>1. SubSeq(s, a + 1, a + 0) = <<>> /\ a + 0 = a
    BY <1>1
  <2>2. \A x \in Seq(Char) : x \o <<>> = x
    OBVIOUS
  <2> HIDE DEF h
  <2> QED
    BY <1>2, <2>1, <2>2
<1>4. \A n \in D : n + 1 \in D
  <2> SUFFICES ASSUME NEW n \in D, a + (n + 1) <= b
               PROVE  P(n + 1)
    <3> HIDE DEF P
    <3> QED
      OBVIOUS
  <2>0. n \in Nat /\ P(n)
    <3> HIDE DEF P
    <3>1. n \in Nat
      OBVIOUS
    <3>2. a + n <= b
      BY <1>1, <3>1
    <3> QED
      BY <3>1, <3>2
  <2> DEFINE m == a + n
             x == SubSeq(s, a + 1, m)
  <2>1. /\ m \in Nat /\ m + 1 = a + (n + 1) /\ m + 1 \in a + 1 .. b
        /\ m + 1 \in 1 .. Len(s) /\ (m + 1) - 1 = m
    BY <1>1, <2>0
  <2>2. h[m + 1] = Append(h[m], s[m + 1])
    BY <2>1, KeptUpToDef
  <2>3. s[m + 1] \in Char /\ x \in Seq(Char)
    BY <1>1, <2>1, ElementOfSeq
  <2>4. SubSeq(s, a + 1, m + 1) = Append(x, s[m + 1])
    BY <1>1, <2>1
  <2> HIDE DEF h, x
  <2>5. Append(h[a] \o x, s[m + 1]) = h[a] \o Append(x, s[m + 1])
    BY <1>2, <2>3, AppendBehind
  <2> QED
    BY <2>0, <2>1, <2>2, <2>4, <2>5 DEF x
<1>5. D = Nat
  <2> HIDE DEF D
  <2> QED
    BY <1>3, <1>4, NatSetInduction
<1>6. b - a \in D /\ a + (b - a) = b /\ a + (b - a) <= b
  <2> HIDE DEF D
  <2> QED
    BY <1>1, <1>5
<1>7. P(b - a)
  <2> HIDE DEF P
  <2> QED
    BY <1>6
<1> QED
  BY <1>6, <1>7, Zenon

\* Where every character is covered, none is kept.
LEMMA KeptGap ==
  ASSUME NEW s \in Seq(Char), NEW l, NEW a \in 0 .. Len(s), NEW b \in 0 .. Len(s), a <= b,
         \A i \in a + 1 .. b : Excluded(s, l, i)
  PROVE  KeptUpTo(s, l)[b] = KeptUpTo(s, l)[a]
<1> DEFINE h == KeptUpTo(s, l)
           D == {n \in Nat : a + n <= b => h[a + n] = h[a]}
<1>1. Len(s) \in Nat /\ a \in Nat /\ b \in Nat
  OBVIOUS
<1>2. 0 \in D /\ D \subseteq Nat
  BY <1>1
<1>3. \A n \in D : n + 1 \in D
  <2> SUFFICES ASSUME NEW n \in Nat, h[a + n] = h[a], a + (n + 1) <= b
               PROVE  h[a + (n + 1)] = h[a]
    BY <1>1
  <2>1. /\ a + (n + 1) \in a + 1 .. b /\ a + (n + 1) \in 1 .. Len(s)
        /\ (a + (n + 1)) - 1 = a + n
    BY <1>1
  <2> QED
    BY <2>1, KeptUpToDef
<1>4. D = Nat
  <2> HIDE DEF D
  <2> QED
    BY <1>2, <1>3, NatSetInduction
<1>5. b - a \in D /\ a + (b - a) = b /\ a + (b - a) <= b
  <2> HIDE DEF D
  <2> QED
    BY <1>1, <1>4
<1>6. h[a + (b - a)] = h[a]
  <2> HIDE DEF h
  <2> QED
    BY <1>5
<1> QED
  BY <1>5, <1>6, Zenon

\* A character that begins between two ranges, or behind the last, is in none.
LEMMA BetweenRanges ==
  ASSUME NEW s \in Seq(Char), NEW l \in Seq(Exclusions),
         \A k \in 1 .. Len(l) : GoodExclusion(s, l, k),
         NEW m \in 1 .. Len(l) + 1, NEW i \in 1 .. Len(s),
         Cursor(l, m) <= Offset(s, i - 1),
         m <= Len(l) => Offset(s, i - 1) < l[m].start
  PROVE  ~Excluded(s, l, i)
<1> DEFINE x == Offset(s, i - 1)
<1>1. /\ Len(l) \in Nat /\ DOMAIN l = 1 .. Len(l)
      /\ \A k \in 1 .. Len(l) : l[k].start \in Nat /\ EndOf(l[k]) \in Nat
                                /\ l[k].start <= EndOf(l[k])
  <2>1. \A p, q \in Nat : p + q \in Nat /\ p <= p + q
    OBVIOUS
  <2> QED
    BY <2>1, RangesTyped
<1>2. x \in Nat
  <2>1. i - 1 \in 0 .. Len(s)
    OBVIOUS
  <2> QED
    BY <2>1, PositionsInOrder
<1> HIDE DEF x
<1> SUFFICES ASSUME NEW k \in 1 .. Len(l), x \in l[k].start .. EndOf(l[k]) - 1
             PROVE  FALSE
  BY <1>1 DEF Excluded, x
<1>3. l[k].start <= x /\ x < EndOf(l[k])
  BY <1>1, <1>2
<1>4. CASE k < m
  <2>1. m - 1 \in 0 .. Len(l) /\ (m - 1) + 1 = m /\ k \in 1 .. m - 1
        /\ \A j \in 1 .. m - 1 : j \in 1 .. Len(l)
    BY <1>1, <1>4
  <2>2. \A j \in 1 .. m - 1 : GoodExclusion(s, l, j)
    BY <2>1
  <2>3. \A j \in 1 .. m - 1 : EndOf(l[j]) <= Cursor(l, (m - 1) + 1)
    BY <2>1, <2>2, GoodInOrder
  <2>4. EndOf(l[k]) <= Cursor(l, m) /\ Cursor(l, m) <= x
    BY <2>1, <2>3 DEF x
  <2>5. m # 1 /\ m - 1 \in 1 .. Len(l)
    BY <1>1, <1>4
  <2>6. Cursor(l, m) \in Nat
    BY <1>1, <2>5 DEF Cursor
  <2> QED
    BY <1>1, <1>2, <1>3, <2>4, <2>6
<1>5. CASE k >= m
  <2>1. m \in 1 .. Len(l) /\ x < l[m].start
    BY <1>1, <1>5 DEF x
  <2>2. k = m \/ EndOf(l[m]) <= l[k].start
    <3>1. Len(l) \in 0 .. Len(l)
      BY <1>1
    <3>2. \A a, b \in 1 .. Len(l) : a < b => EndOf(l[a]) <= l[b].start
      BY <3>1, GoodInOrder
    <3>3. k = m \/ m < k
      BY <1>5
    <3> QED
      BY <2>1, <3>2, <3>3
  <2> QED
    BY <1>1, <1>2, <1>3, <2>1, <2>2
<1> QED
  BY <1>4, <1>5

\* What the loop keeps in front of a range are the characters in front of it that
\* no range covers.
LEMMA KeptBeforeRange ==
  ASSUME NEW s \in Seq(Char), NEW l \in Seq(Exclusions),
         \A k \in 1 .. Len(l) : GoodExclusion(s, l, k), NEW n \in 0 .. Len(l)
  PROVE  KeptBefore(s, l)[n] = KeptUpTo(s, l)[CharsBefore(s, Cursor(l, n + 1))]
<1> DEFINE P(k) == KeptBefore(s, l)[k] = KeptUpTo(s, l)[CharsBefore(s, Cursor(l, k + 1))]
           D == {k \in Nat : k <= Len(l) => P(k)}
<1>1. Len(l) \in Nat /\ Len(s) \in Nat
  OBVIOUS
<1>2. 0 \in D
  <2>1. Cursor(l, 0 + 1) = 0
    BY DEF Cursor
  <2>2. CharsBefore(s, 0) = 0
    <3>1. 0 \in 0 .. Len(s)
      BY <1>1
    <3> QED
      BY <3>1, CharsBeforeOffset, OffsetEnds
  <2>3. P(0)
    BY <1>1, <2>1, <2>2, KeptSteps, KeptUpToDef
  <2> HIDE DEF P
  <2> QED
    BY <2>3
<1>3. \A k \in D : k + 1 \in D
  <2> SUFFICES ASSUME NEW k \in D, k + 1 <= Len(l)
               PROVE  P(k + 1)
    <3> HIDE DEF P
    <3> QED
      OBVIOUS
  <2> DEFINE m == k + 1
             c == CharsBefore(s, Cursor(l, m))
             b == CharsBefore(s, l[m].start)
             e == CharsBefore(s, EndOf(l[m]))
             kept == KeptUpTo(s, l)
  <2>1. k \in Nat /\ P(k)
    <3> HIDE DEF P
    <3>1. k \in Nat
      OBVIOUS
    <3>2. k <= Len(l)
      BY <1>1, <3>1
    <3> QED
      BY <3>1, <3>2
  <2>2. m \in 1 .. Len(l) /\ m - 1 = k /\ m \in 1 .. Len(l) + 1
    BY <1>1, <2>1
  <2> HIDE DEF m, P, D
  <2>3. /\ IsCharBoundary(s, Cursor(l, m)) /\ IsCharBoundary(s, l[m].start)
        /\ IsCharBoundary(s, EndOf(l[m]))
        /\ l[m].start >= Cursor(l, m)
    <3>1. \A j \in 1 .. m - 1 : GoodExclusion(s, l, j)
      BY <1>1, <2>2
    <3>2. IsCharBoundary(s, Cursor(l, m))
      BY <2>2, <3>1, CursorBoundary
    <3>3. GoodExclusion(s, l, m)
      BY <2>2
    <3> QED
      BY <3>2, <3>3 DEF GoodExclusion
  <2>4. /\ c \in 0 .. Len(s) /\ Offset(s, c) = Cursor(l, m)
        /\ b \in 0 .. Len(s) /\ Offset(s, b) = l[m].start
        /\ e \in 0 .. Len(s) /\ Offset(s, e) = EndOf(l[m])
    BY <2>3, PositionOf
  <2> HIDE DEF c, b, e
  <2>5. /\ l[m].start \in Nat /\ EndOf(l[m]) \in Nat /\ l[m].start <= EndOf(l[m])
        /\ Cursor(l, m) \in Nat
    <3>1. \A p, q \in Nat : p + q \in Nat /\ p <= p + q
      OBVIOUS
    <3>2. Offset(s, c) \in Nat
      BY <2>4, PositionsInOrder
    <3> QED
      BY <2>2, <2>4, <3>1, <3>2, RangesTyped
  <2>6. c <= b /\ b <= e
    BY <2>3, <2>4, <2>5, PositionsInOrder
  <2>7. KeptBefore(s, l)[m] = KeptBefore(s, l)[k] \o SubSeq(s, c + 1, b)
    <3>1. Slice(s, Offset(s, c), Offset(s, b)) = SubSeq(s, c + 1, b)
      BY <2>4, SliceAtOffsets
    <3>2. KeptBefore(s, l)[m] = KeptBefore(s, l)[m - 1] \o Slice(s, Cursor(l, m), l[m].start)
      BY <1>1, <2>2, KeptSteps
    <3> QED
      BY <2>2, <2>4, <3>1, <3>2
  <2>8. kept[b] = kept[c] \o SubSeq(s, c + 1, b)
    <3>1. ASSUME NEW i \in c + 1 .. b
          PROVE  ~Excluded(s, l, i)
      <4>1. i \in 1 .. Len(s) /\ i - 1 \in 0 .. Len(s) /\ c <= i - 1 /\ ~(b <= i - 1)
        BY <1>1, <2>4
      <4>2. /\ Offset(s, i - 1) \in Nat
            /\ Offset(s, c) <= Offset(s, i - 1) /\ ~(Offset(s, b) <= Offset(s, i - 1))
        BY <2>4, <4>1, PositionsInOrder
      <4>3. Cursor(l, m) <= Offset(s, i - 1) /\ Offset(s, i - 1) < l[m].start
        BY <2>4, <2>5, <4>2
      <4> QED
        BY <2>2, <4>1, <4>3, BetweenRanges
    <3> QED
      BY <2>4, <2>6, <3>1, KeptStretch
  <2>9. kept[e] = kept[b]
    <3>1. ASSUME NEW i \in b + 1 .. e
          PROVE  Excluded(s, l, i)
      <4>1. i - 1 \in 0 .. Len(s) /\ b <= i - 1 /\ ~(e <= i - 1)
        BY <1>1, <2>4
      <4>2. /\ Offset(s, i - 1) \in Nat
            /\ Offset(s, b) <= Offset(s, i - 1) /\ ~(Offset(s, e) <= Offset(s, i - 1))
        BY <2>4, <4>1, PositionsInOrder
      <4>3. Offset(s, i - 1) \in l[m].start .. EndOf(l[m]) - 1
        BY <2>4, <2>5, <4>2
      <4>4. m \in DOMAIN l
        BY <1>1, <2>2
      <4> QED
        BY <4>3, <4>4 DEF Excluded
    <3> QED
      BY <2>4, <2>6, <3>1, KeptGap
  <2>10. Cursor(l, m + 1) = EndOf(l[m])
    BY <2>2 DEF Cursor
  <2>11. KeptBefore(s, l)[k] = kept[c]
    BY <2>1 DEF P, c, m
  <2>12. KeptBefore(s, l)[m] = kept[CharsBefore(s, Cursor(l, m + 1))]
    BY <2>7, <2>8, <2>9, <2>10, <2>11 DEF e
  <2> QED
    BY <2>12 DEF P, m
<1>4. D = Nat
  <2>1. D \subseteq Nat
    OBVIOUS
  <2> HIDE DEF D
  <2> QED
    BY <1>2, <1>3, <2>1, NatSetInduction
<1>5. n \in D /\ n <= Len(l)
  <2> HIDE DEF D
  <2> QED
    BY <1>1, <1>4
<1>6. P(n)
  <2> HIDE DEF P
  <2> QED
    BY <1>5
<1> QED
  BY <1>6

\* "validating that they are ordered, non-overlapping, within bounds, and on
\* character boundaries": apply_exclusions fails on exactly the lists that are
\* not, and from a list that is it removes exactly the characters that begin in
\* a range, however many ranges there are.
THEOREM AppliesExactly ==
  ASSUME NEW s \in Seq(Char), NEW l \in Seq(Exclusions)
  PROVE  ApplyExclusions(s, l) = IF Legal(s, l) THEN Ok(KeptChars(s, l))
                                                ELSE Err("MalformedExclusion")
<1>1. Len(l) \in Nat /\ Len(s) \in Nat
  OBVIOUS
<1>2. CASE ~Legal(s, l)
  <2>1. PICK k \in 1 .. Len(l) : ~GoodExclusion(s, l, k)
    BY <1>2, LegalIsGood
  <2> QED
    BY <1>1, <1>2, <2>1, Applied
<1>3. CASE Legal(s, l)
  <2> DEFINE n == Len(l)
             c == CharsBefore(s, Cursor(l, n + 1))
             kept == KeptUpTo(s, l)
  <2>1. \A k \in 1 .. n : GoodExclusion(s, l, k)
    BY <1>3, LegalIsGood
  <2>2. n \in 0 .. Len(l) /\ n + 1 \in 1 .. Len(l) + 1 /\ ~(n + 1 <= Len(l))
        /\ (n + 1) - 1 = Len(l)
    BY <1>1
  <2>3. IsCharBoundary(s, Cursor(l, n + 1)) /\ Cursor(l, n + 1) \in 0 .. ByteLen(s)
    <3>1. \A k \in 1 .. (n + 1) - 1 : GoodExclusion(s, l, k)
      BY <2>1, <2>2
    <3> HIDE DEF n
    <3> QED
      BY <2>2, <3>1, CursorBoundary
  <2>4. c \in 0 .. Len(s) /\ Offset(s, c) = Cursor(l, n + 1)
    BY <2>3, PositionOf
  <2>5. KeptBefore(s, l)[n] = kept[c]
    BY <2>1, <2>2, KeptBeforeRange
  <2> HIDE DEF n, c
  <2>6. Len(s) \in 0 .. Len(s) /\ Offset(s, Len(s)) = ByteLen(s)
    BY <1>1, OffsetEnds
  <2>7. Slice(s, Cursor(l, n + 1), ByteLen(s)) = SubSeq(s, c + 1, Len(s))
    BY <2>4, <2>6, SliceAtOffsets
  <2>8. kept[Len(s)] = kept[c] \o SubSeq(s, c + 1, Len(s))
    <3>1. ASSUME NEW i \in c + 1 .. Len(s)
          PROVE  ~Excluded(s, l, i)
      <4>1. i \in 1 .. Len(s) /\ i - 1 \in 0 .. Len(s) /\ c <= i - 1
        BY <1>1, <2>4
      <4>2. Cursor(l, n + 1) <= Offset(s, i - 1)
        BY <2>4, <4>1, PositionsInOrder
      <4>3. \A k \in 1 .. Len(l) : GoodExclusion(s, l, k)
        BY <2>1 DEF n
      <4> QED
        BY <2>2, <4>1, <4>2, <4>3, BetweenRanges
    <3>2. c <= Len(s)
      BY <1>1, <2>4
    <3> QED
      BY <2>4, <2>6, <3>1, <3>2, KeptStretch
  <2>9. ApplyExclusions(s, l)
          = Ok(KeptBefore(s, l)[n] \o Slice(s, Cursor(l, n + 1), ByteLen(s)))
    BY <1>1, <2>1, Applied DEF n
  <2> QED
    BY <1>3, <2>5, <2>7, <2>8, <2>9 DEF KeptChars
<1> QED
  BY <1>2, <1>3

-----------------------------------------------------------------------------
(* Theorems *)

\* IInv is an invariant of Spec.
LEMMA Invariance == Spec => []IInv
<1>1. Init => IInv
  BY InitInv
<1>2. IInv /\ [Next]_vars => IInv'
  BY NextInv
<1> QED
  BY <1>1, <1>2, PTL DEF Spec

\* Where the cursor stands, as long as the loop runs.
LEMMA CursorPlaced == IInv => IsCharBoundary(text, cursor) /\ cursor \in 0 .. ByteLen(text)
<1> SUFFICES ASSUME IInv
             PROVE  IsCharBoundary(text, cursor) /\ cursor \in 0 .. ByteLen(text)
  OBVIOUS
<1>1. /\ invoked \in Calls /\ next \in 1 .. Len(exclusions) + 1
      /\ cursor = Cursor(exclusions, next)
      /\ \A k \in 1 .. next - 1 : GoodExclusion(text, exclusions, k)
  BY DEF IInv, ShapeOK, LoopOK
<1>2. text \in Seq(Char) /\ exclusions \in Seq(Exclusions)
  BY <1>1, CallTyped
<1> QED
  BY <1>1, <1>2, CursorBoundary

\* The cursor never leaves the text, no iteration is repeated behind the last
\* exclusion, and a call has a result exactly when it has returned.
THEOREM TypeCorrect == Spec => []TypeOK
<1>1. IInv => TypeOK
  BY CursorPlaced DEF IInv, ShapeOK, TypeOK
<1> QED
  BY <1>1, Invariance, PTL

\* The loop of apply_exclusions never slices inside a character, however the
\* ranges of the assertion overflow, overlap or are ordered.
THEOREM SlicesOnBoundaries == Spec => []CursorOnBoundary
<1>1. IInv => CursorOnBoundary
  BY CursorPlaced DEF CursorOnBoundary
<1> QED
  BY <1>1, Invariance, PTL

\* verify_data_hash and apply_exclusions, run statement by statement, answer what
\* the operators of HardBinding say: the one-expression form on which the
\* statements about claims rest.
THEOREM LoopAnswers == Spec => []AnswersHardBinding
<1>1. IInv => AnswersHardBinding
  BY DEF IInv
<1> QED
  BY <1>1, Invariance, PTL

\* No byte is kept twice or dropped silently: as long as the loop runs, what it
\* has kept and what it has excluded are together every byte in front of its
\* cursor.
THEOREM EveryByteCounts == Spec => []BytesAccounted
<1>1. IInv => BytesAccounted
  <2> SUFFICES ASSUME IInv, pc = "apply"
               PROVE  ByteLen(out) + ExcludedBytes(exclusions)[next - 1] = cursor
    BY DEF BytesAccounted
  <2>1. /\ invoked \in Calls /\ next \in 1 .. Len(exclusions) + 1
        /\ cursor = Cursor(exclusions, next)
        /\ \A k \in 1 .. next - 1 : GoodExclusion(text, exclusions, k)
        /\ out = KeptBefore(text, exclusions)[next - 1]
    BY DEF IInv, ShapeOK, LoopOK
  <2>2. text \in Seq(Char) /\ exclusions \in Seq(Exclusions) /\ Len(exclusions) \in Nat
    BY <2>1, CallTyped
  <2>3. next - 1 \in 0 .. Len(exclusions) /\ (next - 1) + 1 = next
    BY <2>1, <2>2
  <2> QED
    BY <2>1, <2>2, <2>3, KeptAndExcluded
<1> QED
  BY <1>1, Invariance, PTL

\* In every run of apply_exclusions the result is what the definition without a
\* cursor says: the illegal lists are refused, and from a legal one exactly the
\* characters in its ranges are gone.
THEOREM ExactlyTheRanges == Spec => []ExcludesExactly
<1>1. IInv => ExcludesExactly
  <2> SUFFICES ASSUME IInv, pc = "done", invoked.entry = "apply"
               PROVE  result = IF Legal(text, exclusions) THEN Ok(KeptChars(text, exclusions))
                                                          ELSE Err("MalformedExclusion")
    BY DEF ExcludesExactly
  <2>1. invoked \in Calls /\ result = ApplyExclusions(text, exclusions)
    BY DEF IInv, ShapeOK, AnswersHardBinding
  <2>2. text \in Seq(Char) /\ exclusions \in Seq(Exclusions)
    BY <2>1, CallTyped
  <2> QED
    BY <2>1, <2>2, AppliesExactly
<1> QED
  BY <1>1, Invariance, PTL

\* What verify_data_hash accepts excludes one wrapper that is there, whole, in a
\* text without corrupted candidates, and its hash is that of everything else,
\* whatever the assertion names.
THEOREM OneWrapperVerified == Spec => []VerifiesOneWrapper
<1>1. IInv => VerifiesOneWrapper
  <2> SUFFICES ASSUME IInv, invoked.entry = "verify", result = Ok(TRUE)
               PROVE  /\ \E w \in LocateAll(text) : exclusions = <<RangeOf(w)>>
                      /\ ~HasCorruptedCandidate(text)
                      /\ dataHash.hash = Digest(dataHash.alg, Nfc(KeptChars(text, exclusions)))
    BY DEF VerifiesOneWrapper
  <2>1. invoked \in Calls /\ pc = "done"
    BY Results DEF IInv, ShapeOK
  <2>2. text \in Seq(Char) /\ exclusions \in Seq(Exclusions)
    BY <2>1, CallTyped
  <2>3. IsOk(VerifyDataHash(text, dataHash))
    BY <2>1, Results DEF IInv, AnswersHardBinding
  <2>4. dataHash.exclusions \in Seq(Exclusions)
    BY <2>2 DEF exclusions
  <2>5. /\ ~HasCorruptedCandidate(text)
        /\ \E w \in LocateAll(text) :
             /\ WrapperEnd(w) <= USIZE_MAX
             /\ dataHash.exclusions = <<RangeOf(w)>>
             /\ Digest(dataHash.alg, Nfc(Without(text, w))) = dataHash.hash
    BY <2>2, <2>3, <2>4, VerifiesExactly
  <2>6. PICK w \in LocateAll(text) :
          /\ WrapperEnd(w) <= USIZE_MAX
          /\ exclusions = <<RangeOf(w)>>
          /\ Digest(dataHash.alg, Nfc(Without(text, w))) = dataHash.hash
    BY <2>5 DEF exclusions
  <2>7. ApplyExclusions(text, exclusions) = Ok(Without(text, w))
    BY <2>2, <2>6, HashedWithout
  <2>8. KeptChars(text, exclusions) = Without(text, w)
    <3>1. ApplyExclusions(text, exclusions)
            = IF Legal(text, exclusions) THEN Ok(KeptChars(text, exclusions))
                                         ELSE Err("MalformedExclusion")
      BY <2>2, AppliesExactly
    <3>2. CASE Legal(text, exclusions)
      <4>1. Ok(KeptChars(text, exclusions)) = Ok(Without(text, w))
        BY <2>7, <3>1, <3>2
      <4>2. Ok(KeptChars(text, exclusions)).ok = Ok(Without(text, w)).ok
        BY <4>1
      <4> QED
        BY <4>2, Results
    <3>3. CASE ~Legal(text, exclusions)
      <4>1. Err("MalformedExclusion") = Ok(Without(text, w))
        BY <2>7, <3>1, <3>3
      <4>2. IsOk(Err("MalformedExclusion")) = IsOk(Ok(Without(text, w)))
        BY <4>1
      <4> QED
        BY <4>2, Results
    <3> QED
      BY <3>2, <3>3
  <2> QED
    BY <2>5, <2>6, <2>8
<1> QED
  BY <1>1, Invariance, PTL
=============================================================================
