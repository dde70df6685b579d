------------------------------ MODULE ScanLoop ------------------------------
(***************************************************************************)
(* wrapper::extract as it runs: two passes of scan over the text, the      *)
(* first with the visitor of has_corrupted_candidate, the second with that *)
(* of locate_all.  Each pass walks the text by byte offset, slicing it at  *)
(* offsets it computed itself; a slice inside a character panics.          *)
(*                                                                         *)
(* Module Wrapper says in one expression what the passes find: this module *)
(* is the evidence that the loops compute it.                              *)
(***************************************************************************)
EXTENDS Wrapper

CONSTANT Texts   \* the texts handed to extract

ASSUME TextsAssumption == Texts \subseteq Seq(Char)

VARIABLES
  text,
  pass,       \* "corrupted", then "locate", then "done"
  from,       \* byte offset the next find starts at
  start,      \* byte offset of the marker under inspection, or None
  run,        \* bytes decoded of its run so far
  consumed,   \* byte length of the run so far
  corrupted,  \* the flag of has_corrupted_candidate
  found,      \* the Vec of locate_all
  result

vars == <<text, pass, from, start, run, consumed, corrupted, found, result>>

None == -1

\* &text[offset..]
Rest(offset) == Slice(text, offset, ByteLen(text))

RunStart == start + LenUtf8(MARKER)
End      == RunStart + consumed

Init ==
  /\ text \in Texts
  /\ pass = "corrupted"
  /\ from = 0
  /\ start = None
  /\ run = <<>>
  /\ consumed = 0
  /\ corrupted = FALSE
  /\ found = <<>>
  /\ result = None

Scanning == pass \in {"corrupted", "locate"}

\* text[from..].find(MARKER) is Some(rel).
FindMarker ==
  /\ Scanning /\ start = None
  /\ LET rest == Rest(from)
     IN  \E i \in 1 .. Len(rest) :
           /\ rest[i] = MARKER
           /\ \A j \in 1 .. i - 1 : rest[j] # MARKER
           /\ start' = from + Offset(rest, i - 1)
  /\ run' = <<>>
  /\ consumed' = 0
  /\ UNCHANGED <<text, pass, from, corrupted, found, result>>

\* One iteration of decode_run that pushes a byte.
DecodeSelector ==
  /\ Scanning /\ start # None
  /\ LET rest == Rest(End)
     IN  /\ rest # <<>> /\ IsVs(Head(rest))
         /\ run' = Append(run, VsToByte(Head(rest)))
         /\ consumed' = consumed + LenUtf8(Head(rest))
  /\ UNCHANGED <<text, pass, from, start, corrupted, found, result>>

\* The next find starts at the marker just inspected.
Resume_AtMarker(end, runStart) == runStart - LenUtf8(MARKER)

\* One byte, not one character, past the marker's start.
Resume_NextByte(end, runStart) == runStart - LenUtf8(MARKER) + 1

\* The marker's length is added once more.
Resume_PastRun(end, runStart) == end + LenUtf8(MARKER)

\* end.max(run_start)
Resume(end, runStart) == IF end >= runStart THEN end ELSE runStart

\* The visitor of has_corrupted_candidate forgets what it saw before.
VisitForCorrupted_LastWins ==
  /\ corrupted' = (HasMagic(run) /\ DecodeFrame(run, start, End - start) = {})
  /\ UNCHANGED found

VisitForCorrupted ==
  /\ corrupted' = \/ corrupted
                  \/ HasMagic(run) /\ DecodeFrame(run, start, End - start) = {}
  /\ UNCHANGED found

\* The length is counted from where the find started.
VisitForLocate_LengthFromFind ==
  /\ found' = IF Decodes(run)
              THEN Append(found, CHOOSE w \in DecodeFrame(run, start, End - from) : TRUE)
              ELSE found
  /\ UNCHANGED corrupted

VisitForLocate ==
  /\ found' = IF Decodes(run)
              THEN Append(found, CHOOSE w \in DecodeFrame(run, start, End - start) : TRUE)
              ELSE found
  /\ UNCHANGED corrupted

\* The run ends at the end of the text or at any other character.
EndRun ==
  /\ Scanning /\ start # None
  /\ LET rest == Rest(End) IN rest # <<>> => ~IsVs(Head(rest))
  /\ IF pass = "corrupted" THEN VisitForCorrupted ELSE VisitForLocate
  /\ from' = Resume(End, RunStart)
  /\ start' = None
  /\ UNCHANGED <<text, pass, run, consumed, result>>

NoMarkerLeft ==
  /\ Scanning /\ start = None
  /\ LET rest == Rest(from) IN \A i \in 1 .. Len(rest) : rest[i] # MARKER

\* if has_corrupted_candidate(text) { return Err(CorruptedWrapper) }
EndCorruptedPass ==
  /\ pass = "corrupted" /\ NoMarkerLeft
  /\ IF corrupted THEN pass' = "done" /\ result' = Err("CorruptedWrapper")
                  ELSE pass' = "locate" /\ result' = result
  /\ from' = 0
  /\ UNCHANGED <<text, start, run, consumed, corrupted, found>>

\* match found.len()
EndLocatePass ==
  /\ pass = "locate" /\ NoMarkerLeft
  /\ pass' = "done"
  /\ result' = CASE Len(found) = 1 -> Ok(found[1])
                 [] Len(found) = 0 -> Err("NotFound")
                 [] OTHER          -> Err("MultipleWrappers")
  /\ UNCHANGED <<text, from, start, run, consumed, corrupted, found>>

Next ==
  \/ FindMarker
  \/ DecodeSelector
  \/ EndRun
  \/ EndCorruptedPass
  \/ EndLocatePass

\* A loop runs until it ends: nothing else is scheduled.
Spec == Init /\ [][Next]_vars /\ WF_vars(Next)

-----------------------------------------------------------------------------
(* Properties *)

TypeOK ==
  /\ pass \in {"corrupted", "locate", "done"}
  /\ from \in 0 .. ByteLen(text)
  /\ start \in {None} \cup 0 .. ByteLen(text)
  /\ run \in Seq(Byte)
  /\ consumed \in 0 .. ByteLen(text)
  /\ found \in Seq(Wrappers)

\* No slice of scan or decode_run panics: every offset it slices at is the
\* boundary of a character, whatever mix of two-, three- and four-byte
\* characters the runs and the host text are made of.
SlicesOnBoundaries ==
  /\ IsCharBoundary(text, from)
  /\ start # None => IsCharBoundary(text, start) /\ IsCharBoundary(text, End)

\* The two passes answer what module Wrapper says extract answers.
AnswersExtract == pass = "done" => result = Extract(text)

\* locate_all returns the wrappers "in order of appearance", and no two of
\* their byte ranges overlap, so every one of them is a legal exclusion.
InOrderOfAppearance ==
  \A i, j \in 1 .. Len(found) :
    i < j => WrapperEnd(found[i]) <= found[j].start

\* decode_exact, which rejects, and decode_run, which stops, agree wherever the
\* scan has come to: a rest is decoded exactly if it is nothing but a run.
DecodersAgree ==
  LET rest    == Rest(from)
      decoded == DecodeRun(rest)
  IN  DecodeExact(rest) = IF decoded.consumed = ByteLen(rest)
                          THEN Ok(decoded.bytes) ELSE Err("CorruptedWrapper")

\* scan always resumes further on, so extract returns.
Terminates == <>(pass = "done")

\* The byte offset the pass has come to.
Reached == IF start = None THEN from ELSE End

PassesLeft == CASE pass = "corrupted" -> 2
                [] pass = "locate"    -> 1
                [] OTHER              -> 0

\* What the passes have in front of them, and whether a run is open.
StepsLeft ==
  PassesLeft * (2 * ByteLen(text) + 2)
    + 2 * (ByteLen(text) - Reached) + (IF start = None THEN 0 ELSE 1)

\* Why extract returns, whatever the text: every step of the two passes comes
\* nearer to the end of the second, so they take at most six steps for a byte
\* of the text and four more.
StepsRunOut == [][StepsLeft' \in Nat /\ StepsLeft' < StepsLeft]_vars
=============================================================================
