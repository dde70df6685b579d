---------------------------- MODULE DataHashJson ----------------------------
(***************************************************************************)
(* DataHash::to_json and base64 (src/hardbinding.rs): a computed binding   *)
(* written out as JSON, piece by piece, for the manifest it goes into.     *)
(*                                                                         *)
(* The text written is a sequence of symbols: a character of Base64, a     *)
(* character of a name, or a whole word, number or bracket.                *)
(***************************************************************************)
EXTENDS Integers, Sequences, TLC

CONSTANT DataHashes   \* the bindings written out

\* An Option<String> is a sequence of at most one name.
ASSUME DataHashesAssumption ==
  \A d \in DataHashes :
    /\ d.exclusions \in Seq([start : Nat, length : Nat])
    /\ d.alg \in STRING
    /\ d.hash \in Seq(0 .. 255) /\ d.pad \in Seq(0 .. 255)
    /\ d.name \in Seq(Seq(STRING)) /\ Len(d.name) <= 1

VARIABLES
  dataHash,
  pc,      \* what is written next
  done,    \* how many ranges, or bytes, of it have been written
  json

vars == <<dataHash, pc, done, json>>

Quote   == "QUOTE"     \* the quotation mark
Control == "CONTROL"   \* a character of U+0000 to U+001F
Pad     == "="

\* A number in decimal, one symbol.
Decimal(n) == ToString(n)

\* The table T of base64.
T ==
  <<"A", "B", "C", "D", "E", "F", "G", "H", "I", "J", "K", "L", "M", "N", "O", "P",
    "Q", "R", "S", "T", "U", "V", "W", "X", "Y", "Z", "a", "b", "c", "d", "e", "f",
    "g", "h", "i", "j", "k", "l", "m", "n", "o", "p", "q", "r", "s", "t", "u", "v",
    "w", "x", "y", "z", "0", "1", "2", "3", "4", "5", "6", "7", "8", "9", "+", "/">>

\* The bytes of a chunk of up to three as one number, missing ones as zero.
Number(chunk) ==
  LET b == [i \in 1 .. 3 |-> IF i <= Len(chunk) THEN chunk[i] ELSE 0]
  IN  (b[1] * 256 + b[2]) * 256 + b[3]

\* T[(n >> 18) & 63], and 12, 6 and 0 in place of 18
Letter(n, k) == T[1 + ((n \div <<1, 64, 4096, 262144>>[k + 1]) % 64)]

\* A short chunk is padded by one character too many.
Symbols_Truncating(chunk) ==
  LET n == Number(chunk)
  IN  <<Letter(n, 3),
        IF Len(chunk) > 1 THEN Letter(n, 2) ELSE Pad,
        IF Len(chunk) > 2 THEN Letter(n, 1) ELSE Pad,
        IF Len(chunk) > 2 THEN Letter(n, 0) ELSE Pad>>

\* One chunk becomes four characters.
Symbols(chunk) ==
  LET n == Number(chunk)
  IN  <<Letter(n, 3),
        Letter(n, 2),
        IF Len(chunk) > 1 THEN Letter(n, 1) ELSE Pad,
        IF Len(chunk) > 2 THEN Letter(n, 0) ELSE Pad>>

Init ==
  /\ dataHash \in DataHashes
  /\ pc = "exclusions"
  /\ done = 0
  /\ json = <<"{", Quote, "exclusions", Quote, ":", "[">>

Write(symbols) == json' = json \o symbols

Field(key) == <<Quote, key, Quote, ":">>

Then(field) == pc' = field /\ done' = 0 /\ UNCHANGED dataHash

\* ranges.join(",")
WriteRange ==
  /\ pc = "exclusions" /\ done < Len(dataHash.exclusions)
  /\ LET ex == dataHash.exclusions[done + 1]
     IN  Write((IF done = 0 THEN <<>> ELSE <<",">>) \o <<"{">>
               \o Field("start") \o <<Decimal(ex.start), ",">>
               \o Field("length") \o <<Decimal(ex.length), "}">>)
  /\ done' = done + 1
  /\ UNCHANGED <<dataHash, pc>>

WriteAlg ==
  /\ pc = "exclusions" /\ done = Len(dataHash.exclusions)
  /\ Write(<<"]", ",">> \o Field("alg") \o <<Quote, dataHash.alg, Quote, ",">>
           \o Field("hash") \o <<Quote>>)
  /\ Then("hash")

\* The bytes base64 is given, and one chunk of them.
Bytes == IF pc = "hash" THEN dataHash.hash ELSE dataHash.pad

WriteChunk ==
  /\ pc \in {"hash", "pad"} /\ done < Len(Bytes)
  /\ LET size == IF Len(Bytes) - done < 3 THEN Len(Bytes) - done ELSE 3
     IN  /\ Write(Symbols(SubSeq(Bytes, done + 1, done + size)))
         /\ done' = done + size
  /\ UNCHANGED <<dataHash, pc>>

EndHash ==
  /\ pc = "hash" /\ done = Len(Bytes)
  /\ Write(<<Quote, ",">> \o Field("pad") \o <<Quote>>)
  /\ Then("pad")

\* The name is copied as it is.
WriteName(name) ==
  IF name = <<>> THEN <<>> ELSE <<",">> \o Field("name") \o <<Quote>> \o name[1] \o <<Quote>>

EndPad ==
  /\ pc = "pad" /\ done = Len(Bytes)
  /\ Write(<<Quote>> \o WriteName(dataHash.name) \o <<"}">>)
  /\ Then("done")

Next == WriteRange \/ WriteAlg \/ WriteChunk \/ EndHash \/ EndPad

Spec == Init /\ [][Next]_vars

-----------------------------------------------------------------------------
(* Properties *)

\* What stands outside of strings beside numbers.
Punctuation == {"{", "}", "[", "]", ":", ","}

\* A reader of JSON (RFC 8259): where it stands, the strings and the numbers read
\* so far.
Unread == [mode |-> "outside", strings |-> <<>>, numbers |-> <<>>]

\* The string that is read goes on with c.
Into(r, c) ==
  [r EXCEPT !.mode = "string",
            !.strings = Append(SubSeq(@, 1, Len(@) - 1), Append(@[Len(@)], c))]

OutsideString(r, c) ==
  IF c = Quote THEN [r EXCEPT !.mode = "string", !.strings = Append(@, <<>>)]
  ELSE IF c \in Punctuation THEN r
  ELSE [r EXCEPT !.numbers = Append(@, c)]

\* "All Unicode characters may be placed within the quotation marks, except for
\* the characters that MUST be escaped: quotation mark, reverse solidus, and the
\* control characters".
InsideString(r, c) ==
  CASE c = Quote   -> [r EXCEPT !.mode = "outside"]
    [] c = "\\"    -> [r EXCEPT !.mode = "escape"]
    [] c = Control -> [r EXCEPT !.mode = "unreadable"]
    [] OTHER       -> Into(r, c)

\* The escapes of two characters.  (The four digits behind u are not modelled: an
\* escape by number counts as unreadable.)
BehindBackslash(r, c) ==
  CASE c \in {Quote, "\\", "/"}           -> Into(r, c)
    [] c \in {"b", "f", "n", "r", "t"}    -> Into(r, Control)
    [] OTHER                              -> [r EXCEPT !.mode = "unreadable"]

ReadOn(r, c) ==
  CASE r.mode = "outside"    -> OutsideString(r, c)
    [] r.mode = "string"     -> InsideString(r, c)
    [] r.mode = "escape"     -> BehindBackslash(r, c)
    [] r.mode = "unreadable" -> r

ReadFrom(r, s) ==
  LET read[i \in 0 .. Len(s)] == IF i = 0 THEN r ELSE ReadOn(read[i - 1], s[i])
  IN  read[Len(s)]

Read(s) == ReadFrom(Unread, s)

\* RFC 4648, section 4, the other way: the bytes four characters stand for.
Value(c) == IF c = Pad THEN 0 ELSE (CHOOSE v \in 1 .. 64 : T[v] = c) - 1
Unbase64(s) ==
  LET pads == IF s = <<>> \/ s[Len(s)] # Pad THEN 0
              ELSE IF s[Len(s) - 1] # Pad THEN 1 ELSE 2
      n(g) == ((Value(s[4*g + 1]) * 64 + Value(s[4*g + 2])) * 64
                 + Value(s[4*g + 3])) * 64 + Value(s[4*g + 4])
  IN  [i \in 1 .. 3 * (Len(s) \div 4) - pads |->
         (n((i - 1) \div 3) \div <<65536, 256, 1>>[1 + ((i - 1) % 3)]) % 256]

\* Behind the first, strings come in pairs: start and length, or a field and its
\* value.
ValueOf(strings, k) ==
  strings[1 + CHOOSE i \in DOMAIN strings : i % 2 = 0 /\ strings[i] = <<k>>]

\* "the hash as standard Base64 ... the field set matches the data-hash-map CDDL":
\* a reader gets back the fields that were written, byte for byte, and the
\* ranges in the order of the assertion.
ReadsBack ==
  pc = "done" =>
    LET strings == Read(json).strings
        ranges  == 2 * Len(dataHash.exclusions)
    IN  /\ Read(json).mode = "outside"
        /\ Len(strings) = 7 + ranges + 2 * Len(dataHash.name)
        /\ ValueOf(strings, "alg") = <<dataHash.alg>>
        /\ Unbase64(ValueOf(strings, "hash")) = dataHash.hash
        /\ Unbase64(ValueOf(strings, "pad")) = dataHash.pad
        /\ Read(json).numbers =
             [i \in 1 .. ranges |->
                LET ex == dataHash.exclusions[(i + 1) \div 2]
                IN  Decimal(IF i % 2 = 1 THEN ex.start ELSE ex.length)]
        /\ dataHash.name # <<>> => ValueOf(strings, "name") = dataHash.name[1]

\* An alg and a name without a character that must be escaped, and numbers that
\* are symbols of their own.
Legible(d) ==
  /\ d.alg \notin {Quote, "\\", Control}
  /\ d.name # <<>> =>
       \A j \in 1 .. Len(d.name[1]) : d.name[1][j] \notin {Quote, "\\", Control}
  /\ \A i \in 1 .. Len(d.exclusions) :
       \A n \in {d.exclusions[i].start, d.exclusions[i].length} :
         Decimal(n) \notin Punctuation \cup {Quote}
=============================================================================
