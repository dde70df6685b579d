------------------------ MODULE DataHashJsonProofs ------------------------
(***************************************************************************)
(* What DataHash::to_json writes reads back, for every binding whose alg   *)
(* and name hold no quotation mark, no backslash and no control character: *)
(* every length of the list of ranges, of the hash and of the pad.         *)
(*                                                                         *)
(* First the reader: what it makes of a piece of text depends on nothing   *)
(* but the state the text before has left it in.  Then base64: four        *)
(* characters hold the bytes they were made of.  Then the writer: after    *)
(* every step, the reader has got exactly what has been written.           *)
(***************************************************************************)
EXTENDS DataHashJson, VariationSelectorsProofs

-----------------------------------------------------------------------------
(* The reader *)

\* The states of a reader of symbols of A.
Readers(A) ==
  {r \in [mode : {"outside", "string", "escape", "unreadable"},
          strings : Seq(Seq(A)), numbers : Seq(A)] :
     r.mode # "outside" => r.strings # <<>>}

\* Outside of a string, after the strings S and the numbers N; and inside one of
\* which it has read w.
Outside(S, N)   == [mode |-> "outside", strings |-> S, numbers |-> N]
Inside(S, N, w) == [mode |-> "string", strings |-> Append(S, w), numbers |-> N]

\* What a string may hold to be read as it is written.
Plain(A) == {c \in A : c # Quote /\ c # "\\" /\ c # Control}

\* A text of plain characters is a text.
LEMMA PlainSeq ==
  ASSUME NEW A, NEW s \in Seq(Plain(A))
  PROVE  s \in Seq(A) /\ \A i \in 1 .. Len(s) : s[i] \in Plain(A) /\ s[i] \in A
<1>1. Len(s) \in Nat /\ s \in [1 .. Len(s) -> Plain(A)]
  OBVIOUS
<1>2. \A i \in 1 .. Len(s) : s[i] \in Plain(A)
  BY <1>1
<1>3. s \in [1 .. Len(s) -> A]
  BY <1>1, <1>2 DEF Plain
<1> QED
  BY <1>1, <1>2, <1>3 DEF Plain

\* The last element of a sequence may be replaced.
LEMMA ReplaceLast ==
  ASSUME NEW S, NEW s \in Seq(S), s # <<>>, NEW e \in S
  PROVE  /\ s[Len(s)] \in S
         /\ Append(SubSeq(s, 1, Len(s) - 1), e) \in Seq(S)
         /\ Append(SubSeq(s, 1, Len(s) - 1), e) # <<>>
<1>1. Len(s) \in Nat /\ Len(s) # 0
  OBVIOUS
<1> DEFINE t == SubSeq(s, 1, Len(s) - 1)
<1>2. t \in Seq(S)
  BY <1>1, PartProperties
<1> HIDE DEF t
<1>3. Append(t, e) \in Seq(S) /\ Len(Append(t, e)) # 0
  BY <1>2
<1>4. s[Len(s)] \in S
  BY <1>1, ElementOfSeq
<1> QED
  BY <1>3, <1>4 DEF t

\* A reader adds a symbol to the string it is in, the last one.
LEMMA ReplaceAppended ==
  ASSUME NEW S, NEW s \in Seq(S), NEW d \in S, NEW e
  PROVE  /\ Append(s, d)[Len(Append(s, d))] = d
         /\ Append(SubSeq(Append(s, d), 1, Len(Append(s, d)) - 1), e) = Append(s, e)
<1>1. /\ Append(s, d) \in Seq(S) /\ Len(Append(s, d)) = Len(s) + 1 /\ Len(s) \in Nat
      /\ Append(s, d)[Len(s) + 1] = d
      /\ \A i \in 1 .. Len(s) : Append(s, d)[i] = s[i]
  OBVIOUS
<1> DEFINE t == SubSeq(Append(s, d), 1, Len(s))
<1>2. t \in Seq(S) /\ Len(t) = Len(s) /\ \A i \in 1 .. Len(s) : t[i] = s[i]
  BY <1>1, PartProperties
<1>3. t = s
  <2> HIDE DEF t
  <2> QED
    BY <1>2, SeqEqual
<1> QED
  BY <1>1, <1>3

\* Where a reader may stand.
Modes == {"outside", "string", "escape", "unreadable"}

\* A reader may go elsewhere, as long as there is a string where it is in one.
LEMMA Moved ==
  ASSUME NEW A, NEW r \in Readers(A), NEW m \in Modes, m # "outside" => r.strings # <<>>
  PROVE  [r EXCEPT !.mode = m] \in Readers(A)
BY DEF Readers, Modes

\* What it reads goes into the last string.
LEMMA IntoTyped ==
  ASSUME NEW A, NEW r \in Readers(A), r.strings # <<>>, NEW c \in A
  PROVE  Into(r, c) \in Readers(A)
<1> DEFINE last == r.strings[Len(r.strings)]
           u == Append(SubSeq(r.strings, 1, Len(r.strings) - 1), Append(last, c))
<1>1. r.strings \in Seq(Seq(A)) /\ r.numbers \in Seq(A)
  BY DEF Readers
<1>2. last \in Seq(A)
  BY <1>1, ReplaceLast
<1>3. Append(last, c) \in Seq(A)
  BY <1>2
<1>4. Into(r, c) = [r EXCEPT !.mode = "string", !.strings = u]
  BY DEF Into
<1> HIDE DEF last
<1>5. u \in Seq(Seq(A)) /\ u # <<>>
  BY <1>1, <1>3, ReplaceLast
<1> HIDE DEF u
<1> QED
  BY <1>1, <1>4, <1>5 DEF Readers

\* A reader stays a reader.
LEMMA ReadOnTyped ==
  ASSUME NEW A, Control \in A, NEW r \in Readers(A), NEW c \in A
  PROVE  ReadOn(r, c) \in Readers(A)
<1>1. /\ r.mode \in Modes
      /\ r.strings \in Seq(Seq(A)) /\ r.numbers \in Seq(A)
      /\ r.mode # "outside" => r.strings # <<>>
  BY DEF Readers, Modes
<1>2. CASE r.mode = "outside"
  <2>1. ReadOn(r, c) = OutsideString(r, c)
    BY <1>2 DEF ReadOn
  <2>2. /\ Append(r.strings, <<>>) \in Seq(Seq(A)) /\ Append(r.strings, <<>>) # <<>>
        /\ Append(r.numbers, c) \in Seq(A)
    BY <1>1
  <2> QED
    BY <1>1, <1>2, <2>1, <2>2 DEF OutsideString, Readers
<1>3. CASE r.mode = "string"
  <2>1. ReadOn(r, c) = InsideString(r, c)
    BY <1>3 DEF ReadOn
  <2>2. /\ Into(r, c) \in Readers(A)
        /\ \A m \in Modes : [r EXCEPT !.mode = m] \in Readers(A)
    BY <1>1, <1>3, Moved, IntoTyped
  <2> QED
    BY <2>1, <2>2 DEF InsideString, Modes
<1>4. CASE r.mode = "escape"
  <2>1. ReadOn(r, c) = BehindBackslash(r, c)
    BY <1>4 DEF ReadOn
  <2>2. /\ Into(r, c) \in Readers(A) /\ Into(r, Control) \in Readers(A)
        /\ \A m \in Modes : [r EXCEPT !.mode = m] \in Readers(A)
    BY <1>1, <1>4, Moved, IntoTyped
  <2> QED
    BY <2>1, <2>2 DEF BehindBackslash, Modes
<1>5. CASE r.mode = "unreadable"
  BY <1>5 DEF ReadOn
<1> QED
  BY <1>1, <1>2, <1>3, <1>4, <1>5 DEF Modes

\* The states of a reader of s, one for every prefix of it.
ReadStates(r, s, f) == f[0] = r /\ \A i \in 1 .. Len(s) : f[i] = ReadOn(f[i - 1], s[i])

\* ReadFrom goes through such states, and there are no others.
LEMMA ReadFromStates ==
  ASSUME NEW A, Control \in A, NEW r \in Readers(A), NEW s \in Seq(A)
  PROVE  \E f \in [0 .. Len(s) -> Readers(A)] :
           ReadStates(r, s, f) /\ ReadFrom(r, s) = f[Len(s)]
<1> DEFINE n == Len(s)
           g == [k \in 1 .. n |-> [q \in Readers(A) |-> ReadOn(q, s[k])]]
           fix(f) == f = [i \in 0 .. n |-> IF i = 0 THEN r ELSE ReadOn(f[i - 1], s[i])]
<1>1. n \in Nat /\ \A k \in 1 .. n : s[k] \in A
  BY ElementOfSeq
<1>2. g \in [1 .. n -> [Readers(A) -> Readers(A)]]
  BY <1>1, ReadOnTyped
<1>3. PICK f \in [0 .. n -> Readers(A)] : Stepwise(f, n, r, g)
  <2> HIDE DEF g, n
  <2> QED
    BY <1>1, <1>2, StepwiseFunction
<1>4. ReadStates(r, s, f)
  <2>1. f[0] = r
    BY <1>3 DEF Stepwise
  <2>2. ASSUME NEW i \in 1 .. n
        PROVE  f[i] = ReadOn(f[i - 1], s[i])
    <3>1. i - 1 \in 0 .. n
      BY <1>1
    <3>2. f[i - 1] \in Readers(A)
      BY <3>1
    <3>3. f[i] = g[i][f[i - 1]]
      BY <1>3 DEF Stepwise
    <3>4. g[i] = [q \in Readers(A) |-> ReadOn(q, s[i])]
      OBVIOUS
    <3> HIDE DEF g
    <3> QED
      BY <3>2, <3>3, <3>4
  <2> QED
    BY <2>1, <2>2 DEF ReadStates
<1>5. fix(f)
  BY <1>1, <1>4 DEF ReadStates
<1> DEFINE read == CHOOSE h : fix(h)
<1>6. fix(read)
  <2> HIDE DEF fix
  <2> QED
    BY <1>5
<1>7. ReadFrom(r, s) = read[n]
  BY DEF ReadFrom
<1>8. \A i \in 0 .. n : read[i] = f[i]
  <2> DEFINE D == {k \in Nat : k <= n => read[k] = f[k]}
  <2>1. 0 \in D
    <3> HIDE DEF read, n
    <3>1. read[0] = r
      BY <1>1, <1>6
    <3>2. f[0] = r
      BY <1>4 DEF ReadStates
    <3> QED
      BY <3>1, <3>2
  <2>2. ASSUME NEW k \in D
        PROVE  k + 1 \in D
    <3>1. CASE k + 1 <= n
      <4>1. k + 1 \in 0 .. n /\ k + 1 # 0 /\ (k + 1) - 1 = k /\ k + 1 \in 1 .. n
        BY <1>1, <3>1
      <4>2. read[k + 1] = ReadOn(read[k], s[k + 1])
        BY <1>6, <4>1
      <4>3. f[k + 1] = ReadOn(f[k], s[k + 1])
        BY <1>4, <4>1 DEF ReadStates
      <4>4. read[k] = f[k]
        BY <1>1, <3>1
      <4> HIDE DEF read
      <4> QED
        BY <4>2, <4>3, <4>4
    <3>2. CASE ~(k + 1 <= n)
      BY <3>2
    <3> QED
      BY <3>1, <3>2
  <2>3. D = Nat
    <3> HIDE DEF D
    <3> QED
      BY <2>1, <2>2, NatSetInduction DEF D
  <2> QED
    BY <1>1, <2>3
<1> HIDE DEF read
<1> QED
  BY <1>1, <1>3, <1>4, <1>7, <1>8

\* There are no others.
LEMMA ReadStatesUnique ==
  ASSUME NEW r, NEW s, Len(s) \in Nat, NEW f, NEW h,
         ReadStates(r, s, f), ReadStates(r, s, h)
  PROVE  f[Len(s)] = h[Len(s)]
<1> DEFINE D == {k \in Nat : k <= Len(s) => f[k] = h[k]}
<1>1. 0 \in D
  BY DEF ReadStates
<1>2. ASSUME NEW k \in D
      PROVE  k + 1 \in D
  <2>1. CASE k + 1 <= Len(s)
    <3>1. k + 1 \in 1 .. Len(s) /\ (k + 1) - 1 = k /\ f[k] = h[k]
      BY <2>1
    <3> QED
      BY <3>1 DEF ReadStates
  <2> QED
    BY <2>1
<1>3. D = Nat
  <2> HIDE DEF D
  <2> QED
    BY <1>1, <1>2, NatSetInduction DEF D
<1> QED
  BY <1>3

\* ReadFrom is the last of the states it runs through.
LEMMA ReadFromIs ==
  ASSUME NEW A, Control \in A, NEW r \in Readers(A), NEW s \in Seq(A), NEW f, ReadStates(r, s, f)
  PROVE  ReadFrom(r, s) = f[Len(s)]
<1>1. PICK h \in [0 .. Len(s) -> Readers(A)] :
        ReadStates(r, s, h) /\ ReadFrom(r, s) = h[Len(s)]
  BY ReadFromStates
<1> QED
  BY <1>1, ReadStatesUnique

\* A piece of text is read from the state the piece before it has left.
LEMMA ReadFromJoin ==
  ASSUME NEW A, Control \in A, NEW r \in Readers(A), NEW s \in Seq(A), NEW t \in Seq(A)
  PROVE  /\ ReadFrom(r, s) \in Readers(A)
         /\ ReadFrom(r, s \o t) = ReadFrom(ReadFrom(r, s), t)
<1>1. PICK f \in [0 .. Len(s) -> Readers(A)] :
        ReadStates(r, s, f) /\ ReadFrom(r, s) = f[Len(s)]
  BY ReadFromStates
<1>2. Len(s) \in Nat /\ Len(t) \in Nat
  OBVIOUS
<1>3. ReadFrom(r, s) \in Readers(A)
  BY <1>1, <1>2
<1>4. PICK h \in [0 .. Len(t) -> Readers(A)] :
        /\ ReadStates(ReadFrom(r, s), t, h)
        /\ ReadFrom(ReadFrom(r, s), t) = h[Len(t)]
  BY <1>3, ReadFromStates
<1> DEFINE u == s \o t
           e == [i \in 0 .. Len(s) + Len(t) |-> IF i <= Len(s) THEN f[i] ELSE h[i - Len(s)]]
<1>5. /\ u \in Seq(A) /\ Len(u) = Len(s) + Len(t)
      /\ \A i \in 1 .. Len(s) : u[i] = s[i]
      /\ \A i \in 1 .. Len(t) : u[Len(s) + i] = t[i]
  BY JoinProperties
<1>6. h[0] = f[Len(s)]
  BY <1>1, <1>4 DEF ReadStates
<1> HIDE DEF u
<1>7. /\ \A i \in 0 .. Len(s) : e[i] = f[i]
      /\ \A i \in 0 .. Len(t) : e[Len(s) + i] = h[i]
  BY <1>2, <1>6
<1> HIDE DEF e
<1>8. ReadStates(r, u, e)
  <2>1. e[0] = r
    BY <1>1, <1>2, <1>7 DEF ReadStates
  <2>2. ASSUME NEW i \in 1 .. Len(u)
        PROVE  e[i] = ReadOn(e[i - 1], u[i])
    <3>1. CASE i <= Len(s)
      <4>1. i \in 1 .. Len(s) /\ i - 1 \in 0 .. Len(s) /\ i \in 0 .. Len(s)
        BY <1>2, <1>5, <3>1
      <4> QED
        BY <1>1, <1>5, <1>7, <4>1 DEF ReadStates
    <3>2. CASE ~(i <= Len(s))
      <4> DEFINE k == i - Len(s)
      <4>1. /\ k \in 1 .. Len(t) /\ k - 1 \in 0 .. Len(t) /\ k \in 0 .. Len(t)
            /\ i = Len(s) + k /\ i - 1 = Len(s) + (k - 1)
        BY <1>2, <1>5, <3>2
      <4> HIDE DEF k
      <4>2. h[k] = ReadOn(h[k - 1], t[k])
        BY <1>4, <4>1 DEF ReadStates
      <4>3. e[i] = h[k] /\ e[i - 1] = h[k - 1] /\ u[i] = t[k]
        BY <1>5, <1>7, <4>1
      <4> QED
        BY <4>2, <4>3
    <3> QED
      BY <3>1, <3>2
  <2> QED
    BY <2>1, <2>2 DEF ReadStates
<1>9. ReadFrom(r, u) = e[Len(u)]
  BY <1>5, <1>8, ReadFromIs
<1>10. e[Len(u)] = h[Len(t)]
  BY <1>2, <1>5, <1>7
<1> QED
  BY <1>3, <1>4, <1>9, <1>10 DEF u

\* One symbol.
LEMMA ReadFromOne ==
  ASSUME NEW A, Control \in A, NEW r \in Readers(A), NEW c \in A
  PROVE  ReadFrom(r, <<c>>) = ReadOn(r, c)
<1> DEFINE f == [i \in 0 .. 1 |-> IF i = 0 THEN r ELSE ReadOn(r, c)]
<1>1. <<c>> \in Seq(A) /\ Len(<<c>>) = 1 /\ <<c>>[1] = c
  OBVIOUS
<1>2. ReadStates(r, <<c>>, f)
  BY <1>1 DEF ReadStates
<1>3. ReadFrom(r, <<c>>) = f[1]
  <2> HIDE DEF f
  <2> QED
    BY <1>1, <1>2, ReadFromIs
<1> QED
  BY <1>3

\* Both kinds of state are readers' states.
LEMMA States ==
  ASSUME NEW A, NEW S \in Seq(Seq(A)), NEW N \in Seq(A), NEW w \in Seq(A)
  PROVE  Outside(S, N) \in Readers(A) /\ Inside(S, N, w) \in Readers(A)
<1>1. Append(S, w) \in Seq(Seq(A)) /\ Len(Append(S, w)) # 0
  OBVIOUS
<1>2. Append(S, w) # <<>>
  BY <1>1
<1> HIDE <1>2
<1> DEFINE u == Append(S, w)
<1> HIDE DEF u
<1>3. u \in Seq(Seq(A)) /\ u # <<>>
  BY <1>1, <1>2 DEF u
<1>4. Inside(S, N, w) = [mode |-> "string", strings |-> u, numbers |-> N]
  BY DEF Inside, u
<1> QED
  BY <1>3, <1>4 DEF Outside, Readers

\* What one symbol does outside of a string, and the quotation mark at its end.
LEMMA ReadSymbol ==
  ASSUME NEW A, Quote \in A, Control \in A,
         NEW S \in Seq(Seq(A)), NEW N \in Seq(A), NEW c \in A
  PROVE  /\ c \in Punctuation => ReadFrom(Outside(S, N), <<c>>) = Outside(S, N)
         /\ c # Quote /\ c \notin Punctuation
              => ReadFrom(Outside(S, N), <<c>>) = Outside(S, Append(N, c))
         /\ ReadFrom(Outside(S, N), <<Quote>>) = Inside(S, N, <<>>)
<1>1. Outside(S, N) \in Readers(A)
  BY States
<1>2. ReadFrom(Outside(S, N), <<c>>) = ReadOn(Outside(S, N), c)
  BY <1>1, ReadFromOne
<1>3. ReadFrom(Outside(S, N), <<Quote>>) = ReadOn(Outside(S, N), Quote)
  BY <1>1, ReadFromOne
<1>4. c \in Punctuation => c # Quote
  BY DEF Punctuation, Quote
<1>5. c \in Punctuation => ReadOn(Outside(S, N), c) = Outside(S, N)
  BY <1>4 DEF ReadOn, OutsideString, Outside
<1>6. c # Quote /\ c \notin Punctuation
        => ReadOn(Outside(S, N), c) = Outside(S, Append(N, c))
  BY DEF ReadOn, OutsideString, Outside
<1>7. ReadOn(Outside(S, N), Quote) = Inside(S, N, <<>>)
  BY DEF ReadOn, OutsideString, Outside, Inside
<1> QED
  BY <1>2, <1>3, <1>5, <1>6, <1>7

\* One symbol inside of a string.
LEMMA ReadInside ==
  ASSUME NEW A, Quote \in A, Control \in A,
         NEW S \in Seq(Seq(A)), NEW N \in Seq(A), NEW w \in Seq(A), NEW c \in Plain(A)
  PROVE  /\ ReadOn(Inside(S, N, w), c) = Inside(S, N, Append(w, c))
         /\ ReadFrom(Inside(S, N, w), <<Quote>>) = Outside(Append(S, w), N)
<1> DEFINE u == Append(S, w)
           r == Inside(S, N, w)
           v == Append(SubSeq(u, 1, Len(u) - 1), Append(u[Len(u)], c))
<1>1. c # Quote /\ c # "\\" /\ c # Control
  BY DEF Plain
<1>2. v = Append(S, Append(w, c))
  BY ReplaceAppended
<1>3. r = [mode |-> "string", strings |-> u, numbers |-> N]
  BY DEF Inside
<1> HIDE DEF u, v, r
<1>4. ReadOn(r, c) = Into(r, c)
  BY <1>1, <1>3 DEF ReadOn, InsideString
<1>5. Into(r, c) = [mode |-> "string", strings |-> v, numbers |-> N]
  <2>1. r.strings = u
    BY <1>3
  <2>2. Into(r, c) = [r EXCEPT !.mode = "string", !.strings = v]
    BY <2>1 DEF Into, v
  <2> QED
    BY <1>3, <2>2
<1>6. ReadOn(r, c) = Inside(S, N, Append(w, c))
  BY <1>2, <1>4, <1>5 DEF Inside
<1> r.mode = "string" /\ Quote # "\\" /\ Quote # Control
  BY <1>3 DEF Quote, Control
<1>7. ReadOn(r, Quote) = Outside(u, N)
  <2>1. ReadOn(r, Quote) = [r EXCEPT !.mode = "outside"]
    BY <1>3 DEF ReadOn, InsideString
  <2>2. [r EXCEPT !.mode = "outside"] = [mode |-> "outside", strings |-> u, numbers |-> N]
    BY <1>3
  <2> QED
    BY <2>1, <2>2 DEF Outside
<1>8. ReadFrom(Inside(S, N, w), <<Quote>>) = ReadOn(Inside(S, N, w), Quote)
  BY States, ReadFromOne
<1> QED
  BY <1>6, <1>7, <1>8 DEF u, r

\* A text of plain characters becomes part of the string it stands in.
LEMMA ReadPlain ==
  ASSUME NEW A, Quote \in A, Control \in A,
         NEW S \in Seq(Seq(A)), NEW N \in Seq(A), NEW w \in Seq(A), NEW t \in Seq(Plain(A))
  PROVE  ReadFrom(Inside(S, N, w), t) = Inside(S, N, w \o t)
<1> DEFINE f == [i \in 0 .. Len(t) |-> Inside(S, N, w \o SubSeq(t, 1, i))]
<1>1. Len(t) \in Nat /\ t \in Seq(A) /\ \A i \in 1 .. Len(t) : t[i] \in Plain(A)
  BY PlainSeq, ElementOfSeq
<1>2. ASSUME NEW i \in 0 .. Len(t)
      PROVE  SubSeq(t, 1, i) \in Seq(A) /\ w \o SubSeq(t, 1, i) \in Seq(A)
  BY <1>1, PartProperties, JoinProperties
<1>3. SubSeq(t, 1, 0) = <<>> /\ w \o SubSeq(t, 1, 0) = w
  BY <1>1
<1>4. SubSeq(t, 1, Len(t)) = t
  BY <1>1
<1>5. ASSUME NEW i \in 1 .. Len(t)
      PROVE  w \o SubSeq(t, 1, i) = Append(w \o SubSeq(t, 1, i - 1), t[i])
  <2> DEFINE x == w \o SubSeq(t, 1, i)
             y == w \o SubSeq(t, 1, i - 1)
             z == Append(y, t[i])
  <2>1. i \in 0 .. Len(t) /\ i - 1 \in 0 .. Len(t) /\ t[i] \in A
    BY <1>1, ElementOfSeq
  <2>2. /\ Len(SubSeq(t, 1, i)) = i /\ Len(SubSeq(t, 1, i - 1)) = i - 1
        /\ \A k \in 1 .. i : SubSeq(t, 1, i)[k] = t[k]
        /\ \A k \in 1 .. i - 1 : SubSeq(t, 1, i - 1)[k] = t[k]
    BY <1>1, <2>1, PartProperties
  <2>3. /\ x \in Seq(A) /\ Len(x) = Len(w) + i
        /\ \A k \in 1 .. Len(w) : x[k] = w[k]
        /\ \A k \in 1 .. i : x[Len(w) + k] = SubSeq(t, 1, i)[k]
    BY <1>2, <2>1, <2>2, JoinProperties
  <2>4. /\ y \in Seq(A) /\ Len(y) = Len(w) + (i - 1)
        /\ \A k \in 1 .. Len(w) : y[k] = w[k]
        /\ \A k \in 1 .. i - 1 : y[Len(w) + k] = SubSeq(t, 1, i - 1)[k]
    BY <1>2, <2>1, <2>2, JoinProperties
  <2> HIDE DEF x, y
  <2>5. /\ z \in Seq(A) /\ Len(z) = Len(y) + 1 /\ z[Len(y) + 1] = t[i]
        /\ \A k \in 1 .. Len(y) : z[k] = y[k]
    BY <2>1, <2>4
  <2> HIDE DEF z
  <2>6. Len(w) \in Nat /\ Len(x) = Len(z)
    BY <1>1, <2>3, <2>4, <2>5
  <2>7. ASSUME NEW k \in 1 .. Len(x)
        PROVE  x[k] = z[k]
    <3>1. CASE k <= Len(w)
      <4>1. k \in 1 .. Len(w) /\ k \in 1 .. Len(y)
        BY <2>1, <2>3, <2>4, <2>6, <3>1
      <4> QED
        BY <2>3, <2>4, <2>5, <4>1
    <3>2. CASE ~(k <= Len(w)) /\ k # Len(w) + i
      <4> DEFINE m == k - Len(w)
      <4>1. m \in 1 .. i - 1 /\ m \in 1 .. i /\ k = Len(w) + m /\ k \in 1 .. Len(y)
        BY <2>1, <2>3, <2>4, <2>6, <3>2
      <4> HIDE DEF m
      <4> QED
        BY <2>2, <2>3, <2>4, <2>5, <4>1
    <3>3. CASE k = Len(w) + i
      <4>1. i \in 1 .. i /\ k = Len(y) + 1
        BY <2>1, <2>4, <2>6, <3>3
      <4> QED
        BY <2>2, <2>3, <2>5, <3>3, <4>1
    <3> QED
      BY <3>1, <3>2, <3>3
  <2>8. x = z
    BY <2>3, <2>5, <2>6, <2>7, SeqEqual
  <2> QED
    BY <2>8 DEF x, y, z
<1>6. Inside(S, N, w) \in Readers(A)
  BY States
<1>7. ReadStates(Inside(S, N, w), t, f)
  <2>1. f[0] = Inside(S, N, w)
    <3>1. f[0] = Inside(S, N, w \o SubSeq(t, 1, 0))
      BY <1>1
    <3> QED
      BY <1>3, <3>1
  <2>2. ASSUME NEW i \in 1 .. Len(t)
        PROVE  f[i] = ReadOn(f[i - 1], t[i])
    <3> DEFINE v == w \o SubSeq(t, 1, i - 1)
    <3>1. i \in 0 .. Len(t) /\ i - 1 \in 0 .. Len(t)
      BY <1>1
    <3>2. f[i] = Inside(S, N, w \o SubSeq(t, 1, i)) /\ f[i - 1] = Inside(S, N, v)
      BY <3>1
    <3>3. w \o SubSeq(t, 1, i) = Append(v, t[i])
      BY <1>5
    <3>4. v \in Seq(A) /\ t[i] \in Plain(A)
      BY <1>1, <1>2, <3>1
    <3> HIDE DEF v, f
    <3>5. ReadOn(Inside(S, N, v), t[i]) = Inside(S, N, Append(v, t[i]))
      BY <3>4, ReadInside
    <3> QED
      BY <3>2, <3>3, <3>5
  <2> HIDE DEF f
  <2> QED
    BY <2>1, <2>2 DEF ReadStates
<1>8. f[Len(t)] = Inside(S, N, w \o t)
  <2>1. f[Len(t)] = Inside(S, N, w \o SubSeq(t, 1, Len(t)))
    BY <1>1
  <2> QED
    BY <1>4, <2>1
<1> HIDE DEF f
<1> QED
  BY <1>1, <1>6, <1>7, <1>8, ReadFromIs

-----------------------------------------------------------------------------
(* Base64 *)

\* The table holds 64 different characters, none of which has another meaning.
LEMMA TableInjective ==
  ASSUME NEW i \in 1 .. 64, NEW k \in 1 .. 64, T[i] = T[k]
  PROVE  i = k
BY SMTT(60) DEF T

\* No letter of base64 ends a string or escapes what follows.
LEMMA TableLetters ==
  ASSUME NEW i \in 1 .. 64
  PROVE  T[i] # Pad /\ T[i] # Quote /\ T[i] # "\\" /\ T[i] # Control
BY SMTT(60) DEF T, Pad, Quote, Control

\* A letter has the value it was taken for, and the padding none.
LEMMA LetterValue ==
  ASSUME NEW v \in 0 .. 63
  PROVE  Value(T[1 + v]) = v /\ T[1 + v] # Pad
<1> DEFINE i == 1 + v
<1>1. i \in 1 .. 64
  OBVIOUS
<1>2. T[i] # Pad
  BY <1>1, TableLetters
<1> DEFINE w == CHOOSE u \in 1 .. 64 : T[u] = T[i]
<1>3. w \in 1 .. 64 /\ T[w] = T[i]
  <2> HIDE DEF i
  <2> QED
    BY <1>1
<1>4. w = i
  <2> HIDE DEF w, i
  <2> QED
    BY <1>1, <1>3, TableInjective
<1>5. Value(T[i]) = w - 1
  <2> HIDE DEF i
  <2> QED
    BY <1>2 DEF Value
<1> HIDE DEF w
<1> QED
  BY <1>2, <1>4, <1>5

\* The padding character counts for nothing.
LEMMA PadValue == Value(Pad) = 0
BY DEF Value

\* Division, where the quotient and the remainder are known.
LEMMA Divided ==
  /\ \A x, y, z \in Nat : x = y * 64 + z /\ z < 64 => x \div 64 = y /\ (x % 64) = z
  /\ \A x, y, z \in Nat : x = y * 256 + z /\ z < 256 => x \div 256 = y /\ (x % 256) = z
  /\ \A x, y, z \in Nat : x = y * 4096 + z /\ z < 4096 => x \div 4096 = y
  /\ \A x, y, z \in Nat : x = y * 65536 + z /\ z < 65536 => x \div 65536 = y
  /\ \A x, y, z \in Nat : x = y * 262144 + z /\ z < 262144 => x \div 262144 = y
BY SMT

Bits24(x) == x \in Nat /\ x < 16777216

\* A number of 24 bits has four digits to the base of 64.
Digits(x, a, b, c, d) ==
  /\ x = ((a * 64 + b) * 64 + c) * 64 + d
  /\ (x \div 262144) % 64 = a
  /\ (x \div 4096) % 64 = b
  /\ (x \div 64) % 64 = c
  /\ (x \div 1) % 64 = d

Letters(x, a, b, c, d) ==
  /\ Letter(x, 3) = T[1 + a] /\ Letter(x, 2) = T[1 + b]
  /\ Letter(x, 1) = T[1 + c] /\ Letter(x, 0) = T[1 + d]

\* The number of a chunk has four digits to the base of 64, each with its letter.
LEMMA FourDigits ==
  ASSUME NEW x, Bits24(x)
  PROVE  \E a, b, c, d \in 0 .. 63 : Digits(x, a, b, c, d) /\ Letters(x, a, b, c, d)
<1> DEFINE p == x \div 64
           d == x % 64
           q == p \div 64
           c == p % 64
           a == q \div 64
           b == q % 64
<1>1. x \in Nat /\ p \in Nat /\ p < 262144 /\ d \in 0 .. 63 /\ x = p * 64 + d
  BY SMT DEF Bits24
<1> HIDE DEF p, d
<1>2. q \in Nat /\ q < 4096 /\ c \in 0 .. 63 /\ p = q * 64 + c
  BY <1>1, SMT
<1> HIDE DEF q, c
<1>3. a \in 0 .. 63 /\ b \in 0 .. 63 /\ q = a * 64 + b
  BY <1>2, SMT
<1> HIDE DEF a, b
<1>4. x \div 64 = p /\ x \div 1 = x /\ x % 64 = d
  BY <1>1, SMT DEF p, d
<1>5. x \div 4096 = q
  <2>1. x = q * 4096 + (c * 64 + d) /\ c * 64 + d < 4096
    BY <1>1, <1>2, SMT
  <2> QED
    BY <1>1, <1>2, <2>1, Divided, SMT
<1>6. x \div 262144 = a
  <2>1. x = a * 262144 + ((b * 64 + c) * 64 + d) /\ (b * 64 + c) * 64 + d < 262144
    BY <1>1, <1>2, <1>3, SMT
  <2> QED
    BY <1>1, <1>2, <1>3, <2>1, Divided, SMT
<1>7. a % 64 = a /\ q % 64 = b /\ p % 64 = c
  <2>1. a % 64 = a
    BY <1>3, SMT
  <2>2. q % 64 = b
    BY SMT DEF b
  <2>3. p % 64 = c
    BY SMT DEF c
  <2> QED
    BY <2>1, <2>2, <2>3, SMT
<1>8. x = ((a * 64 + b) * 64 + c) * 64 + d
  BY <1>1, <1>2, <1>3, SMT
<1>9. /\ (x \div 262144) % 64 = a
      /\ (x \div 4096) % 64 = b
      /\ (x \div 64) % 64 = c
      /\ (x \div 1) % 64 = d
  BY <1>4, <1>5, <1>6, <1>7, SMT
<1>10. a \in 0 .. 63 /\ b \in 0 .. 63 /\ c \in 0 .. 63 /\ d \in 0 .. 63
  BY <1>1, <1>2, <1>3, SMT
<1>11. Digits(x, a, b, c, d)
  BY <1>8, <1>9, SMT DEF Digits
<1>12. /\ Letter(x, 3) = T[1 + ((x \div 262144) % 64)]
       /\ Letter(x, 2) = T[1 + ((x \div 4096) % 64)]
       /\ Letter(x, 1) = T[1 + ((x \div 64) % 64)]
       /\ Letter(x, 0) = T[1 + ((x \div 1) % 64)]
  BY SMT DEF Letter
<1>13. Letters(x, a, b, c, d)
  BY <1>9, <1>12, SMT DEF Letters
<1> QED
  BY <1>10, <1>11, <1>13, Zenon

\* chunk is made of the bytes a, b and c, as far as it goes.
OfBytes(chunk, a, b, c) ==
  /\ Number(chunk) = (a * 256 + b) * 256 + c
  /\ chunk[1] = a
  /\ IF Len(chunk) > 1 THEN chunk[2] = b ELSE b = 0
  /\ IF Len(chunk) > 2 THEN chunk[3] = c ELSE c = 0

ByteDigits(x, a, b, c) ==
  (x \div 65536) % 256 = a /\ (x \div 256) % 256 = b /\ (x \div 1) % 256 = c

\* They are the bytes of its number.
LEMMA ThreeBytes ==
  ASSUME NEW chunk, NEW a \in 0 .. 255, NEW b \in 0 .. 255, NEW c \in 0 .. 255,
         OfBytes(chunk, a, b, c)
  PROVE  ByteDigits(Number(chunk), a, b, c)
<1> DEFINE x == Number(chunk)
<1>1. x = (a * 256 + b) * 256 + c
  BY DEF OfBytes
<1> HIDE DEF x
<1>2. x \in Nat /\ x \div 1 = x
  BY <1>1, SMT
<1>3. x \div 65536 = a
  <2>1. x = a * 65536 + (b * 256 + c) /\ b * 256 + c < 65536 /\ b * 256 + c \in Nat
    BY <1>1, SMT
  <2> QED
    BY <1>2, <2>1, Divided, SMT
<1>4. x \div 256 = a * 256 + b /\ x % 256 = c
  BY <1>1, <1>2, Divided, SMT
<1>5. (a * 256 + b) % 256 = b /\ a % 256 = a
  BY Divided, SMT
<1> QED
  BY <1>2, <1>3, <1>4, <1>5, SMT DEF ByteDigits, x

\* The number of a chunk, of one, two or three bytes.
LEMMA NumberOf ==
  ASSUME NEW chunk \in Seq(0 .. 255), Len(chunk) \in 1 .. 3
  PROVE  /\ \E a, b, c \in 0 .. 255 : OfBytes(chunk, a, b, c)
         /\ Bits24(Number(chunk))
<1> DEFINE f == [i \in 1 .. 3 |-> IF i <= Len(chunk) THEN chunk[i] ELSE 0]
<1>1. \A i \in 1 .. Len(chunk) : chunk[i] \in 0 .. 255
  BY ElementOfSeq
<1>2. f[1] = chunk[1] /\ f[1] \in 0 .. 255
  BY <1>1
<1>3. f[2] \in 0 .. 255 /\ IF Len(chunk) > 1 THEN chunk[2] = f[2] ELSE f[2] = 0
  BY <1>1
<1>4. f[3] \in 0 .. 255 /\ IF Len(chunk) > 2 THEN chunk[3] = f[3] ELSE f[3] = 0
  BY <1>1
<1>5. Number(chunk) = (f[1] * 256 + f[2]) * 256 + f[3]
  BY SMT DEF Number
<1> HIDE DEF f
<1>6. OfBytes(chunk, f[1], f[2], f[3])
  BY <1>2, <1>3, <1>4, <1>5, SMT DEF OfBytes
<1>7. f[1] \in 0 .. 255 /\ f[2] \in 0 .. 255 /\ f[3] \in 0 .. 255
  BY <1>2, <1>3, <1>4
<1>8. Bits24(Number(chunk))
  <2> DEFINE P(x, a, b, c) == x = (a * 256 + b) * 256 + c
  <2>1. ASSUME NEW a \in 0 .. 255, NEW b \in 0 .. 255, NEW c \in 0 .. 255, NEW x,
               P(x, a, b, c)
        PROVE  Bits24(x)
    BY <2>1, SMT DEF Bits24
  <2>2. P(Number(chunk), f[1], f[2], f[3])
    BY <1>5
  <2> HIDE DEF P
  <2> QED
    BY <1>7, <2>1, <2>2
<1> QED
  BY <1>6, <1>7, <1>8

\* The four characters of a chunk stand for its bytes.
LEMMA SymbolsReadBack ==
  ASSUME NEW chunk \in Seq(0 .. 255), Len(chunk) \in 1 .. 3
  PROVE  LET q == Symbols(chunk)
             n == ((Value(q[1]) * 64 + Value(q[2])) * 64 + Value(q[3])) * 64 + Value(q[4])
         IN  /\ n = Number(chunk)
             /\ q[3] = Pad <=> Len(chunk) < 2
             /\ q[4] = Pad <=> Len(chunk) < 3
<1> DEFINE n == Number(chunk)
           q == Symbols(chunk)
<1>1. PICK a, b, c \in 0 .. 255 : OfBytes(chunk, a, b, c)
  BY NumberOf
<1>2. Bits24(n)
  BY NumberOf
<1>3. /\ q[1] = Letter(n, 3)
      /\ q[2] = Letter(n, 2)
      /\ q[3] = IF Len(chunk) > 1 THEN Letter(n, 1) ELSE Pad
      /\ q[4] = IF Len(chunk) > 2 THEN Letter(n, 0) ELSE Pad
  BY SMT DEF Symbols
<1> HIDE DEF n, q
<1>4. PICK h, i, j, k \in 0 .. 63 : Digits(n, h, i, j, k) /\ Letters(n, h, i, j, k)
  BY <1>2, FourDigits, Zenon
<1>5. Letter(n, 3) = T[1 + h] /\ Letter(n, 2) = T[1 + i]
  BY <1>4 DEF Letters
<1>6. Letter(n, 1) = T[1 + j] /\ Letter(n, 0) = T[1 + k]
  BY <1>4 DEF Letters
<1>7. /\ Value(T[1 + h]) = h /\ Value(T[1 + i]) = i
      /\ Value(T[1 + j]) = j /\ Value(T[1 + k]) = k
      /\ T[1 + j] # Pad /\ T[1 + k] # Pad
  BY LetterValue
<1>8. Value(q[1]) = h /\ Value(q[2]) = i
  BY <1>5, <1>3, <1>7
<1>9. Len(chunk) < 3 => k = 0
  <2> SUFFICES ASSUME c = 0
               PROVE  k = 0
    BY <1>1 DEF OfBytes
  <2>1. n = ((a * 256 + b) * 4) * 64 + 0 /\ (a * 256 + b) * 4 \in Nat /\ n \in Nat
    BY <1>1, <1>2, SMT DEF Bits24, OfBytes, n
  <2>2. n % 64 = 0
    BY <2>1, Divided, SMT
  <2>3. (n \div 1) % 64 = k /\ n \div 1 = n
    BY <1>4, <2>1, SMT DEF Digits
  <2> QED
    BY <2>2, <2>3
<1>10. Len(chunk) < 2 => j = 0
  <2> SUFFICES ASSUME c = 0, b = 0
               PROVE  j = 0
    BY <1>1 DEF OfBytes
  <2> DEFINE m == a * 1024
  <2>1. n = m * 64 + 0 /\ m = (a * 16) * 64 + 0 /\ m \in Nat /\ n \in Nat /\ a * 16 \in Nat
    BY <1>1, SMT DEF OfBytes, n
  <2> HIDE DEF m
  <2>2. n \div 64 = m
    BY <2>1, Divided, SMT
  <2>3. m % 64 = 0
    BY <2>1, Divided, SMT
  <2>4. (n \div 64) % 64 = j
    BY <1>4, SMT DEF Digits
  <2> QED
    BY <2>2, <2>3, <2>4
<1>11. Value(q[3]) = j /\ (q[3] = Pad <=> Len(chunk) < 2)
  BY <1>6, <1>3, <1>7, <1>10, PadValue
<1>12. Value(q[4]) = k /\ (q[4] = Pad <=> Len(chunk) < 3)
  BY <1>6, <1>3, <1>7, <1>9, PadValue
<1>13. ((Value(q[1]) * 64 + Value(q[2])) * 64 + Value(q[3])) * 64 + Value(q[4]) = n
  BY <1>4, <1>8, <1>11, <1>12, SMT DEF Digits
<1> QED
  BY <1>11, <1>12, <1>13 DEF n, q

\* The chunk g of the bytes, counted from 0, and what is written of the first m.
ChunkSize(bytes, g) == IF Len(bytes) - 3 * g < 3 THEN Len(bytes) - 3 * g ELSE 3
Chunk(bytes, g)     == SubSeq(bytes, 3 * g + 1, 3 * g + ChunkSize(bytes, g))
Base64(bytes, m)    ==
  [i \in 1 .. 4 * m |-> Symbols(Chunk(bytes, (i - 1) \div 4))[1 + ((i - 1) % 4)]]

\* How many chunks there are.
Chunks(n) == (n + 2) \div 3

\* A chunk holds the bytes at its place.
LEMMA ChunkProperties ==
  ASSUME NEW bytes \in Seq(0 .. 255), NEW g \in Nat, 3 * g < Len(bytes)
  PROVE  /\ Chunk(bytes, g) \in Seq(0 .. 255)
         /\ Len(Chunk(bytes, g)) = ChunkSize(bytes, g)
         /\ ChunkSize(bytes, g) \in 1 .. 3
         /\ \A j \in 1 .. ChunkSize(bytes, g) : Chunk(bytes, g)[j] = bytes[3 * g + j]
<1> DEFINE z == ChunkSize(bytes, g)
           f == 3 * g + 1
           l == 3 * g + z
<1>1. Len(bytes) \in Nat
  OBVIOUS
<1>2. z \in 1 .. 3 /\ l <= Len(bytes)
  <2>1. CASE Len(bytes) - 3 * g < 3
    BY <1>1, <2>1 DEF ChunkSize
  <2>2. CASE ~(Len(bytes) - 3 * g < 3)
    BY <1>1, <2>2 DEF ChunkSize
  <2> QED
    BY <2>1, <2>2
<1> HIDE DEF z
<1>3. f \in 1 .. Len(bytes) + 1 /\ l \in f - 1 .. Len(bytes) /\ l - f + 1 = z
  BY <1>1, <1>2
<1>4. Chunk(bytes, g) = SubSeq(bytes, f, l)
  BY DEF Chunk, z
<1>5. \A j \in 1 .. z : f + j - 1 = 3 * g + j
  BY <1>2
<1> HIDE DEF f, l
<1>6. /\ SubSeq(bytes, f, l) \in Seq(0 .. 255)
      /\ Len(SubSeq(bytes, f, l)) = z
      /\ \A k \in 1 .. z : SubSeq(bytes, f, l)[k] = bytes[f + k - 1]
  BY <1>3, PartProperties
<1> QED
  BY <1>2, <1>4, <1>5, <1>6 DEF z

\* The four characters of a chunk stand together.
LEMMA Base64At ==
  ASSUME NEW bytes, NEW m \in Nat, NEW g \in Nat, g < m, NEW j \in 1 .. 4
  PROVE  /\ 4 * g + j \in 1 .. 4 * m
         /\ Base64(bytes, m)[4 * g + j] = Symbols(Chunk(bytes, g))[j]
<1> DEFINE i == 4 * g + j
<1>1. i \in 1 .. 4 * m
  OBVIOUS
<1>2. (i - 1) \div 4 = g /\ 1 + ((i - 1) % 4) = j
  OBVIOUS
<1>3. Base64(bytes, m)[i] = Symbols(Chunk(bytes, (i - 1) \div 4))[1 + ((i - 1) % 4)]
  BY <1>1 DEF Base64
<1> HIDE DEF i
<1> QED
  BY <1>1, <1>2, <1>3 DEF i

\* Symbols are plain characters of any alphabet that holds those of Base64.
LEMMA SymbolsTyped ==
  ASSUME NEW A, \A i \in 1 .. 64 : T[i] \in A, Pad \in A,
         NEW chunk \in Seq(0 .. 255), Len(chunk) \in 1 .. 3
  PROVE  /\ Symbols(chunk) \in Seq(Plain(A))
         /\ Len(Symbols(chunk)) = 4
<1> DEFINE n == Number(chunk)
<1>1. Bits24(n)
  BY NumberOf
<1>2. \A i \in 1 .. 64 : T[i] \in Plain(A)
  BY TableLetters DEF Plain
<1>3. Pad \in Plain(A)
  BY DEF Plain, Pad, Quote, Control
<1> HIDE DEF n
<1>4. PICK h, i, j, k \in 0 .. 63 : Digits(n, h, i, j, k) /\ Letters(n, h, i, j, k)
  BY <1>1, FourDigits, Zenon
<1>5. Letter(n, 3) = T[1 + h] /\ Letter(n, 2) = T[1 + i]
  BY <1>4 DEF Letters
<1>6. Letter(n, 1) = T[1 + j] /\ Letter(n, 0) = T[1 + k]
  BY <1>4 DEF Letters
<1>7. /\ 1 + h \in 1 .. 64 /\ 1 + i \in 1 .. 64
      /\ 1 + j \in 1 .. 64 /\ 1 + k \in 1 .. 64
  OBVIOUS
<1> DEFINE p == Letter(n, 3)
           q == Letter(n, 2)
           r == IF Len(chunk) > 1 THEN Letter(n, 1) ELSE Pad
           s == IF Len(chunk) > 2 THEN Letter(n, 0) ELSE Pad
<1>8. p \in Plain(A) /\ q \in Plain(A) /\ r \in Plain(A) /\ s \in Plain(A)
  BY <1>2, <1>3, <1>5, <1>6, <1>7
<1>9. Symbols(chunk) = <<p, q, r, s>>
  BY SMT DEF Symbols, n
<1> HIDE DEF p, q, r, s
<1> QED
  BY <1>8, <1>9

\* One more chunk is written.
LEMMA Base64Next ==
  ASSUME NEW A, \A i \in 1 .. 64 : T[i] \in A, Pad \in A,
         NEW bytes \in Seq(0 .. 255), NEW m \in Nat, 3 * m < Len(bytes),
         Base64(bytes, m) \in Seq(A)
  PROVE  /\ Base64(bytes, m + 1) \in Seq(A)
         /\ Base64(bytes, m) \o Symbols(Chunk(bytes, m)) = Base64(bytes, m + 1)
<1> DEFINE s == Base64(bytes, m)
           t == Symbols(Chunk(bytes, m))
           u == s \o t
           v == Base64(bytes, m + 1)
<1>1. Chunk(bytes, m) \in Seq(0 .. 255) /\ Len(Chunk(bytes, m)) \in 1 .. 3
  BY ChunkProperties
<1>2. t \in Seq(Plain(A)) /\ Len(t) = 4
  BY <1>1, SymbolsTyped
<1>3. t \in Seq(A)
  BY <1>2, PlainSeq
<1>4. Len(s) = 4 * m
  <2>1. DOMAIN s = 1 .. 4 * m
    BY DEF Base64
  <2> HIDE DEF s
  <2>2. s \in Seq(A)
    BY DEF s
  <2> QED
    BY <2>1, <2>2
<1>5. DOMAIN v = 1 .. 4 * m + 4
  BY DEF Base64
<1>6. ASSUME NEW i \in 1 .. 4 * m
      PROVE  v[i] = s[i]
  BY DEF Base64
<1>7. ASSUME NEW j \in 1 .. 4
      PROVE  v[4 * m + j] = t[j]
  <2>1. m + 1 \in Nat /\ m < m + 1
    OBVIOUS
  <2> HIDE DEF v, t
  <2> QED
    BY <2>1, Base64At DEF v, t
<1> HIDE DEF s, t, v
<1>8. s \in Seq(A)
  BY DEF s
<1>9. /\ u \in Seq(A) /\ Len(u) = 4 * m + 4
      /\ \A i \in 1 .. 4 * m : u[i] = s[i]
      /\ \A j \in 1 .. 4 : u[4 * m + j] = t[j]
  <2>1. /\ u \in Seq(A) /\ Len(u) = Len(s) + Len(t)
        /\ \A i \in 1 .. Len(s) : u[i] = s[i]
        /\ \A j \in 1 .. Len(t) : u[Len(s) + j] = t[j]
    BY <1>3, <1>8, JoinProperties
  <2> HIDE DEF u
  <2> QED
    BY <1>2, <1>4, <2>1
<1> HIDE DEF u
<1>10. ASSUME NEW i \in 1 .. 4 * m + 4
       PROVE  u[i] = v[i]
  <2>1. CASE i <= 4 * m
    <3>1. i \in 1 .. 4 * m
      BY <2>1
    <3> QED
      BY <1>6, <1>9, <3>1
  <2>2. CASE ~(i <= 4 * m)
    <3>1. i - 4 * m \in 1 .. 4 /\ i = 4 * m + (i - 4 * m)
      BY <2>2
    <3> QED
      BY <1>7, <1>9, <3>1
  <2> QED
    BY <2>1, <2>2
<1>11. v = u
  <2>1. u = [i \in 1 .. 4 * m + 4 |-> u[i]]
    BY <1>9
  <2>2. v = [i \in 1 .. 4 * m + 4 |-> v[i]]
    <3>1. v = [i \in 1 .. 4 * (m + 1) |->
                 Symbols(Chunk(bytes, (i - 1) \div 4))[1 + ((i - 1) % 4)]]
      BY DEF v, Base64
    <3> QED
      BY <3>1
  <2> QED
    BY <1>10, <2>1, <2>2
<1> QED
  BY <1>9, <1>11 DEF u, v, s, t

\* The place of a character in its group of four.
LEMMA Quarters ==
  ASSUME NEW m \in Nat, NEW i \in 1 .. 4 * m
  PROVE  /\ (i - 1) \div 4 \in Nat
         /\ (i - 1) \div 4 < m
         /\ 1 + ((i - 1) % 4) \in 1 .. 4
OBVIOUS

\* The chunks written so far make a text, four characters each.
LEMMA Base64Typed ==
  ASSUME NEW A, \A i \in 1 .. 64 : T[i] \in A, Pad \in A,
         NEW bytes \in Seq(0 .. 255), NEW m \in Nat, m <= Chunks(Len(bytes))
  PROVE  Base64(bytes, m) \in Seq(A) /\ Len(Base64(bytes, m)) = 4 * m
<1> DEFINE v == Base64(bytes, m)
<1>1. ASSUME NEW i \in 1 .. 4 * m
      PROVE  v[i] \in A
  <2> DEFINE g == (i - 1) \div 4
             j == 1 + ((i - 1) % 4)
  <2>1. g \in Nat /\ g < m /\ j \in 1 .. 4
    BY Quarters
  <2>2. v[i] = Symbols(Chunk(bytes, g))[j]
    BY DEF Base64
  <2> HIDE DEF g, j
  <2>3. 3 * g < Len(bytes)
    <3>1. Len(bytes) \in Nat
      OBVIOUS
    <3> QED
      BY <2>1, <3>1 DEF Chunks
  <2>4. Chunk(bytes, g) \in Seq(0 .. 255) /\ Len(Chunk(bytes, g)) \in 1 .. 3
    BY <2>1, <2>3, ChunkProperties
  <2> DEFINE t == Symbols(Chunk(bytes, g))
  <2>5. t \in Seq(Plain(A)) /\ Len(t) = 4
    BY <2>4, SymbolsTyped
  <2> HIDE DEF t
  <2>6. t[j] \in A
    BY <2>1, <2>5, PlainSeq
  <2> QED
    BY <2>2, <2>6 DEF t
<1>2. v = [i \in 1 .. 4 * m |-> v[i]]
  BY DEF Base64
<1> DEFINE n == 4 * m
<1>3. n \in Nat
  OBVIOUS
<1> HIDE DEF v, n
<1>4. v \in Seq(A) /\ Len(v) = n
  <2>1. v \in [1 .. n -> A]
    BY <1>1, <1>2 DEF n
  <2> QED
    BY <1>3, <2>1
<1> QED
  BY <1>4 DEF v, n

\* One byte of a chunk.
LEMMA ByteOfChunk ==
  ASSUME NEW chunk \in Seq(0 .. 255), Len(chunk) \in 1 .. 3,
         NEW j \in 1 .. 3, j <= Len(chunk)
  PROVE  (Number(chunk) \div <<65536, 256, 1>>[j]) % 256 = chunk[j]
<1> DEFINE n == Number(chunk)
<1>1. PICK a, b, c \in 0 .. 255 : OfBytes(chunk, a, b, c)
  BY NumberOf
<1>2. ByteDigits(n, a, b, c)
  BY <1>1, ThreeBytes
<1> HIDE DEF n
<1>3. /\ (n \div 65536) % 256 = a
      /\ (n \div 256) % 256 = b
      /\ (n \div 1) % 256 = c
  BY <1>2, SMT DEF ByteDigits
<1>4. /\ chunk[1] = a
      /\ Len(chunk) > 1 => chunk[2] = b
      /\ Len(chunk) > 2 => chunk[3] = c
  BY <1>1 DEF OfBytes
<1>5. CASE j = 1
  BY <1>3, <1>4, <1>5, SMT DEF n
<1>6. CASE j = 2
  BY <1>3, <1>4, <1>6, SMT DEF n
<1>7. CASE j = 3
  BY <1>3, <1>4, <1>7, SMT DEF n
<1> QED
  BY <1>5, <1>6, <1>7, SMT

\* Where a byte stands in its chunk.
LEMMA Thirds ==
  ASSUME NEW n \in Nat, NEW i \in 1 .. n
  PROVE  /\ (i - 1) \div 3 \in Nat
         /\ (i - 1) \div 3 < Chunks(n)
         /\ 3 * ((i - 1) \div 3) < n
         /\ 1 + ((i - 1) % 3) \in 1 .. 3
         /\ 3 * ((i - 1) \div 3) + (1 + ((i - 1) % 3)) = i
BY DEF Chunks

\* The characters base64 writes for some bytes, taken back by RFC 4648, are those
\* bytes: none, one or two at the end that fill no chunk, and all before them.
THEOREM Base64ReadsBack ==
  ASSUME NEW bytes \in Seq(0 .. 255)
  PROVE  Unbase64(Base64(bytes, Chunks(Len(bytes)))) = bytes
<1> DEFINE l    == Len(bytes)
           m    == Chunks(l)
           s    == Base64(bytes, m)
           A    == {T[i] : i \in 1 .. 64} \cup {Pad}
           N(g) == ((Value(s[4*g + 1]) * 64 + Value(s[4*g + 2])) * 64
                      + Value(s[4*g + 3])) * 64 + Value(s[4*g + 4])
           pads == IF s = <<>> \/ s[Len(s)] # Pad THEN 0
                   ELSE IF s[Len(s) - 1] # Pad THEN 1 ELSE 2
           w    == <<65536, 256, 1>>
<1>1. l \in Nat
  OBVIOUS
<1> HIDE DEF l
<1>2. m \in Nat /\ 3 * m - l \in 0 .. 2 /\ (l > 0 => m > 0)
  BY <1>1 DEF Chunks
<1>3. s \in Seq(A) /\ Len(s) = 4 * m
  <2>1. \A i \in 1 .. 64 : T[i] \in A
    OBVIOUS
  <2>2. Pad \in A
    OBVIOUS
  <2> HIDE DEF A, m
  <2> QED
    <3>1. m <= Chunks(Len(bytes))
      BY <1>2 DEF l, m
    <3> QED
      BY <1>2, <2>1, <2>2, <3>1, Base64Typed
<1>4. ASSUME NEW g \in Nat, g < m
      PROVE  /\ Chunk(bytes, g) \in Seq(0 .. 255)
             /\ Len(Chunk(bytes, g)) = ChunkSize(bytes, g)
             /\ Len(Chunk(bytes, g)) \in 1 .. 3
             /\ \A j \in 1 .. Len(Chunk(bytes, g)) : Chunk(bytes, g)[j] = bytes[3 * g + j]
             /\ N(g) = Number(Chunk(bytes, g))
             /\ s[4 * g + 3] = Pad <=> Len(Chunk(bytes, g)) < 2
             /\ s[4 * g + 4] = Pad <=> Len(Chunk(bytes, g)) < 3
  <2>1. 3 * g < l
    BY <1>1, <1>4 DEF Chunks
  <2> HIDE DEF m
  <2>2. /\ s[4 * g + 1] = Symbols(Chunk(bytes, g))[1]
        /\ s[4 * g + 2] = Symbols(Chunk(bytes, g))[2]
        /\ s[4 * g + 3] = Symbols(Chunk(bytes, g))[3]
        /\ s[4 * g + 4] = Symbols(Chunk(bytes, g))[4]
    BY <1>2, <1>4, Base64At
  <2>3. /\ Chunk(bytes, g) \in Seq(0 .. 255)
        /\ Len(Chunk(bytes, g)) = ChunkSize(bytes, g)
        /\ Len(Chunk(bytes, g)) \in 1 .. 3
        /\ \A j \in 1 .. Len(Chunk(bytes, g)) : Chunk(bytes, g)[j] = bytes[3 * g + j]
    <3>1. 3 * g < Len(bytes)
      BY <2>1 DEF l
    <3>2. /\ Chunk(bytes, g) \in Seq(0 .. 255)
          /\ Len(Chunk(bytes, g)) = ChunkSize(bytes, g)
          /\ ChunkSize(bytes, g) \in 1 .. 3
          /\ \A j \in 1 .. ChunkSize(bytes, g) : Chunk(bytes, g)[j] = bytes[3 * g + j]
      BY <3>1, ChunkProperties
    <3> QED
      BY <3>2
  <2> HIDE DEF s
  <2>4. /\ N(g) = Number(Chunk(bytes, g))
        /\ s[4 * g + 3] = Pad <=> Len(Chunk(bytes, g)) < 2
        /\ s[4 * g + 4] = Pad <=> Len(Chunk(bytes, g)) < 3
    BY <2>2, <2>3, SymbolsReadBack
  <2> QED
    BY <2>3, <2>4
<1> HIDE DEF s, m
<1>5. pads = 3 * m - l
  <2>1. CASE m = 0
    <3>1. l = 0 /\ s = <<>>
      BY <1>1, <1>2, <1>3, <2>1
    <3> QED
      BY <2>1, <3>1
  <2>2. CASE m # 0
    <3> DEFINE g == m - 1
    <3>1. g \in Nat /\ g < m /\ 4 * g + 4 = Len(s) /\ 4 * g + 3 = Len(s) - 1 /\ Len(s) # 0
      BY <1>2, <1>3, <2>2
    <3>2. Len(Chunk(bytes, g)) = l - 3 * g /\ l - 3 * g \in 1 .. 3
      <4>1. Len(Chunk(bytes, g)) = ChunkSize(bytes, g)
        BY <1>4, <3>1
      <4>2. l - 3 * g \in 1 .. 3
        BY <1>1, <1>2
      <4>3. ChunkSize(bytes, g) = IF l - 3 * g < 3 THEN l - 3 * g ELSE 3
        BY DEF ChunkSize, l
      <4> HIDE DEF g
      <4> QED
        BY <4>1, <4>2, <4>3
    <3>3. 3 * m - l = 3 - (l - 3 * g)
      BY <1>1, <1>2
    <3>4. /\ s[Len(s) - 1] = Pad <=> l - 3 * g < 2
          /\ s[Len(s)] = Pad <=> l - 3 * g < 3
      BY <1>4, <3>1, <3>2
    <3>5. s # <<>>
      BY <3>1
    <3> HIDE DEF g
    <3> QED
      BY <3>2, <3>3, <3>4, <3>5
  <2> QED
    BY <2>1, <2>2
<1>6. ASSUME NEW i \in 1 .. l
      PROVE  (N((i - 1) \div 3) \div w[1 + ((i - 1) % 3)]) % 256 = bytes[i]
  <2> DEFINE g == (i - 1) \div 3
             j == 1 + ((i - 1) % 3)
  <2>1. g \in Nat /\ g < m /\ 3 * g < l /\ j \in 1 .. 3 /\ 3 * g + j = i
    BY <1>1, Thirds DEF m
  <2> HIDE DEF g, j
  <2>2. j <= Len(Chunk(bytes, g))
    <3>1. Len(Chunk(bytes, g)) = ChunkSize(bytes, g)
      BY <1>4, <2>1
    <3>2. Len(bytes) \in Nat /\ i <= Len(bytes)
      BY <1>1 DEF l
    <3> QED
      BY <2>1, <3>1, <3>2 DEF ChunkSize
  <2>3. /\ Chunk(bytes, g) \in Seq(0 .. 255)
        /\ Len(Chunk(bytes, g)) \in 1 .. 3
        /\ \A k \in 1 .. Len(Chunk(bytes, g)) : Chunk(bytes, g)[k] = bytes[3 * g + k]
        /\ N(g) = Number(Chunk(bytes, g))
    BY <1>4, <2>1
  <2>4. (Number(Chunk(bytes, g)) \div w[j]) % 256 = Chunk(bytes, g)[j]
    BY <2>1, <2>2, <2>3, ByteOfChunk, SMT
  <2>5. Chunk(bytes, g)[j] = bytes[i]
    <3>1. j \in 1 .. Len(Chunk(bytes, g))
      BY <2>1, <2>2, <2>3
    <3> QED
      BY <2>1, <2>3, <3>1
  <2> HIDE DEF N, w
  <2>6. (N(g) \div w[j]) % 256 = bytes[i]
    BY <2>3, <2>4, <2>5
  <2> QED
    BY <2>6 DEF g, j
<1>7. Unbase64(s) = [i \in 1 .. 3 * (Len(s) \div 4) - pads |->
                       (N((i - 1) \div 3) \div w[1 + ((i - 1) % 3)]) % 256]
  BY SMT DEF Unbase64
<1> HIDE DEF pads, N, w
<1>8. 3 * (Len(s) \div 4) - pads = l
  BY <1>1, <1>2, <1>3, <1>5
<1>9. Unbase64(s) = [i \in 1 .. l |-> bytes[i]]
  BY <1>6, <1>7, <1>8
<1>10. bytes = [i \in 1 .. l |-> bytes[i]]
  BY DEF l
<1> QED
  BY <1>9, <1>10 DEF s, m, l

-----------------------------------------------------------------------------
(* What the pieces of a text do to its reader *)

\* Every symbol that is ever written.
Words ==
  {"{", "}", "[", "]", ":", ",", "exclusions", "start", "length", "alg", "hash", "pad", "name"}
Alphabet ==
  Words \cup {Quote, Control, Pad} \cup {T[i] : i \in 1 .. 64}
  \cup STRING \cup {Decimal(n) : n \in Nat}

\* What the alphabet holds, by its kinds.
LEMMA AlphabetHolds ==
  /\ Words \subseteq Alphabet
  /\ Quote \in Alphabet /\ Control \in Alphabet /\ Pad \in Alphabet
  /\ \A i \in 1 .. 64 : T[i] \in Alphabet
  /\ STRING \subseteq Alphabet
  /\ \A n \in Nat : Decimal(n) \in Alphabet
BY DEF Alphabet

\* The words of the text itself.
LEMMA WordsHeld ==
  /\ {"{", "}", "[", "]", ":", ","} \subseteq Alphabet
  /\ {"exclusions", "start", "length", "alg", "hash", "pad", "name"} \subseteq Plain(Alphabet)
  /\ \A c \in {"exclusions", "start", "length", "alg", "hash", "pad", "name"} :
       <<c>> \in Seq(Alphabet)
<1>1. Words \subseteq Alphabet
  BY AlphabetHolds
<1>2. \A c \in {"exclusions", "start", "length", "alg", "hash", "pad", "name"} :
        c # Quote /\ c # "\\" /\ c # Control /\ c \in Words
  BY DEF Words, Quote, Control
<1>3. {"{", "}", "[", "]", ":", ","} \subseteq Words
  BY DEF Words
<1>4. \A c \in {"exclusions", "start", "length", "alg", "hash", "pad", "name"} :
        c \in Alphabet
  BY <1>1, <1>2
<1>5. \A c \in Alphabet : <<c>> \in Seq(Alphabet)
  OBVIOUS
<1> QED
  BY <1>1, <1>2, <1>3, <1>4, <1>5 DEF Plain

Reader  == Readers(Alphabet)
Strings == Seq(Seq(Alphabet))
Symbol  == Seq(Alphabet)

\* s takes the reader from r to q.
Takes(r, s, q) == r \in Reader /\ s \in Symbol /\ q \in Reader /\ ReadFrom(r, s) = q

\* Two pieces in a row.
LEMMA TakesJoin ==
  ASSUME NEW r, NEW s, NEW q, NEW t, NEW p, Takes(r, s, q), Takes(q, t, p)
  PROVE  Takes(r, s \o t, p)
<1>1. s \o t \in Symbol
  BY JoinProperties DEF Takes, Symbol
<1>2. ReadFrom(r, s \o t) = ReadFrom(ReadFrom(r, s), t)
  BY ReadFromJoin, AlphabetHolds DEF Takes, Symbol, Reader
<1> QED
  BY <1>1, <1>2 DEF Takes

\* An empty piece changes nothing.
LEMMA TakesNothing ==
  ASSUME NEW r \in Reader
  PROVE  Takes(r, <<>>, r)
<1> DEFINE f == [i \in 0 .. 0 |-> r]
           e == <<>>
<1>1. e \in Seq(Alphabet) /\ Len(e) = 0
  OBVIOUS
<1>2. f[0] = r
  OBVIOUS
<1> HIDE DEF f, e
<1>3. ReadStates(r, e, f)
  BY <1>1, <1>2 DEF ReadStates
<1>4. ReadFrom(r, e) = f[Len(e)]
  BY <1>1, <1>3, ReadFromIs, AlphabetHolds DEF Reader
<1>5. Takes(r, e, r)
  BY <1>1, <1>2, <1>4 DEF Takes, Symbol
<1> QED
  BY <1>5 DEF e

\* Outside of a string: a bracket is skipped, a number is taken, a quotation
\* mark opens a string.
LEMMA TakesSymbol ==
  ASSUME NEW S \in Strings, NEW N \in Symbol, NEW c \in Alphabet
  PROVE  /\ c \in Punctuation => Takes(Outside(S, N), <<c>>, Outside(S, N))
         /\ c # Quote /\ c \notin Punctuation
              => Takes(Outside(S, N), <<c>>, Outside(S, Append(N, c)))
         /\ Takes(Outside(S, N), <<Quote>>, Inside(S, N, <<>>))
<1>1. /\ Outside(S, N) \in Reader
      /\ Outside(S, Append(N, c)) \in Reader
      /\ Inside(S, N, <<>>) \in Reader
  <2>1. Append(N, c) \in Symbol /\ <<>> \in Symbol
    BY DEF Symbol
  <2> QED
    BY <2>1, States DEF Reader, Symbol, Strings
<1>2. Quote \in Alphabet /\ Control \in Alphabet
  BY AlphabetHolds
<1>3. <<c>> \in Symbol /\ <<Quote>> \in Symbol
  BY <1>2 DEF Symbol
<1>4. /\ c \in Punctuation => ReadFrom(Outside(S, N), <<c>>) = Outside(S, N)
      /\ c # Quote /\ c \notin Punctuation
           => ReadFrom(Outside(S, N), <<c>>) = Outside(S, Append(N, c))
      /\ ReadFrom(Outside(S, N), <<Quote>>) = Inside(S, N, <<>>)
  BY <1>2, ReadSymbol DEF Symbol, Strings
<1> QED
  BY <1>1, <1>3, <1>4 DEF Takes

\* Inside of a string: plain symbols are added to it, a quotation mark ends it.
LEMMA TakesPlain ==
  ASSUME NEW S \in Strings, NEW N \in Symbol, NEW w \in Symbol, NEW t \in Seq(Plain(Alphabet))
  PROVE  /\ Takes(Inside(S, N, w), t, Inside(S, N, w \o t))
         /\ Takes(Inside(S, N, w), <<Quote>>, Outside(Append(S, w), N))
<1>1. t \in Symbol
  BY PlainSeq DEF Symbol
<1>2. w \o t \in Symbol /\ Append(S, w) \in Strings
  <2>1. w \o t \in Symbol
    BY <1>1, JoinProperties DEF Symbol
  <2> QED
    BY <2>1 DEF Symbol, Strings
<1>3. /\ Inside(S, N, w) \in Reader
      /\ Inside(S, N, w \o t) \in Reader
      /\ Outside(Append(S, w), N) \in Reader
  BY <1>2, States DEF Reader, Symbol, Strings
<1>4. Quote \in Alphabet /\ Control \in Alphabet
  BY AlphabetHolds
<1>5. ReadFrom(Inside(S, N, w), t) = Inside(S, N, w \o t)
  BY <1>4, ReadPlain DEF Symbol, Strings
<1>6. ReadFrom(Inside(S, N, w), <<Quote>>) = Outside(Append(S, w), N)
  <2>1. Plain(Alphabet) # {}
    BY WordsHeld
  <2> QED
    BY <1>4, <2>1, ReadInside DEF Symbol, Strings
<1>7. <<Quote>> \in Symbol
  BY <1>4 DEF Symbol
<1> QED
  BY <1>1, <1>3, <1>5, <1>6, <1>7 DEF Takes

\* A whole string.
LEMMA TakesString ==
  ASSUME NEW S \in Strings, NEW N \in Symbol, NEW t \in Seq(Plain(Alphabet))
  PROVE  /\ Append(S, t) \in Strings
         /\ Takes(Outside(S, N), <<Quote>> \o t \o <<Quote>>, Outside(Append(S, t), N))
<1> DEFINE e == <<>>
<1>1. e \in Symbol /\ Quote \in Alphabet
  BY AlphabetHolds DEF Symbol
<1>2. t \in Symbol
  BY PlainSeq DEF Symbol
<1>3. e \o t = t
  BY <1>2 DEF Symbol
<1>4. Takes(Outside(S, N), <<Quote>>, Inside(S, N, e))
  BY <1>1, TakesSymbol
<1> HIDE DEF e
<1>5. Takes(Inside(S, N, e), t, Inside(S, N, t))
  BY <1>1, <1>3, TakesPlain
<1>6. Takes(Inside(S, N, t), <<Quote>>, Outside(Append(S, t), N))
  BY <1>2, TakesPlain
<1>7. Takes(Outside(S, N), <<Quote>> \o t, Inside(S, N, t))
  BY <1>4, <1>5, TakesJoin
<1>8. Append(S, t) \in Strings
  BY <1>2 DEF Symbol, Strings
<1> QED
  BY <1>6, <1>7, <1>8, TakesJoin

\* The key of a field.
LEMMA TakesField ==
  ASSUME NEW S \in Strings, NEW N \in Symbol, NEW key \in Plain(Alphabet)
  PROVE  /\ Append(S, <<key>>) \in Strings
         /\ Takes(Outside(S, N), Field(key), Outside(Append(S, <<key>>), N))
<1> DEFINE t == <<key>>
<1>1. t \in Seq(Plain(Alphabet))
  OBVIOUS
<1>2. Field(key) = (<<Quote>> \o t \o <<Quote>>) \o <<":">>
  BY DEF Field
<1> HIDE DEF t
<1>3. /\ Append(S, t) \in Strings
      /\ Takes(Outside(S, N), <<Quote>> \o t \o <<Quote>>, Outside(Append(S, t), N))
  BY <1>1, TakesString
<1>4. ":" \in Alphabet /\ ":" \in Punctuation
  BY WordsHeld DEF Punctuation
<1>5. Takes(Outside(Append(S, t), N), <<":">>, Outside(Append(S, t), N))
  BY <1>3, <1>4, TakesSymbol
<1>6. Takes(Outside(S, N), Field(key), Outside(Append(S, t), N))
  BY <1>2, <1>3, <1>5, TakesJoin
<1> QED
  BY <1>3, <1>6 DEF t

-----------------------------------------------------------------------------
(* What has been written *)

\* What a reader of the first k ranges has got.
RangeStrings(k) ==
  [i \in 1 .. 1 + 2 * k |-> IF i = 1 THEN <<"exclusions">>
                            ELSE IF i % 2 = 0 THEN <<"start">> ELSE <<"length">>]
RangeNumbers(d, k) ==
  [i \in 1 .. 2 * k |-> LET ex == d.exclusions[(i + 1) \div 2]
                        IN  Decimal(IF i % 2 = 1 THEN ex.start ELSE ex.length)]

\* The strings before the hash, before the pad and in all.
Whole(bytes) == Base64(bytes, Chunks(Len(bytes)))
ToHash(d) ==
  Append(Append(Append(RangeStrings(Len(d.exclusions)), <<"alg">>), <<d.alg>>), <<"hash">>)
ToPad(d) == Append(Append(ToHash(d), Whole(d.hash)), <<"pad">>)
ToEnd(d) ==
  LET s == Append(ToPad(d), Whole(d.pad))
  IN  IF d.name = <<>> THEN s ELSE Append(Append(s, <<"name">>), d.name[1])

\* The ranges of d as numbers.
AllNumbers(d) == RangeNumbers(d, Len(d.exclusions))

\* Only whole chunks have been written, or all of them.
WholeChunks(bytes) == done <= Len(bytes) /\ (done % 3 = 0 \/ done = Len(bytes))

\* What the reader has got so far is what has been written so far.
Got ==
  /\ pc = "exclusions" =>
       /\ done <= Len(dataHash.exclusions)
       /\ Read(json) = Outside(RangeStrings(done), RangeNumbers(dataHash, done))
  /\ pc = "hash" =>
       /\ WholeChunks(dataHash.hash)
       /\ Read(json) = Inside(ToHash(dataHash), AllNumbers(dataHash),
                              Base64(dataHash.hash, Chunks(done)))
  /\ pc = "pad" =>
       /\ WholeChunks(dataHash.pad)
       /\ Read(json) = Inside(ToPad(dataHash), AllNumbers(dataHash),
                              Base64(dataHash.pad, Chunks(done)))
  /\ pc = "done" => Read(json) = Outside(ToEnd(dataHash), AllNumbers(dataHash))

TypeOK ==
  /\ dataHash \in DataHashes
  /\ pc \in {"exclusions", "hash", "pad", "done"}
  /\ done \in Nat
  /\ json \in Symbol

IInv == TypeOK /\ Got

\* What the assumption on the bindings says of one of them.
LEMMA Binding ==
  ASSUME NEW d \in DataHashes
  PROVE  /\ Len(d.exclusions) \in Nat
         /\ \A i \in 1 .. Len(d.exclusions) :
              d.exclusions[i].start \in Nat /\ d.exclusions[i].length \in Nat
         /\ d.hash \in Seq(0 .. 255) /\ d.pad \in Seq(0 .. 255)
<1>1. /\ d.exclusions \in Seq([start : Nat, length : Nat])
      /\ d.hash \in Seq(0 .. 255) /\ d.pad \in Seq(0 .. 255)
  BY DataHashesAssumption
<1>2. ASSUME NEW i \in 1 .. Len(d.exclusions)
      PROVE  d.exclusions[i] \in [start : Nat, length : Nat]
  BY <1>1, ElementOfSeq
<1> QED
  BY <1>1, <1>2

\* An Option that is not None holds one name.
LEMMA AtMostOne ==
  ASSUME NEW S, NEW s \in Seq(S), Len(s) <= 1, s # <<>>
  PROVE  Len(s) = 1
<1>1. Len(s) \in Nat /\ Len(s) # 0
  BY EmptySeq
<1> QED
  BY <1>1

\* The texts of a legible binding are read as they are.
LEMMA LegibleTexts ==
  ASSUME NEW d \in DataHashes, Legible(d)
  PROVE  /\ <<d.alg>> \in Seq(Plain(Alphabet))
         /\ d.name # <<>> => d.name[1] \in Seq(Plain(Alphabet))
         /\ d.name = <<>> \/ Len(d.name) = 1
<1>1. /\ d.alg \in STRING
      /\ d.name \in Seq(Seq(STRING)) /\ Len(d.name) <= 1
  BY DataHashesAssumption
<1>2. d.alg # Quote /\ d.alg # "\\" /\ d.alg # Control
  BY DEF Legible
<1>3. d.alg \in Plain(Alphabet)
  BY <1>1, <1>2, AlphabetHolds DEF Plain
<1>4. ASSUME d.name # <<>>
      PROVE  d.name[1] \in Seq(Plain(Alphabet)) /\ Len(d.name) = 1
  <2> DEFINE t == d.name[1]
  <2>1. Len(d.name) = 1
    BY <1>1, <1>4, AtMostOne
  <2>2. t \in Seq(STRING)
    BY <1>1, <2>1, ElementOfSeq
  <2>3. Len(t) \in Nat /\ t = [j \in 1 .. Len(t) |-> t[j]] /\ \A j \in 1 .. Len(t) : t[j] \in STRING
    <3> HIDE DEF t
    <3> QED
      BY <2>2, ElementOfSeq
  <2>4. \A j \in 1 .. Len(t) : t[j] # Quote /\ t[j] # "\\" /\ t[j] # Control
    BY <1>4 DEF Legible
  <2> HIDE DEF t
  <2>5. \A j \in 1 .. Len(t) : t[j] \in Plain(Alphabet)
    BY <2>3, <2>4, AlphabetHolds DEF Plain
  <2>6. t \in [1 .. Len(t) -> Plain(Alphabet)]
    BY <2>3, <2>5
  <2>7. t \in Seq(Plain(Alphabet))
    BY <2>3, <2>6
  <2> QED
    BY <2>1, <2>7 DEF t
<1> QED
  BY <1>3, <1>4

\* What an element more does to a sequence.
LEMMA AppendOne ==
  ASSUME NEW S, NEW s \in Seq(S), NEW e \in S, NEW n, Len(s) = n
  PROVE  /\ Append(s, e) \in Seq(S) /\ Len(Append(s, e)) = n + 1
         /\ Append(s, e)[n + 1] = e
         /\ \A i \in 1 .. n : Append(s, e)[i] = s[i]
OBVIOUS

\* A range adds the keys of its two numbers.
LEMMA RangeStringsNext ==
  ASSUME NEW k \in Nat, RangeStrings(k) \in Strings
  PROVE  /\ RangeStrings(k + 1) \in Strings
         /\ RangeStrings(k + 1)
              = Append(Append(RangeStrings(k), <<"start">>), <<"length">>)
<1> DEFINE n == 1 + 2 * k
           s == RangeStrings(k)
           u == RangeStrings(k + 1)
           x == <<"start">>
           y == <<"length">>
           v == Append(s, x)
           w == Append(v, y)
<1>1. n \in Nat /\ (n + 1) % 2 = 0 /\ (n + 2) % 2 = 1 /\ n + 1 # 1 /\ n + 2 # 1
  OBVIOUS
<1>2. x \in Seq(Alphabet) /\ y \in Seq(Alphabet)
  BY WordsHeld
<1>3. DOMAIN s = 1 .. n /\ DOMAIN u = 1 .. n + 2
  BY DEF RangeStrings
<1>4. \A i \in 1 .. n : u[i] = s[i]
  BY DEF RangeStrings
<1>5. u[n + 1] = x /\ u[n + 2] = y
  <2>1. n + 1 \in 1 .. 1 + 2 * (k + 1) /\ n + 2 \in 1 .. 1 + 2 * (k + 1)
    OBVIOUS
  <2> QED
    BY <1>1, <2>1 DEF RangeStrings
<1>6. u = [i \in 1 .. n + 2 |-> u[i]]
  <2>1. 1 + 2 * (k + 1) = n + 2
    OBVIOUS
  <2> HIDE DEF n
  <2> QED
    BY <2>1 DEF RangeStrings
<1> HIDE DEF n, s, u, x, y
<1>7. Len(s) = n /\ s \in Strings
  BY <1>1, <1>3 DEF s, Strings
<1>8. /\ v \in Strings /\ Len(v) = n + 1 /\ v[n + 1] = x
      /\ \A i \in 1 .. n : v[i] = s[i]
  BY <1>2, <1>7, AppendOne DEF Strings
<1> HIDE DEF v
<1>9. /\ w \in Strings /\ Len(w) = n + 2 /\ w[n + 2] = y
      /\ \A i \in 1 .. n + 1 : w[i] = v[i]
  <2>1. (n + 1) + 1 = n + 2
    BY <1>1
  <2>2. /\ w \in Strings /\ Len(w) = (n + 1) + 1 /\ w[(n + 1) + 1] = y
        /\ \A i \in 1 .. n + 1 : w[i] = v[i]
    BY <1>2, <1>8, AppendOne DEF Strings
  <2> QED
    BY <2>1, <2>2
<1> HIDE DEF w
<1>10. ASSUME NEW i \in 1 .. n + 2
       PROVE  u[i] = w[i]
  <2>1. i \in 1 .. n \/ i = n + 1 \/ i = n + 2
    BY <1>1
  <2>2. i \in 1 .. n => i \in 1 .. n + 1
    BY <1>1
  <2>3. n + 1 \in 1 .. n + 1
    BY <1>1
  <2> QED
    BY <1>4, <1>5, <1>8, <1>9, <2>1, <2>2, <2>3
<1>11. w = [i \in 1 .. n + 2 |-> w[i]]
  BY <1>9 DEF Strings
<1>12. u = w
  BY <1>6, <1>10, <1>11
<1> QED
  BY <1>9, <1>12 DEF u, w, v, s, x, y

\* The strings of any number of ranges are strings.
LEMMA RangeStringsTyped ==
  \A k \in Nat : RangeStrings(k) \in Strings
<1> DEFINE D == {k \in Nat : RangeStrings(k) \in Strings}
<1>1. 0 \in D
  <2>1. RangeStrings(0) = << <<"exclusions">> >>
    BY DEF RangeStrings
  <2>2. <<"exclusions">> \in Seq(Alphabet)
    BY WordsHeld
  <2>3. \A t \in Seq(Alphabet) : << t >> \in Strings
    BY DEF Strings
  <2> QED
    BY <2>1, <2>2, <2>3
<1>2. ASSUME NEW k \in D
      PROVE  k + 1 \in D
  BY RangeStringsNext
<1>3. D = Nat
  <2> HIDE DEF D
  <2> QED
    BY <1>1, <1>2, NatSetInduction DEF D
<1> QED
  BY <1>3

\* The numbers of the ranges are symbols.
LEMMA RangeNumbersTyped ==
  ASSUME NEW d \in DataHashes, NEW k \in Nat, k <= Len(d.exclusions)
  PROVE  RangeNumbers(d, k) \in Symbol
<1> DEFINE n == 2 * k
           s == RangeNumbers(d, k)
<1>0. n \in Nat
  OBVIOUS
<1>1. ASSUME NEW i \in 1 .. n
      PROVE  s[i] \in Alphabet
  <2>1. (i + 1) \div 2 \in 1 .. k
    OBVIOUS
  <2>2. (i + 1) \div 2 \in 1 .. Len(d.exclusions)
    BY <2>1, Binding
  <2>3. /\ d.exclusions[(i + 1) \div 2].start \in Nat
        /\ d.exclusions[(i + 1) \div 2].length \in Nat
    BY <2>2, Binding
  <2>4. /\ Decimal(d.exclusions[(i + 1) \div 2].start) \in Alphabet
        /\ Decimal(d.exclusions[(i + 1) \div 2].length) \in Alphabet
    BY <2>3, AlphabetHolds
  <2> QED
    BY <2>4 DEF RangeNumbers
<1>2. s = [i \in 1 .. n |-> s[i]]
  BY DEF RangeNumbers
<1> HIDE DEF s, n
<1>3. s \in [1 .. n -> Alphabet]
  BY <1>1, <1>2
<1> QED
  BY <1>0, <1>3 DEF Symbol, s

\* A range adds its start and its length.
LEMMA RangeNumbersNext ==
  ASSUME NEW d \in DataHashes, NEW k \in Nat, k < Len(d.exclusions)
  PROVE  /\ RangeNumbers(d, k) \in Symbol
         /\ RangeNumbers(d, k + 1)
              = Append(Append(RangeNumbers(d, k), Decimal(d.exclusions[k + 1].start)),
                       Decimal(d.exclusions[k + 1].length))
<1> DEFINE n == 2 * k
           s == RangeNumbers(d, k)
           u == RangeNumbers(d, k + 1)
           x == Decimal(d.exclusions[k + 1].start)
           y == Decimal(d.exclusions[k + 1].length)
           v == Append(s, x)
           w == Append(v, y)
<1>1. /\ n \in Nat /\ (n + 1) % 2 = 1 /\ (n + 2) % 2 = 0
      /\ (n + 2) \div 2 = k + 1 /\ (n + 3) \div 2 = k + 1
      /\ 2 * (k + 1) = n + 2
  OBVIOUS
<1>2. x \in Alphabet /\ y \in Alphabet
  <2>1. k + 1 \in 1 .. Len(d.exclusions)
    BY Binding
  <2> QED
    BY <2>1, Binding, AlphabetHolds
<1>3. s \in Symbol
  BY Binding, RangeNumbersTyped
<1>4. DOMAIN s = 1 .. n
  BY DEF RangeNumbers
<1>5. \A i \in 1 .. n : u[i] = s[i]
  BY DEF RangeNumbers
<1>6. u[n + 1] = x /\ u[n + 2] = y
  <2>1. n + 1 \in 1 .. 2 * (k + 1) /\ n + 2 \in 1 .. 2 * (k + 1)
    OBVIOUS
  <2>2. /\ ((n + 1) + 1) \div 2 = k + 1 /\ ((n + 2) + 1) \div 2 = k + 1
        /\ (n + 1) % 2 = 1 /\ (n + 2) % 2 # 1
    BY <1>1
  <2> HIDE DEF n
  <2> QED
    BY <2>1, <2>2 DEF RangeNumbers
<1>7. u = [i \in 1 .. n + 2 |-> u[i]]
  <2> HIDE DEF n
  <2> QED
    BY <1>1 DEF RangeNumbers
<1> HIDE DEF n, s, u, x, y
<1>8. Len(s) = n
  BY <1>1, <1>3, <1>4 DEF Symbol
<1>9. /\ v \in Symbol /\ Len(v) = n + 1 /\ v[n + 1] = x
      /\ \A i \in 1 .. n : v[i] = s[i]
  BY <1>1, <1>2, <1>3, <1>8 DEF Symbol
<1> HIDE DEF v
<1>10. /\ w \in Symbol /\ Len(w) = n + 2 /\ w[n + 2] = y
       /\ \A i \in 1 .. n + 1 : w[i] = v[i]
  BY <1>1, <1>2, <1>9 DEF Symbol
<1> HIDE DEF w
<1>11. ASSUME NEW i \in 1 .. n + 2
       PROVE  u[i] = w[i]
  <2>1. i \in 1 .. n \/ i = n + 1 \/ i = n + 2
    BY <1>1
  <2>2. i \in 1 .. n => i \in 1 .. n + 1
    BY <1>1
  <2>3. n + 1 \in 1 .. n + 1
    BY <1>1
  <2> QED
    BY <1>5, <1>6, <1>9, <1>10, <2>1, <2>2, <2>3
<1>12. w = [i \in 1 .. n + 2 |-> w[i]]
  BY <1>10 DEF Symbol
<1>13. u = w
  BY <1>7, <1>11, <1>12
<1> QED
  BY <1>3, <1>13 DEF u, w, v, s, x, y

\* Everything that is read of a legible binding has the type of what is read.
LEMMA StringsTyped ==
  ASSUME NEW d \in DataHashes, Legible(d)
  PROVE  /\ AllNumbers(d) \in Symbol
         /\ RangeStrings(Len(d.exclusions)) \in Strings
         /\ Append(RangeStrings(Len(d.exclusions)), <<"alg">>) \in Strings
         /\ ToHash(d) \in Strings
         /\ Whole(d.hash) \in Symbol /\ Append(ToHash(d), Whole(d.hash)) \in Strings
         /\ ToPad(d) \in Strings
         /\ Whole(d.pad) \in Symbol /\ Append(ToPad(d), Whole(d.pad)) \in Strings
<1> DEFINE n == Len(d.exclusions)
<1>1. n \in Nat
  BY Binding
<1>2. AllNumbers(d) \in Symbol
  BY <1>1, RangeNumbersTyped DEF AllNumbers
<1>3. RangeStrings(n) \in Strings
  BY <1>1, RangeStringsTyped
<1>4. <<"alg">> \in Symbol /\ <<"hash">> \in Symbol /\ <<"pad">> \in Symbol
  BY WordsHeld DEF Symbol
<1>5. <<d.alg>> \in Symbol
  BY LegibleTexts, PlainSeq DEF Symbol
<1>6. ASSUME NEW bytes \in Seq(0 .. 255)
      PROVE  Whole(bytes) \in Symbol
  <2> DEFINE m == Chunks(Len(bytes))
  <2>1. m \in Nat /\ m <= Chunks(Len(bytes))
    BY DEF Chunks
  <2>2. \A i \in 1 .. 64 : T[i] \in Alphabet
    BY AlphabetHolds
  <2>3. Pad \in Alphabet
    BY AlphabetHolds
  <2> HIDE DEF m
  <2>4. Base64(bytes, m) \in Seq(Alphabet)
    BY <2>1, <2>2, <2>3, Base64Typed
  <2> QED
    BY <2>4 DEF Whole, Symbol, m
<1>7. Whole(d.hash) \in Symbol /\ Whole(d.pad) \in Symbol
  BY <1>6, Binding
<1>8. \A s \in Strings, t \in Symbol : Append(s, t) \in Strings
  BY DEF Strings, Symbol
<1>9. ToHash(d) \in Strings /\ Append(RangeStrings(n), <<"alg">>) \in Strings
  BY <1>3, <1>4, <1>5, <1>8 DEF ToHash
<1>10. Append(ToHash(d), Whole(d.hash)) \in Strings /\ ToPad(d) \in Strings
  BY <1>4, <1>7, <1>8, <1>9 DEF ToPad
<1>11. Append(ToPad(d), Whole(d.pad)) \in Strings
  BY <1>7, <1>8, <1>10
<1> QED
  BY <1>2, <1>3, <1>7, <1>9, <1>10, <1>11

\* The empty text is a text, and adds nothing in front of another.
LEMMA NothingTyped ==
  ASSUME NEW S
  PROVE  <<>> \in Seq(S) /\ \A t \in Seq(S) : <<>> \o t = t
OBVIOUS

\* There is one more.
LEMMA NextIndex ==
  ASSUME NEW n \in Nat, NEW k \in Nat, k < n
  PROVE  k + 1 \in 1 .. n
OBVIOUS

\* Two symbols as two pieces.
LEMMA Pairs ==
  ASSUME NEW A, NEW a \in A, NEW b \in A
  PROVE  <<a, b>> = <<a>> \o <<b>>
<1> DEFINE x == <<a>> \o <<b>>
<1>1. x \in Seq(A) /\ Len(x) = 2 /\ x[1] = a /\ x[2] = b
  OBVIOUS
<1> HIDE DEF x
<1>2. x = <<a, b>>
  BY <1>1
<1> QED
  BY <1>2 DEF x

\* Four symbols, for a quoted word and the comma behind it.
LEMMA Four ==
  ASSUME NEW a \in Alphabet, NEW b \in Alphabet, NEW c \in Alphabet, NEW d \in Alphabet
  PROVE  <<a, b, c, d>> = (<<a>> \o <<b>> \o <<c>>) \o <<d>>
<1> DEFINE y == <<a>> \o <<b>> \o <<c>>
           t == <<d>>
           x == y \o t
<1>1. y \in Seq(Alphabet) /\ Len(y) = 3 /\ y[1] = a /\ y[2] = b /\ y[3] = c
  OBVIOUS
<1>2. t \in Seq(Alphabet) /\ Len(t) = 1 /\ t[1] = d
  OBVIOUS
<1> HIDE DEF y, t
<1>3. x \in Seq(Alphabet) /\ Len(x) = 4 /\ x[1] = a /\ x[2] = b /\ x[3] = c /\ x[4] = d
  <2>1. /\ y \o t \in Seq(Alphabet)
        /\ Len(y \o t) = Len(y) + Len(t)
        /\ \A j \in 1 .. Len(y) : (y \o t)[j] = y[j]
        /\ \A j \in 1 .. Len(t) : (y \o t)[Len(y) + j] = t[j]
    <3>1. y \in Seq(Alphabet) /\ t \in Seq(Alphabet)
      BY <1>1, <1>2
    <3> QED
      BY <3>1, JoinProperties
  <2> QED
    BY <1>1, <1>2, <2>1
<1> HIDE DEF x
<1>4. x = <<a, b, c, d>>
  BY <1>3
<1> QED
  BY <1>4 DEF x, y, t

\* Six symbols, for the start of the object.
LEMMA Six ==
  ASSUME NEW A, NEW a \in A, NEW b \in A, NEW c \in A, NEW d \in A, NEW e \in A, NEW f \in A
  PROVE  <<a, b, c, d, e, f>> = <<a>> \o <<b, c, d, e>> \o <<f>>
<1> DEFINE y == <<a>> \o <<b, c, d, e>>
           x == y \o <<f>>
<1>1. /\ y \in Seq(A) /\ Len(y) = 5
      /\ y[1] = a /\ y[2] = b /\ y[3] = c /\ y[4] = d /\ y[5] = e
  OBVIOUS
<1> HIDE DEF y
<1> DEFINE t == <<f>>
<1>4. t \in Seq(A) /\ Len(t) = 1 /\ t[1] = f
  OBVIOUS
<1> HIDE DEF t
<1>2. /\ x \in Seq(A) /\ Len(x) = 6
      /\ x[1] = a /\ x[2] = b /\ x[3] = c /\ x[4] = d /\ x[5] = e /\ x[6] = f
  <2>1. /\ y \o t \in Seq(A)
        /\ Len(y \o t) = Len(y) + Len(t)
        /\ \A j \in 1 .. Len(y) : (y \o t)[j] = y[j]
        /\ \A j \in 1 .. Len(t) : (y \o t)[Len(y) + j] = t[j]
    <3>1. y \in Seq(A) /\ t \in Seq(A)
      BY <1>1, <1>4
    <3> QED
      BY <3>1, JoinProperties
  <2>2. x = y \o t
    BY DEF t
  <2> HIDE DEF x
  <2> QED
    BY <1>1, <1>4, <2>1, <2>2
<1> HIDE DEF x
<1>3. x = <<a, b, c, d, e, f>>
  BY <1>2
<1> QED
  BY <1>3 DEF x, y

\* A text with a symbol more is a text.
LEMMA AppendTyped ==
  ASSUME NEW S, NEW s \in Seq(S), NEW e \in S
  PROVE  Append(s, e) \in Seq(S)
OBVIOUS

\* The first word of the object.
LEMMA TakesStart ==
  ASSUME NEW d \in DataHashes
  PROVE  Takes(Unread, <<"{", Quote, "exclusions", Quote, ":", "[">>,
               Outside(RangeStrings(0), RangeNumbers(d, 0)))
<1> DEFINE e == <<>>
           q == Outside(Append(e, <<"exclusions">>), e)
<1>1. /\ Unread = Outside(e, e)
      /\ RangeStrings(0) = Append(e, <<"exclusions">>)
      /\ RangeNumbers(d, 0) = e
      /\ e \in Strings /\ e \in Symbol
  BY DEF Unread, Outside, RangeStrings, RangeNumbers, Strings, Symbol
<1>2. <<"{", Quote, "exclusions", Quote, ":", "[">> = <<"{">> \o Field("exclusions") \o <<"[">>
  <2>1. /\ "{" \in Alphabet /\ Quote \in Alphabet /\ "exclusions" \in Alphabet
        /\ ":" \in Alphabet /\ "[" \in Alphabet
    BY WordsHeld, AlphabetHolds DEF Plain
  <2>2. ASSUME NEW a \in Alphabet, NEW c \in Alphabet, NEW f \in Alphabet
        PROVE  <<a, Quote, c, Quote, ":", f>> = <<a>> \o Field(c) \o <<f>>
    <3>1. ASSUME NEW g \in Alphabet, NEW k \in Alphabet
          PROVE  <<a, g, c, g, k, f>> = <<a>> \o <<g, c, g, k>> \o <<f>>
      BY Six
    <3>2. <<a, Quote, c, Quote, ":", f>> = <<a>> \o <<Quote, c, Quote, ":">> \o <<f>>
      BY <2>1, <3>1, Zenon
    <3> QED
      BY <3>2 DEF Field
  <2> QED
    BY <2>1, <2>2
<1>3. "{" \in Punctuation /\ "[" \in Punctuation
  BY DEF Punctuation
<1>4. "{" \in Alphabet /\ "[" \in Alphabet /\ "exclusions" \in Plain(Alphabet)
  BY WordsHeld
<1> HIDE DEF e
<1>5. Takes(Outside(e, e), <<"{">>, Outside(e, e))
  BY <1>1, <1>3, <1>4, TakesSymbol
<1>6. /\ Takes(Outside(e, e), Field("exclusions"), q)
      /\ Append(e, <<"exclusions">>) \in Strings
  BY <1>1, <1>4, TakesField
<1>7. Takes(q, <<"[">>, q)
  BY <1>1, <1>3, <1>4, <1>6, TakesSymbol
<1>8. Takes(Outside(e, e), <<"{">> \o Field("exclusions"), q)
  BY <1>5, <1>6, TakesJoin
<1>9. Takes(Outside(e, e), <<"{">> \o Field("exclusions") \o <<"[">>, q)
  BY <1>7, <1>8, TakesJoin
<1> QED
  BY <1>1, <1>2, <1>9

\* A number, and what closes it off.
LEMMA TakesNumber ==
  ASSUME NEW S \in Strings, NEW N \in Symbol,
         NEW n \in Nat, Decimal(n) \notin Punctuation \cup {Quote}, NEW c \in {",", "}"}
  PROVE  /\ Append(N, Decimal(n)) \in Symbol
         /\ Takes(Outside(S, N), <<Decimal(n), c>>, Outside(S, Append(N, Decimal(n))))
<1>1. c \in Punctuation /\ c \in Alphabet
  BY WordsHeld DEF Punctuation
<1>2. Decimal(n) \in Alphabet
  BY AlphabetHolds
<1> DEFINE x == Decimal(n)
<1>3. x \in Alphabet /\ x # Quote /\ x \notin Punctuation
  BY <1>2
<1> HIDE DEF x
<1>4. Append(N, x) \in Symbol
  BY <1>3, AppendTyped DEF Symbol
<1>5. Takes(Outside(S, N), <<x>>, Outside(S, Append(N, x)))
  BY <1>3, TakesSymbol
<1>6. Takes(Outside(S, Append(N, x)), <<c>>, Outside(S, Append(N, x)))
  BY <1>1, <1>4, TakesSymbol
<1>7. <<x, c>> = <<x>> \o <<c>>
  BY <1>1, <1>3, Pairs
<1>8. Takes(Outside(S, N), <<x, c>>, Outside(S, Append(N, x)))
  BY <1>5, <1>6, <1>7, TakesJoin
<1> QED
  BY <1>4, <1>8 DEF x

\* One range.
LEMMA TakesRange ==
  ASSUME NEW d \in DataHashes, Legible(d), NEW k \in Nat, k < Len(d.exclusions),
         NEW s, s = (IF k = 0 THEN <<>> ELSE <<",">>) \o <<"{">>
                      \o Field("start") \o <<Decimal(d.exclusions[k + 1].start), ",">>
                      \o Field("length") \o <<Decimal(d.exclusions[k + 1].length), "}">>
  PROVE  Takes(Outside(RangeStrings(k), RangeNumbers(d, k)), s,
               Outside(RangeStrings(k + 1), RangeNumbers(d, k + 1)))
<1>3. k + 1 \in 1 .. Len(d.exclusions)
  <2>1. Len(d.exclusions) \in Nat
    BY Binding
  <2> QED
    BY <2>1, NextIndex, Zenon
<1> DEFINE S  == RangeStrings(k)
           N  == RangeNumbers(d, k)
           n1 == d.exclusions[k + 1].start
           n2 == d.exclusions[k + 1].length
           S1 == Append(S, <<"start">>)
           S2 == Append(S1, <<"length">>)
           N1 == Append(N, Decimal(n1))
           N2 == Append(N1, Decimal(n2))
           c  == IF k = 0 THEN <<>> ELSE <<",">>
<1>1. S \in Strings /\ N \in Symbol
  BY RangeStringsTyped, RangeNumbersNext
<1>2. S2 = RangeStrings(k + 1) /\ N2 = RangeNumbers(d, k + 1)
  BY <1>1, RangeStringsNext, RangeNumbersNext
<1>4. n1 \in Nat /\ n2 \in Nat
  BY <1>3, Binding
<1>5. Decimal(n1) \notin Punctuation \cup {Quote} /\ Decimal(n2) \notin Punctuation \cup {Quote}
  BY <1>3 DEF Legible
<1>6. "start" \in Plain(Alphabet) /\ "length" \in Plain(Alphabet)
  BY WordsHeld
<1>7. s = c \o <<"{">> \o Field("start") \o <<Decimal(n1), ",">>
            \o Field("length") \o <<Decimal(n2), "}">>
  OBVIOUS
<1> HIDE DEF S, N, n1, n2, c
<1>8. /\ S1 \in Strings
      /\ Takes(Outside(S, N), Field("start"), Outside(S1, N))
  BY <1>1, <1>6, TakesField
<1> HIDE DEF S1
<1>9. /\ N1 \in Symbol
      /\ Takes(Outside(S1, N), <<Decimal(n1), ",">>, Outside(S1, N1))
  BY <1>1, <1>4, <1>5, <1>8, TakesNumber
<1> HIDE DEF N1
<1>10. /\ S2 \in Strings
       /\ Takes(Outside(S1, N1), Field("length"), Outside(S2, N1))
  BY <1>6, <1>8, <1>9, TakesField
<1> HIDE DEF S2
<1>11. Takes(Outside(S2, N1), <<Decimal(n2), "}">>, Outside(S2, N2))
  BY <1>4, <1>5, <1>9, <1>10, TakesNumber
<1>12. Takes(Outside(S, N), c, Outside(S, N))
  <2>1. CASE k = 0
    <3>1. Outside(S, N) \in Reader
      BY <1>1, States DEF Reader, Strings, Symbol
    <3>2. c = <<>>
      BY <2>1 DEF c
    <3> QED
      BY <3>1, <3>2, TakesNothing
  <2>2. CASE k # 0
    <3>1. c = <<",">>
      BY <2>2 DEF c
    <3>2. "," \in Punctuation /\ "," \in Alphabet
      BY WordsHeld DEF Punctuation
    <3> QED
      BY <1>1, <3>1, <3>2, TakesSymbol
  <2> QED
    BY <2>1, <2>2
<1>13. Takes(Outside(S, N), <<"{">>, Outside(S, N))
  <2>1. "{" \in Punctuation /\ "{" \in Alphabet
    BY WordsHeld DEF Punctuation
  <2> QED
    BY <1>1, <2>1, TakesSymbol
<1> DEFINE s1 == c \o <<"{">>
           s2 == s1 \o Field("start")
           s3 == s2 \o <<Decimal(n1), ",">>
           s4 == s3 \o Field("length")
<1>14. Takes(Outside(S, N), s1, Outside(S, N))
  BY <1>12, <1>13, TakesJoin
<1>15. Takes(Outside(S, N), s2, Outside(S1, N))
  <2> HIDE DEF s1
  <2> QED
    BY <1>8, <1>14, TakesJoin
<1>16. Takes(Outside(S, N), s3, Outside(S1, N1))
  <2> HIDE DEF s2
  <2> QED
    BY <1>9, <1>15, TakesJoin
<1>17. Takes(Outside(S, N), s4, Outside(S2, N1))
  <2> HIDE DEF s3
  <2> QED
    BY <1>10, <1>16, TakesJoin
<1>18. s = s4 \o <<Decimal(n2), "}">>
  BY <1>7
<1> HIDE DEF s4, N2
<1>19. Takes(Outside(S, N), s, Outside(S2, N2))
  BY <1>11, <1>17, <1>18, TakesJoin
<1> QED
  BY <1>2, <1>19 DEF S, N

\* A quoted word and its comma, as its pieces.
LEMMA QuotedWord ==
  ASSUME NEW a \in Alphabet
  PROVE  <<Quote, a, Quote, ",">> = (<<Quote>> \o <<a>> \o <<Quote>>) \o <<",">>
<1>1. Quote \in Alphabet /\ "," \in Alphabet
  BY WordsHeld, AlphabetHolds
<1> QED
  BY <1>1, Four, Zenon

\* The alg, and the key of the hash.
LEMMA TakesAlg ==
  ASSUME NEW d \in DataHashes, Legible(d),
         NEW s, s = <<"]", ",">> \o Field("alg") \o <<Quote, d.alg, Quote, ",">>
                      \o Field("hash") \o <<Quote>>
  PROVE  Takes(Outside(RangeStrings(Len(d.exclusions)), AllNumbers(d)), s,
               Inside(ToHash(d), AllNumbers(d), <<>>))
<1> DEFINE S  == RangeStrings(Len(d.exclusions))
           N  == AllNumbers(d)
           S1 == Append(S, <<"alg">>)
           t  == <<d.alg>>
           S2 == Append(S1, t)
           S3 == Append(S2, <<"hash">>)
<1>1. S \in Strings /\ N \in Symbol
  BY StringsTyped
<1>2. ToHash(d) = S3
  BY DEF ToHash
<1>3. t \in Seq(Plain(Alphabet))
  BY LegibleTexts
<1>4. "alg" \in Plain(Alphabet) /\ "hash" \in Plain(Alphabet)
  BY WordsHeld
<1>5. /\ "]" \in Punctuation /\ "]" \in Alphabet
      /\ "," \in Punctuation /\ "," \in Alphabet
  BY WordsHeld DEF Punctuation
<1>6. <<"]", ",">> = <<"]">> \o <<",">>
  BY <1>5, Pairs
<1>7. <<Quote, d.alg, Quote, ",">> = (<<Quote>> \o t \o <<Quote>>) \o <<",">>
  <2>1. Quote \in Alphabet /\ d.alg \in Alphabet
    BY DataHashesAssumption, AlphabetHolds
  <2> HIDE DEF t
  <2>2. <<Quote, d.alg, Quote, ",">> = (<<Quote>> \o <<d.alg>> \o <<Quote>>) \o <<",">>
    BY <2>1, QuotedWord, Zenon
  <2> QED
    BY <2>2 DEF t
<1> HIDE DEF S, N, t
<1>8. /\ Takes(Outside(S, N), <<"]">>, Outside(S, N))
      /\ Takes(Outside(S, N), <<",">>, Outside(S, N))
  BY <1>1, <1>5, TakesSymbol
<1>9. /\ S1 \in Strings
      /\ Takes(Outside(S, N), Field("alg"), Outside(S1, N))
  BY <1>1, <1>4, TakesField
<1> HIDE DEF S1
<1>10. /\ S2 \in Strings
       /\ Takes(Outside(S1, N), <<Quote>> \o t \o <<Quote>>, Outside(S2, N))
  BY <1>1, <1>3, <1>9, TakesString
<1> HIDE DEF S2
<1>11. Takes(Outside(S2, N), <<",">>, Outside(S2, N))
  BY <1>1, <1>5, <1>10, TakesSymbol
<1>12. /\ S3 \in Strings
       /\ Takes(Outside(S2, N), Field("hash"), Outside(S3, N))
  BY <1>1, <1>4, <1>10, TakesField
<1> HIDE DEF S3
<1>13. Takes(Outside(S3, N), <<Quote>>, Inside(S3, N, <<>>))
  <2>1. Quote \in Alphabet
    BY AlphabetHolds
  <2> QED
    BY <1>1, <1>12, <2>1, TakesSymbol
<1> DEFINE a1 == <<"]", ",">>
           a2 == a1 \o Field("alg")
           a3 == <<Quote, d.alg, Quote, ",">>
           a4 == a2 \o a3
           a5 == a4 \o Field("hash")
<1>14. Takes(Outside(S, N), a1, Outside(S, N))
  BY <1>6, <1>8, TakesJoin
<1>15. Takes(Outside(S1, N), a3, Outside(S2, N))
  BY <1>7, <1>10, <1>11, TakesJoin
<1> HIDE DEF a1, a3
<1>16. Takes(Outside(S, N), a2, Outside(S1, N))
  BY <1>9, <1>14, TakesJoin
<1> HIDE DEF a2
<1>17. Takes(Outside(S, N), a4, Outside(S2, N))
  BY <1>15, <1>16, TakesJoin
<1> HIDE DEF a4
<1>18. Takes(Outside(S, N), a5, Outside(S3, N))
  BY <1>12, <1>17, TakesJoin
<1>19. s = a5 \o <<Quote>>
  BY DEF a4, a3, a2, a1
<1> HIDE DEF a5
<1>20. Takes(Outside(S, N), s, Inside(S3, N, <<>>))
  BY <1>13, <1>18, <1>19, TakesJoin
<1> QED
  BY <1>2, <1>20 DEF S, N

\* The end of the hash, and the key of the pad.
LEMMA TakesPad ==
  ASSUME NEW d \in DataHashes, Legible(d),
         NEW s, s = <<Quote, ",">> \o Field("pad") \o <<Quote>>
  PROVE  Takes(Inside(ToHash(d), AllNumbers(d), Whole(d.hash)), s,
               Inside(ToPad(d), AllNumbers(d), <<>>))
<1> DEFINE N  == AllNumbers(d)
           w  == Whole(d.hash)
           S  == ToHash(d)
           S1 == Append(S, w)
           S2 == Append(S1, <<"pad">>)
<1>1. S \in Strings /\ N \in Symbol /\ w \in Symbol /\ S1 \in Strings
  BY StringsTyped
<1>2. ToPad(d) = S2
  BY DEF ToPad
<1>3. "pad" \in Plain(Alphabet) /\ "," \in Punctuation /\ "," \in Alphabet
  BY WordsHeld DEF Punctuation
<1>4. Quote \in Alphabet /\ Control \in Alphabet
  BY AlphabetHolds
<1> DEFINE a1 == <<Quote, ",">>
           a2 == a1 \o Field("pad")
<1>5. a1 = <<Quote>> \o <<",">>
  BY <1>3, <1>4, Pairs
<1>6. s = a2 \o <<Quote>>
  OBVIOUS
<1> HIDE DEF S, N, w, S1, a1
<1>7. Takes(Inside(S, N, w), <<Quote>>, Outside(S1, N))
  <2>1. <<>> \in Seq(Plain(Alphabet))
    BY NothingTyped, Zenon
  <2> QED
    BY <1>1, <2>1, TakesPlain DEF S1
<1>8. Takes(Outside(S1, N), <<",">>, Outside(S1, N))
  BY <1>1, <1>3, TakesSymbol
<1>9. /\ S2 \in Strings
      /\ Takes(Outside(S1, N), Field("pad"), Outside(S2, N))
  BY <1>1, <1>3, TakesField
<1> HIDE DEF S2
<1>10. Takes(Outside(S2, N), <<Quote>>, Inside(S2, N, <<>>))
  BY <1>1, <1>4, <1>9, TakesSymbol
<1>11. Takes(Inside(S, N, w), a1, Outside(S1, N))
  BY <1>5, <1>7, <1>8, TakesJoin
<1>12. Takes(Inside(S, N, w), a2, Outside(S2, N))
  BY <1>9, <1>11, TakesJoin
<1> HIDE DEF a2
<1>13. Takes(Inside(S, N, w), s, Inside(S2, N, <<>>))
  BY <1>6, <1>10, <1>12, TakesJoin
<1> QED
  BY <1>2, <1>13 DEF S, N, w

\* The end of the pad, and the name if there is one.
LEMMA TakesEnd ==
  ASSUME NEW d \in DataHashes, Legible(d),
         NEW s, s = <<Quote>> \o WriteName(d.name) \o <<"}">>
  PROVE  Takes(Inside(ToPad(d), AllNumbers(d), Whole(d.pad)), s,
               Outside(ToEnd(d), AllNumbers(d)))
<1> DEFINE N  == AllNumbers(d)
           w  == Whole(d.pad)
           S  == ToPad(d)
           S1 == Append(S, w)
           S2 == Append(S1, <<"name">>)
           S3 == Append(S2, d.name[1])
<1>1. S \in Strings /\ N \in Symbol /\ w \in Symbol /\ S1 \in Strings
  BY StringsTyped
<1>2. ToEnd(d) = IF d.name = <<>> THEN S1 ELSE S3
  BY DEF ToEnd
<1>3. /\ "name" \in Plain(Alphabet)
      /\ "," \in Punctuation /\ "," \in Alphabet
      /\ "}" \in Punctuation /\ "}" \in Alphabet
  BY WordsHeld DEF Punctuation
<1>4. Quote \in Alphabet /\ Control \in Alphabet
  BY AlphabetHolds
<1> DEFINE v == WriteName(d.name)
<1>5. s = <<Quote>> \o v \o <<"}">>
  OBVIOUS
<1> HIDE DEF S, N, w, S1, v
<1>6. Takes(Inside(S, N, w), <<Quote>>, Outside(S1, N))
  <2>1. <<>> \in Seq(Plain(Alphabet))
    BY NothingTyped, Zenon
  <2> QED
    BY <1>1, <2>1, TakesPlain DEF S1
<1>7. CASE d.name = <<>>
  <2>1. v = <<>>
    BY <1>7 DEF v, WriteName
  <2>2. Takes(Outside(S1, N), v, Outside(S1, N))
    <3>1. Outside(S1, N) \in Reader
      BY <1>1, States DEF Reader, Strings, Symbol
    <3> QED
      BY <2>1, <3>1, TakesNothing
  <2>3. Takes(Outside(S1, N), <<"}">>, Outside(S1, N))
    BY <1>1, <1>3, TakesSymbol
  <2>4. Takes(Inside(S, N, w), <<Quote>> \o v, Outside(S1, N))
    BY <1>6, <2>2, TakesJoin
  <2>5. Takes(Inside(S, N, w), s, Outside(S1, N))
    BY <1>5, <2>3, <2>4, TakesJoin
  <2> QED
    BY <1>2, <1>7, <2>5 DEF S, N, w
<1>8. CASE d.name # <<>>
  <2> DEFINE t  == d.name[1]
             b1 == <<",">> \o Field("name")
  <2>1. t \in Seq(Plain(Alphabet))
    BY <1>8, LegibleTexts
  <2>2. v = <<",">> \o Field("name") \o <<Quote>> \o t \o <<Quote>>
    BY <1>8 DEF v, WriteName
  <2> HIDE DEF t
  <2>3. Takes(Outside(S1, N), <<",">>, Outside(S1, N))
    BY <1>1, <1>3, TakesSymbol
  <2>4. /\ S2 \in Strings
        /\ Takes(Outside(S1, N), Field("name"), Outside(S2, N))
    BY <1>1, <1>3, TakesField
  <2>5. Takes(Outside(S1, N), b1, Outside(S2, N))
    BY <2>3, <2>4, TakesJoin
  <2> HIDE DEF S2, b1
  <2>6. Takes(Outside(S2, N), <<Quote>>, Inside(S2, N, <<>>))
    BY <1>1, <1>4, <2>4, TakesSymbol
  <2>7. Takes(Inside(S2, N, <<>>), t, Inside(S2, N, t))
    <3> DEFINE e == <<>>
    <3>1. e \in Symbol /\ e \o t = t
      <4>1. t \in Seq(Alphabet)
        BY <2>1, PlainSeq
      <4> QED
        BY <4>1, NothingTyped, Zenon DEF Symbol
    <3> HIDE DEF e
    <3>2. Takes(Inside(S2, N, e), t, Inside(S2, N, t))
      BY <1>1, <2>1, <2>4, <3>1, TakesPlain
    <3> QED
      BY <3>2 DEF e
  <2>8. Takes(Inside(S2, N, t), <<Quote>>, Outside(Append(S2, t), N))
    <3>1. t \in Symbol
      BY <2>1, PlainSeq DEF Symbol
    <3> QED
      BY <1>1, <2>1, <2>4, <3>1, TakesPlain
  <2>9. Append(S2, t) \in Strings
    <3>1. t \in Symbol
      BY <2>1, PlainSeq DEF Symbol
    <3> QED
      BY <2>4, <3>1, AppendTyped DEF Strings, Symbol
  <2>10. Takes(Outside(Append(S2, t), N), <<"}">>, Outside(Append(S2, t), N))
    BY <1>1, <1>3, <2>9, TakesSymbol
  <2> DEFINE c1 == b1 \o <<Quote>>
             c2 == c1 \o t
             c3 == c2 \o <<Quote>>
  <2>11. Takes(Outside(S1, N), c1, Inside(S2, N, <<>>))
    BY <2>5, <2>6, TakesJoin
  <2>12. Takes(Outside(S1, N), c2, Inside(S2, N, t))
    <3> HIDE DEF c1
    <3> QED
      BY <2>7, <2>11, TakesJoin
  <2>13. Takes(Outside(S1, N), c3, Outside(Append(S2, t), N))
    <3> HIDE DEF c2
    <3> QED
      BY <2>8, <2>12, TakesJoin
  <2>14. v = c3
    BY <2>2 DEF b1
  <2>15. Takes(Inside(S, N, w), <<Quote>> \o v, Outside(Append(S2, t), N))
    BY <1>6, <2>13, <2>14, TakesJoin
  <2>16. Takes(Inside(S, N, w), s, Outside(Append(S2, t), N))
    BY <1>5, <2>10, <2>15, TakesJoin
  <2>17. ToEnd(d) = Append(S2, t)
    BY <1>2, <1>8 DEF t, S2
  <2> QED
    BY <2>16, <2>17 DEF S, N, w
<1> QED
  BY <1>7, <1>8

\* One chunk of bytes, behind the others.
LEMMA TakesChunk ==
  ASSUME NEW S \in Strings, NEW N \in Symbol,
         NEW bytes \in Seq(0 .. 255), NEW m \in Nat, 3 * m < Len(bytes)
  PROVE  Takes(Inside(S, N, Base64(bytes, m)), Symbols(Chunk(bytes, m)),
               Inside(S, N, Base64(bytes, m + 1)))
<1> DEFINE w == Base64(bytes, m)
           t == Symbols(Chunk(bytes, m))
<1>1. (\A i \in 1 .. 64 : T[i] \in Alphabet) /\ Pad \in Alphabet
  BY AlphabetHolds
<1>2. w \in Seq(Alphabet)
  <2>1. m <= Chunks(Len(bytes))
    BY DEF Chunks
  <2> QED
    BY <1>1, <2>1, Base64Typed
<1>3. t \in Seq(Plain(Alphabet))
  BY <1>1, ChunkProperties, SymbolsTyped
<1>4. w \o t = Base64(bytes, m + 1)
  BY <1>1, <1>2, Base64Next
<1> HIDE DEF w, t
<1>5. Takes(Inside(S, N, w), t, Inside(S, N, w \o t))
  BY <1>2, <1>3, TakesPlain DEF Symbol
<1> QED
  BY <1>4, <1>5 DEF w, t

\* How much is taken behind n of l bytes.
SizeOf(l, n) == IF l - n < 3 THEN l - n ELSE 3

\* A chunk ends at a multiple of three or with the bytes.
LEMMA NextSize ==
  ASSUME NEW l \in Nat, NEW n \in Nat, n < l, n % 3 = 0
  PROVE  /\ n + SizeOf(l, n) \in Nat /\ n + SizeOf(l, n) <= l
         /\ (n + SizeOf(l, n)) % 3 = 0 \/ n + SizeOf(l, n) = l
         /\ (n + SizeOf(l, n) + 2) \div 3 = ((n + 2) \div 3) + 1
<1> DEFINE size == SizeOf(l, n)
<1>1. CASE l - n < 3
  <2>1. size = l - n /\ size \in 1 .. 2
    BY <1>1 DEF SizeOf
  <2> HIDE DEF size
  <2>2. /\ n + size \in Nat /\ n + size <= l
        /\ (n + size) % 3 = 0 \/ n + size = l
        /\ (n + size + 2) \div 3 = ((n + 2) \div 3) + 1
    BY <2>1
  <2> QED
    BY <2>2 DEF size
<1>2. CASE ~(l - n < 3)
  <2>1. size = 3
    BY <1>2 DEF SizeOf
  <2> HIDE DEF size
  <2>2. /\ n + size \in Nat /\ n + size <= l
        /\ (n + size) % 3 = 0 \/ n + size = l
        /\ (n + size + 2) \div 3 = ((n + 2) \div 3) + 1
    BY <1>2, <2>1
  <2> QED
    BY <2>2 DEF size
<1> QED
  BY <1>1, <1>2

\* Whole chunks have three bytes each.
LEMMA ChunksOf ==
  ASSUME NEW n \in Nat, n % 3 = 0
  PROVE  Chunks(n) \in Nat /\ 3 * Chunks(n) = n
BY DEF Chunks

\* The size of the next chunk, and how many chunks there are with it.
LEMMA NextChunk ==
  ASSUME NEW bytes \in Seq(0 .. 255), NEW n \in Nat, n < Len(bytes),
         n % 3 = 0 \/ n = Len(bytes)
  PROVE  /\ Chunks(n) \in Nat /\ 3 * Chunks(n) = n
         /\ SubSeq(bytes, n + 1, n + SizeOf(Len(bytes), n)) = Chunk(bytes, Chunks(n))
         /\ n + SizeOf(Len(bytes), n) \in Nat
         /\ Chunks(n + SizeOf(Len(bytes), n)) = Chunks(n) + 1
         /\ n + SizeOf(Len(bytes), n) <= Len(bytes)
         /\ (n + SizeOf(Len(bytes), n)) % 3 = 0 \/ n + SizeOf(Len(bytes), n) = Len(bytes)
<1>1. Len(bytes) \in Nat /\ n % 3 = 0
  OBVIOUS
<1>2. /\ n + SizeOf(Len(bytes), n) \in Nat /\ n + SizeOf(Len(bytes), n) <= Len(bytes)
      /\ (n + SizeOf(Len(bytes), n)) % 3 = 0 \/ n + SizeOf(Len(bytes), n) = Len(bytes)
      /\ (n + SizeOf(Len(bytes), n) + 2) \div 3 = ((n + 2) \div 3) + 1
  BY <1>1, NextSize
<1>3. Chunks(n + SizeOf(Len(bytes), n)) = Chunks(n) + 1
  BY <1>2, Zenon DEF Chunks
<1>4. Chunks(n) \in Nat /\ 3 * Chunks(n) = n
  BY <1>1, ChunksOf, Zenon
<1> DEFINE m == Chunks(n)
<1>5. SizeOf(Len(bytes), n) = ChunkSize(bytes, m)
  <2> HIDE DEF m
  <2> QED
    BY <1>1, <1>4 DEF ChunkSize, SizeOf, m
<1>6. SubSeq(bytes, n + 1, n + SizeOf(Len(bytes), n)) = Chunk(bytes, m)
  <2>1. 3 * m = n
    BY <1>4
  <2> HIDE DEF m
  <2> QED
    BY <1>5, <2>1, Zenon DEF Chunk
<1> QED
  BY <1>2, <1>3, <1>4, <1>6

-----------------------------------------------------------------------------
(* The inductive invariant *)

\* A field that is not begun has no chunks, and one that is done has them all.
LEMMA NoChunks ==
  ASSUME NEW bytes
  PROVE  Base64(bytes, Chunks(0)) = <<>>
<1>1. Chunks(0) = 0
  BY DEF Chunks
<1> QED
  BY <1>1 DEF Base64

\* The text begins as one that has been read so far.
LEMMA Begins ==
  Init => IInv
<1> SUFFICES ASSUME Init
             PROVE  IInv
  OBVIOUS
<1>1. /\ dataHash \in DataHashes /\ pc = "exclusions" /\ done = 0
      /\ json = <<"{", Quote, "exclusions", Quote, ":", "[">>
  BY DEF Init
<1>2. Takes(Unread, json, Outside(RangeStrings(0), RangeNumbers(dataHash, 0)))
  <2> DEFINE s == <<"{", Quote, "exclusions", Quote, ":", "[">>
  <2>1. Takes(Unread, s, Outside(RangeStrings(0), RangeNumbers(dataHash, 0)))
    BY <1>1, TakesStart
  <2>2. json = s
    BY <1>1
  <2> HIDE DEF s
  <2> QED
    BY <2>1, <2>2
<1>3. /\ json \in Symbol
      /\ Read(json) = Outside(RangeStrings(0), RangeNumbers(dataHash, 0))
  BY <1>2 DEF Takes, Read
<1>4. TypeOK
  BY <1>1, <1>3 DEF TypeOK
<1>5. 0 <= Len(dataHash.exclusions)
  <2>1. Len(dataHash.exclusions) \in Nat
    BY <1>1, Binding
  <2> QED
    BY <2>1
<1>6. Got
  BY <1>1, <1>3, <1>5 DEF Got
<1> QED
  BY <1>4, <1>6 DEF IInv

\* A piece that takes the reader on is read behind the text there is.
LEMMA Extended ==
  ASSUME NEW q, NEW p, NEW s, NEW t \in Symbol, Read(t) = q, Takes(q, s, p)
  PROVE  t \o s \in Symbol /\ Read(t \o s) = p
<1>1. Unread \in Reader
  <2>1. <<>> \in Seq(Seq(Alphabet)) /\ <<>> \in Seq(Alphabet)
    BY NothingTyped
  <2>2. Outside(<<>>, <<>>) \in Reader
    BY <2>1, States DEF Reader
  <2> QED
    BY <2>2 DEF Unread, Outside
<1>2. Takes(Unread, t, q)
  BY <1>1 DEF Takes, Read
<1>3. Takes(Unread, t \o s, p)
  BY <1>2, TakesJoin
<1> QED
  BY <1>3 DEF Takes, Read

\* Every step adds what takes the reader to the next state of the invariant.
LEMMA Steps ==
  ASSUME \A d \in DataHashes : Legible(d), IInv, [Next]_vars
  PROVE  IInv'
<1> DEFINE N == AllNumbers(dataHash)
<1>1. /\ dataHash \in DataHashes /\ Legible(dataHash)
      /\ done \in Nat /\ json \in Symbol
  BY DEF IInv, TypeOK
<1>2. CASE WriteRange
  <2> DEFINE ex == dataHash.exclusions[done + 1]
             s  == (IF done = 0 THEN <<>> ELSE <<",">>) \o <<"{">>
                     \o Field("start") \o <<Decimal(ex.start), ",">>
                     \o Field("length") \o <<Decimal(ex.length), "}">>
             q  == Outside(RangeStrings(done), RangeNumbers(dataHash, done))
             p  == Outside(RangeStrings(done + 1), RangeNumbers(dataHash, done + 1))
  <2>1. /\ pc = "exclusions" /\ done < Len(dataHash.exclusions)
        /\ json' = json \o s /\ done' = done + 1
        /\ dataHash' = dataHash /\ pc' = pc
    BY <1>2 DEF WriteRange, Write
  <2>2. Read(json) = q
    BY <2>1 DEF IInv, Got
  <2>3. Takes(q, s, p)
    BY <1>1, <2>1, TakesRange
  <2> HIDE DEF s, q
  <2>4. json' \in Symbol /\ Read(json') = p
    BY <1>1, <2>1, <2>2, <2>3, Extended
  <2>5. done' \in Nat /\ done' <= Len(dataHash'.exclusions)
    <3>1. Len(dataHash.exclusions) \in Nat
      BY <1>1, Binding
    <3> QED
      BY <1>1, <2>1, <3>1
  <2>6. TypeOK'
    BY <1>1, <2>1, <2>4, <2>5 DEF TypeOK
  <2>7. Got'
    BY <2>1, <2>4, <2>5 DEF Got
  <2> QED
    BY <2>6, <2>7 DEF IInv
<1>3. CASE WriteAlg
  <2> DEFINE s == <<"]", ",">> \o Field("alg") \o <<Quote, dataHash.alg, Quote, ",">>
                    \o Field("hash") \o <<Quote>>
             q == Outside(RangeStrings(done), RangeNumbers(dataHash, done))
             p == Inside(ToHash(dataHash), N, Base64(dataHash.hash, Chunks(0)))
  <2>1. /\ pc = "exclusions" /\ done = Len(dataHash.exclusions)
        /\ json' = json \o s /\ done' = 0
        /\ dataHash' = dataHash /\ pc' = "hash"
    BY <1>3 DEF WriteAlg, Write, Then
  <2>2. Read(json) = q
    BY <2>1 DEF IInv, Got
  <2>3. Takes(q, s, p)
    <3>1. Takes(Outside(RangeStrings(Len(dataHash.exclusions)), N), s,
                Inside(ToHash(dataHash), N, <<>>))
      BY <1>1, TakesAlg
    <3>2. p = Inside(ToHash(dataHash), N, <<>>)
      BY NoChunks
    <3> HIDE DEF s, p
    <3> QED
      BY <2>1, <3>1, <3>2 DEF AllNumbers
  <2> HIDE DEF s, q
  <2>4. json' \in Symbol /\ Read(json') = p
    BY <1>1, <2>1, <2>2, <2>3, Extended
  <2>5. WholeChunks(dataHash.hash)'
    <3>1. Len(dataHash.hash) \in Nat
      BY <1>1, Binding
    <3> QED
      BY <2>1, <3>1 DEF WholeChunks
  <2>6. TypeOK'
    BY <1>1, <2>1, <2>4 DEF TypeOK
  <2>7. Got'
    BY <2>1, <2>4, <2>5 DEF Got
  <2> QED
    BY <2>6, <2>7 DEF IInv
<1>4. CASE WriteChunk
  <2>1. /\ pc \in {"hash", "pad"} /\ done < Len(Bytes)
        /\ json' = json \o Symbols(SubSeq(Bytes, done + 1, done + SizeOf(Len(Bytes), done)))
        /\ done' = done + SizeOf(Len(Bytes), done)
        /\ dataHash' = dataHash /\ pc' = pc
    BY <1>4 DEF WriteChunk, Write, SizeOf
  <2>2. CASE pc = "hash"
    <3> DEFINE m == Chunks(done)
               b == dataHash.hash
               q == Inside(ToHash(dataHash), N, Base64(b, m))
               p == Inside(ToHash(dataHash), N, Base64(b, m + 1))
    <3>1. Bytes = b
      BY <2>2 DEF Bytes
    <3>2. b \in Seq(0 .. 255)
      BY <1>1, Binding
    <3>3. Read(json) = q /\ WholeChunks(b)
      BY <2>2 DEF IInv, Got
    <3>4. done < Len(b) /\ (done % 3 = 0 \/ done = Len(b))
      BY <2>1, <3>1, <3>3 DEF WholeChunks
    <3>5. ToHash(dataHash) \in Strings /\ N \in Symbol
      BY <1>1, StringsTyped
    <3> DEFINE z == SizeOf(Len(b), done)
    <3> HIDE DEF b, N, m
    <3>6. /\ m \in Nat /\ 3 * m = done
          /\ SubSeq(b, done + 1, done + z) = Chunk(b, m)
          /\ done + z \in Nat /\ Chunks(done + z) = m + 1
          /\ done + z <= Len(b)
          /\ (done + z) % 3 = 0 \/ done + z = Len(b)
      BY <1>1, <3>2, <3>4, NextChunk DEF m
    <3> HIDE DEF z
    <3>7. json' = json \o Symbols(Chunk(b, m)) /\ done' = done + z
      BY <2>1, <3>1, <3>6 DEF z
    <3>8. Takes(q, Symbols(Chunk(b, m)), p)
      BY <3>2, <3>4, <3>5, <3>6, TakesChunk
    <3> HIDE DEF q
    <3>9. json' \in Symbol /\ Read(json') = p
      BY <1>1, <3>3, <3>7, <3>8, Extended
    <3>10. WholeChunks(dataHash.hash)'
      <4>1. done' <= Len(b) /\ (done' % 3 = 0 \/ done' = Len(b))
        BY <3>6, <3>7
      <4> QED
        BY <2>1, <4>1 DEF WholeChunks, b
    <3>11. Read(json') = Inside(ToHash(dataHash'), AllNumbers(dataHash'),
                                Base64(dataHash'.hash, Chunks(done')))
      BY <2>1, <3>6, <3>7, <3>9 DEF N, b
    <3>12. TypeOK'
      BY <1>1, <2>1, <2>2, <3>6, <3>7, <3>9 DEF TypeOK
    <3>13. Got'
      BY <2>1, <2>2, <3>10, <3>11 DEF Got
    <3> QED
      BY <3>12, <3>13 DEF IInv
  <2>3. CASE pc = "pad"
    <3> DEFINE m == Chunks(done)
               b == dataHash.pad
               q == Inside(ToPad(dataHash), N, Base64(b, m))
               p == Inside(ToPad(dataHash), N, Base64(b, m + 1))
    <3>1. Bytes = b
      BY <2>3 DEF Bytes
    <3>2. b \in Seq(0 .. 255)
      BY <1>1, Binding
    <3>3. Read(json) = q /\ WholeChunks(b)
      BY <2>3 DEF IInv, Got
    <3>4. done < Len(b) /\ (done % 3 = 0 \/ done = Len(b))
      BY <2>1, <3>1, <3>3 DEF WholeChunks
    <3>5. ToPad(dataHash) \in Strings /\ N \in Symbol
      BY <1>1, StringsTyped
    <3> DEFINE z == SizeOf(Len(b), done)
    <3> HIDE DEF b, N, m
    <3>6. /\ m \in Nat /\ 3 * m = done
          /\ SubSeq(b, done + 1, done + z) = Chunk(b, m)
          /\ done + z \in Nat /\ Chunks(done + z) = m + 1
          /\ done + z <= Len(b)
          /\ (done + z) % 3 = 0 \/ done + z = Len(b)
      BY <1>1, <3>2, <3>4, NextChunk DEF m
    <3> HIDE DEF z
    <3>7. json' = json \o Symbols(Chunk(b, m)) /\ done' = done + z
      BY <2>1, <3>1, <3>6 DEF z
    <3>8. Takes(q, Symbols(Chunk(b, m)), p)
      BY <3>2, <3>4, <3>5, <3>6, TakesChunk
    <3> HIDE DEF q
    <3>9. json' \in Symbol /\ Read(json') = p
      BY <1>1, <3>3, <3>7, <3>8, Extended
    <3>10. WholeChunks(dataHash.pad)'
      <4>1. done' <= Len(b) /\ (done' % 3 = 0 \/ done' = Len(b))
        BY <3>6, <3>7
      <4> QED
        BY <2>1, <4>1 DEF WholeChunks, b
    <3>11. Read(json') = Inside(ToPad(dataHash'), AllNumbers(dataHash'),
                                Base64(dataHash'.pad, Chunks(done')))
      BY <2>1, <3>6, <3>7, <3>9 DEF N, b
    <3>12. TypeOK'
      BY <1>1, <2>1, <2>3, <3>6, <3>7, <3>9 DEF TypeOK
    <3>13. Got'
      BY <2>1, <2>3, <3>10, <3>11 DEF Got
    <3> QED
      BY <3>12, <3>13 DEF IInv
  <2> QED
    BY <2>1, <2>2, <2>3
<1>5. CASE EndHash
  <2> DEFINE s == <<Quote, ",">> \o Field("pad") \o <<Quote>>
             q == Inside(ToHash(dataHash), N, Whole(dataHash.hash))
             p == Inside(ToPad(dataHash), N, Base64(dataHash.pad, Chunks(0)))
  <2>1. /\ pc = "hash" /\ done = Len(dataHash.hash)
        /\ json' = json \o s /\ done' = 0
        /\ dataHash' = dataHash /\ pc' = "pad"
    BY <1>5 DEF EndHash, Write, Then, Bytes
  <2>2. Read(json) = q
    BY <2>1 DEF IInv, Got, Whole
  <2>3. Takes(q, s, p)
    <3>1. Takes(q, s, Inside(ToPad(dataHash), N, <<>>))
      BY <1>1, TakesPad
    <3>2. p = Inside(ToPad(dataHash), N, <<>>)
      BY NoChunks
    <3> HIDE DEF s, p, q
    <3> QED
      BY <3>1, <3>2
  <2> HIDE DEF s, q
  <2>4. json' \in Symbol /\ Read(json') = p
    BY <1>1, <2>1, <2>2, <2>3, Extended
  <2>5. WholeChunks(dataHash.pad)'
    <3>1. Len(dataHash.pad) \in Nat
      BY <1>1, Binding
    <3> QED
      BY <2>1, <3>1 DEF WholeChunks
  <2>6. TypeOK'
    BY <1>1, <2>1, <2>4 DEF TypeOK
  <2>7. Got'
    BY <2>1, <2>4, <2>5 DEF Got
  <2> QED
    BY <2>6, <2>7 DEF IInv
<1>6. CASE EndPad
  <2> DEFINE s == <<Quote>> \o WriteName(dataHash.name) \o <<"}">>
             q == Inside(ToPad(dataHash), N, Whole(dataHash.pad))
             p == Outside(ToEnd(dataHash), N)
  <2>1. /\ pc = "pad" /\ done = Len(dataHash.pad)
        /\ json' = json \o s /\ done' = 0
        /\ dataHash' = dataHash /\ pc' = "done"
    BY <1>6 DEF EndPad, Write, Then, Bytes
  <2>2. Read(json) = q
    BY <2>1 DEF IInv, Got, Whole
  <2>3. Takes(q, s, p)
    BY <1>1, TakesEnd
  <2> HIDE DEF s, q
  <2>4. json' \in Symbol /\ Read(json') = p
    BY <1>1, <2>1, <2>2, <2>3, Extended
  <2>5. TypeOK'
    BY <1>1, <2>1, <2>4 DEF TypeOK
  <2>6. Got'
    BY <2>1, <2>4 DEF Got
  <2> QED
    BY <2>5, <2>6 DEF IInv
<1>7. CASE UNCHANGED vars
  <2>1. /\ dataHash' = dataHash /\ pc' = pc
        /\ done' = done /\ json' = json
    BY <1>7 DEF vars
  <2> QED
    BY <2>1 DEF IInv, TypeOK, Got, WholeChunks
<1> QED
  BY <1>2, <1>3, <1>4, <1>5, <1>6, <1>7 DEF Next

-----------------------------------------------------------------------------
(* The text that is complete *)

\* Two strings more.
LEMMA Twice ==
  ASSUME NEW s \in Strings, NEW m \in Nat, NEW x \in Symbol, NEW y \in Symbol, Len(s) = m
  PROVE  /\ Append(Append(s, x), y) \in Strings /\ Len(Append(Append(s, x), y)) = m + 2
         /\ Append(Append(s, x), y)[m + 1] = x /\ Append(Append(s, x), y)[m + 2] = y
         /\ \A i \in 1 .. m : Append(Append(s, x), y)[i] = s[i]
<1> DEFINE t == Append(s, x)
           u == Append(t, y)
<1>1. /\ t \in Strings /\ Len(t) = m + 1 /\ t[m + 1] = x
      /\ \A i \in 1 .. m : t[i] = s[i]
  BY AppendOne DEF Strings, Symbol
<1> HIDE DEF t
<1>3. /\ u \in Strings /\ Len(u) = (m + 1) + 1 /\ u[(m + 1) + 1] = y
      /\ \A i \in 1 .. m + 1 : u[i] = t[i]
  BY <1>1, AppendOne DEF Strings, Symbol
<1> HIDE DEF u
<1>4. (m + 1) + 1 = m + 2 /\ m + 1 \in 1 .. m + 1 /\ \A i \in 1 .. m : i \in 1 .. m + 1
  OBVIOUS
<1>5. /\ u \in Strings /\ Len(u) = m + 2 /\ u[m + 1] = x /\ u[m + 2] = y
      /\ \A i \in 1 .. m : u[i] = s[i]
  BY <1>1, <1>3, <1>4
<1> QED
  BY <1>5 DEF t, u

\* The places of the fields behind those of the ranges.
LEMMA Places ==
  ASSUME NEW n \in Nat
  PROVE  /\ n + 1 \in Nat /\ n + 3 \in Nat /\ n + 5 \in Nat /\ n + 7 \in Nat
         /\ (n + 1) + 1 = n + 2 /\ (n + 1) + 2 = n + 3
         /\ (n + 3) + 1 = n + 4 /\ (n + 3) + 2 = n + 5
         /\ (n + 5) + 1 = n + 6 /\ (n + 5) + 2 = n + 7
         /\ (n + 7) + 1 = n + 8 /\ (n + 7) + 2 = n + 9
         /\ \A i \in 1 .. n : i \in 1 .. n + 1
         /\ \A i \in 1 .. n + 1 : i \in 1 .. n + 3
         /\ \A i \in 1 .. n + 3 : i \in 1 .. n + 5
         /\ \A i \in 1 .. n + 5 : i \in 1 .. n + 7
         /\ n + 2 \in 1 .. n + 3 /\ n + 3 \in 1 .. n + 3
         /\ n + 4 \in 1 .. n + 5 /\ n + 5 \in 1 .. n + 5
         /\ n + 6 \in 1 .. n + 7 /\ n + 7 \in 1 .. n + 7
OBVIOUS

\* The strings of a text behind those of its ranges.
LEMMA Fields ==
  ASSUME NEW r \in Strings, NEW n \in Nat, Len(r) = n + 1,
         NEW x2 \in Symbol, NEW x3 \in Symbol, NEW x4 \in Symbol,
         NEW x5 \in Symbol, NEW x6 \in Symbol, NEW x7 \in Symbol, NEW u \in Strings,
         u = Append(Append(Append(Append(Append(Append(r, x2), x3), x4), x5), x6), x7)
  PROVE  /\ u \in Strings /\ Len(u) = n + 7
         /\ \A i \in 1 .. n + 1 : u[i] = r[i]
         /\ u[n + 2] = x2 /\ u[n + 3] = x3 /\ u[n + 4] = x4
         /\ u[n + 5] = x5 /\ u[n + 6] = x6 /\ u[n + 7] = x7
<1> DEFINE s == Append(Append(r, x2), x3)
           t == Append(Append(s, x4), x5)
<1>1. u = Append(Append(t, x6), x7)
  OBVIOUS
<1>2. /\ s \in Strings /\ Len(s) = n + 3 /\ s[n + 2] = x2 /\ s[n + 3] = x3
      /\ \A i \in 1 .. n + 1 : s[i] = r[i]
  <2>1. /\ s \in Strings /\ Len(s) = (n + 1) + 2 /\ s[(n + 1) + 1] = x2 /\ s[(n + 1) + 2] = x3
        /\ \A i \in 1 .. n + 1 : s[i] = r[i]
    BY Places, Twice
  <2> HIDE DEF s
  <2> QED
    BY <2>1, Places
<1> HIDE DEF s
<1>3. /\ t \in Strings /\ Len(t) = n + 5 /\ t[n + 4] = x4 /\ t[n + 5] = x5
      /\ \A i \in 1 .. n + 3 : t[i] = s[i]
  <2>1. /\ t \in Strings /\ Len(t) = (n + 3) + 2 /\ t[(n + 3) + 1] = x4 /\ t[(n + 3) + 2] = x5
        /\ \A i \in 1 .. n + 3 : t[i] = s[i]
    BY <1>2, Places, Twice
  <2> HIDE DEF t
  <2> QED
    BY <2>1, Places
<1> HIDE DEF t
<1>4. /\ u \in Strings /\ Len(u) = n + 7 /\ u[n + 6] = x6 /\ u[n + 7] = x7
      /\ \A i \in 1 .. n + 5 : u[i] = t[i]
  <2>1. /\ u \in Strings /\ Len(u) = (n + 5) + 2 /\ u[(n + 5) + 1] = x6 /\ u[(n + 5) + 2] = x7
        /\ \A i \in 1 .. n + 5 : u[i] = t[i]
    BY <1>1, <1>3, Places, Twice
  <2> QED
    BY <2>1, Places
<1>5. \A i \in 1 .. n + 3 : u[i] = s[i]
  BY <1>3, <1>4, Places, Zenon
<1>6. \A i \in 1 .. n + 1 : u[i] = r[i]
  BY <1>2, <1>5, Places, Zenon
<1>7. u[n + 2] = x2 /\ u[n + 3] = x3
  BY <1>2, <1>5, Places, Zenon
<1>8. u[n + 4] = x4 /\ u[n + 5] = x5
  BY <1>3, <1>4, Places, Zenon
<1> QED
  BY <1>4, <1>6, <1>7, <1>8, Zenon

\* The ranges have two strings each.
LEMMA Doubled ==
  ASSUME NEW k \in Nat
  PROVE  /\ 2 * k \in Nat /\ (2 * k) % 2 = 0 /\ 1 + 2 * k = 2 * k + 1
         /\ \A n \in Nat : 7 + n + 2 * 0 = n + 7 /\ 7 + n + 2 * 1 = n + 9
OBVIOUS

\* The strings of the ranges stand in pairs behind the first.
LEMMA RangeStringsPlaced ==
  ASSUME NEW k \in Nat
  PROVE  /\ RangeStrings(k) \in Strings /\ Len(RangeStrings(k)) = 2 * k + 1
         /\ \A i \in 1 .. 2 * k : i % 2 = 0 => RangeStrings(k)[i] = <<"start">>
<1> DEFINE r == RangeStrings(k)
<1>1. r \in Strings
  BY RangeStringsTyped
<1>2. DOMAIN r = 1 .. 1 + 2 * k
  BY DEF RangeStrings
<1>3. \A i \in 1 .. 2 * k : i % 2 = 0 => r[i] = <<"start">>
  BY DEF RangeStrings
<1> HIDE DEF r
<1>4. Len(r) = 2 * k + 1
  BY <1>1, <1>2 DEF Strings
<1> QED
  BY <1>1, <1>3, <1>4 DEF r

\* Where the strings of a whole text stand.
PlacedIn(E, d, n) ==
  /\ n \in Nat /\ n % 2 = 0 /\ E \in Strings /\ Len(E) = 7 + n + 2 * Len(d.name)
  /\ \A i \in 1 .. n : i % 2 = 0 => E[i] = <<"start">>
  /\ E[n + 2] = <<"alg">> /\ E[n + 3] = <<d.alg>>
  /\ E[n + 4] = <<"hash">> /\ E[n + 5] = Whole(d.hash)
  /\ E[n + 6] = <<"pad">> /\ E[n + 7] = Whole(d.pad)
  /\ d.name = <<>> => Len(d.name) = 0
  /\ d.name # <<>> => Len(d.name) = 1 /\ E[n + 8] = <<"name">> /\ E[n + 9] = d.name[1]

LEMMA Placed ==
  ASSUME NEW d \in DataHashes, Legible(d)
  PROVE  PlacedIn(ToEnd(d), d, 2 * Len(d.exclusions))
<1> DEFINE n  == 2 * Len(d.exclusions)
           E  == ToEnd(d)
           x2 == <<"alg">>
           x4 == <<"hash">>
           x6 == <<"pad">>
           x8 == <<"name">>
           r  == RangeStrings(Len(d.exclusions))
           x3 == <<d.alg>>
           x5 == Whole(d.hash)
           x7 == Whole(d.pad)
           u  == Append(ToPad(d), x7)
<1>1. n \in Nat /\ n % 2 = 0
  BY Binding, Doubled, Zenon
<1>2. /\ r \in Strings /\ Len(r) = n + 1
      /\ \A i \in 1 .. n : i % 2 = 0 => r[i] = <<"start">>
  BY Binding, RangeStringsPlaced, Zenon
<1>3. x3 \in Symbol /\ x5 \in Symbol /\ x7 \in Symbol
  BY LegibleTexts, PlainSeq, StringsTyped DEF Symbol
<1>4. x2 \in Symbol /\ x4 \in Symbol /\ x6 \in Symbol /\ x8 \in Symbol
  BY WordsHeld DEF Symbol
<1>5. E = IF d.name = <<>> THEN u ELSE Append(Append(u, x8), d.name[1])
  BY DEF ToEnd
<1>6. u \in Strings
  BY StringsTyped
<1>7. u = Append(Append(Append(Append(Append(Append(r, x2), x3), x4), x5), x6), x7)
  BY Zenon DEF ToPad, ToHash
<1> HIDE DEF n, E, r, x2, x3, x4, x5, x6, x7, x8, u
<1>8. /\ u \in Strings /\ Len(u) = n + 7
      /\ \A i \in 1 .. n + 1 : u[i] = r[i]
      /\ u[n + 2] = x2 /\ u[n + 3] = x3 /\ u[n + 4] = x4
      /\ u[n + 5] = x5 /\ u[n + 6] = x6 /\ u[n + 7] = x7
  BY <1>1, <1>2, <1>3, <1>4, <1>6, <1>7, Fields
<1>9. \A i \in 1 .. n : i % 2 = 0 => u[i] = <<"start">>
  BY <1>1, <1>2, <1>8, Places, Zenon
<1>10. CASE d.name = <<>>
  <2>1. E = u /\ Len(d.name) = 0
    BY <1>5, <1>10
  <2>2. Len(E) = 7 + n + 2 * Len(d.name)
    BY <1>1, <1>8, <2>1, Doubled
  <2> QED
    BY <1>1, <1>8, <1>9, <1>10, <2>1, <2>2, Zenon
    DEF PlacedIn, n, E, x2, x3, x4, x5, x6, x7
<1>11. CASE d.name # <<>>
  <2> DEFINE x9 == d.name[1]
  <2>1. E = Append(Append(u, x8), x9) /\ Len(d.name) = 1
    BY <1>5, <1>11, LegibleTexts
  <2>2. x9 \in Symbol
    BY <1>11, LegibleTexts, PlainSeq DEF Symbol
  <2> HIDE DEF x9
  <2>3. /\ E \in Strings /\ Len(E) = (n + 7) + 2
        /\ E[(n + 7) + 1] = x8 /\ E[(n + 7) + 2] = x9
        /\ \A i \in 1 .. n + 7 : E[i] = u[i]
    <3> DEFINE v == Append(Append(u, x8), x9)
    <3>1. n + 7 \in Nat
      BY <1>1
    <3>2. /\ v \in Strings /\ Len(v) = (n + 7) + 2
          /\ v[(n + 7) + 1] = x8 /\ v[(n + 7) + 2] = x9
          /\ \A i \in 1 .. n + 7 : v[i] = u[i]
      BY <1>4, <1>8, <2>2, <3>1, Twice
    <3>3. E = v
      BY <2>1
    <3> HIDE DEF v
    <3> QED
      BY <3>2, <3>3
  <2>4. Len(E) = 7 + n + 2 * Len(d.name)
    BY <1>1, <2>1, <2>3, Doubled, Places
  <2>5. /\ E[n + 2] = u[n + 2] /\ E[n + 3] = u[n + 3] /\ E[n + 4] = u[n + 4]
        /\ E[n + 5] = u[n + 5] /\ E[n + 6] = u[n + 6] /\ E[n + 7] = u[n + 7]
    BY <1>1, <2>3, Places, Zenon
  <2>6. \A i \in 1 .. n : E[i] = u[i]
    BY <1>1, <2>3, Places, Zenon
  <2>7. E[n + 8] = x8 /\ E[n + 9] = x9
    BY <1>1, <2>3, Places, Zenon
  <2> QED
    BY <1>1, <1>8, <1>9, <1>11, <2>1, <2>3, <2>4, <2>5, <2>6, <2>7, Zenon
    DEF PlacedIn, n, E, x2, x3, x4, x5, x6, x7, x8, x9
<1> QED
  BY <1>10, <1>11

\* A key that stands once on an even place is found there.
LEMMA Found ==
  ASSUME NEW E, NEW key, NEW j \in Nat, j \in DOMAIN E, j % 2 = 0, E[j] = <<key>>,
         \A i \in DOMAIN E : i % 2 = 0 /\ E[i] = <<key>> => i = j
  PROVE  ValueOf(E, key) = E[j + 1]
<1>1. (CHOOSE i \in DOMAIN E : i % 2 = 0 /\ E[i] = <<key>>) = j
  OBVIOUS
<1>2. ValueOf(E, key) = E[1 + j]
  BY <1>1 DEF ValueOf
<1>3. 1 + j = j + 1
  OBVIOUS
<1> QED
  BY <1>2, <1>3

\* No key is mistaken for another.
LEMMA Keys ==
  /\ <<"start">> # <<"alg">> /\ <<"start">> # <<"hash">>
  /\ <<"start">> # <<"pad">> /\ <<"start">> # <<"name">>
  /\ <<"alg">> # <<"hash">> /\ <<"alg">> # <<"pad">> /\ <<"alg">> # <<"name">>
  /\ <<"hash">> # <<"pad">> /\ <<"hash">> # <<"name">> /\ <<"pad">> # <<"name">>
<1>1. \A a, b \in STRING : a # b => <<a>> # <<b>>
  OBVIOUS
<1> QED
  BY <1>1

\* The even places of a text.
LEMMA EvenPlaces ==
  ASSUME NEW n \in Nat, n % 2 = 0, NEW l \in {0, 1},
         NEW i \in 1 .. 7 + n + 2 * l, i % 2 = 0
  PROVE  \/ i \in 1 .. n
         \/ i \in {n + 2, n + 4, n + 6}
         \/ l = 1 /\ i = n + 8
OBVIOUS

\* Every field is found by its key, and nothing else is.
LEMMA FoundFields ==
  ASSUME NEW d \in DataHashes, Legible(d), NEW E, E = ToEnd(d)
  PROVE  /\ ValueOf(E, "alg") = <<d.alg>>
         /\ ValueOf(E, "hash") = Whole(d.hash)
         /\ ValueOf(E, "pad") = Whole(d.pad)
         /\ d.name # <<>> => ValueOf(E, "name") = d.name[1]
<1> DEFINE n == 2 * Len(d.exclusions)
           l == Len(d.name)
<1>1. /\ n \in Nat /\ n % 2 = 0 /\ E \in Strings /\ Len(E) = 7 + n + 2 * l
      /\ \A i \in 1 .. n : i % 2 = 0 => E[i] = <<"start">>
      /\ E[n + 2] = <<"alg">> /\ E[n + 3] = <<d.alg>>
      /\ E[n + 4] = <<"hash">> /\ E[n + 5] = Whole(d.hash)
      /\ E[n + 6] = <<"pad">> /\ E[n + 7] = Whole(d.pad)
      /\ d.name = <<>> => l = 0
      /\ d.name # <<>> => l = 1 /\ E[n + 8] = <<"name">> /\ E[n + 9] = d.name[1]
  BY Placed, Zenon DEF PlacedIn
<1> HIDE DEF n, l
<1>2. DOMAIN E = 1 .. 7 + n + 2 * l
  BY <1>1 DEF Strings
<1>3. l \in {0, 1} /\ (l = 1 => E[n + 8] = <<"name">>)
  BY <1>1
<1>4. ASSUME NEW i \in DOMAIN E, i % 2 = 0
      PROVE  \/ E[i] = <<"start">>
             \/ i = n + 2 /\ E[i] = <<"alg">>
             \/ i = n + 4 /\ E[i] = <<"hash">>
             \/ i = n + 6 /\ E[i] = <<"pad">>
             \/ i = n + 8 /\ E[i] = <<"name">>
  <2>1. i \in 1 .. n \/ i \in {n + 2, n + 4, n + 6} \/ (l = 1 /\ i = n + 8)
    BY <1>1, <1>2, <1>3, <1>4, EvenPlaces
  <2> QED
    BY <1>1, <1>3, <1>4, <2>1
<1>5. /\ n + 2 \in Nat /\ n + 2 \in DOMAIN E /\ (n + 2) % 2 = 0 /\ (n + 2) + 1 = n + 3
      /\ n + 4 \in Nat /\ n + 4 \in DOMAIN E /\ (n + 4) % 2 = 0 /\ (n + 4) + 1 = n + 5
      /\ n + 6 \in Nat /\ n + 6 \in DOMAIN E /\ (n + 6) % 2 = 0 /\ (n + 6) + 1 = n + 7
      /\ n + 8 \in Nat /\ (l = 1 => n + 8 \in DOMAIN E) /\ (n + 8) % 2 = 0
      /\ (n + 8) + 1 = n + 9
  BY <1>1, <1>2, <1>3
<1>6. ValueOf(E, "alg") = <<d.alg>>
  <2>1. \A i \in DOMAIN E : i % 2 = 0 /\ E[i] = <<"alg">> => i = n + 2
    BY <1>4, Keys, Zenon
  <2>2. E[n + 2] = <<"alg">>
    BY <1>1
  <2>3. ValueOf(E, "alg") = E[(n + 2) + 1]
    BY <1>5, <2>1, <2>2, Found, Zenon
  <2> QED
    BY <1>1, <1>5, <2>3, Zenon
<1>7. ValueOf(E, "hash") = Whole(d.hash)
  <2>1. \A i \in DOMAIN E : i % 2 = 0 /\ E[i] = <<"hash">> => i = n + 4
    BY <1>4, Keys, Zenon
  <2>2. E[n + 4] = <<"hash">>
    BY <1>1
  <2>3. ValueOf(E, "hash") = E[(n + 4) + 1]
    BY <1>5, <2>1, <2>2, Found, Zenon
  <2> QED
    BY <1>1, <1>5, <2>3, Zenon
<1>8. ValueOf(E, "pad") = Whole(d.pad)
  <2>1. \A i \in DOMAIN E : i % 2 = 0 /\ E[i] = <<"pad">> => i = n + 6
    BY <1>4, Keys, Zenon
  <2>2. E[n + 6] = <<"pad">>
    BY <1>1
  <2>3. ValueOf(E, "pad") = E[(n + 6) + 1]
    BY <1>5, <2>1, <2>2, Found, Zenon
  <2> QED
    BY <1>1, <1>5, <2>3, Zenon
<1>9. ASSUME d.name # <<>>
      PROVE  ValueOf(E, "name") = d.name[1]
  <2>1. \A i \in DOMAIN E : i % 2 = 0 /\ E[i] = <<"name">> => i = n + 8
    BY <1>4, Keys, Zenon
  <2>2. l = 1 /\ E[n + 8] = <<"name">> /\ E[n + 9] = d.name[1]
    BY <1>1, <1>9
  <2>3. ValueOf(E, "name") = E[(n + 8) + 1]
    BY <1>5, <2>1, <2>2, Found, Zenon
  <2> QED
    BY <1>5, <2>2, <2>3, Zenon
<1> QED
  BY <1>6, <1>7, <1>8, <1>9

\* Once everything is written, what has been read is what was to be written.
LEMMA Ends ==
  ASSUME \A d \in DataHashes : Legible(d), IInv
  PROVE  ReadsBack
<1> SUFFICES ASSUME pc = "done"
             PROVE  ReadsBack
  BY DEF ReadsBack
<1> DEFINE d == dataHash
           E == ToEnd(d)
           n == 2 * Len(d.exclusions)
<1>1. d \in DataHashes /\ Legible(d)
  BY DEF IInv, TypeOK
<1>2. Read(json) = Outside(E, AllNumbers(d))
  BY DEF IInv, Got
<1>3. Read(json).mode = "outside" /\ Read(json).strings = E /\ Read(json).numbers = AllNumbers(d)
  BY <1>2 DEF Outside
<1>4. Len(E) = 7 + n + 2 * Len(d.name)
  BY <1>1, Placed, Zenon DEF PlacedIn
<1>5. /\ ValueOf(E, "alg") = <<d.alg>>
      /\ ValueOf(E, "hash") = Whole(d.hash)
      /\ ValueOf(E, "pad") = Whole(d.pad)
      /\ d.name # <<>> => ValueOf(E, "name") = d.name[1]
  BY <1>1, FoundFields
<1>6. Unbase64(Whole(d.hash)) = d.hash /\ Unbase64(Whole(d.pad)) = d.pad
  <2>1. d.hash \in Seq(0 .. 255) /\ d.pad \in Seq(0 .. 255)
    BY <1>1, Binding
  <2> QED
    BY <2>1, Base64ReadsBack DEF Whole
<1>7. AllNumbers(d) =
        [i \in 1 .. n |->
           LET ex == d.exclusions[(i + 1) \div 2]
           IN  Decimal(IF i % 2 = 1 THEN ex.start ELSE ex.length)]
  BY DEF AllNumbers, RangeNumbers
<1> HIDE DEF E
<1> QED
  BY <1>3, <1>4, <1>5, <1>6, <1>7 DEF ReadsBack

-----------------------------------------------------------------------------
(* Theorems *)

\* What to_json writes is, after every step, read back as exactly the fields
\* that have been written: whole strings, whole numbers and the Base64 of whole
\* chunks (hypothesis: the bindings' names and algs hold no
\* character that JSON would have escaped).
THEOREM ReadAsWritten ==
  ASSUME \A d \in DataHashes : Legible(d)
  PROVE  Spec => []IInv
<1>1. Init => IInv
  BY Begins
<1>2. IInv /\ [Next]_vars => IInv'
  BY Steps
<1> QED
  BY <1>1, <1>2, PTL DEF Spec

\* A reader of the whole text gets back the fields to_json was given, the hash
\* and the pad byte for byte and the ranges in their order, for bindings of any
\* number of ranges and bytes.
THEOREM TextReadsBack ==
  ASSUME \A d \in DataHashes : Legible(d)
  PROVE  Spec => []ReadsBack
<1>1. Spec => []IInv
  BY ReadAsWritten
<1>2. IInv => ReadsBack
  BY Ends
<1> QED
  BY <1>1, <1>2, PTL
=============================================================================
