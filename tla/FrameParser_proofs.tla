------------------------ MODULE FrameParser_proofs ------------------------
(***************************************************************************)
(* Proofs about FrameParser, for every length of payloads, reads and the   *)
(* event queue, for any streams of any length and any number of faults:    *)
(* the types with the bytes a call of the parser leaves, that the parser   *)
(* keeps in step on a line without faults and lets no complete frame wait, *)
(* and that after faults no frame that was read whole is thrown away.      *)
(*                                                                         *)
(* Sum8 and FlattenSeq are defined by recursion over data.  What is needed *)
(* of them is proved by an induction over numbers that is stated with a    *)
(* set instead of a predicate (SetInduction).                              *)
(***************************************************************************)
EXTENDS FrameParser, SequenceTheorems, WellFoundedInduction, TLAPS

-----------------------------------------------------------------------------
(* Induction, recursion and FlattenSeq *)

\* A set that holds 0, and each number up to N with its predecessor, holds
\* all of them: the least one missing would have none before it.
LEMMA SetInduction ==
    ASSUME NEW N \in Nat, NEW T, 0 \in T,
           \A n \in 1..N : n - 1 \in T => n \in T
    PROVE  0..N \subseteq T
<1> DEFINE Bad == {n \in 0..N : n \notin T}
<1>1. SUFFICES ASSUME Bad # {} PROVE FALSE
  OBVIOUS
<1>2. Bad \subseteq Nat
  OBVIOUS
<1>3. PICK n \in Bad : \A k \in Bad : <<k, n>> \notin OpToRel(<, Nat)
  <2>. HIDE DEF Bad
  <2>. QED  BY <1>1, <1>2, NatLessThanWellFounded, WFMin, Zenon
<1>4. \A k \in Bad : ~ (k < n)
  BY <1>3, <1>2 DEF OpToRel
<1>. QED
  BY <1>4

\* f begins with a and makes the N steps given.
Solves(f, a, step, N) == f[0] = a /\ \A n \in 1..N : f[n] = step[n][f[n - 1]]

\* Every recursion over the numbers up to N has a solution.
LEMMA Recursion ==
    ASSUME NEW N \in Nat, NEW T, NEW a \in T, NEW step \in [1..N -> [T -> T]]
    PROVE  \E f \in [0..N -> T] : Solves(f, a, step, N)
<1> DEFINE Good == {n \in Nat : \E f \in [0..n -> T] : Solves(f, a, step, n)}
<1>1. 0 \in Good
  <2> DEFINE g == [k \in 0..0 |-> a]
  <2>1. g \in [0..0 -> T] /\ Solves(g, a, step, 0)
    BY DEF Solves
  <2>. HIDE DEF g
  <2>. QED
    BY <2>1
<1>2. ASSUME NEW n \in 1..N, n - 1 \in Good
      PROVE  n \in Good
  <2>1. PICK f \in [0..(n - 1) -> T] : Solves(f, a, step, n - 1)
    BY <1>2
  <2> DEFINE g == [k \in 0..n |-> IF k = n THEN step[n][f[n - 1]] ELSE f[k]]
  <2>2. g \in [0..n -> T]
    OBVIOUS
  <2>3. Solves(g, a, step, n)
    BY <2>1 DEF Solves
  <2>. HIDE DEF g
  <2>. QED
    BY <2>2, <2>3
<1>3. 0..N \subseteq Good
  <2>. HIDE DEF Good
  <2>. QED  BY <1>1, <1>2, SetInduction
<1>. QED
  BY <1>3

\* f[n] is what the first n sequences of s are together.
Concats(f, s) == f[0] = <<>> /\ \A n \in 1..Len(s) : f[n] = f[n - 1] \o s[n]

\* The partial concatenations of s exist.
LEMMA FlattenExists ==
    ASSUME NEW S, NEW s \in Seq(Seq(S))
    PROVE  \E f \in [0..Len(s) -> Seq(S)] : Concats(f, s)
<1> DEFINE step == [n \in 1..Len(s) |-> [x \in Seq(S) |-> x \o s[n]]]
<1>1. step \in [1..Len(s) -> [Seq(S) -> Seq(S)]]
  <2>1. ASSUME NEW n \in 1..Len(s), NEW x \in Seq(S)
        PROVE  x \o s[n] \in Seq(S)
    BY ElementOfSeq, ConcatProperties
  <2>. QED
    BY <2>1, Zenon
<1>2. Len(s) \in Nat /\ <<>> \in Seq(S)
  OBVIOUS
<1>3. PICK f \in [0..Len(s) -> Seq(S)] : Solves(f, <<>>, step, Len(s))
  <2>. HIDE DEF step
  <2>. QED  BY <1>1, <1>2, Recursion, Zenon
<1>4. ASSUME NEW n \in 1..Len(s)
      PROVE  f[n] = f[n - 1] \o s[n]
  <2>1. n - 1 \in 0..Len(s)
    BY <1>2
  <2>2. f[n - 1] \in Seq(S)
    BY <2>1
  <2>. QED
    BY <1>3, <2>2, Zenon DEF Solves
<1>. QED
  BY <1>3, <1>4, Zenon DEF Solves, Concats

\* FlattenSeq(s) is the last of them.
LEMMA FlattenValue ==
    ASSUME NEW S, NEW s \in Seq(Seq(S)),
           NEW f \in [0..Len(s) -> Seq(S)], Concats(f, s)
    PROVE  FlattenSeq(s) = f[Len(s)]
<1>0. Len(s) \in Nat /\ (Len(s) = 0 => s = <<>>)
  OBVIOUS
<1>1. CASE Len(s) = 0
  BY <1>0, <1>1, Zenon DEF FlattenSeq, Concats
<1>2. CASE Len(s) # 0
  <2> DEFINE Def(h) == h = [i \in 1..Len(s) |->
                              IF i = 1 THEN s[i] ELSE h[i - 1] \o s[i]]
             h0 == CHOOSE h : Def(h)
             g == [i \in 1..Len(s) |-> f[i]]
             Good == {n \in Nat : n = 0 \/ h0[n] = f[n]}
  <2>1. f[1] = s[1]
    <3>1. s[1] \in Seq(S) /\ 1 \in 1..Len(s) /\ 1 - 1 = 0
      BY <1>0, <1>2, ElementOfSeq
    <3>2. f[1] = <<>> \o s[1]
      BY <3>1, Zenon DEF Concats
    <3>. QED
      BY <3>1, <3>2, ConcatEmptySeq, Zenon
  <2>2. Def(g)
    <3>1. ASSUME NEW i \in 1..Len(s)
          PROVE  g[i] = IF i = 1 THEN s[i] ELSE g[i - 1] \o s[i]
      <4>1. CASE i = 1
        BY <2>1, <4>1, Zenon
      <4>2. CASE i # 1
        <5>1. i - 1 \in 1..Len(s)
          BY <1>0, <4>2
        <5>. QED
          BY <4>2, <5>1, Zenon DEF Concats
      <4>. QED
        BY <4>1, <4>2
    <3>. QED
      BY <3>1, Zenon
  <2>3. Def(h0)
    <3>. HIDE DEF Def
    <3>. QED  BY <2>2, Zenon
  <2>4. 0..Len(s) \subseteq Good
    <3>1. 0 \in Good
      OBVIOUS
    <3>2. ASSUME NEW n \in 1..Len(s), n - 1 \in Good
          PROVE  n \in Good
      <4>. HIDE DEF h0
      <4>0. n \in Nat /\ (n # 1 => n - 1 # 0)
        BY <1>0
      <4>1. h0[n] = IF n = 1 THEN s[n] ELSE h0[n - 1] \o s[n]
        BY <2>3, Zenon
      <4>2. CASE n = 1
        BY <2>1, <4>0, <4>1, <4>2, Zenon
      <4>3. CASE n # 1
        BY <3>2, <4>0, <4>1, <4>3, Zenon DEF Concats
      <4>. QED
        BY <4>2, <4>3
    <3>. HIDE DEF Good
    <3>. QED  BY <1>0, <3>1, <3>2, SetInduction
  <2>5. h0[Len(s)] = f[Len(s)]
    <3>1. Len(s) \in 0..Len(s)
      BY <1>0
    <3>. HIDE DEF h0
    <3>. QED  BY <1>2, <2>4, <3>1, Zenon
  <2>6. FlattenSeq(s) = h0[Len(s)]
    BY <1>2, Zenon DEF FlattenSeq
  <2>. QED
    BY <2>5, <2>6, Zenon
<1>. QED
  BY <1>1, <1>2

\* FlattenSeq of sequences over S is a sequence over S.
LEMMA FlattenType ==
    ASSUME NEW S, NEW s \in Seq(Seq(S))
    PROVE  FlattenSeq(s) \in Seq(S)
<1>0. Len(s) \in 0..Len(s)
  OBVIOUS
<1>1. PICK f \in [0..Len(s) -> Seq(S)] : Concats(f, s)
  BY FlattenExists, Zenon
<1>2. FlattenSeq(s) = f[Len(s)]
  BY <1>1, FlattenValue, Zenon
<1>. QED
  BY <1>0, <1>2, Zenon

\* FlattenSeq of the first m sequences is the m-th partial concatenation.
LEMMA FlattenPrefix ==
    ASSUME NEW S, NEW s \in Seq(Seq(S)), NEW m \in 0..Len(s),
           NEW f \in [0..Len(s) -> Seq(S)], Concats(f, s)
    PROVE  FlattenSeq(SubSeq(s, 1, m)) = f[m]
<1> DEFINE t == SubSeq(s, 1, m)
           g == [n \in 0..m |-> f[n]]
<1>1. /\ t \in Seq(Seq(S)) /\ Len(t) = m
      /\ \A n \in 1..m : t[n] = s[n]
  OBVIOUS
<1>2. /\ 0..m \subseteq 0..Len(s)
      /\ 0 \in 0..m /\ m \in 0..m
      /\ \A n \in 1..m : n - 1 \in 0..m /\ n \in 0..m /\ n \in 1..Len(s)
  OBVIOUS
<1>3. g \in [0..m -> Seq(S)] /\ g[0] = <<>>
  BY <1>2, Zenon DEF Concats
<1>4. \A n \in 1..m : g[n] = g[n - 1] \o t[n]
  BY <1>1, <1>2, Zenon DEF Concats
<1>5. Concats(g, t)
  BY <1>1, <1>3, <1>4, Zenon DEF Concats
<1>6. FlattenSeq(t) = g[m]
  <2>. HIDE DEF g, t
  <2>. QED  BY <1>1, <1>3, <1>5, FlattenValue, Zenon
<1>. QED
  BY <1>2, <1>6, Zenon

\* One more sequence at the end of s is that much more at the end of what
\* s flattens to: what Deliver does to the frames delivered.
LEMMA FlattenAppend ==
    ASSUME NEW S, NEW s \in Seq(Seq(S)), NEW x \in Seq(S)
    PROVE  FlattenSeq(Append(s, x)) = FlattenSeq(s) \o x
<1> DEFINE t == Append(s, x)
<1>1. /\ t \in Seq(Seq(S)) /\ Len(t) = Len(s) + 1
      /\ SubSeq(t, 1, Len(s)) = s /\ t[Len(t)] = x
  OBVIOUS
<1>2. /\ Len(s) \in 0..Len(t) /\ Len(t) \in 1..Len(t)
      /\ Len(t) - 1 = Len(s)
  BY <1>1
<1>. HIDE DEF t
<1>3. PICK f \in [0..Len(t) -> Seq(S)] : Concats(f, t)
  BY <1>1, FlattenExists, Zenon
<1>4. FlattenSeq(t) = f[Len(t)]
  BY <1>1, <1>3, FlattenValue, Zenon
<1>5. FlattenSeq(SubSeq(t, 1, Len(s))) = f[Len(s)]
  BY <1>1, <1>2, <1>3, FlattenPrefix, Zenon
<1>6. f[Len(t)] = f[Len(s)] \o x
  BY <1>1, <1>2, <1>3, Zenon DEF Concats
<1>. QED
  BY <1>1, <1>4, <1>5, <1>6, Zenon DEF t

Assoc(a, b, c) == (a \o b) \o c = a \o (b \o c)

\* Concatenation is associative; the predicate hides the equality, so that a
\* proof can cite it for sequences that are terms.
LEMMA Associative ==
    ASSUME NEW S, NEW a \in Seq(S), NEW b \in Seq(S), NEW c \in Seq(S)
    PROVE  Assoc(a, b, c)
BY ConcatAssociative DEF Assoc

Regroups(z, y, r, x) == (z \o (y \o r)) \o x = z \o (y \o (r \o x))

\* Brackets of four concatenations.
LEMMA Regrouping ==
    ASSUME NEW S,
           NEW z \in Seq(S), NEW y \in Seq(S), NEW r \in Seq(S), NEW x \in Seq(S)
    PROVE  Regroups(z, y, r, x) /\ r \o x \in Seq(S)
<1>1. y \o r \in Seq(S) /\ r \o x \in Seq(S)
  OBVIOUS
<1>2. Assoc(z, y \o r, x) /\ Assoc(y, r, x)
  BY <1>1, Associative, Zenon
<1>. QED
  BY <1>1, <1>2, Zenon DEF Assoc, Regroups

\* What s flattens to begins with its first n sequences, then comes the next
\* one, then something.
LEMMA FlattenSplit ==
    ASSUME NEW S, NEW s \in Seq(Seq(S)), NEW n \in 0..(Len(s) - 1)
    PROVE  \E r \in Seq(S) :
              FlattenSeq(s) = FlattenSeq(SubSeq(s, 1, n)) \o (s[n + 1] \o r)
<1>1. PICK f \in [0..Len(s) -> Seq(S)] : Concats(f, s)
  BY FlattenExists, Zenon
<1> DEFINE Good == {m \in Nat : \E r \in Seq(S) :
                                    f[n + 1 + m] = f[n] \o (s[n + 1] \o r)}
           N == Len(s) - n - 1
<1>2. /\ N \in Nat /\ n \in 0..Len(s) /\ n + 1 \in 1..Len(s)
      /\ n + 1 - 1 = n /\ n + 1 + N = Len(s) /\ n + 1 + 0 = n + 1
      /\ N \in 0..N
  OBVIOUS
<1>3. s[n + 1] \in Seq(S) /\ f[n] \in Seq(S)
  BY <1>2, ElementOfSeq
<1>4. 0 \in Good
  <2>1. f[n + 1] = f[n] \o s[n + 1]
    <3>1. f[n + 1] = f[(n + 1) - 1] \o s[n + 1]
      BY <1>1, <1>2, Zenon DEF Concats
    <3>. QED
      BY <1>2, <3>1
  <2>2. s[n + 1] \o <<>> = s[n + 1] /\ <<>> \in Seq(S) /\ 0 \in Nat
    BY <1>3, ConcatEmptySeq
  <2>. QED
    BY <1>2, <2>1, <2>2, Zenon
<1>5. ASSUME NEW m \in 1..N, m - 1 \in Good
      PROVE  m \in Good
  <2>1. PICK r \in Seq(S) : f[n + 1 + (m - 1)] = f[n] \o (s[n + 1] \o r)
    BY <1>5, Zenon
  <2>2. n + 1 + m \in 1..Len(s) /\ (n + 1 + m) - 1 = n + 1 + (m - 1) /\ m \in Nat
    BY <1>2
  <2>3. s[n + 1 + m] \in Seq(S)
    BY <2>2, ElementOfSeq
  <2> DEFINE x == s[n + 1 + m]
             y == s[n + 1]
             z == f[n]
  <2>4. f[n + 1 + m] = (z \o (y \o r)) \o x
    BY <1>1, <2>1, <2>2, Zenon DEF Concats
  <2>5. Regroups(z, y, r, x) /\ r \o x \in Seq(S)
    BY <1>3, <2>3, Regrouping, Zenon
  <2>. QED
    BY <2>2, <2>4, <2>5, Zenon DEF Regroups
<1>6. 0..N \subseteq Good
  <2>. HIDE DEF Good, N
  <2>. QED  BY <1>2, <1>4, <1>5, SetInduction
<1>7. PICK r \in Seq(S) : f[n + 1 + N] = f[n] \o (s[n + 1] \o r)
  <2>. HIDE DEF N
  <2>. QED  BY <1>2, <1>6, Zenon
<1>8. FlattenSeq(s) = f[Len(s)]
  BY <1>1, FlattenValue, Zenon
<1>9. FlattenSeq(SubSeq(s, 1, n)) = f[n]
  BY <1>1, <1>2, FlattenPrefix, Zenon
<1>. QED
  BY <1>2, <1>7, <1>8, <1>9, Zenon

-----------------------------------------------------------------------------
(* Frames, and where the search stops *)

\* A sequence of bytes that is a frame of possible length and adds up.
IsFrame(f) ==
    /\ f \in Seq(Byte)
    /\ Len(f) \in FRAME_MIN_LEN..FRAME_MAX_LEN
    /\ HeadAt(f, 1) /\ FrameLen(f, 1) = Len(f)
    /\ Sum8(SubSeq(f, 1, Len(f) - 1)) = f[Len(f)]

\* A sum modulo 256 is a byte.
LEMMA SumOfBytes == \A a, b \in Byte : (a + b) % 256 \in Byte
BY DEF Byte

\* The sum __frame_parse_data computes is a byte, for any number of bytes.
LEMMA SumIsByte ==
    ASSUME NEW s \in Seq(Byte)
    PROVE  Sum8(s) \in Byte
<1> DEFINE Eq(f, n) == f[n] = IF n = 0 THEN 0 ELSE (f[n - 1] + s[n]) % 256
           Sums(n) == {f \in [0..n -> Byte] : \A k \in 0..n : Eq(f, k)}
           Good == {n \in Nat : Sums(n) # {}}
<1>0. Len(s) \in Nat
  OBVIOUS
<1>1. 0 \in Good
  <2>1. [k \in 0..0 |-> 0] \in Sums(0)
    BY DEF Byte
  <2>. QED
    BY <2>1
<1>2. ASSUME NEW n \in 1..Len(s), n - 1 \in Good
      PROVE  n \in Good
  <2>1. PICK f : f \in Sums(n - 1)
    BY <1>2
  <2> DEFINE g == [k \in 0..n |-> IF k = n THEN (f[n - 1] + s[n]) % 256 ELSE f[k]]
  <2>2. s[n] \in Byte /\ f[n - 1] \in Byte
    BY <2>1, ElementOfSeq
  <2>3. (f[n - 1] + s[n]) % 256 \in Byte
    BY <2>2, SumOfBytes, Zenon
  <2>4. g \in [0..n -> Byte]
    BY <2>1, <2>3
  <2>5. g \in Sums(n)
    BY <2>1, <2>4
  <2>. HIDE DEF Sums
  <2>. QED
    BY <2>5, <1>0
<1>3. 0..Len(s) \subseteq Good
  <2>. HIDE DEF Good
  <2>. QED  BY <1>0, <1>1, <1>2, SetInduction
<1>4. PICK f : f \in Sums(Len(s))
  BY <1>0, <1>3
<1> DEFINE Def(h) == h = [n \in 0..Len(s) |->
                     IF n = 0 THEN 0 ELSE (h[n - 1] + s[n]) % 256]
           h0 == CHOOSE h : Def(h)
<1>5. Def(f)
  BY <1>4
<1>6. Def(h0)
  <2>. HIDE DEF Def
  <2>. QED  BY <1>5, Zenon
<1>7. Sum8(s) = h0[Len(s)]
  BY Zenon DEF Sum8
<1>8. h0[Len(s)] \in Byte
  <2>. DEFINE Typed == {n \in Nat : h0[n] \in Byte}
  <2>. HIDE DEF h0
  <2>1. 0 \in Typed
    BY <1>6 DEF Byte
  <2>2. ASSUME NEW n \in 1..Len(s), n - 1 \in Typed
        PROVE  n \in Typed
    <3>1. s[n] \in Byte /\ h0[n - 1] \in Byte
      BY <2>2, ElementOfSeq
    <3>2. h0[n] = (h0[n - 1] + s[n]) % 256 /\ n \in Nat
      BY <1>6
    <3>3. h0[n] \in Byte
      BY <3>1, <3>2, SumOfBytes, Zenon
    <3>. QED
      BY <3>2, <3>3
  <2>3. 0..Len(s) \subseteq Typed
    <3>. HIDE DEF Typed
    <3>. QED  BY <1>0, <2>1, <2>2, SetInduction
  <2>. QED
    BY <1>0, <2>3
<1>. QED
  BY <1>7, <1>8

\* A length below 65536 is what its two bytes say.
LEMMA LengthBytes ==
    ASSUME NEW n \in Nat, n < Wrap
    PROVE  /\ n \div 256 \in Byte /\ n % 256 \in Byte
           /\ 256 * (n \div 256) + (n % 256) = n
BY DEF Byte, Wrap

HasShape(body, p, hi, lo) ==
    /\ body \in Seq(Byte) /\ Len(body) = Len(p) + 6
    /\ body[1] = 85 /\ body[2] = 170 /\ body[3] = hi /\ body[4] = lo

\* Where the length stands in front of a payload.
LEMMA BodyShape ==
    ASSUME NEW p \in Seq(Byte), NEW hi \in Byte, NEW lo \in Byte
    PROVE  HasShape(<<85, 170, hi, lo, 32, 128>> \o p, p, hi, lo)
BY DEF Byte, HasShape

\* What the chip sends is a frame, seven bytes longer than its payload.
LEMMA FramedIsFrame ==
    ASSUME NEW p \in Seq(Byte), Len(p) <= MaxPayload
    PROVE  IsFrame(Framed(p)) /\ Len(Framed(p)) = Len(p) + 7
<1> DEFINE hi == Len(p) \div 256
           lo == Len(p) % 256
           head == <<85, 170, hi, lo, 32, 128>>
           body == head \o p
           f == Append(body, Sum8(body))
<1>1. /\ Len(p) \in Nat /\ Len(p) < Wrap
      /\ Len(p) + 7 \in FRAME_MIN_LEN..FRAME_MAX_LEN
  BY ParserAssumption DEF FRAME_MIN_LEN, FRAME_MAX_LEN, TmpSize, Wrap
<1>2. hi \in Byte /\ lo \in Byte /\ 256 * hi + lo = Len(p)
  BY <1>1, LengthBytes
<1>3. /\ body \in Seq(Byte) /\ Len(body) = Len(p) + 6
      /\ body[1] = 85 /\ body[2] = 170 /\ body[3] = hi /\ body[4] = lo
  <2>1. HasShape(body, p, hi, lo)
    <3>. HIDE DEF hi, lo
    <3>. QED  BY <1>2, BodyShape
  <2>. QED
    BY <2>1, Zenon DEF HasShape
<1>5. Sum8(body) \in Byte
  <2>. HIDE DEF body
  <2>. QED  BY <1>3, SumIsByte
<1>6. /\ f \in Seq(Byte) /\ Len(f) = Len(p) + 7
      /\ \A i \in 1..Len(body) : f[i] = body[i]
      /\ f[Len(f)] = Sum8(body)
  <2>. HIDE DEF body
  <2>. QED  BY <1>1, <1>3, <1>5, AppendProperties
<1>7. SubSeq(f, 1, Len(f) - 1) = body
  <2>. HIDE DEF body
  <2>. QED  BY <1>1, <1>3, <1>5, <1>6
<1>8. f[1] = 85 /\ f[2] = 170 /\ f[3] = hi /\ f[4] = lo
  <2>. HIDE DEF body, f, hi, lo
  <2>. QED  BY <1>1, <1>3, <1>6
<1>9. IsFrame(f)
  <2>. HIDE DEF body, f, hi, lo
  <2>1. HeadAt(f, 1) /\ FrameLen(f, 1) = Len(f)
    BY <1>2, <1>6, <1>8 DEF HeadAt, FrameLen
  <2>2. Len(f) \in FRAME_MIN_LEN..FRAME_MAX_LEN
    BY <1>1, <1>6
  <2>. QED
    BY <1>6, <1>7, <2>1, <2>2, Zenon DEF IsFrame
<1>10. Framed(p) = f
  BY DEF Framed
<1>. QED
  <2>. HIDE DEF f
  <2>. QED  BY <1>6, <1>9, <1>10

\* The search stops at a frame that stands whole in the bytes kept, if not
\* before it.
LEMMA FrameIsHit ==
    ASSUME NEW s \in Seq(Byte), NEW f, IsFrame(f),
           NEW m \in 1..(Len(s) + 1 - Len(f)), SubSeq(s, m, m + Len(f) - 1) = f
    PROVE  m \in Hits(s) /\ Whole(s, m) /\ FrameLen(s, m) = Len(f)
<1>1. /\ f \in Seq(Byte) /\ Len(f) \in Nat /\ Len(f) >= 7
      /\ HeadAt(f, 1) /\ FrameLen(f, 1) = Len(f)
  BY DEF IsFrame, FRAME_MIN_LEN
<1>2. Len(s) \in Nat /\ m \in Nat /\ m >= 1 /\ m + Len(f) - 1 <= Len(s)
  BY <1>1
<1>3. \A i \in 1..Len(f) : f[i] = s[m + i - 1]
  BY <1>1, <1>2
<1>4. f[1] = s[m] /\ f[2] = s[m + 1] /\ f[3] = s[m + 2] /\ f[4] = s[m + 3]
      /\ f[Len(f)] = s[m + Len(f) - 1]
  BY <1>1, <1>2, <1>3
<1>5. HeadAt(s, m) /\ FrameLen(s, m) = Len(f)
  <2>1. f[1] = 85 /\ f[2] = 170 /\ Len(f) = 256 * f[3] + f[4] + 7
    BY <1>1 DEF HeadAt, FrameLen
  <2>. QED
    BY <1>4, <2>1, Zenon DEF HeadAt, FrameLen
<1>6. SubSeq(s, m, m + Len(f) - 2) = SubSeq(f, 1, Len(f) - 1)
  BY <1>1, <1>2, <1>3
<1>7. Whole(s, m)
  <2>1. Left(s, m) >= FrameLen(s, m)
    BY <1>1, <1>2, <1>5 DEF Left
  <2>2. Sum8(SubSeq(s, m, m + Len(f) - 2)) = s[m + Len(f) - 1]
    BY <1>4, <1>6, Zenon DEF IsFrame
  <2>. QED
    BY <1>5, <2>1, <2>2, Zenon DEF Whole
<1>8. m \in 1..(Left(s, 1) - 6)
  BY <1>1, <1>2 DEF Left
<1>. QED
  BY <1>5, <1>7, <1>8 DEF Hits

\* What a header can announce.
LEMMA LengthRange ==
    \A a, b \in Byte : /\ 256 * a + b + 7 \in Nat /\ 256 * a + b + 7 >= 7
                       /\ 256 * a + b + 7 < Wrap + 7
BY DEF Byte, Wrap

\* Where the search stops, six bytes follow; a whole frame ends within the
\* bytes kept, and one that is not whole fits a frame's limit.
LEMMA HitBounds ==
    ASSUME NEW s \in Seq(Byte), NEW i \in Hits(s)
    PROVE  /\ i \in 1..(Len(s) - 6)
           /\ FrameLen(s, i) \in Nat /\ FrameLen(s, i) >= 7
           /\ Whole(s, i) => i + FrameLen(s, i) - 1 <= Len(s)
           /\ ~Whole(s, i) => /\ Len(s) + 1 - i < FrameLen(s, i)
                              /\ FrameLen(s, i) <= FRAME_MAX_LEN
<1>1. Len(s) \in Nat /\ i \in 1..(Len(s) - 6)
  BY DEF Hits, Left
<1>2. s[i + 2] \in Byte /\ s[i + 3] \in Byte
  BY <1>1, ElementOfSeq
<1>3. FrameLen(s, i) \in Nat /\ FrameLen(s, i) >= 7
  BY <1>2, LengthRange, Zenon DEF FrameLen
<1>4. CASE Whole(s, i)
  BY <1>1, <1>3, <1>4 DEF Whole, Left
<1>5. CASE ~Whole(s, i)
  BY <1>1, <1>3, <1>5 DEF Hits, Partial, Left
<1>. QED
  BY <1>1, <1>3, <1>4, <1>5

\* A header whose announced length wraps hands over less than seven bytes.
LEMMA WrappedBounds ==
    ASSUME NEW s \in Seq(Byte), NEW i \in WrappedHits(s)
    PROVE  /\ i \in 1..(Len(s) - 6) /\ \A j \in Hits(s) : i < j
           /\ i + FrameLen(s, i) - Wrap - 1 \in (i - 1)..Len(s)
           /\ i + FrameLen(s, i) - Wrap - 1 < i + 6
<1>1. /\ Len(s) \in Nat /\ i \in 1..(Len(s) - 6) /\ FrameLen(s, i) >= Wrap
      /\ \A j \in Hits(s) : i < j
  BY DEF WrappedHits, Left
<1>2. s[i + 2] \in Byte /\ s[i + 3] \in Byte
  BY <1>1, ElementOfSeq
<1>3. FrameLen(s, i) \in Nat /\ FrameLen(s, i) < Wrap + 7
  BY <1>2, LengthRange, Zenon DEF FrameLen
<1>. QED
  BY <1>1, <1>3 DEF Wrap

-----------------------------------------------------------------------------
(* What stands at the front of a stream of frames *)

\* Two ways to divide the same bytes agree where both of their fronts reach.
LEMMA CommonFront ==
    ASSUME NEW s \in Seq(Byte), NEW t \in Seq(Byte),
           NEW f \in Seq(Byte), NEW r \in Seq(Byte), s \o t = f \o r,
           NEW i \in 1..Len(s), i <= Len(f)
    PROVE  s[i] = f[i]
<1>1. (s \o t)[i] = s[i]
  OBVIOUS
<1>2. (f \o r)[i] = f[i]
  OBVIOUS
<1>. QED
  BY <1>1, <1>2

\* The same front can be taken away.
LEMMA CancelLeft ==
    ASSUME NEW S, NEW a \in Seq(S), NEW b \in Seq(S), NEW c \in Seq(S),
           a \o b = a \o c
    PROVE  b = c
<1>1. Len(a \o b) = Len(a) + Len(b) /\ Len(a \o c) = Len(a) + Len(c)
  OBVIOUS
<1>2. Len(b) = Len(c)
  BY <1>1
<1>3. ASSUME NEW i \in 1..Len(b)
      PROVE  b[i] = c[i]
  <2>1. (a \o b)[Len(a) + i] = b[i]
    OBVIOUS
  <2>2. (a \o c)[Len(a) + i] = c[i]
    BY <1>2
  <2>. QED
    BY <2>1, <2>2
<1>. QED
  BY <1>2, <1>3, SeqEqual

\* Only nothing can be put behind a sequence without changing it.
LEMMA AppendNothing ==
    ASSUME NEW S, NEW a \in Seq(S), NEW b \in Seq(S), a \o b = a
    PROVE  b = <<>>
BY ConcatEqualIffEmpty

Adjacent(s, k) == s = SubSeq(s, 1, k) \o SubSeq(s, k + 1, Len(s))

\* A sequence cut into two is the two put together: what Arrive, ReadData and
\* Deliver do to line, uart and tmp_data.
LEMMA SplitAt ==
    ASSUME NEW S, NEW s \in Seq(S), NEW k \in 0..Len(s)
    PROVE  /\ SubSeq(s, 1, k) \in Seq(S) /\ SubSeq(s, k + 1, Len(s)) \in Seq(S)
           /\ Len(SubSeq(s, 1, k)) = k /\ Len(SubSeq(s, k + 1, Len(s))) = Len(s) - k
           /\ Adjacent(s, k)
<1>1. /\ SubSeq(s, 1, k) \in Seq(S) /\ SubSeq(s, k + 1, Len(s)) \in Seq(S)
      /\ Len(SubSeq(s, 1, k)) = k /\ Len(SubSeq(s, k + 1, Len(s))) = Len(s) - k
  OBVIOUS
<1>2. SubSeq(s, 1, k) \o SubSeq(s, k + 1, Len(s)) = SubSeq(s, 1, Len(s))
  <2>1. 1 \in 1..Len(s) + 1 /\ k \in 1 - 1..Len(s) /\ Len(s) \in k..Len(s)
    OBVIOUS
  <2>. QED
    BY <2>1, ConcatAdjacentSubSeq, Zenon
<1>3. SubSeq(s, 1, Len(s)) = s
  OBVIOUS
<1>. QED
  BY <1>1, <1>2, <1>3, Zenon DEF Adjacent

\* When the bytes kept reach to the end of the frame that stands in front,
\* they begin with it, and what follows it is unchanged.
LEMMA SplitOff ==
    ASSUME NEW s \in Seq(Byte), NEW t \in Seq(Byte),
           NEW f \in Seq(Byte), NEW r \in Seq(Byte), s \o t = f \o r,
           Len(f) <= Len(s)
    PROVE  /\ SubSeq(s, 1, Len(f)) = f
           /\ SubSeq(s, Len(f) + 1, Len(s)) \o t = r
<1> DEFINE u == SubSeq(s, Len(f) + 1, Len(s))
<1>1. SubSeq(s, 1, Len(f)) = f
  <2>1. \A i \in 1..Len(f) : s[i] = f[i]
    BY CommonFront
  <2>. QED
    BY <2>1
<1>2. u \in Seq(Byte) /\ s = f \o u
  <2>1. Len(f) \in 0..Len(s)
    OBVIOUS
  <2>. QED
    BY <1>1, <2>1, SplitAt, Zenon DEF Adjacent
<1>3. f \o (u \o t) = f \o r
  <2>. HIDE DEF u
  <2>1. Assoc(f, u, t)
    BY <1>2, Associative, Zenon
  <2>2. (f \o u) \o t = s \o t
    BY <1>2, Zenon
  <2>. QED
    BY <2>1, <2>2, Zenon DEF Assoc
<1>4. u \o t \in Seq(Byte)
  BY <1>2, ConcatProperties, Zenon
<1>5. u \o t = r
  <2>. HIDE DEF u
  <2>. QED  BY <1>3, <1>4, CancelLeft, Zenon
<1>. QED
  BY <1>1, <1>5, Zenon

\* If the bytes kept are the front of a stream that begins with a frame, the
\* search stops at their first byte, and the frame is whole exactly if they
\* reach to its end.
LEMMA FrontHit ==
    ASSUME NEW s \in Seq(Byte), NEW t \in Seq(Byte), NEW r \in Seq(Byte),
           NEW f, IsFrame(f), s \o t = f \o r, FRAME_MIN_LEN <= Len(s)
    PROVE  /\ 1 \in Hits(s) /\ FrameLen(s, 1) = Len(f)
           /\ Whole(s, 1) => Len(f) <= Len(s)
           /\ ~Whole(s, 1) => Len(s) < Len(f)
<1>1. /\ f \in Seq(Byte) /\ Len(f) \in Nat /\ Len(f) >= 7
      /\ HeadAt(f, 1) /\ FrameLen(f, 1) = Len(f) /\ Len(f) <= FRAME_MAX_LEN
  BY DEF IsFrame, FRAME_MIN_LEN
<1>2. Len(s) \in Nat /\ Len(s) >= 7
  BY DEF FRAME_MIN_LEN
<1>3. s[1] = f[1] /\ s[2] = f[2] /\ s[3] = f[3] /\ s[4] = f[4]
  BY <1>1, <1>2, CommonFront
<1>4. HeadAt(s, 1) /\ FrameLen(s, 1) = Len(f)
  BY <1>1, <1>3 DEF HeadAt, FrameLen
<1>5. CASE Len(f) <= Len(s)
  <2>1. SubSeq(s, 1, 1 + Len(f) - 1) = f
    BY <1>1, <1>5, SplitOff
  <2>2. 1 \in 1..(Len(s) + 1 - Len(f))
    BY <1>1, <1>2, <1>5
  <2>3. 1 \in Hits(s) /\ Whole(s, 1)
    BY <2>1, <2>2, FrameIsHit
  <2>. QED
    BY <1>4, <1>5, <2>3
<1>6. CASE ~(Len(f) <= Len(s))
  <2>1. Left(s, 1) < FrameLen(s, 1) /\ ~(Left(s, 1) >= FrameLen(s, 1))
    BY <1>1, <1>2, <1>4, <1>6 DEF Left
  <2>2. Partial(s, 1) /\ ~Whole(s, 1)
    BY <1>1, <1>4, <2>1 DEF Partial, Whole
  <2>3. 1 \in 1..(Left(s, 1) - 6)
    BY <1>2 DEF Left
  <2>4. 1 \in Hits(s)
    BY <1>4, <2>2, <2>3, Zenon DEF Hits
  <2>. QED
    BY <1>1, <1>2, <1>4, <1>6, <2>2, <2>4
<1>. QED
  BY <1>5, <1>6

\* The frames the chip sends, in their order.
Frames == [k \in 1..Len(sent) |-> Framed(sent[k])]

\* What the chip sends, as the assumption on the streams gives it.
LEMMA SentIs ==
    ASSUME sent \in Streams
    PROVE  /\ Len(sent) \in Nat
           /\ \A k \in 1..Len(sent) :
                /\ sent[k] \in Seq(Byte) /\ Len(sent[k]) <= MaxPayload
                /\ IsFrame(Framed(sent[k])) /\ Framed(sent[k]) \in Seq(Byte)
                /\ Len(Framed(sent[k])) = Len(sent[k]) + 7
           /\ Frames \in Seq(Seq(Byte)) /\ Len(Frames) = Len(sent)
           /\ Stream(sent) = FlattenSeq(Frames)
           /\ Stream(sent) \in Seq(Byte)
           /\ Genuine = {Framed(sent[k]) : k \in 1..Len(sent)}
<1>1. sent \in Seq(Seq(Byte)) /\ \A k \in 1..Len(sent) : Len(sent[k]) <= MaxPayload
  BY ParserAssumption DEF Byte
<1>2. Len(sent) \in Nat /\ DOMAIN sent = 1..Len(sent)
  BY <1>1
<1>3. ASSUME NEW k \in 1..Len(sent)
      PROVE  /\ sent[k] \in Seq(Byte) /\ Len(sent[k]) <= MaxPayload
             /\ IsFrame(Framed(sent[k])) /\ Framed(sent[k]) \in Seq(Byte)
             /\ Len(Framed(sent[k])) = Len(sent[k]) + 7
  <2>1. sent[k] \in Seq(Byte)
    BY <1>1, ElementOfSeq
  <2>2. IsFrame(Framed(sent[k])) /\ Len(Framed(sent[k])) = Len(sent[k]) + 7
    BY <1>1, <2>1, FramedIsFrame, Zenon
  <2>. QED
    BY <1>1, <2>1, <2>2, Zenon DEF IsFrame
<1>4. Frames \in Seq(Seq(Byte)) /\ Len(Frames) = Len(sent)
  <2>1. Frames \in [1..Len(sent) -> Seq(Byte)]
    BY <1>3, Zenon DEF Frames
  <2>. QED
    BY <1>2, <2>1
<1>5. Stream(sent) = FlattenSeq(Frames)
  BY <1>2, Zenon DEF Stream, Frames
<1>6. FlattenSeq(Frames) \in Seq(Byte)
  BY <1>4, FlattenType
<1>7. Genuine = {Framed(sent[k]) : k \in 1..Len(sent)}
  BY <1>2 DEF Genuine, ToSet
<1>. QED
  BY <1>2, <1>3, <1>4, <1>5, <1>6, <1>7

-----------------------------------------------------------------------------
(* Types *)

\* The invariant under the types: sent does not change.
TypeInv == TypeOK /\ sent \in Streams

\* What the callback swaps are bytes before and after.
LEMMA SwappedType ==
    ASSUME NEW s \in Seq(Byte), NEW i \in 1..(Len(s) - 6)
    PROVE  Swapped(s, i) \in Seq(Byte) /\ Len(Swapped(s, i)) = Len(s)
<1>1. {i + 2, i + 3, i + 4, i + 5} \subseteq 1..Len(s)
  OBVIOUS
<1>2. /\ s[i + 2] \in Byte /\ s[i + 3] \in Byte
      /\ s[i + 4] \in Byte /\ s[i + 5] \in Byte
  BY <1>1, ElementOfSeq
<1>. QED
  BY <1>1, <1>2 DEF Swapped

\* HandOver, called with an end within the bytes kept, keeps the types; and
\* when the parser stops after it, no more than FRAME_MIN_LEN bytes are left.
LEMMA HandOverType ==
    ASSUME tmp_data \in Seq(Byte), delivered \in Seq(Seq(Byte)),
           NEW i \in 1..(Len(tmp_data) - 6),
           NEW s \in Seq(Byte), Len(s) = Len(tmp_data),
           NEW end \in (i - 1)..Len(tmp_data), HandOver(s, i, end)
    PROVE  /\ tmp_data' \in Seq(Byte) /\ delivered' \in Seq(Seq(Byte))
           /\ pc' \in {"parse", "wait"}
           /\ Len(tmp_data') = Len(tmp_data) - end
           /\ pc' = "wait" => Len(tmp_data') <= FRAME_MIN_LEN
<1>1. Len(tmp_data) \in Nat
  OBVIOUS
<1>2. SubSeq(tmp_data, i, end) \in Seq(Byte)
  <2>1. \A j \in i..end : tmp_data[j] \in Byte
    BY <1>1, ElementOfSeq
  <2>. QED
    BY <1>1, <2>1, SubSeqProperties
<1>3. delivered' \in Seq(Seq(Byte))
  BY <1>2, AppendProperties, Zenon DEF HandOver
<1>4. end \in 0..Len(tmp_data)
  BY <1>1
<1>5. tmp_data' \in Seq(Byte) /\ Len(tmp_data') = Len(tmp_data) - end
  <2>1. tmp_data' = SubSeq(s, end + 1, Len(s)) /\ end \in 0..Len(s)
    BY <1>4, Zenon DEF HandOver
  <2>. QED
    BY <2>1, SplitAt, Zenon
<1>6. /\ pc' \in {"parse", "wait"}
      /\ pc' = "wait" => ~(Len(tmp_data') > FRAME_MIN_LEN)
  BY Zenon DEF HandOver
<1>. QED
  BY <1>1, <1>3, <1>5, <1>6 DEF FRAME_MIN_LEN

\* An event the driver posts fits the queue or is dropped.
LEMMA PostType ==
    ASSUME g_uart_queue \in Seq({"DATA", "OVF"}),
           Len(g_uart_queue) <= UART_QUEUE_SIZE,
           NEW e \in {"DATA", "OVF"}, Post(e)
    PROVE  /\ g_uart_queue' \in Seq({"DATA", "OVF"})
           /\ Len(g_uart_queue') <= UART_QUEUE_SIZE
<1>1. UART_QUEUE_SIZE \in Nat
  BY ParserAssumption
<1>2. CASE Len(g_uart_queue) < UART_QUEUE_SIZE
  BY <1>1, <1>2 DEF Post
<1>3. CASE ~(Len(g_uart_queue) < UART_QUEUE_SIZE)
  BY <1>3 DEF Post
<1>. QED
  BY <1>2, <1>3

\* Every step keeps the types.
LEMMA TypeStep == TypeInv /\ [Next]_vars => TypeInv'
<1> SUFFICES ASSUME TypeInv, [Next]_vars
             PROVE  TypeInv'
  OBVIOUS
<1> USE DEF TypeInv
<1>0. /\ MaxPayload \in Nat /\ MaxPayload >= 1 /\ TempBuf \in Nat /\ MaxFaults \in Nat
      /\ FRAME_MAX_LEN \in Nat /\ FRAME_MAX_LEN > FRAME_MIN_LEN /\ FRAME_MIN_LEN = 7
      /\ TmpSize \in Nat /\ TmpSize = 2 * FRAME_MAX_LEN /\ Noise \subseteq Byte
  BY ParserAssumption DEF FRAME_MIN_LEN, FRAME_MAX_LEN, TmpSize
<1>1. sent' = sent /\ Genuine' = Genuine
  BY DEF vars, Next, Arrive, Overflow, Alter, ReadData, Overrun, Flush, ResetQueue, Parse,
         TooShort, Deliver, DeliverWrapped, KeepPartial, NoFrame, Genuine
<1>2. CASE Arrive
  <2>1. PICK k \in 1..Len(line) : /\ uart' = uart \o SubSeq(line, 1, k)
                                  /\ line' = SubSeq(line, k + 1, Len(line))
    BY <1>2 DEF Arrive
  <2>2. k \in 0..Len(line)
    OBVIOUS
  <2>3. uart' \in Seq(Byte) /\ line' \in Seq(Byte)
    BY <2>1, <2>2, SplitAt, ConcatProperties, Zenon DEF TypeOK
  <2>4. g_uart_queue' \in Seq({"DATA", "OVF"}) /\ Len(g_uart_queue') <= UART_QUEUE_SIZE
    BY <1>2, PostType DEF Arrive, TypeOK
  <2>. QED
    BY <1>1, <1>2, <2>3, <2>4 DEF Arrive, TypeOK
<1>3. CASE Overflow
  <2>1. PICK k \in 1..Len(line) : line' = SubSeq(line, k + 1, Len(line))
    BY <1>3 DEF Overflow
  <2>2. k \in 0..Len(line)
    OBVIOUS
  <2>3. line' \in Seq(Byte)
    BY <2>1, <2>2, SplitAt, Zenon DEF TypeOK
  <2>4. g_uart_queue' \in Seq({"DATA", "OVF"}) /\ Len(g_uart_queue') <= UART_QUEUE_SIZE
    BY <1>3, PostType DEF Overflow, TypeOK
  <2>5. faults' \in 0..MaxFaults
    BY <1>0, <1>3 DEF Overflow, TypeOK
  <2>. QED
    BY <1>1, <1>3, <2>3, <2>4, <2>5 DEF Overflow, TypeOK
<1>4. CASE Alter
  <2>1. PICK b \in Noise : line' = <<b>> \o Tail(line)
    BY <1>4 DEF Alter
  <2>2. line' \in Seq(Byte)
    <3>1. <<b>> \in Seq(Byte)
      BY <1>0
    <3>2. Tail(line) \in Seq(Byte)
      BY <1>4 DEF Alter, TypeOK
    <3>. QED
      BY <2>1, <3>1, <3>2, ConcatProperties, Zenon
  <2>3. faults' \in 0..MaxFaults
    BY <1>0, <1>4 DEF Alter, TypeOK
  <2>. QED
    BY <1>1, <1>4, <2>2, <2>3 DEF Alter, TypeOK
<1>5. CASE ReadData
  <2> DEFINE len == ReadLen
             temp_buf == SubSeq(uart, 1, len)
  <2>1. /\ g_uart_queue # <<>> /\ g_uart_queue' = Tail(g_uart_queue)
        /\ pc = "wait" /\ pc' = IF uart = <<>> THEN "wait" ELSE "parse"
        /\ tmp_data' = tmp_data \o temp_buf
        /\ uart' = SubSeq(uart, len + 1, Len(uart))
        /\ whole' = whole \cup {f \in Genuine : Within(f, temp_buf)}
        /\ Len(tmp_data) + len <= TmpSize
    BY <1>5, Zenon DEF ReadData, HasData
  <2>2. len \in 0..Len(uart) /\ (uart = <<>> => len = 0)
    BY <1>0 DEF TypeOK, ReadLen
  <2>. HIDE DEF len
  <2>3. temp_buf \in Seq(Byte) /\ uart' \in Seq(Byte) /\ Len(temp_buf) = len
    BY <2>1, <2>2, SplitAt, Zenon DEF TypeOK
  <2>. HIDE DEF temp_buf
  <2>4. tmp_data' \in Seq(Byte) /\ Len(tmp_data') = Len(tmp_data) + len
    BY <2>1, <2>3, ConcatProperties DEF TypeOK
  <2>5. Len(tmp_data') <= IF pc' = "parse" THEN TmpSize ELSE FRAME_MAX_LEN - 1
    <3>1. Len(tmp_data) < FRAME_MAX_LEN /\ Len(tmp_data) \in Nat
      BY <1>0, <2>1 DEF TypeOK
    <3>. QED
      BY <1>0, <2>1, <2>2, <2>4, <3>1
  <2>6. g_uart_queue' \in Seq({"DATA", "OVF"}) /\ Len(g_uart_queue') <= UART_QUEUE_SIZE
    BY <2>1, ParserAssumption DEF TypeOK
  <2>7. whole' \subseteq Genuine'
    BY <1>1, <2>1, Zenon DEF TypeOK
  <2>. QED
    BY <1>1, <1>5, <2>1, <2>3, <2>4, <2>5, <2>6, <2>7 DEF ReadData, TypeOK
<1>6. CASE Flush
  <2>1. g_uart_queue' \in Seq({"DATA", "OVF"}) /\ Len(g_uart_queue') <= UART_QUEUE_SIZE
    BY <1>6, ParserAssumption DEF Flush, TypeOK
  <2>2. uart' \in Seq(Byte) /\ pc' = "reset"
    BY <1>6 DEF Flush
  <2>3. Len(tmp_data') <= IF pc' = "parse" THEN TmpSize ELSE FRAME_MAX_LEN - 1
    BY <1>0, <1>6 DEF Flush, TypeOK
  <2>. QED
    BY <1>1, <1>6, <2>1, <2>2, <2>3 DEF Flush, TypeOK
<1>7. CASE ResetQueue
  BY <1>0, <1>1, <1>7, ParserAssumption DEF ResetQueue, TypeOK
<1>8. CASE TooShort
  BY <1>0, <1>1, <1>8 DEF TooShort, TypeOK
<1>9. CASE Deliver
  <2>1. PICK i \in Hits(tmp_data) :
          Whole(tmp_data, i) /\ HandOver(tmp_data, i, i + FrameLen(tmp_data, i) - 1)
    BY <1>9 DEF Deliver
  <2> DEFINE end == i + FrameLen(tmp_data, i) - 1
  <2>2. i \in 1..(Len(tmp_data) - 6) /\ end \in (i - 1)..Len(tmp_data)
    BY <2>1, HitBounds DEF TypeOK
  <2>3. /\ tmp_data' \in Seq(Byte) /\ delivered' \in Seq(Seq(Byte))
        /\ pc' \in {"parse", "wait"}
        /\ Len(tmp_data') = Len(tmp_data) - end
        /\ pc' = "wait" => Len(tmp_data') <= FRAME_MIN_LEN
    BY <2>1, <2>2, SwappedType, HandOverType DEF TypeOK
  <2>4. Len(tmp_data') <= IF pc' = "parse" THEN TmpSize ELSE FRAME_MAX_LEN - 1
    <3>1. Len(tmp_data) <= TmpSize /\ Len(tmp_data) \in Nat
      BY <1>9 DEF Deliver, TypeOK
    <3>. QED
      BY <1>0, <2>2, <2>3, <3>1
  <2>. QED
    BY <1>1, <1>9, <2>3, <2>4 DEF Deliver, TypeOK
<1>10. CASE DeliverWrapped
  <2>1. PICK i \in WrappedHits(tmp_data) :
          HandOver(Swapped(tmp_data, i), i, i + FrameLen(tmp_data, i) - Wrap - 1)
    BY <1>10 DEF DeliverWrapped
  <2> DEFINE end == i + FrameLen(tmp_data, i) - Wrap - 1
  <2>2. i \in 1..(Len(tmp_data) - 6) /\ end \in (i - 1)..Len(tmp_data)
    BY <2>1, WrappedBounds DEF TypeOK
  <2>3. /\ tmp_data' \in Seq(Byte) /\ delivered' \in Seq(Seq(Byte))
        /\ pc' \in {"parse", "wait"}
        /\ Len(tmp_data') = Len(tmp_data) - end
        /\ pc' = "wait" => Len(tmp_data') <= FRAME_MIN_LEN
    BY <2>1, <2>2, SwappedType, HandOverType DEF TypeOK
  <2>4. Len(tmp_data') <= IF pc' = "parse" THEN TmpSize ELSE FRAME_MAX_LEN - 1
    <3>1. Len(tmp_data) <= TmpSize /\ Len(tmp_data) \in Nat
      BY <1>10 DEF DeliverWrapped, TypeOK
    <3>. QED
      BY <1>0, <2>2, <2>3, <3>1
  <2>. QED
    BY <1>1, <1>10, <2>3, <2>4 DEF DeliverWrapped, TypeOK
<1>11. CASE KeepPartial
  <2>1. PICK i \in Hits(tmp_data) :
          ~Whole(tmp_data, i) /\ tmp_data' = SubSeq(tmp_data, i, Len(tmp_data))
    BY <1>11 DEF KeepPartial
  <2>2. /\ i \in 1..(Len(tmp_data) - 6) /\ Len(tmp_data) + 1 - i < FRAME_MAX_LEN
    BY <1>0, <2>1, HitBounds DEF TypeOK
  <2>3. tmp_data' \in Seq(Byte) /\ Len(tmp_data') = Len(tmp_data) + 1 - i
    BY <2>1, <2>2 DEF TypeOK
  <2>4. pc' = "wait"
    BY <1>11 DEF KeepPartial
  <2>. QED
    <3>1. Len(tmp_data') <= FRAME_MAX_LEN - 1
      BY <1>0, <2>2, <2>3 DEF TypeOK
    <3>. QED
      BY <1>1, <1>11, <2>3, <2>4, <3>1 DEF KeepPartial, TypeOK
<1>12. CASE NoFrame
  <2>1. tmp_data' \in Seq(Byte) /\ Len(tmp_data') = 1 /\ pc' = "wait"
    BY <1>0, <1>12 DEF NoFrame, TypeOK, Last
  <2>. QED
    BY <1>0, <1>1, <1>12, <2>1 DEF NoFrame, TypeOK
<1>13. CASE Overrun
  BY <1>0, <1>1, <1>13 DEF Overrun, HasData, TypeOK
<1>14. CASE UNCHANGED vars
  BY <1>1, <1>14 DEF vars, TypeOK
<1>. QED
  BY <1>2, <1>3, <1>4, <1>5, <1>6, <1>7, <1>8, <1>9, <1>10, <1>11, <1>12, <1>13,
     <1>14
     DEF Next, Parse

\* The types hold at first.
LEMMA TypeInit == Init => TypeInv
<1> SUFFICES ASSUME Init
             PROVE  TypeInv
  OBVIOUS
<1>1. sent \in Streams /\ line \in Seq(Byte)
  BY SentIs DEF Init
<1>2. /\ UART_QUEUE_SIZE \in Nat /\ MaxFaults \in Nat
      /\ FRAME_MAX_LEN \in Nat /\ FRAME_MAX_LEN > 7
  BY ParserAssumption DEF FRAME_MAX_LEN
<1>3. Len(tmp_data) = 0 /\ Len(g_uart_queue) = 0
  BY DEF Init
<1>. QED
  BY <1>1, <1>2, <1>3 DEF Init, TypeInv, TypeOK

\* __uart_task and __frame_parse_data: the types, and that a call of the parser
\* leaves less than the longest frame, so that tmp_data never holds more than
\* that and one read.
THEOREM ParserTypeCorrect == Spec => []TypeOK
<1>1. Spec => []TypeInv
  BY TypeInit, TypeStep, PTL DEF Spec
<1>2. TypeInv => TypeOK
  BY DEF TypeInv
<1>. QED
  BY <1>1, <1>2, PTL

-----------------------------------------------------------------------------
(* In step *)

\* As long as no fault happened, what was delivered, kept, received and still
\* to come is together what the chip sent, and the driver's queue was never
\* reset.
StepInv ==
    faults = 0 =>
        /\ Len(delivered) <= Len(sent)
        /\ delivered = [k \in 1..Len(delivered) |-> Framed(sent[k])]
        /\ FlattenSeq(delivered) \o (tmp_data \o (uart \o line)) = Stream(sent)
        /\ g_uart_queue \in Seq({"DATA"})
        /\ pc # "reset"

\* The frame to be delivered next.
Due == Framed(sent[Len(delivered) + 1])

\* What is kept, received and to come begins with the frame due, or is nothing.
LEMMA RestIs ==
    ASSUME TypeInv, StepInv, faults = 0
    PROVE  /\ Len(delivered) \in 0..Len(sent)
           /\ delivered = SubSeq(Frames, 1, Len(delivered))
           /\ tmp_data \o (uart \o line) \in Seq(Byte)
           /\ Len(delivered) = Len(sent) => tmp_data \o (uart \o line) = <<>>
           /\ Len(delivered) < Len(sent) =>
                 \E r \in Seq(Byte) : tmp_data \o (uart \o line) = Due \o r
<1> DEFINE n == Len(delivered)
           rest == tmp_data \o (uart \o line)
           D == FlattenSeq(delivered)
<1>1. /\ Len(sent) \in Nat /\ Frames \in Seq(Seq(Byte)) /\ Len(Frames) = Len(sent)
      /\ Stream(sent) = FlattenSeq(Frames)
  BY SentIs DEF TypeInv
<1>2. n \in 0..Len(sent)
  BY <1>1 DEF TypeInv, TypeOK, StepInv
<1>3. delivered = SubSeq(Frames, 1, n)
  <2>1. \A k \in 1..n : delivered[k] = Frames[k]
    BY <1>1, <1>2 DEF StepInv, Frames
  <2>. QED
    BY <1>1, <1>2, <2>1 DEF TypeInv, TypeOK
<1>4. D \in Seq(Byte)
  BY FlattenType DEF TypeInv, TypeOK
<1>5. rest \in Seq(Byte)
  <2>1. uart \o line \in Seq(Byte)
    BY ConcatProperties DEF TypeInv, TypeOK
  <2>. QED
    BY <2>1, ConcatProperties DEF TypeInv, TypeOK
<1>6. D \o rest = FlattenSeq(Frames)
  BY <1>1, Zenon DEF StepInv
<1>7. ASSUME n = Len(sent)
      PROVE  rest = <<>>
  <2>1. SubSeq(Frames, 1, n) = Frames
    BY <1>1, <1>7, SubSeqFull
  <2>2. D = FlattenSeq(Frames)
    BY <1>3, <2>1, Zenon
  <2>3. D \o rest = D
    BY <1>6, <2>2, Zenon
  <2>. HIDE DEF rest, D
  <2>. QED
    BY <1>4, <1>5, <2>3, AppendNothing, Zenon
<1>8. ASSUME n < Len(sent)
      PROVE  \E r \in Seq(Byte) : rest = Due \o r
  <2>1. n \in 0..(Len(Frames) - 1) /\ n + 1 \in 1..Len(sent)
    BY <1>1, <1>2, <1>8
  <2>2. PICK r \in Seq(Byte) :
          FlattenSeq(Frames) = FlattenSeq(SubSeq(Frames, 1, n)) \o (Frames[n + 1] \o r)
    <3>. HIDE DEF n
    <3>. QED  BY <1>1, <2>1, FlattenSplit, Zenon
  <2>3. Frames[n + 1] = Due /\ Due \in Seq(Byte)
    BY <2>1, SentIs, Zenon DEF Frames, Due, TypeInv
  <2>4. D \o rest = D \o (Due \o r)
    BY <1>3, <1>6, <2>2, <2>3, Zenon
  <2>5. Due \o r \in Seq(Byte)
    BY <2>3, ConcatProperties, Zenon
  <2>6. rest = Due \o r
    <3>. HIDE DEF rest, D
    <3>. QED  BY <1>4, <1>5, <2>4, <2>5, CancelLeft, Zenon
  <2>. QED
    BY <2>6, Zenon
<1>. QED
  BY <1>2, <1>3, <1>5, <1>7, <1>8, Zenon

\* Without faults, a search through at least FRAME_MIN_LEN bytes stops at the
\* first of them, and the frame there is the one due or a part of it.
LEMMA DueHit ==
    ASSUME TypeInv, StepInv, faults = 0, FRAME_MIN_LEN <= Len(tmp_data)
    PROVE  /\ Len(delivered) < Len(sent) /\ Len(delivered) + 1 \in 1..Len(sent)
           /\ Due \in Seq(Byte)
           /\ 1 \in Hits(tmp_data) /\ FrameLen(tmp_data, 1) = Len(Due)
           /\ Whole(tmp_data, 1) =>
                 Len(Due) <= Len(tmp_data) /\ SubSeq(tmp_data, 1, Len(Due)) = Due
           /\ ~Whole(tmp_data, 1) => Len(tmp_data) < Len(Due)
<1> DEFINE t == uart \o line
<1>1. t \in Seq(Byte) /\ tmp_data \in Seq(Byte)
  BY ConcatProperties DEF TypeInv, TypeOK
<1>2. Len(sent) \in Nat /\ Len(delivered) \in Nat /\ Len(delivered) <= Len(sent)
  BY RestIs, SentIs DEF TypeInv
<1>3. Len(delivered) # Len(sent)
  <2>. HIDE DEF t
  <2>1. SUFFICES ASSUME Len(delivered) = Len(sent)
                 PROVE  FALSE
    OBVIOUS
  <2>2. tmp_data \o t = <<>>
    BY <2>1, RestIs, Zenon DEF t
  <2>3. Len(tmp_data \o t) = Len(tmp_data) + Len(t)
    BY <1>1
  <2>. QED
    BY <1>1, <2>2, <2>3 DEF FRAME_MIN_LEN
<1>4. Len(delivered) + 1 \in 1..Len(sent) /\ Len(delivered) < Len(sent)
  BY <1>2, <1>3
<1>5. PICK r \in Seq(Byte) : tmp_data \o t = Due \o r
  BY <1>4, RestIs, Zenon
<1>6. IsFrame(Due) /\ Due \in Seq(Byte)
  BY <1>4, SentIs, Zenon DEF Due, TypeInv
<1>. HIDE DEF t
<1>7. /\ 1 \in Hits(tmp_data) /\ FrameLen(tmp_data, 1) = Len(Due)
      /\ Whole(tmp_data, 1) => Len(Due) <= Len(tmp_data)
      /\ ~Whole(tmp_data, 1) => Len(tmp_data) < Len(Due)
  BY <1>1, <1>5, <1>6, FrontHit, Zenon
<1>8. Whole(tmp_data, 1) => SubSeq(tmp_data, 1, Len(Due)) = Due
  BY <1>1, <1>5, <1>6, <1>7, SplitOff, Zenon
<1>. QED
  BY <1>4, <1>6, <1>7, <1>8, Zenon

\* StepInv holds at first.
LEMMA StepInit == Init => StepInv
<1> SUFFICES ASSUME Init
             PROVE  StepInv
  OBVIOUS
<1>1. Len(sent) \in Nat /\ line \in Seq(Byte) /\ line = Stream(sent)
  BY SentIs DEF Init
<1>2. FlattenSeq(delivered) = <<>> /\ Len(delivered) = 0
  BY Zenon, EmptySeq DEF Init, FlattenSeq
<1>3. FlattenSeq(delivered) \o (tmp_data \o (uart \o line)) = line
  BY <1>1, <1>2 DEF Init
<1>4. delivered = [k \in 1..Len(delivered) |-> Framed(sent[k])]
  BY <1>2 DEF Init
<1>. QED
  BY <1>1, <1>2, <1>3, <1>4 DEF Init, StepInv

\* What a step does to the bytes that are still to be delivered.
Conserves == tmp_data' \o (uart' \o line') = tmp_data \o (uart \o line)

\* A step that delivers nothing and loses nothing keeps StepInv.
LEMMA StepKeeps ==
    ASSUME StepInv, faults = 0, sent' = sent, delivered' = delivered,
           Conserves, g_uart_queue' \in Seq({"DATA"}), pc' # "reset"
    PROVE  StepInv'
BY DEF StepInv, Conserves

\* Every step keeps StepInv: Deliver takes the frame due off the front,
\* KeepPartial keeps everything, and the ways out that throw bytes away or
\* hand over something else are not taken.
LEMMA StepNext == TypeInv /\ StepInv /\ [Next]_vars => StepInv'
<1> SUFFICES ASSUME TypeInv, StepInv, [Next]_vars
             PROVE  StepInv'
  OBVIOUS
<1>1. sent' = sent
  BY DEF vars, Next, Arrive, Overflow, Alter, ReadData, Overrun, Flush, ResetQueue, Parse,
         TooShort, Deliver, DeliverWrapped, KeepPartial, NoFrame
<1>2. faults \in Nat /\ (faults' = faults \/ faults' = faults + 1)
  BY DEF vars, Next, Arrive, Overflow, Alter, ReadData, Overrun, Flush, ResetQueue, Parse,
         TooShort, Deliver, DeliverWrapped, KeepPartial, NoFrame, TypeInv, TypeOK
<1>0. faults' = 0 => faults = 0
  BY <1>2
<1>3. SUFFICES ASSUME faults = 0, faults' = 0
               PROVE  StepInv'
  <2>1. CASE faults' # 0
    BY <2>1, Zenon DEF StepInv
  <2>2. CASE faults' = 0
    BY <1>0, <2>2, Zenon
  <2>. QED
    BY <2>1, <2>2
<1>4. g_uart_queue \in Seq({"DATA"}) /\ pc # "reset"
  BY <1>3 DEF StepInv
<1>5. CASE Arrive
  <2>1. PICK k \in 1..Len(line) : /\ uart' = uart \o SubSeq(line, 1, k)
                                  /\ line' = SubSeq(line, k + 1, Len(line))
    BY <1>5 DEF Arrive
  <2>2. k \in 0..Len(line) /\ line \in Seq(Byte) /\ uart \in Seq(Byte)
    BY DEF TypeInv, TypeOK
  <2>3. /\ line = SubSeq(line, 1, k) \o line'
        /\ SubSeq(line, 1, k) \in Seq(Byte) /\ line' \in Seq(Byte)
    BY <2>1, <2>2, SplitAt, Zenon DEF Adjacent
  <2>4. Assoc(uart, SubSeq(line, 1, k), line')
    BY <2>2, <2>3, Associative, Zenon
  <2>5. uart' \o line' = uart \o line
    BY <2>1, <2>3, <2>4, Zenon DEF Assoc
  <2>6. Conserves
    BY <1>5, <2>5, Zenon DEF Arrive, Conserves
  <2>7. g_uart_queue' \in Seq({"DATA"})
    BY <1>4, <1>5 DEF Arrive, Post
  <2>. QED
    BY <1>1, <1>3, <1>4, <1>5, <2>6, <2>7, StepKeeps, Zenon DEF Arrive
<1>6. CASE Overflow \/ Alter
  BY <1>2, <1>3, <1>6 DEF Overflow, Alter
<1>7. CASE ReadData
  <2> DEFINE len == ReadLen
             temp_buf == SubSeq(uart, 1, len)
  <2>1. /\ g_uart_queue # <<>> /\ g_uart_queue' = Tail(g_uart_queue)
        /\ pc' = IF uart = <<>> THEN "wait" ELSE "parse"
        /\ tmp_data' = tmp_data \o temp_buf
        /\ uart' = SubSeq(uart, len + 1, Len(uart))
        /\ line' = line /\ delivered' = delivered
    BY <1>7, Zenon DEF ReadData, HasData
  <2>2. /\ len \in 0..Len(uart) /\ uart \in Seq(Byte) /\ line \in Seq(Byte)
        /\ tmp_data \in Seq(Byte)
    BY ParserAssumption DEF TypeInv, TypeOK, ReadLen
  <2>. HIDE DEF len
  <2>3. uart = temp_buf \o uart' /\ temp_buf \in Seq(Byte) /\ uart' \in Seq(Byte)
    BY <2>1, <2>2, SplitAt, Zenon DEF Adjacent
  <2>. HIDE DEF temp_buf
  <2>4. uart' \o line \in Seq(Byte)
    BY <2>2, <2>3, ConcatProperties, Zenon
  <2>5. Assoc(temp_buf, uart', line) /\ Assoc(tmp_data, temp_buf, uart' \o line)
    BY <2>2, <2>3, <2>4, Associative, Zenon
  <2>6. uart \o line = temp_buf \o (uart' \o line)
    BY <2>3, <2>5, Zenon DEF Assoc
  <2>7. tmp_data' \o (uart' \o line) = tmp_data \o (temp_buf \o (uart' \o line))
    BY <2>1, <2>5, Zenon DEF Assoc
  <2>8. Conserves
    BY <2>1, <2>6, <2>7, Zenon DEF Conserves
  <2>9. g_uart_queue' \in Seq({"DATA"})
    BY <1>4, <2>1
  <2>10. pc' # "reset"
    BY <2>1
  <2>. QED
    BY <1>1, <1>3, <2>1, <2>8, <2>9, <2>10, StepKeeps, Zenon
<1>8. CASE Flush \/ ResetQueue
  BY <1>4, <1>8 DEF Flush, ResetQueue
<1>9. CASE TooShort
  BY <1>1, <1>3, <1>4, <1>9, StepKeeps, Zenon DEF TooShort, Conserves
<1>10. CASE Deliver
  <2>1. PICK i \in Hits(tmp_data) :
          /\ FirstHit(tmp_data, i) /\ Whole(tmp_data, i)
          /\ HandOver(tmp_data, i, i + FrameLen(tmp_data, i) - 1)
    BY <1>10 DEF Deliver
  <2>2. /\ tmp_data \in Seq(Byte) /\ line \in Seq(Byte) /\ uart \in Seq(Byte)
        /\ delivered \in Seq(Seq(Byte)) /\ Len(sent) \in Nat
    BY SentIs DEF TypeInv, TypeOK
  <2>3. i \in 1..(Len(tmp_data) - 6) /\ FRAME_MIN_LEN <= Len(tmp_data)
    BY <2>1, <2>2, HitBounds DEF FRAME_MIN_LEN
  <2>4. /\ Len(delivered) < Len(sent) /\ Len(delivered) + 1 \in 1..Len(sent)
        /\ Due \in Seq(Byte)
        /\ 1 \in Hits(tmp_data) /\ FrameLen(tmp_data, 1) = Len(Due)
    BY <1>3, <2>3, DueHit
  <2>5. i = 1
    BY <2>1, <2>3, <2>4 DEF FirstHit
  <2>6. Len(Due) <= Len(tmp_data) /\ SubSeq(tmp_data, 1, Len(Due)) = Due
    BY <1>3, <2>1, <2>3, <2>5, DueHit
  <2>7. i + FrameLen(tmp_data, i) - 1 = Len(Due)
    BY <2>4, <2>5
  <2>8. delivered' = Append(delivered, Due)
        /\ tmp_data' = SubSeq(tmp_data, Len(Due) + 1, Len(tmp_data))
    BY <2>1, <2>5, <2>6, <2>7, Zenon DEF HandOver
  <2>9. FlattenSeq(delivered') \o (tmp_data' \o (uart' \o line')) = Stream(sent')
    <3> DEFINE D == FlattenSeq(delivered)
               t == uart \o line
    <3>1. t \in Seq(Byte) /\ D \in Seq(Byte)
      BY <2>2, ConcatProperties, FlattenType, Zenon
    <3>2. Len(Due) \in 0..Len(tmp_data)
      BY <2>2, <2>4, <2>6
    <3>3. tmp_data = Due \o tmp_data' /\ tmp_data' \in Seq(Byte)
      BY <2>2, <2>6, <2>8, <3>2, SplitAt, Zenon DEF Adjacent
    <3>4. FlattenSeq(delivered') = D \o Due
      BY <2>2, <2>4, <2>8, FlattenAppend, Zenon
    <3>5. tmp_data' \o t \in Seq(Byte)
      <4>. HIDE DEF t
      <4>. QED  BY <3>1, <3>3, ConcatProperties, Zenon
    <3>6. Assoc(D, Due, tmp_data' \o t) /\ Assoc(Due, tmp_data', t)
      <4>. HIDE DEF t, D
      <4>. QED  BY <2>4, <3>1, <3>3, <3>5, Associative, Zenon
    <3>7. D \o (tmp_data \o t) = Stream(sent)
      BY <1>3, Zenon DEF StepInv
    <3>8. uart' \o line' = t
      BY <1>10, Zenon DEF Deliver
    <3>9. tmp_data \o t = Due \o (tmp_data' \o t)
      <4>. HIDE DEF t
      <4>. QED  BY <3>3, <3>6, Zenon DEF Assoc
    <3>10. (D \o Due) \o (tmp_data' \o t) = D \o (Due \o (tmp_data' \o t))
      <4>. HIDE DEF t, D
      <4>. QED  BY <3>6, Zenon DEF Assoc
    <3>. HIDE DEF t, D
    <3>. QED
      BY <1>1, <3>4, <3>7, <3>8, <3>9, <3>10, Zenon
  <2>10. /\ Len(delivered') <= Len(sent)
         /\ delivered' = [k \in 1..Len(delivered') |-> Framed(sent[k])]
    <3>1. /\ Len(delivered') = Len(delivered) + 1
          /\ delivered' \in Seq(Seq(Byte))
          /\ \A k \in 1..Len(delivered) : delivered'[k] = delivered[k]
          /\ delivered'[Len(delivered) + 1] = Due
      BY <2>2, <2>4, <2>8, AppendProperties
    <3>2. ASSUME NEW k \in 1..Len(delivered')
          PROVE  delivered'[k] = Framed(sent[k])
      <4>1. CASE k = Len(delivered) + 1
        BY <3>1, <4>1, Zenon DEF Due
      <4>2. CASE k # Len(delivered) + 1
        <5>1. k \in 1..Len(delivered)
          BY <2>2, <3>1, <4>2
        <5>2. delivered[k] = Framed(sent[k])
          BY <1>3, <5>1, Zenon DEF StepInv
        <5>. QED
          BY <3>1, <5>1, <5>2, Zenon
      <4>. QED
        BY <4>1, <4>2
    <3>3. DOMAIN delivered' = 1..Len(delivered')
          /\ delivered' = [k \in DOMAIN delivered' |-> delivered'[k]]
      BY <3>1
    <3>4. delivered' = [k \in 1..Len(delivered') |-> Framed(sent[k])]
      BY <3>2, <3>3, Zenon
    <3>. QED
      BY <2>2, <2>4, <3>1, <3>4
  <2>11. g_uart_queue' = g_uart_queue /\ pc' # "reset"
    BY <1>10, <2>1 DEF Deliver, HandOver
  <2>. QED
    BY <1>1, <1>4, <2>9, <2>10, <2>11, Zenon DEF StepInv
<1>11. CASE DeliverWrapped
  <2>1. PICK i \in WrappedHits(tmp_data) : TRUE
    BY <1>11 DEF DeliverWrapped
  <2>2. i \in 1..(Len(tmp_data) - 6) /\ \A j \in Hits(tmp_data) : i < j
    BY WrappedBounds DEF TypeInv, TypeOK
  <2>3. FRAME_MIN_LEN <= Len(tmp_data)
    BY <2>2 DEF FRAME_MIN_LEN, TypeInv, TypeOK
  <2>4. 1 \in Hits(tmp_data)
    BY <1>3, <2>3, DueHit, Zenon
  <2>. QED
    BY <2>2, <2>4
<1>12. CASE KeepPartial
  <2>1. PICK i \in Hits(tmp_data) :
          FirstHit(tmp_data, i) /\ tmp_data' = SubSeq(tmp_data, i, Len(tmp_data))
    BY <1>12 DEF KeepPartial
  <2>2. tmp_data \in Seq(Byte) /\ i \in 1..(Len(tmp_data) - 6)
    BY HitBounds DEF TypeInv, TypeOK
  <2>3. FRAME_MIN_LEN <= Len(tmp_data)
    BY <2>2 DEF FRAME_MIN_LEN
  <2>4. 1 \in Hits(tmp_data)
    BY <1>3, <2>3, DueHit, Zenon
  <2>5. i = 1
    BY <2>1, <2>2, <2>4 DEF FirstHit
  <2>6. tmp_data' = tmp_data
    BY <2>1, <2>2, <2>5, SubSeqFull
  <2>. QED
    BY <1>1, <1>3, <1>4, <1>12, <2>6, StepKeeps, Zenon DEF KeepPartial, Conserves
<1>13. CASE NoFrame
  <2>1. 1 \in Hits(tmp_data)
    BY <1>3, <1>13, DueHit DEF NoFrame, TypeInv, TypeOK, FRAME_MIN_LEN
  <2>. QED
    BY <1>13, <2>1 DEF NoFrame
<1>14. CASE UNCHANGED vars
  BY <1>1, <1>3, <1>4, <1>14, StepKeeps, Zenon DEF vars, Conserves
<1>15. CASE Overrun
  <2>1. pc' # "reset"
    BY <1>15 DEF Overrun
  <2>. QED
    BY <1>1, <1>3, <1>4, <1>15, <2>1, StepKeeps, Zenon DEF Overrun, Conserves
<1>. QED
  BY <1>5, <1>6, <1>7, <1>8, <1>9, <1>10, <1>11, <1>12, <1>13, <1>14, <1>15
     DEF Next, Parse

\* The invariant under InStep.
LEMMA StepInvariant == Spec => [](TypeInv /\ StepInv)
<1>1. Init => TypeInv /\ StepInv
  BY TypeInit, StepInit, Zenon
<1>2. TypeInv /\ StepInv /\ [Next]_vars => (TypeInv /\ StepInv)'
  BY TypeStep, StepNext, Zenon
<1>. QED
  BY <1>1, <1>2, PTL DEF Spec

FromLeft(a, b, c, d) == a \o b \o c \o d = a \o (b \o (c \o d))

\* Brackets of three concatenations, from the left or from the right.
LEMMA LeftToRight ==
    ASSUME NEW S,
           NEW a \in Seq(S), NEW b \in Seq(S), NEW c \in Seq(S), NEW d \in Seq(S)
    PROVE  FromLeft(a, b, c, d)
<1>1. a \o b \in Seq(S) /\ c \o d \in Seq(S)
  OBVIOUS
<1>2. Assoc(a \o b, c, d) /\ Assoc(a, b, c \o d)
  BY <1>1, Associative, Zenon
<1>. QED
  BY <1>2, Zenon DEF Assoc, FromLeft

\* __frame_parse_data keeps in step on a line without faults: into whatever reads
\* that have room in tmp_data the bytes are cut, none is lost, repeated or moved, and the frames delivered
\* are those the chip sent first, in their order.
THEOREM InStepCorrect == Spec => []InStep
<1>1. TypeInv /\ StepInv => InStep
  <2> SUFFICES ASSUME TypeInv, StepInv, faults = 0
               PROVE  /\ FlattenSeq(delivered) \o tmp_data \o uart \o line = Stream(sent)
                      /\ delivered = [k \in DOMAIN delivered |-> Framed(sent[k])]
    BY Zenon DEF InStep
  <2>1. /\ FlattenSeq(delivered) \in Seq(Byte) /\ tmp_data \in Seq(Byte)
        /\ uart \in Seq(Byte) /\ line \in Seq(Byte)
    BY FlattenType DEF TypeInv, TypeOK
  <2> DEFINE D == FlattenSeq(delivered)
  <2>2. D \o tmp_data \o uart \o line = D \o (tmp_data \o (uart \o line))
    <3>1. D \in Seq(Byte)
      BY <2>1
    <3>. HIDE DEF D
    <3>2. FromLeft(D, tmp_data, uart, line)
      BY <2>1, <3>1, LeftToRight, Zenon
    <3>. QED
      BY <3>2, Zenon DEF FromLeft
  <2>3. DOMAIN delivered = 1..Len(delivered)
    BY DEF TypeInv, TypeOK
  <2>. QED
    BY <2>2, <2>3, Zenon DEF StepInv
<1>. QED
  BY <1>1, StepInvariant, PTL

-----------------------------------------------------------------------------
(* No complete frame waits *)

\* When __uart_task waits, a frame of FRAME_MIN_LEN bytes at most is kept, or
\* less than the frame due.
WaitInv ==
    faults = 0 /\ pc = "wait" =>
        \/ Len(tmp_data) <= FRAME_MIN_LEN
        \/ Len(delivered) < Len(sent) /\ Len(tmp_data) < Len(Due)

\* Every step keeps WaitInv.
LEMMA WaitNext == TypeInv /\ StepInv /\ WaitInv /\ [Next]_vars => WaitInv'
<1> SUFFICES ASSUME TypeInv, StepInv, WaitInv, [Next]_vars
             PROVE  WaitInv'
  OBVIOUS
<1>1. sent' = sent
  BY DEF vars, Next, Arrive, Overflow, Alter, ReadData, Overrun, Flush, ResetQueue, Parse,
         TooShort, Deliver, DeliverWrapped, KeepPartial, NoFrame
<1>2. faults \in Nat /\ (faults' = faults \/ faults' = faults + 1)
  BY DEF vars, Next, Arrive, Overflow, Alter, ReadData, Overrun, Flush, ResetQueue, Parse,
         TooShort, Deliver, DeliverWrapped, KeepPartial, NoFrame, TypeInv, TypeOK
<1>3. faults' = 0 => faults = 0
  BY <1>2
<1>4. SUFFICES ASSUME faults = 0, faults' = 0, pc' = "wait"
               PROVE  \/ Len(tmp_data') <= FRAME_MIN_LEN
                      \/ Len(delivered') < Len(sent) /\ Len(tmp_data') < Len(Due')
  <2>1. CASE faults' # 0 \/ pc' # "wait"
    BY <2>1, Zenon DEF WaitInv
  <2>2. CASE faults' = 0 /\ pc' = "wait"
    BY <1>1, <1>3, <2>2, Zenon DEF WaitInv
  <2>. QED
    BY <2>1, <2>2
<1>5. ASSUME pc = "wait", tmp_data' = tmp_data, delivered' = delivered
      PROVE  \/ Len(tmp_data') <= FRAME_MIN_LEN
             \/ Len(delivered') < Len(sent) /\ Len(tmp_data') < Len(Due')
  BY <1>1, <1>4, <1>5, Zenon DEF WaitInv, Due
<1>6. CASE Arrive \/ UNCHANGED vars
  BY <1>4, <1>5, <1>6, Zenon DEF Arrive, vars
<1>7. CASE Overflow \/ Alter
  BY <1>2, <1>4, <1>7 DEF Overflow, Alter
<1>8. CASE ReadData
  <2>1. uart = <<>> /\ pc = "wait" /\ delivered' = delivered
    BY <1>4, <1>8 DEF ReadData, HasData
  <2>2. tmp_data' = tmp_data
    <3>1. tmp_data \in Seq(Byte) /\ Len(uart) = 0 /\ Len(uart) < TempBuf
      BY <2>1, ParserAssumption DEF TypeInv, TypeOK
    <3>2. tmp_data' = tmp_data \o SubSeq(uart, 1, Len(uart))
      BY <1>8, <3>1, Zenon DEF ReadData, ReadLen
    <3>3. SubSeq(uart, 1, Len(uart)) = <<>>
      BY <2>1
    <3>. QED
      BY <3>1, <3>2, <3>3, ConcatEmptySeq
  <2>. QED
    BY <1>5, <2>1, <2>2
<1>9. CASE Flush \/ ResetQueue
  BY <1>4, <1>9 DEF Flush, ResetQueue, StepInv
<1>10. CASE TooShort
  BY <1>10 DEF TooShort, TypeInv, TypeOK, FRAME_MIN_LEN
<1>11. CASE Deliver
  <2>1. PICK i \in Hits(tmp_data) :
          Whole(tmp_data, i) /\ HandOver(tmp_data, i, i + FrameLen(tmp_data, i) - 1)
    BY <1>11 DEF Deliver
  <2>2. /\ tmp_data \in Seq(Byte) /\ delivered \in Seq(Seq(Byte))
        /\ i \in 1..(Len(tmp_data) - 6)
        /\ i + FrameLen(tmp_data, i) - 1 \in (i - 1)..Len(tmp_data)
    BY <2>1, HitBounds DEF TypeInv, TypeOK
  <2>. QED
    BY <1>4, <2>1, <2>2, HandOverType
<1>12. CASE DeliverWrapped
  <2>1. PICK i \in WrappedHits(tmp_data) :
          HandOver(Swapped(tmp_data, i), i, i + FrameLen(tmp_data, i) - Wrap - 1)
    BY <1>12 DEF DeliverWrapped
  <2>2. /\ tmp_data \in Seq(Byte) /\ delivered \in Seq(Seq(Byte))
        /\ i \in 1..(Len(tmp_data) - 6)
        /\ i + FrameLen(tmp_data, i) - Wrap - 1 \in (i - 1)..Len(tmp_data)
    BY <2>1, WrappedBounds DEF TypeInv, TypeOK
  <2>. QED
    BY <1>4, <2>1, <2>2, SwappedType, HandOverType
<1>13. CASE KeepPartial
  <2>1. PICK i \in Hits(tmp_data) :
          /\ FirstHit(tmp_data, i) /\ ~Whole(tmp_data, i)
          /\ tmp_data' = SubSeq(tmp_data, i, Len(tmp_data))
    BY <1>13 DEF KeepPartial
  <2>2. tmp_data \in Seq(Byte) /\ i \in 1..(Len(tmp_data) - 6)
    BY HitBounds DEF TypeInv, TypeOK
  <2>3. FRAME_MIN_LEN <= Len(tmp_data)
    BY <2>2 DEF FRAME_MIN_LEN
  <2>4. /\ 1 \in Hits(tmp_data) /\ Len(delivered) < Len(sent)
        /\ ~Whole(tmp_data, 1) => Len(tmp_data) < Len(Due)
    BY <1>4, <2>3, DueHit, Zenon
  <2>5. i = 1
    BY <2>1, <2>2, <2>4 DEF FirstHit
  <2>6. tmp_data' = tmp_data /\ delivered' = delivered
    BY <1>13, <2>1, <2>2, <2>5, SubSeqFull DEF KeepPartial
  <2>7. Due' = Due
    BY <1>1, <2>6, Zenon DEF Due
  <2>. QED
    BY <2>1, <2>4, <2>5, <2>6, <2>7, Zenon
<1>14. CASE NoFrame
  BY <1>14 DEF NoFrame, FRAME_MIN_LEN
<1>15. CASE Overrun
  BY <1>4, <1>15 DEF Overrun
<1>. QED
  BY <1>6, <1>7, <1>8, <1>9, <1>10, <1>11, <1>12, <1>13, <1>14, <1>15
     DEF Next, Parse

\* Less than the frame due cannot begin with a complete frame.
LEMMA WaitShows == TypeInv /\ StepInv /\ WaitInv => NoneWaits
<1> SUFFICES ASSUME TypeInv, StepInv, WaitInv, faults = 0, pc = "wait",
                    NEW p \in ToSet(sent), p # <<>>, IsPrefix(Framed(p), tmp_data)
             PROVE  FALSE
  BY Zenon DEF NoneWaits
<1> DEFINE f == Framed(p)
<1>1. PICK k \in 1..Len(sent) : p = sent[k]
  <2>1. sent \in Seq(Seq(Byte))
    BY ParserAssumption DEF TypeInv, Byte
  <2>. QED
    BY <2>1 DEF ToSet
<1>2. IsFrame(f) /\ f \in Seq(Byte) /\ p \in Seq(Byte) /\ Len(f) = Len(p) + 7
  BY <1>1, SentIs, Zenon DEF TypeInv
<1>3. tmp_data \in Seq(Byte)
  BY DEF TypeInv, TypeOK
<1>4. Len(f) <= Len(tmp_data) /\ SubSeq(tmp_data, 1, Len(f)) = f
  <2>. HIDE DEF f
  <2>1. IsPrefix(f, tmp_data)
    BY DEF f
  <2>2. Len(f) <= Len(tmp_data) /\ \A i \in 1..Len(f) : f[i] = tmp_data[i]
    BY <1>2, <1>3, <2>1 DEF IsPrefix
  <2>. QED
    BY <1>2, <1>3, <2>2
<1>5. Len(f) > FRAME_MIN_LEN /\ Len(f) \in Nat
  BY <1>2 DEF FRAME_MIN_LEN
<1>6. FRAME_MIN_LEN <= Len(tmp_data) /\ ~(Len(tmp_data) <= FRAME_MIN_LEN)
  <2>. HIDE DEF f
  <2>. QED  BY <1>3, <1>4, <1>5 DEF FRAME_MIN_LEN
<1>7. FrameLen(tmp_data, 1) = Len(Due) /\ Len(tmp_data) < Len(Due)
  BY <1>6, DueHit, Zenon DEF WaitInv
<1>8. FrameLen(tmp_data, 1) = Len(f)
  <2>. HIDE DEF f
  <2>1. /\ 1 \in 1..(Len(tmp_data) + 1 - Len(f))
        /\ SubSeq(tmp_data, 1, 1 + Len(f) - 1) = f
    BY <1>3, <1>4, <1>5
  <2>. QED
    BY <1>2, <1>3, <2>1, FrameIsHit, Zenon
<1>. QED
  <2>. HIDE DEF f
  <2>. QED  BY <1>3, <1>4, <1>5, <1>7, <1>8

\* The re_parse loop: on a line without faults no complete frame with a payload
\* is among the bytes kept when __uart_task waits.
THEOREM NoneWaitsCorrect == Spec => []NoneWaits
<1>1. Init => WaitInv
  BY DEF Init, WaitInv, FRAME_MIN_LEN
<1>2. Spec => []WaitInv
  BY <1>1, WaitNext, StepInvariant, PTL DEF Spec
<1>. QED
  BY <1>2, StepInvariant, WaitShows, PTL

-----------------------------------------------------------------------------
(* Whole frames survive *)

\* What Append does to the elements.
LEMMA AppendSet ==
    ASSUME NEW S, NEW s \in Seq(S), NEW x \in S
    PROVE  ToSet(Append(s, x)) = ToSet(s) \cup {x}
<1> DEFINE t == Append(s, x)
<1>1. /\ Len(s) \in Nat /\ Len(t) = Len(s) + 1
      /\ DOMAIN s = 1..Len(s) /\ DOMAIN t = 1..(Len(s) + 1)
      /\ \A k \in 1..Len(s) : t[k] = s[k]
      /\ t[Len(s) + 1] = x
  OBVIOUS
<1>. HIDE DEF t
<1>2. \A k \in 1..(Len(s) + 1) : k = Len(s) + 1 \/ k \in 1..Len(s)
  BY <1>1
<1>3. Len(s) + 1 \in 1..(Len(s) + 1) /\ 1..Len(s) \subseteq 1..(Len(s) + 1)
  BY <1>1
<1>. QED
  BY <1>1, <1>2, <1>3, Zenon DEF ToSet, t

\* Each of the chip's frames is a frame.
LEMMA GenuineIsFrame ==
    ASSUME sent \in Streams, NEW f \in Genuine
    PROVE  IsFrame(f) /\ f \in Seq(Byte) /\ Len(f) \in Nat /\ Len(f) >= 7
<1>1. IsFrame(f) /\ f \in Seq(Byte)
  BY SentIs, Zenon
<1>. QED
  BY <1>1 DEF IsFrame, FRAME_MIN_LEN

\* The bytes of f stand in s from m on.
StandsAt(f, s, m) ==
    m \in 1..(Len(s) + 1 - Len(f)) /\ SubSeq(s, m, m + Len(f) - 1) = f

\* StandsAt, byte by byte.
LEMMA StandsByte ==
    ASSUME NEW S, NEW s \in Seq(S), NEW f \in Seq(S), NEW m \in Nat \ {0},
           StandsAt(f, s, m)
    PROVE  /\ m + Len(f) <= Len(s) + 1
           /\ \A j \in 1..Len(f) : s[m + j - 1] = f[j]
<1>1. Len(s) \in Nat /\ Len(f) \in Nat
  OBVIOUS
<1>2. m \in 1..(Len(s) + 1 - Len(f))
  BY DEF StandsAt
<1>3. m + Len(f) <= Len(s) + 1
  BY <1>1, <1>2
<1>4. \A j \in 1..Len(f) : SubSeq(s, m, m + Len(f) - 1)[j] = s[m + j - 1]
  BY <1>1, <1>3
<1>5. SubSeq(s, m, m + Len(f) - 1) = f
  BY DEF StandsAt
<1>. QED
  BY <1>3, <1>4, <1>5, Zenon

\* The same the other way round.
LEMMA ByteStands ==
    ASSUME NEW S, NEW s \in Seq(S), NEW f \in Seq(S), NEW m \in Nat \ {0},
           m + Len(f) <= Len(s) + 1,
           \A j \in 1..Len(f) : s[m + j - 1] = f[j]
    PROVE  StandsAt(f, s, m)
<1>1. Len(s) \in Nat /\ Len(f) \in Nat /\ m \in 1..(Len(s) + 1 - Len(f))
  OBVIOUS
<1>2. /\ SubSeq(s, m, m + Len(f) - 1) \in Seq(S)
      /\ Len(SubSeq(s, m, m + Len(f) - 1)) = Len(f)
      /\ \A j \in 1..Len(f) : SubSeq(s, m, m + Len(f) - 1)[j] = s[m + j - 1]
  BY <1>1
<1>. QED
  BY <1>1, <1>2 DEF StandsAt

\* Within is StandsAt somewhere.
LEMMA WithinStands ==
    ASSUME NEW f, NEW s, Len(f) \in Nat, Len(s) \in Nat
    PROVE  Within(f, s) <=> \E m \in Nat \ {0} : StandsAt(f, s, m)
<1>1. \A m \in 1..(Len(s) + 1 - Len(f)) : m \in Nat \ {0}
  OBVIOUS
<1>. QED
  BY <1>1, Zenon DEF Within, StandsAt

\* A frame that begins behind what is dropped stands in the rest.
LEMMA KeptRest ==
    ASSUME NEW S, NEW s \in Seq(S), NEW f \in Seq(S), NEW m \in Nat \ {0},
           NEW end \in 0..Len(s), StandsAt(f, s, m), end < m
    PROVE  Within(f, SubSeq(s, end + 1, Len(s)))
<1> DEFINE t == SubSeq(s, end + 1, Len(s))
<1>1. /\ t \in Seq(S) /\ Len(t) = Len(s) - end
      /\ \A j \in 1..Len(t) : t[j] = s[end + j]
  OBVIOUS
<1>2. m + Len(f) <= Len(s) + 1 /\ \A j \in 1..Len(f) : s[m + j - 1] = f[j]
  BY StandsByte
<1>. HIDE DEF t
<1>3. m - end \in Nat \ {0} /\ (m - end) + Len(f) <= Len(t) + 1
  BY <1>1, <1>2
<1>4. \A j \in 1..Len(f) : t[(m - end) + j - 1] = f[j]
  <2> SUFFICES ASSUME NEW j \in 1..Len(f)
               PROVE  t[(m - end) + j - 1] = f[j]
    OBVIOUS
  <2>1. /\ (m - end) + j - 1 \in 1..Len(t)
        /\ end + ((m - end) + j - 1) = m + j - 1
    BY <1>1, <1>3
  <2>. QED
    BY <1>1, <1>2, <2>1, Zenon
<1>5. StandsAt(f, t, m - end)
  BY <1>1, <1>3, <1>4, ByteStands, Zenon
<1>6. Within(f, t)
  BY <1>1, <1>3, <1>5, WithinStands
<1>. QED
  BY <1>6 DEF t

\* A frame within one of two parts stands in the two put together: what
\* ReadData does.
LEMMA KeptBehind ==
    ASSUME NEW S, NEW s \in Seq(S), NEW t \in Seq(S), NEW f \in Seq(S),
           Within(f, s) \/ Within(f, t)
    PROVE  Within(f, s \o t)
<1> DEFINE u == s \o t
<1>1. /\ u \in Seq(S) /\ Len(u) = Len(s) + Len(t)
      /\ \A j \in 1..Len(s) : u[j] = s[j]
      /\ \A j \in 1..Len(t) : u[Len(s) + j] = t[j]
  BY ConcatProperties
<1>2. Len(s) \in Nat /\ Len(t) \in Nat /\ Len(f) \in Nat
  OBVIOUS
<1>. HIDE DEF u
<1>3. CASE Within(f, s)
  <2>1. PICK m \in Nat \ {0} : StandsAt(f, s, m)
    BY <1>2, <1>3, WithinStands, Zenon
  <2>2. m + Len(f) <= Len(s) + 1 /\ \A j \in 1..Len(f) : s[m + j - 1] = f[j]
    BY <2>1, StandsByte
  <2>3. m + Len(f) <= Len(u) + 1
    BY <1>1, <1>2, <2>2
  <2>4. \A j \in 1..Len(f) : m + j - 1 \in 1..Len(s)
    BY <1>2, <2>2
  <2>5. StandsAt(f, u, m)
    BY <1>1, <2>2, <2>3, <2>4, ByteStands, Zenon
  <2>. QED
    BY <1>1, <1>2, <2>5, WithinStands DEF u
<1>4. CASE Within(f, t)
  <2>1. PICK m \in Nat \ {0} : StandsAt(f, t, m)
    BY <1>2, <1>4, WithinStands, Zenon
  <2>2. m + Len(f) <= Len(t) + 1 /\ \A j \in 1..Len(f) : t[m + j - 1] = f[j]
    BY <2>1, StandsByte
  <2>3. Len(s) + m \in Nat \ {0} /\ (Len(s) + m) + Len(f) <= Len(u) + 1
    BY <1>1, <1>2, <2>2
  <2>4. \A j \in 1..Len(f) : /\ m + j - 1 \in 1..Len(t)
                             /\ (Len(s) + m) + j - 1 = Len(s) + (m + j - 1)
    BY <1>2, <2>2
  <2>5. \A j \in 1..Len(f) : u[(Len(s) + m) + j - 1] = f[j]
    BY <1>1, <2>2, <2>4, Zenon
  <2>6. StandsAt(f, u, Len(s) + m)
    BY <1>1, <2>3, <2>5, ByteStands, Zenon
  <2>. QED
    BY <1>1, <1>2, <2>3, <2>6, WithinStands DEF u
<1>. QED
  BY <1>3, <1>4

\* If no frame begins inside another one, two of them do not overlap among
\* the bytes kept.
LEMMA NoOverlap ==
    ASSUME NEW S, NEW s \in Seq(S), NEW f \in Seq(S), NEW g \in Seq(S),
           NEW i \in Nat \ {0}, NEW m \in Nat \ {0},
           StandsAt(f, s, m), StandsAt(g, s, i),
           i < m, m < i + Len(g),
           f \in Genuine, g \in Genuine, FramesApart
    PROVE  FALSE
<1>1. m - i \in 1..(Len(g) - 1)
  OBVIOUS
<1>2. PICK j \in 1..Len(f) : (m - i) + j <= Len(g) /\ g[(m - i) + j] # f[j]
  BY <1>1, Zenon DEF FramesApart
<1>3. s[m + j - 1] = f[j]
  BY StandsByte
<1>4. (m - i) + j \in 1..Len(g) /\ i + ((m - i) + j) - 1 = m + j - 1
  BY <1>1, <1>2
<1>5. s[i + ((m - i) + j) - 1] = g[(m - i) + j]
  BY <1>4, StandsByte
<1>. QED
  BY <1>2, <1>3, <1>4, <1>5

\* WholeFrameSurvives without its premise about the room for a read: no step
\* before the one that finds none depends on it.
Survives ==
    ToSet(delivered) \subseteq Genuine =>
        \A f \in whole :
            f \in ToSet(delivered) \/ Within(f, tmp_data) \/ ~FramesApart

\* Every step keeps Survives. The search stops at the frame itself or
\* in front of it. In front of it, either a part is kept with everything behind
\* it, or a frame is delivered which ends before this one, since otherwise it
\* would overlap it; and the few bytes of a wrapped length are not a frame.
LEMMA SurvivesStep == TypeInv /\ Survives /\ [Next]_vars => Survives'
<1> SUFFICES ASSUME TypeInv, Survives, [Next]_vars,
                    ToSet(delivered') \subseteq Genuine', FramesApart', NEW f \in whole'
             PROVE  f \in ToSet(delivered') \/ Within(f, tmp_data')
  BY Zenon DEF Survives
<1>1. sent' = sent /\ Genuine' = Genuine /\ (FramesApart' <=> FramesApart)
  BY DEF vars, Next, Arrive, Overflow, Alter, ReadData, Overrun, Flush, ResetQueue, Parse,
         TooShort, Deliver, DeliverWrapped, KeepPartial, NoFrame, Genuine, FramesApart
<1>2. tmp_data \in Seq(Byte) /\ delivered \in Seq(Seq(Byte)) /\ whole \subseteq Genuine
  BY DEF TypeInv, TypeOK
<1>3. ASSUME ToSet(delivered) \subseteq ToSet(delivered'), f \in whole
      PROVE  f \in ToSet(delivered') \/ Within(f, tmp_data)
  BY <1>1, <1>3, Zenon DEF Survives
<1>4. ASSUME f \in whole, Within(f, tmp_data)
      PROVE  \E m \in Hits(tmp_data) :
                /\ m \in Nat \ {0} /\ StandsAt(f, tmp_data, m)
                /\ Whole(tmp_data, m) /\ FrameLen(tmp_data, m) = Len(f)
  <2>1. IsFrame(f) /\ f \in Seq(Byte) /\ Len(f) \in Nat
    BY <1>2, <1>4, GenuineIsFrame, Zenon DEF TypeInv
  <2>2. Len(tmp_data) \in Nat
    BY <1>2
  <2>3. PICK m \in Nat \ {0} : StandsAt(f, tmp_data, m)
    BY <1>4, <2>1, <2>2, WithinStands, Zenon
  <2>4. m \in Hits(tmp_data) /\ Whole(tmp_data, m) /\ FrameLen(tmp_data, m) = Len(f)
    BY <1>2, <2>1, <2>3, FrameIsHit, Zenon DEF StandsAt
  <2>. QED
    BY <2>3, <2>4, Zenon
<1>5. ASSUME tmp_data' = tmp_data, delivered' = delivered, whole' = whole
      PROVE  f \in ToSet(delivered') \/ Within(f, tmp_data')
  BY <1>1, <1>5, Zenon DEF Survives
<1>6. CASE \/ Arrive \/ Overflow \/ Alter \/ Overrun \/ Flush \/ ResetQueue
           \/ TooShort \/ UNCHANGED vars
  BY <1>5, <1>6, Zenon
     DEF Arrive, Overflow, Alter, Overrun, Flush, ResetQueue, TooShort, vars
<1>7. CASE ReadData
  <2> DEFINE len == ReadLen
             temp_buf == SubSeq(uart, 1, len)
  <2>1. /\ tmp_data' = tmp_data \o temp_buf /\ delivered' = delivered
        /\ whole' = whole \cup {g \in Genuine : Within(g, temp_buf)}
    BY <1>7, Zenon DEF ReadData
  <2>2. len \in 0..Len(uart) /\ uart \in Seq(Byte)
    BY ParserAssumption DEF TypeInv, TypeOK, ReadLen
  <2>. HIDE DEF len
  <2>3. temp_buf \in Seq(Byte)
    BY <2>2, SplitAt, Zenon
  <2>. HIDE DEF temp_buf
  <2>4. f \in Seq(Byte)
    <3>1. f \in Genuine
      BY <1>2, <2>1, Zenon
    <3>. QED
      BY <3>1, GenuineIsFrame, Zenon DEF TypeInv
  <2>5. f \in ToSet(delivered') \/ Within(f, tmp_data) \/ Within(f, temp_buf)
    BY <1>3, <2>1, Zenon
  <2>6. Within(f, tmp_data) \/ Within(f, temp_buf) => Within(f, tmp_data \o temp_buf)
    BY <1>2, <2>3, <2>4, KeptBehind, Zenon
  <2>. QED
    BY <2>1, <2>5, <2>6, Zenon
<1>8. CASE Deliver
  <2>1. PICK i \in Hits(tmp_data) :
          /\ FirstHit(tmp_data, i) /\ Whole(tmp_data, i)
          /\ HandOver(tmp_data, i, i + FrameLen(tmp_data, i) - 1)
    BY <1>8 DEF Deliver
  <2> DEFINE end == i + FrameLen(tmp_data, i) - 1
             g == SubSeq(tmp_data, i, end)
  <2>2. /\ i \in 1..(Len(tmp_data) - 6) /\ i \in Nat \ {0}
        /\ FrameLen(tmp_data, i) \in Nat /\ FrameLen(tmp_data, i) >= 7
        /\ end \in 0..Len(tmp_data) /\ i <= end
    BY <1>2, <2>1, HitBounds
  <2>3. g \in Seq(Byte) /\ Len(g) = FrameLen(tmp_data, i)
    <3>1. end - i + 1 = FrameLen(tmp_data, i)
      BY <2>2
    <3>. HIDE DEF end
    <3>2. \A j \in i..end : tmp_data[j] \in Byte
      BY <1>2, <2>2, ElementOfSeq
    <3>3. g \in Seq(Byte) /\ Len(g) = end - i + 1
      BY <1>2, <2>2, <3>2, SubSeqProperties
    <3>. QED
      BY <3>1, <3>3, Zenon
  <2>4. StandsAt(g, tmp_data, i)
    <3>1. i \in 1..(Len(tmp_data) + 1 - Len(g)) /\ i + Len(g) - 1 = end
      <4>. HIDE DEF g
      <4>. QED  BY <1>2, <2>2, <2>3
    <3>. QED
      BY <3>1, Zenon DEF StandsAt
  <2>5. /\ delivered' = Append(delivered, g)
        /\ tmp_data' = SubSeq(tmp_data, end + 1, Len(tmp_data))
    BY <2>1, Zenon DEF HandOver
  <2>6. ToSet(delivered') = ToSet(delivered) \cup {g} /\ g \in Genuine
    <3>. HIDE DEF g
    <3>1. ToSet(delivered') = ToSet(delivered) \cup {g}
      BY <1>2, <2>3, <2>5, AppendSet
    <3>. QED
      BY <1>1, <3>1, Zenon
  <2>7. whole' = whole
    BY <1>8 DEF Deliver
  <2>8. SUFFICES ASSUME Within(f, tmp_data), f # g
                 PROVE  Within(f, tmp_data')
    BY <1>3, <2>6, <2>7, Zenon
  <2>9. PICK m \in Hits(tmp_data) :
          /\ m \in Nat \ {0} /\ StandsAt(f, tmp_data, m)
          /\ FrameLen(tmp_data, m) = Len(f)
    BY <1>4, <2>7, <2>8, Zenon
  <2>10. f \in Genuine /\ f \in Seq(Byte)
    BY <1>2, <2>7, GenuineIsFrame, Zenon DEF TypeInv
  <2>11. i # m
    BY <2>4, <2>3, <2>8, <2>9, Zenon DEF StandsAt
  <2>12. i < m
    <3>1. i <= m
      BY <2>1, <2>9, Zenon DEF FirstHit
    <3>. QED
      BY <2>2, <2>9, <2>11, <3>1
  <2>13. ~(m < i + Len(g))
    <3>. HIDE DEF g
    <3>. QED
      BY <1>1, <1>2, <2>2, <2>3, <2>4, <2>6, <2>9, <2>10, <2>12, NoOverlap, Zenon
  <2>14. end < m
    <3>. HIDE DEF g
    <3>. QED
      BY <2>2, <2>3, <2>9, <2>13
  <2>. QED
    <3>. HIDE DEF g, end
    <3>. QED
      BY <1>2, <2>2, <2>5, <2>9, <2>10, <2>14, KeptRest, Zenon
<1>9. CASE DeliverWrapped
  <2>1. PICK i \in WrappedHits(tmp_data) :
          HandOver(Swapped(tmp_data, i), i, i + FrameLen(tmp_data, i) - Wrap - 1)
    BY <1>9 DEF DeliverWrapped
  <2> DEFINE end == i + FrameLen(tmp_data, i) - Wrap - 1
             g == SubSeq(tmp_data, i, end)
  <2>2. i \in 1..(Len(tmp_data) - 6) /\ end \in (i - 1)..Len(tmp_data) /\ end < i + 6
    BY <1>2, WrappedBounds
  <2>3. g \in Seq(Byte) /\ Len(g) < 7
    <3>. HIDE DEF end
    <3>1. \A j \in i..end : tmp_data[j] \in Byte
      BY <1>2, <2>2, ElementOfSeq
    <3>. QED
      BY <1>2, <2>2, <3>1, SubSeqProperties
  <2>4. delivered' = Append(delivered, g)
    BY <2>1, Zenon DEF HandOver
  <2>5. g \in Genuine
    <3>. HIDE DEF g
    <3>1. ToSet(delivered') = ToSet(delivered) \cup {g}
      BY <1>2, <2>3, <2>4, AppendSet
    <3>. QED
      BY <1>1, <3>1, Zenon
  <2>. QED
    <3>. HIDE DEF g
    <3>1. Len(g) \in Nat /\ Len(g) >= 7
      BY <2>5, GenuineIsFrame, Zenon DEF TypeInv
    <3>. QED
      BY <2>3, <3>1
<1>10. CASE KeepPartial
  <2>1. PICK i \in Hits(tmp_data) :
          /\ FirstHit(tmp_data, i) /\ ~Whole(tmp_data, i)
          /\ tmp_data' = SubSeq(tmp_data, i, Len(tmp_data))
    BY <1>10 DEF KeepPartial
  <2>2. i \in 1..(Len(tmp_data) - 6) /\ delivered' = delivered /\ whole' = whole
    BY <1>2, <1>10, HitBounds DEF KeepPartial
  <2>3. SUFFICES ASSUME Within(f, tmp_data)
                 PROVE  Within(f, tmp_data')
    BY <1>3, <2>2, Zenon
  <2>4. PICK m \in Hits(tmp_data) : m \in Nat \ {0} /\ StandsAt(f, tmp_data, m)
    BY <1>4, <2>2, <2>3, Zenon
  <2>5. f \in Seq(Byte)
    BY <1>2, <2>2, GenuineIsFrame, Zenon DEF TypeInv
  <2>6. i <= m
    BY <2>1, <2>4, Zenon DEF FirstHit
  <2>7. i - 1 \in 0..Len(tmp_data) /\ i - 1 < m /\ (i - 1) + 1 = i
    BY <1>2, <2>2, <2>4, <2>6
  <2>8. Within(f, SubSeq(tmp_data, (i - 1) + 1, Len(tmp_data)))
    BY <1>2, <2>4, <2>5, <2>7, KeptRest, Zenon
  <2>. QED
    BY <2>1, <2>7, <2>8, Zenon
<1>11. CASE NoFrame
  <2>1. Hits(tmp_data) = {} /\ delivered' = delivered /\ whole' = whole
    BY <1>11 DEF NoFrame
  <2>. QED
    BY <1>3, <1>4, <2>1, Zenon
<1>. QED
  BY <1>6, <1>7, <1>8, <1>9, <1>10, <1>11 DEF Next, Parse

\* __frame_parse_data after any number of faults: a frame of which one read
\* returned every byte is delivered or still kept, unless other bytes happened
\* to add up to a frame, a payload holds one, or a read found no room.
THEOREM WholeFrameCorrect == Spec => []WholeFrameSurvives
<1>1. Init => Survives
  BY Zenon DEF Init, Survives
<1>2. Spec => []TypeInv
  BY StepInvariant, PTL
<1>3. Survives => WholeFrameSurvives
  BY Zenon DEF Survives, WholeFrameSurvives
<1>. QED
  BY <1>1, <1>2, <1>3, SurvivesStep, PTL DEF Spec

-----------------------------------------------------------------------------
(* The room for a read *)

\* Every step keeps ShortReadFits: less than the longest frame is kept where a
\* read is made, and nothing is read after a read that found no room.
LEMMA FitsStep == TypeInv /\ ShortReadFits /\ [Next]_vars => ShortReadFits'
<1> SUFFICES ASSUME TypeInv, ShortReadFits, [Next]_vars, pc' = "overrun"
             PROVE  Len(uart') > FRAME_MAX_LEN + 1
  BY Zenon DEF ShortReadFits
<1>1. /\ uart \in Seq(Byte) /\ line \in Seq(Byte) /\ tmp_data \in Seq(Byte)
      /\ FRAME_MAX_LEN \in Nat
  BY ParserAssumption DEF TypeInv, TypeOK, FRAME_MAX_LEN
<1>2. CASE Arrive
  <2>1. PICK k \in 1..Len(line) : uart' = uart \o SubSeq(line, 1, k)
    BY <1>2 DEF Arrive
  <2>2. SubSeq(line, 1, k) \in Seq(Byte)
    BY <1>1
  <2>3. Len(uart') \in Nat /\ Len(uart') >= Len(uart)
    BY <1>1, <2>1, <2>2, ConcatProperties
  <2>4. Len(uart) > FRAME_MAX_LEN + 1
    BY <1>2 DEF Arrive, ShortReadFits
  <2>. QED
    BY <1>1, <2>3, <2>4
<1>3. CASE Overflow \/ Alter \/ UNCHANGED vars
  BY <1>3 DEF Overflow, Alter, vars, ShortReadFits
<1>4. CASE Overrun
  <2>1. /\ Len(tmp_data) + ReadLen > TmpSize /\ uart' = uart
        /\ Len(tmp_data) <= FRAME_MAX_LEN - 1
    BY <1>4 DEF Overrun, HasData, TypeInv, TypeOK
  <2>2. ReadLen \in Nat /\ ReadLen <= Len(uart)
    BY <1>1, ParserAssumption DEF ReadLen
  <2>. QED
    BY <1>1, <2>1, <2>2 DEF TmpSize
<1>5. CASE ReadData \/ Flush \/ ResetQueue
  BY <1>5 DEF ReadData, Flush, ResetQueue
<1>6. CASE Parse
  <2>1. pc' \in {"parse", "wait"}
    BY <1>6
       DEF Parse, TooShort, Deliver, DeliverWrapped, HandOver, KeepPartial,
           NoFrame
  <2>. QED
    BY <2>1
<1>. QED
  BY <1>2, <1>3, <1>4, <1>5, <1>6 DEF Next

\* __frame_parse_data keeps less than the longest frame after any faults, so
\* tmp_data can only overrun on a read of more than that frame and one byte.
THEOREM ShortReadCorrect == Spec => []ShortReadFits
<1>1. Init => ShortReadFits
  BY DEF Init, ShortReadFits
<1>2. Spec => []TypeInv
  BY StepInvariant, PTL
<1>. QED
  BY <1>1, <1>2, FitsStep, PTL DEF Spec
=============================================================================
