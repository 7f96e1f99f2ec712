--------------------------- MODULE FinishingProofs ---------------------------
(* That a film which is sent has lost little of its voice and of its pictures, that none   *)
(* is refused that a speed and a standing picture could have saved, that captions stand    *)
(* under their clips and lines of words fit the film, and that scores stay in their        *)
(* range: for any storyboards, voices, answers and failures.                               *)
EXTENDS Finishing, DataProofs, SequenceTheorems, TLAPS

---------------------------------------------------------------------------
(* Speeds.                                                                 *)

LEMMA Quotient ==
  ASSUME NEW a \in Nat, NEW t \in Nat \ {0}
  PROVE  /\ a \div t \in Nat
         /\ (a \div t) * t <= a /\ a < (a \div t) * t + t
OBVIOUS

\* What fits into a by ts is at most their quotient, and what does not is more.
LEMMA QuotientLeast ==
  ASSUME NEW a \in Nat, NEW t \in Nat \ {0}, NEW q \in Nat, q * t <= a
  PROVE  q <= a \div t
<1> DEFINE d == a \div t
<1>1. d \in Nat /\ d * t <= a /\ a < d * t + t
  BY Quotient
<1> HIDE DEF d
<1> SUFFICES ASSUME d < q PROVE FALSE
  BY <1>1 DEF d
<1>2. d + 1 <= q
  BY <1>1
<1>3. (d + 1) * t <= q * t
  BY <1>1, <1>2
<1>4. (d + 1) * t = d * t + t
  BY <1>1
<1> QED
  BY <1>1, <1>3, <1>4

\* A greater divisor gives no more.
LEMMA QuotientFalls ==
  ASSUME NEW a \in Nat, NEW t \in Nat \ {0}, NEW u \in Nat \ {0}, t <= u
  PROVE  a \div u <= a \div t
<1> DEFINE d == a \div u
<1>1. d \in Nat /\ d * u <= a
  BY Quotient
<1> HIDE DEF d
<1>2. d * t <= d * u
  BY <1>1
<1>3. d * t <= a
  <2>1. d * t \in Nat /\ d * u \in Nat
    BY <1>1
  <2> QED
    BY <1>1, <1>2, <2>1
<1> QED
  BY <1>1, <1>3, QuotientLeast DEF d

LEMMA TempoType ==
  ASSUME NEW p \in Nat, NEW v \in Nat, NEW len \in Nat
  PROVE  Sped(len, Tempo(p, v)) \in Nat
<1>1. Tempo(p, v)[1] \in Nat \ {0} /\ Tempo(p, v)[2] \in Nat
  BY DEF Tempo
<1>2. len * Tempo(p, v)[2] \in Nat
  BY <1>1
<1> QED
  BY <1>1, <1>2, Quotient DEF Sped

\* A voice that is sped as measured is as long as the pictures, longer only at the highest
\* speed and shorter only at the lowest.
LEMMA SpedFits ==
  ASSUME NEW p \in Nat \ {0}, NEW v \in Nat \ {0}
  PROVE  /\ Sped(v, Tempo(p, v)) \in Nat \ {0}
         /\ \/ Sped(v, Tempo(p, v)) = p
            \/ Sped(v, Tempo(p, v)) = (v * 100) \div 130 /\ p <= (v * 100) \div 130
            \/ Sped(v, Tempo(p, v)) = (v * 100) \div 85 /\ (v * 100) \div 85 <= p
<1>1. CASE 100 * v > 130 * p
  <2>1. Tempo(p, v) = <<130, 100>>
    BY <1>1 DEF Tempo
  <2>2. Sped(v, Tempo(p, v)) = (v * 100) \div 130
    BY <2>1 DEF Sped
  <2>3. p <= (v * 100) \div 130 /\ (v * 100) \div 130 \in Nat
    BY <1>1
  <2> QED
    BY <2>2, <2>3
<1>2. CASE 100 * v < 85 * p
  <2>1. Tempo(p, v) = <<85, 100>>
    BY <1>2 DEF Tempo
  <2>2. Sped(v, Tempo(p, v)) = (v * 100) \div 85
    BY <2>1 DEF Sped
  <2>3. (v * 100) \div 85 <= p /\ (v * 100) \div 85 \in Nat /\ 1 <= (v * 100) \div 85
    BY <1>2
  <2> QED
    BY <2>2, <2>3
<1>3. CASE ~(100 * v > 130 * p) /\ ~(100 * v < 85 * p)
  <2>1. Tempo(p, v) = <<v, p>>
    BY <1>3 DEF Tempo
  <2>2. Sped(v, Tempo(p, v)) = (v * p) \div v
    BY <2>1 DEF Sped
  <2> DEFINE d == (v * p) \div v
  <2>3. v * p \in Nat /\ p * v = v * p
    OBVIOUS
  <2>4. d \in Nat /\ d * v <= v * p /\ v * p < d * v + v /\ p <= d
    BY <2>3, Quotient, QuotientLeast
  <2> HIDE DEF d
  <2>5. d <= p
    <3> SUFFICES ASSUME p + 1 <= d PROVE FALSE
      BY <2>4
    <3>1. (p + 1) * v <= d * v
      BY <2>4
    <3>2. (p + 1) * v = p * v + v
      OBVIOUS
    <3>3. d * v \in Nat
      BY <2>4
    <3> QED
      BY <2>3, <2>4, <3>1, <3>2, <3>3
  <2>6. d = p
    BY <2>4, <2>5
  <2> QED
    BY <2>2, <2>6 DEF d
<1> QED
  BY <1>1, <1>2, <1>3

\* When a speed between 0.85 and 1.30 and a standing picture of up to five seconds do not
\* bring a voice and the pictures together as they are computed, none do.
LEMMA NoOtherHelps ==
  ASSUME NEW p \in Nat \ {0}, NEW v \in Nat \ {0}, NEW len, len = Sped(v, Tempo(p, v)),
         ~Verified(p + Pad(p, len), len),
         NEW tempo \in 85..130, NEW still \in 0..50
  PROVE  Abs((v * 100) \div tempo - p - still) > 12
<1>1. /\ len \in Nat \ {0}
      /\ \/ len = p
         \/ len = (v * 100) \div 130 /\ p <= len
         \/ len = (v * 100) \div 85 /\ len <= p
  BY SpedFits
<1>2. Pad(p, len) = IF len - p < 0 THEN 0 ELSE IF len - p > 50 THEN 50 ELSE len - p
  BY <1>1 DEF Pad, Higher, Lower, PadMax
<1>3. Pad(p, len) \in 0..50
  BY <1>1, <1>2
<1>4. len - (p + Pad(p, len)) > 12 \/ len - (p + Pad(p, len)) < -12
  BY <1>1, <1>3 DEF Verified, Drift, Abs
<1> DEFINE l == (v * 100) \div tempo
           high == (v * 100) \div 130
           low == (v * 100) \div 85
<1>5. v * 100 \in Nat /\ tempo \in Nat \ {0} /\ 85 <= tempo /\ tempo <= 130
  OBVIOUS
<1>6. l \in Nat /\ high \in Nat /\ low \in Nat /\ high <= l /\ l <= low
  <2>1. v * 100 \in Nat /\ 130 \in Nat \ {0} /\ 85 \in Nat \ {0} /\ tempo \in Nat \ {0}
    BY <1>5
  <2>2. l \in Nat /\ high \in Nat /\ low \in Nat
    BY <2>1, Quotient
  <2>3. high <= l
    BY <1>5, <2>1, QuotientFalls
  <2>4. l <= low
    BY <1>5, <2>1, QuotientFalls
  <2> QED
    BY <2>2, <2>3, <2>4
<1>7. \/ len = p
      \/ len = high /\ p <= len
      \/ len = low /\ len <= p
  BY <1>1
<1> HIDE DEF l, high, low
<1>8. l - p - still > 12 \/ l - p - still < -12
  BY <1>1, <1>2, <1>4, <1>6, <1>7
<1> QED
  BY <1>6, <1>8 DEF Abs, l

---------------------------------------------------------------------------
(* Sequences one after another.                                            *)

IsFlat(g, s, n) == g = [i \in 1..n |-> IF i = 1 THEN s[i] ELSE g[i - 1] \o s[i]]

\* The sequences up to each are those up to the one before, and that one.
LEMMA Flattened ==
  ASSUME NEW X, NEW s \in Seq(Seq(X)), s # <<>>
  PROVE  \E g : /\ g[1] = s[1] /\ \A i \in 2..Len(s) : g[i] = g[i - 1] \o s[i]
                /\ \A i \in 1..Len(s) : g[i] \in Seq(X)
                /\ FlattenSeq(s) = g[Len(s)]
<1> DEFINE n == Len(s)
           step == [p \in (2..n) \X Seq(X) |-> p[2] \o s[p[1]]]
           flatten[i \in 1..n] == IF i = 1 THEN s[i] ELSE flatten[i - 1] \o s[i]
<1>1. n \in Nat /\ n # 0 /\ 1 <= n /\ \A i \in 1..n : s[i] \in Seq(X)
  OBVIOUS
<1>2. FlattenSeq(s) = flatten[n]
  BY <1>1 DEF FlattenSeq
<1>3. flatten = CHOOSE g : IsFlat(g, s, n)
  BY DEF IsFlat
<1> HIDE DEF flatten
<1>4. \A i \in 2..n, x \in Seq(X) : step[<<i, x>>] = x \o s[i] /\ x \o s[i] \in Seq(X)
  <2>1. \A i \in 2..n, x \in Seq(X) : x \o s[i] \in Seq(X)
    BY <1>1
  <2> QED
    BY <2>1
<1> HIDE DEF n, step
<1>5. PICK g \in [1..n -> Seq(X)] :
        g[1] = s[1] /\ \A i \in 2..n : g[i] = step[<<i, g[i - 1]>>]
  <2>1. 2 = 1 + 1 /\ 1 \in Int /\ n \in Int /\ 1 <= n /\ s[1] \in Seq(X)
    BY <1>1
  <2>2. \A i \in 2..n, x \in Seq(X) : step[<<i, x>>] \in Seq(X)
    BY <1>4
  <2>3. Follows(1, 2, n, Seq(X), s[1], step)
    BY <2>1, <2>2 DEF Follows
  <2> QED
    BY <2>3, Recursion
<1>6. \A i \in 2..n : i - 1 \in 1..n /\ i # 1 /\ i \in 1..n
  BY <1>1
<1>7. \A i \in 1..n : i = 1 \/ i \in 2..n
  BY <1>1
<1>8. \A i \in 2..n : g[i] = g[i - 1] \o s[i]
  BY <1>4, <1>5, <1>6
<1>9. IsFlat(g, s, n)
  <2>1. g = [i \in 1..n |-> g[i]]
    BY <1>5
  <2>2. \A i \in 1..n : g[i] = IF i = 1 THEN s[i] ELSE g[i - 1] \o s[i]
    BY <1>5, <1>6, <1>7, <1>8
  <2>3. g = [i \in 1..n |-> IF i = 1 THEN s[i] ELSE g[i - 1] \o s[i]]
    BY <2>1, <2>2
  <2> QED
    BY <2>3 DEF IsFlat
<1>10. IsFlat(flatten, s, n)
  BY <1>3, <1>9
<1>11. \A i \in 1..n : flatten[i] = IF i = 1 THEN s[i] ELSE flatten[i - 1] \o s[i]
  BY <1>10 DEF IsFlat
<1>12. flatten[1] = s[1] /\ \A i \in 2..n : flatten[i] = flatten[i - 1] \o s[i]
  <2>1. 1 \in 1..n
    BY <1>1
  <2>2. flatten[1] = s[1]
    BY <1>11, <2>1
  <2>3. ASSUME NEW i \in 2..n PROVE flatten[i] = flatten[i - 1] \o s[i]
    BY <1>6, <1>11
  <2> QED
    BY <2>2, <2>3
<1>13. \A i \in 1..n : flatten[i] \in Seq(X)
  <2> DEFINE T == {i \in 1..n : flatten[i] \in Seq(X)}
  <2>1. 1 \in T
    BY <1>1, <1>12
  <2>2. ASSUME NEW i \in 1..(n - 1), i \in T PROVE i + 1 \in T
    <3>1. i + 1 \in 2..n /\ (i + 1) - 1 = i /\ i + 1 \in 1..n
      BY <1>1
    <3>2. flatten[i + 1] = flatten[i] \o s[i + 1] /\ s[i + 1] \in Seq(X) /\ flatten[i] \in Seq(X)
      BY <1>1, <1>12, <2>2, <3>1
    <3>3. \A x, y \in Seq(X) : x \o y \in Seq(X)
      OBVIOUS
    <3>4. flatten[i + 1] \in Seq(X)
      BY <3>2, <3>3
    <3> QED
      BY <3>1, <3>4
  <2> HIDE DEF T
  <2>3. 1 \in Int /\ n \in Int
    BY <1>1
  <2>4. \A i \in 1..n : i \in T
    BY <2>1, <2>2, <2>3, CountingFrom
  <2> QED
    BY <2>4 DEF T
<1> QED
  BY <1>2, <1>12, <1>13 DEF n
---------------------------------------------------------------------------
(* The captions of a clip.                                                 *)

\* A text is cut into finitely many pieces.
LEMMA ChunksType ==
  ASSUME NEW text \in Seq(Nat)
  PROVE  Chunks(text) \in Seq(Int)
<1> DEFINE s == [i \in DOMAIN text |-> Pieces(text[i])]
<1>1. \A phrase \in Nat : Pieces(phrase) \in Seq(Int)
  <2> SUFFICES ASSUME NEW phrase \in Nat PROVE Pieces(phrase) \in Seq(Int)
    OBVIOUS
  <2> DEFINE n == (phrase + MaxChars - 1) \div MaxChars
             p == [i \in 1..n |-> IF i < n THEN MaxChars ELSE phrase - (n - 1) * MaxChars]
  <2>1. MaxChars \in Nat
    BY DEF MaxChars
  <2>2. n \in Nat
    BY DEF MaxChars
  <2>3. Pieces(phrase) = p
    BY DEF Pieces
  <2> HIDE DEF n
  <2>4. (n - 1) * MaxChars \in Int
    BY <2>1, <2>2
  <2>5. p \in [1..n -> Int]
    BY <2>1, <2>2, <2>4
  <2> HIDE DEF p
  <2>6. p \in Seq(Int)
    BY <2>2, <2>5
  <2> QED
    BY <2>3, <2>6
<1>2. s \in Seq(Seq(Int)) /\ Len(s) = Len(text)
  <2>1. \A i \in 1..Len(text) : Pieces(text[i]) \in Seq(Int)
    BY <1>1
  <2>2. s \in [1..Len(text) -> Seq(Int)] /\ Len(text) \in Nat
    BY <2>1
  <2> HIDE DEF s
  <2> QED
    BY <2>2
<1>3. Chunks(text) = FlattenSeq(s)
  BY DEF Chunks
<1> HIDE DEF s
<1>4. CASE s # <<>>
  <2>1. PICK g : (\A i \in 1..Len(s) : g[i] \in Seq(Int)) /\ FlattenSeq(s) = g[Len(s)]
    BY <1>2, <1>4, Flattened
  <2>2. Len(s) \in 1..Len(s)
    BY <1>2, <1>4
  <2> QED
    BY <1>3, <2>1, <2>2
<1>5. CASE s = <<>>
  <2>1. FlattenSeq(s) = s
    BY <1>5 DEF FlattenSeq
  <2>2. s \in Seq(Int)
    BY <1>5
  <2> QED
    BY <1>3, <2>1, <2>2
<1> QED
  BY <1>4, <1>5

\* Numbers n apart have different parts by n.
LEMMA PartsGrow ==
  ASSUME NEW a \in Nat, NEW b \in Nat, NEW n \in Nat \ {0}, a + n <= b
  PROVE  a \div n < b \div n
<1> DEFINE p == a \div n
           q == b \div n
<1>1. p \in Nat /\ p * n <= a
  BY Quotient
<1>2. q \in Nat /\ b < q * n + n
  BY Quotient
<1> HIDE DEF p, q
<1> SUFFICES ASSUME q <= p PROVE FALSE
  BY <1>1, <1>2 DEF p, q
<1>3. q * n <= p * n
  BY <1>1, <1>2
<1>4. q * n \in Nat /\ p * n \in Nat
  BY <1>1, <1>2
<1> QED
  BY <1>1, <1>2, <1>3, <1>4

CaptionType == [clip : Nat, start : Nat, end : Nat]
Clip        == [text : Seq(Nat), summary : Seq(Nat), dur : {5, 10}]

\* Captions that follow each other: each stands for a while, and none overlaps the next.
Following(cs) ==
  /\ cs \in Seq(CaptionType)
  /\ \A i \in 1..Len(cs) : cs[i].start < cs[i].end
  /\ \A i \in 1..(Len(cs) - 1) : cs[i].end <= cs[i + 1].start

LEMMA ClipCaptionsFit ==
  ASSUME NEW c \in Clip, Len(Chunks(Shown(c))) <= 500, NEW k \in Nat, NEW cursor \in Nat,
         NEW cs, cs = ClipCaptions(c, k, cursor)
  PROVE  /\ Following(cs)
         /\ \A i \in 1..Len(cs) : /\ cs[i].clip = k /\ cursor <= cs[i].start
                                  /\ cs[i].end <= cursor + c.dur * 100
<1> DEFINE n == Higher(1, Len(Chunks(Shown(c))))
           d == c.dur * 100
           at(i) == cursor + (i * c.dur * 100) \div n
<1>1. n \in Nat \ {0} /\ n <= 500
  <2>1. Shown(c) \in Seq(Nat)
    BY DEF Shown, Clip
  <2>2. Len(Chunks(Shown(c))) \in Nat
    BY <2>1, ChunksType
  <2> QED
    BY <2>2 DEF Higher
<1>2. d \in Nat /\ 500 <= d
  BY DEF Clip
<1>3. c.dur \in Nat
  BY DEF Clip
<1>4. cs = [i \in 1..n |-> [clip |-> k, start |-> at(i - 1), end |-> at(i)]]
  BY DEF ClipCaptions
<1>5. \A i \in Nat : i * d \in Nat /\ i * c.dur * 100 = i * d /\ (i + 1) * d = i * d + d
  <2> DEFINE e == c.dur
  <2>1. e \in Nat /\ d = e * 100
    BY <1>3
  <2> HIDE DEF e, d
  <2>2. ASSUME NEW i \in Nat
        PROVE  i * d \in Nat /\ i * e * 100 = i * d /\ (i + 1) * d = i * d + d
    <3>1. d \in Nat
      BY <2>1
    <3>2. i * d \in Nat /\ (i + 1) * d = i * d + d
      BY <3>1
    <3>3. i * e * 100 = i * (e * 100)
      BY <2>1
    <3> QED
      BY <2>1, <3>2, <3>3
  <2> QED
    BY <2>2 DEF e
<1> HIDE DEF n, d
<1> DEFINE part(i) == (i * d) \div n
<1>6. \A i \in Nat : part(i) \in Nat /\ at(i) = cursor + part(i)
  <2> SUFFICES ASSUME NEW i \in Nat PROVE part(i) \in Nat /\ at(i) = cursor + part(i)
    OBVIOUS
  <2>1. i * d \in Nat /\ i * c.dur * 100 = i * d
    BY <1>5
  <2>2. part(i) \in Nat
    BY <1>1, <2>1, Quotient
  <2> QED
    BY <2>1, <2>2
<1>7. \A i \in Nat : part(i) < part(i + 1)
  <2> SUFFICES ASSUME NEW i \in Nat PROVE part(i) < part(i + 1)
    OBVIOUS
  <2>1. i * d \in Nat /\ (i + 1) * d \in Nat /\ i * d + n <= (i + 1) * d
    BY <1>1, <1>2, <1>5
  <2> QED
    BY <1>1, <2>1, PartsGrow
<1>8. \A i \in 0..n : part(i) <= d
  <2> SUFFICES ASSUME NEW i \in 0..n PROVE part(i) <= d
    OBVIOUS
  <2> DEFINE q == part(i)
  <2>1. i * d \in Nat /\ n * d \in Nat /\ i * d <= n * d
    <3>1. i \in Nat /\ n \in Nat /\ i <= n
      BY <1>1
    <3>2. \A x, y, z \in Nat : x <= y => x * z <= y * z
      OBVIOUS
    <3> QED
      BY <1>2, <1>5, <3>1, <3>2
  <2>2. q \in Nat /\ q * n <= i * d
    BY <1>1, <2>1, Quotient
  <2> HIDE DEF q
  <2> SUFFICES ASSUME d + 1 <= q PROVE FALSE
    BY <1>2, <2>2 DEF q
  <2>3. (d + 1) * n <= q * n
    BY <1>1, <1>2, <2>2
  <2>4. (d + 1) * n = n * d + n
    BY <1>1, <1>2
  <2>5. q * n \in Nat
    BY <1>1, <2>2
  <2> QED
    BY <1>1, <2>1, <2>2, <2>3, <2>4, <2>5
<1> HIDE DEF part
<1> DEFINE A == [i \in 0..n |-> at(i)]
<1>9. \A i \in 0..n : A[i] \in Nat /\ cursor <= A[i] /\ A[i] <= cursor + d
  <2> SUFFICES ASSUME NEW i \in 0..n PROVE A[i] \in Nat /\ cursor <= A[i] /\ A[i] <= cursor + d
    OBVIOUS
  <2>1. i \in Nat
    BY <1>1
  <2>2. part(i) \in Nat /\ at(i) = cursor + part(i) /\ part(i) <= d
    BY <1>6, <1>8, <2>1
  <2> QED
    BY <1>2, <2>2
<1>10. \A i \in 1..n : i - 1 \in 0..n /\ i \in 0..n /\ i - 1 \in Nat /\ (i - 1) + 1 = i
  BY <1>1
<1>11. ASSUME NEW i \in 1..n PROVE A[i - 1] < A[i]
  <2>1. part(i - 1) < part(i) /\ part(i - 1) \in Nat /\ part(i) \in Nat
        /\ at(i - 1) = cursor + part(i - 1) /\ at(i) = cursor + part(i)
    <3>1. i - 1 \in Nat /\ i \in Nat /\ (i - 1) + 1 = i
      BY <1>10
    <3>2. part(i - 1) < part((i - 1) + 1)
      BY <1>7, <3>1
    <3>3. /\ part(i - 1) \in Nat /\ at(i - 1) = cursor + part(i - 1)
          /\ part(i) \in Nat /\ at(i) = cursor + part(i)
      BY <1>6, <3>1
    <3> QED
      BY <3>1, <3>2, <3>3
  <2>2. A[i - 1] = at(i - 1) /\ A[i] = at(i)
    BY <1>10
  <2> HIDE DEF at, A
  <2> QED
    BY <2>1, <2>2
<1>12. \A i \in 1..n : cs[i] = [clip |-> k, start |-> A[i - 1], end |-> A[i]]
  BY <1>4, <1>10
<1>13. cs \in [1..n -> CaptionType]
  <2>1. ASSUME NEW i \in 1..n PROVE cs[i] \in CaptionType
    <3>1. A[i - 1] \in Nat /\ A[i] \in Nat
      BY <1>9, <1>10
    <3>2. cs[i] = [clip |-> k, start |-> A[i - 1], end |-> A[i]]
      BY <1>12
    <3> HIDE DEF A
    <3> QED
      BY <3>1, <3>2 DEF CaptionType
  <2> QED
    BY <1>4, <2>1
<1>14. cs \in Seq(CaptionType) /\ Len(cs) = n
  BY <1>1, <1>13
<1> HIDE DEF A
<1>15. ASSUME NEW i \in 1..n
       PROVE  cs[i].clip = k /\ cs[i].start = A[i - 1] /\ cs[i].end = A[i]
  <2>1. cs[i] = [clip |-> k, start |-> A[i - 1], end |-> A[i]]
    BY <1>12
  <2> QED
    BY <2>1
<1>16. \A i \in 1..(Len(cs) - 1) : cs[i].end <= cs[i + 1].start
  <2> SUFFICES ASSUME NEW i \in 1..(n - 1) PROVE cs[i].end <= cs[i + 1].start
    BY <1>14
  <2>1. i \in 1..n /\ i + 1 \in 1..n /\ (i + 1) - 1 = i
    BY <1>1
  <2>2. cs[i].end = A[i] /\ cs[i + 1].start = A[i] /\ A[i] \in Nat
    BY <1>9, <1>10, <1>15, <2>1
  <2> QED
    BY <2>2
<1>17. \A i \in 1..Len(cs) : cs[i].start < cs[i].end
  BY <1>11, <1>14, <1>15
<1>18. \A i \in 1..Len(cs) : /\ cs[i].clip = k /\ cursor <= cs[i].start
                             /\ cs[i].end <= cursor + d
  BY <1>9, <1>10, <1>14, <1>15
<1> QED
  BY <1>14, <1>16, <1>17, <1>18 DEF Following, d

---------------------------------------------------------------------------
(* Where the clips stand.                                                  *)

\* A sequence that is longer by one has the sum of the shorter and the last.
LEMMA TotalLonger ==
  ASSUME NEW m \in Nat, NEW s, NEW t, Len(s) = m, Len(t) = m + 1, \A i \in 1..m : t[i] = s[i]
  PROVE  Total(t) = Total(s) + t[m + 1]
<1>1. PICK g : g[0] = 0 /\ (\A i \in 1..m : g[i] = g[i - 1] + s[i]) /\ Total(s) = g[m]
  BY PartialSums
<1>2. PICK h : h[0] = 0 /\ (\A i \in 1..(m + 1) : h[i] = h[i - 1] + t[i]) /\ Total(t) = h[m + 1]
  <2>1. Len(t) \in Nat
    OBVIOUS
  <2> QED
    BY <2>1, PartialSums
<1> DEFINE T == {i \in 0..m : h[i] = g[i]}
<1>3. 0 \in T
  BY <1>1, <1>2
<1>4. ASSUME NEW i \in 0..(m - 1), i \in T PROVE i + 1 \in T
  <2>1. i + 1 \in 1..m /\ i + 1 \in 1..(m + 1) /\ (i + 1) - 1 = i /\ i + 1 \in 0..m
    OBVIOUS
  <2>2. h[i + 1] = h[i] + t[i + 1] /\ g[i + 1] = g[i] + s[i + 1] /\ t[i + 1] = s[i + 1]
    BY <1>1, <1>2, <2>1
  <2> QED
    BY <1>4, <2>1, <2>2
<1> HIDE DEF T
<1>5. m \in T
  <2>1. 0 \in Int /\ m \in Int /\ m \in 0..m
    OBVIOUS
  <2>2. \A i \in 0..m : i \in T
    BY <1>3, <1>4, <2>1, CountingFrom
  <2> QED
    BY <2>1, <2>2
<1>6. m + 1 \in 1..(m + 1) /\ (m + 1) - 1 = m
  OBVIOUS
<1>7. h[m + 1] = h[m] + t[m + 1]
  BY <1>2, <1>6
<1> QED
  BY <1>1, <1>2, <1>5, <1>7 DEF T

IsPlan(clips) ==
  /\ clips \in Seq(Clip) /\ clips # <<>>
  /\ \A i \in 1..Len(clips) : Len(Chunks(Shown(clips[i]))) <= 500

ClipTime(c) == IF Captioned(c) THEN c.dur * 100 ELSE 0

\* The captions of a clip begin where the time of those before it ends.
LEMMA CursorGrows ==
  ASSUME NEW clips, IsPlan(clips)
  PROVE  /\ Cursor(clips, 1) = 0
         /\ \A k \in 1..Len(clips) :
              /\ Cursor(clips, k) \in Nat /\ Cursor(clips, k + 1) \in Nat
              /\ Cursor(clips, k + 1) = Cursor(clips, k) + ClipTime(clips[k])
<1> DEFINE n == Len(clips)
           e(i) == IF Captioned(clips[i]) THEN clips[i].dur * 100 ELSE 0
           s(k) == [i \in 1..(k - 1) |-> e(i)]
<1>1. n \in Nat /\ \A i \in 1..n : clips[i] \in Clip
  BY DEF IsPlan
<1>2. \A i \in 1..n : e(i) \in Nat /\ e(i) = ClipTime(clips[i])
  BY SMTT(20), <1>1 DEF Clip, ClipTime
<1>3. \A k : Cursor(clips, k) = Total(s(k))
  BY DEF Cursor
<1> HIDE DEF e, n
<1>4. ASSUME NEW k \in 1..(n + 1) PROVE Len(s(k)) = k - 1 /\ k - 1 \in Nat /\ s(k) \in Seq(Nat)
  <2>1. k - 1 \in Nat /\ \A i \in 1..(k - 1) : e(i) \in Nat
    BY <1>1, <1>2
  <2>2. s(k) \in [1..(k - 1) -> Nat]
    BY <2>1
  <2> HIDE DEF s
  <2> QED
    BY <2>1, <2>2
<1>5. \A k \in 1..(n + 1) : Total(s(k)) \in Nat
  BY <1>4, TotalNumbers
<1>6. Total(s(1)) = 0
  <2>1. 1 \in 1..(n + 1) /\ 1 - 1 = 0
    BY <1>1
  <2>2. Len(s(1)) = 0
    BY <1>4, <2>1
  <2> HIDE DEF s
  <2>3. Len(s(1)) \in Nat
    BY <2>2
  <2>4. PICK g : g[0] = 0 /\ Total(s(1)) = g[Len(s(1))]
    BY <2>3, PartialSums
  <2> QED
    BY <2>2, <2>4
<1>7. ASSUME NEW k \in 1..n PROVE Total(s(k + 1)) = Total(s(k)) + e(k)
  <2>1. k \in 1..(n + 1) /\ k + 1 \in 1..(n + 1) /\ (k - 1) + 1 = k /\ (k + 1) - 1 = k /\ k - 1 \in Nat
    BY <1>1
  <2>2. Len(s(k)) = k - 1 /\ Len(s(k + 1)) = (k - 1) + 1
    BY <1>4, <2>1
  <2>3. \A i \in 1..(k - 1) : s(k + 1)[i] = s(k)[i]
    BY <2>1
  <2>4. s(k + 1)[(k - 1) + 1] = e(k)
    BY <2>1
  <2> HIDE DEF s
  <2> QED
    BY <2>1, <2>2, <2>3, <2>4, TotalLonger
<1>8. \A k \in 1..n : k \in 1..(n + 1) /\ k + 1 \in 1..(n + 1)
  BY <1>1
<1> HIDE DEF s
<1>9. ASSUME NEW k \in 1..n
      PROVE  /\ Cursor(clips, k) \in Nat /\ Cursor(clips, k + 1) \in Nat
             /\ Cursor(clips, k + 1) = Cursor(clips, k) + ClipTime(clips[k])
  BY <1>2, <1>3, <1>5, <1>7, <1>8
<1> QED
  BY <1>3, <1>6, <1>9 DEF n

StartOf(clips, k) == 10 * Seconds(SubSeq(clips, 1, k - 1))

\* While every clip has text, each one's captions begin where the clip does.
LEMMA CursorIsStart ==
  ASSUME NEW clips, IsPlan(clips), NEW k \in 1..(Len(clips) + 1),
         \A j \in 1..(k - 1) : Captioned(clips[j])
  PROVE  StartOf(clips, k) = Cursor(clips, k)
<1> DEFINE n == Len(clips)
           sub(i) == SubSeq(clips, 1, i - 1)
           s(i) == [j \in DOMAIN sub(i) |-> sub(i)[j].dur]
<1>1. n \in Nat /\ clips \in Seq(Clip) /\ \A i \in 1..n : clips[i] \in Clip
  BY DEF IsPlan
<1>2. \A i : StartOf(clips, i) = 10 * (10 * Total(s(i)))
  BY DEF StartOf, Seconds
<1> HIDE DEF n
<1>3. ASSUME NEW i \in 1..(n + 1)
      PROVE  i - 1 \in Nat /\ Len(s(i)) = i - 1 /\ \A j \in 1..(i - 1) : s(i)[j] = clips[j].dur
  <2>1. i - 1 \in Nat /\ i - 1 <= n
    BY <1>1
  <2>2. DOMAIN sub(i) = 1..(i - 1) /\ \A j \in 1..(i - 1) : sub(i)[j] = clips[j]
    BY <1>1, <2>1 DEF n
  <2> HIDE DEF sub
  <2>3. DOMAIN s(i) = 1..(i - 1) /\ \A j \in 1..(i - 1) : s(i)[j] = clips[j].dur
    BY <2>2
  <2>4. Len(s(i)) = i - 1
    <3>1. s(i) = [j \in 1..(i - 1) |-> clips[j].dur]
      BY <2>2
    <3> HIDE DEF s
    <3> QED
      BY <2>1, <3>1
  <2> QED
    BY <2>1, <2>3, <2>4
<1> HIDE DEF s
<1>4. ASSUME NEW i \in 1..n PROVE Total(s(i + 1)) = Total(s(i)) + clips[i].dur
  <2>1. i \in 1..(n + 1) /\ i + 1 \in 1..(n + 1) /\ (i - 1) + 1 = i /\ (i + 1) - 1 = i
        /\ i - 1 \in Nat /\ i \in 1..i
    BY <1>1
  <2>2. Len(s(i)) = i - 1 /\ Len(s(i + 1)) = (i - 1) + 1
    BY <1>3, <2>1
  <2>3. \A j \in 1..(i - 1) : s(i)[j] = clips[j].dur
    BY <1>3, <2>1
  <2>4. \A j \in 1..i : s(i + 1)[j] = clips[j].dur
    BY <1>3, <2>1
  <2>5. \A j \in 1..(i - 1) : j \in 1..i
    BY <2>1
  <2>6. \A j \in 1..(i - 1) : s(i + 1)[j] = s(i)[j]
    BY <2>3, <2>4, <2>5
  <2>7. s(i + 1)[(i - 1) + 1] = clips[i].dur
    BY <2>1, <2>4
  <2> QED
    BY <2>1, <2>2, <2>6, <2>7, TotalLonger
<1>5. Total(s(1)) = 0
  <2>1. 1 \in 1..(n + 1) /\ 1 - 1 = 0
    BY <1>1
  <2>2. Len(s(1)) = 0
    BY <1>3, <2>1
  <2>3. Len(s(1)) \in Nat
    BY <2>2
  <2>4. PICK g : g[0] = 0 /\ Total(s(1)) = g[Len(s(1))]
    BY <2>3, PartialSums
  <2> QED
    BY <2>2, <2>4
<1> DEFINE T == {i \in 1..k : Total(s(i)) \in Nat /\ Cursor(clips, i) = 100 * Total(s(i))}
<1>6. 1 \in T
  <2>1. 1 \in 1..k
    BY <1>1 DEF n
  <2>2. Cursor(clips, 1) = 0
    BY CursorGrows
  <2> QED
    BY <1>5, <2>1, <2>2
<1>7. ASSUME NEW i \in 1..(k - 1), i \in T PROVE i + 1 \in T
  <2>1. i \in 1..n /\ i + 1 \in 1..k
    BY <1>1 DEF n
  <2>2. Captioned(clips[i]) /\ clips[i].dur \in {5, 10}
    BY <1>1, <2>1 DEF Clip
  <2>3. ClipTime(clips[i]) = clips[i].dur * 100
    BY <2>2 DEF ClipTime
  <2>4. Cursor(clips, i + 1) = Cursor(clips, i) + clips[i].dur * 100
    BY <2>1, <2>3, CursorGrows DEF n
  <2>5. Total(s(i + 1)) = Total(s(i)) + clips[i].dur
    BY <1>4, <2>1
  <2>6. Total(s(i)) \in Nat /\ Cursor(clips, i) = 100 * Total(s(i))
    BY <1>7
  <2> DEFINE a == Total(s(i))
             d == clips[i].dur
  <2>7. a \in Nat /\ d \in Nat
    BY <2>2, <2>6
  <2> HIDE DEF a, d
  <2>8. 100 * (a + d) = 100 * a + d * 100 /\ a + d \in Nat
    BY <2>7
  <2> QED
    BY <2>1, <2>4, <2>5, <2>6, <2>8 DEF a, d
<1> HIDE DEF T
<1>8. k \in T
  <2>1. 1 \in Int /\ k \in Int /\ k \in 1..k
    BY <1>1 DEF n
  <2>2. \A i \in 1..k : i \in T
    BY <1>6, <1>7, <2>1, CountingFrom
  <2> QED
    BY <2>1, <2>2
<1>9. Total(s(k)) \in Nat /\ Cursor(clips, k) = 100 * Total(s(k))
  BY <1>8 DEF T
<1> QED
  BY <1>2, <1>9

---------------------------------------------------------------------------
(* The captions of the plan.                                               *)

\* Captions that end when the others begin are followed by them.
LEMMA FollowedBy ==
  ASSUME NEW a, NEW b, Following(a), Following(b), NEW t \in Nat,
         \A i \in 1..Len(a) : a[i].end <= t, \A i \in 1..Len(b) : t <= b[i].start
  PROVE  /\ Following(a \o b)
         /\ \A i \in 1..Len(a \o b) : \/ \E j \in 1..Len(a) : (a \o b)[i] = a[j]
                                      \/ \E j \in 1..Len(b) : (a \o b)[i] = b[j]
<1> DEFINE c == a \o b
           m == Len(a)
           n == Len(b)
<1>1. a \in Seq(CaptionType) /\ b \in Seq(CaptionType)
  BY DEF Following
<1>2. /\ c \in Seq(CaptionType) /\ m \in Nat /\ n \in Nat /\ Len(c) = m + n
      /\ \A i \in 1..(m + n) : c[i] = IF i <= m THEN a[i] ELSE b[i - m]
  BY <1>1
<1>3. /\ \A i \in 1..m : a[i].start < a[i].end /\ a[i].end <= t /\ a[i].start \in Nat /\ a[i].end \in Nat
      /\ \A i \in 1..(m - 1) : a[i].end <= a[i + 1].start
  <2>1. \A i \in 1..m : a[i] \in CaptionType
    BY <1>1
  <2> QED
    BY <2>1 DEF Following, CaptionType
<1>4. /\ \A i \in 1..n : b[i].start < b[i].end /\ t <= b[i].start /\ b[i].start \in Nat /\ b[i].end \in Nat
      /\ \A i \in 1..(n - 1) : b[i].end <= b[i + 1].start
  <2>1. \A i \in 1..n : b[i] \in CaptionType
    BY <1>1
  <2> QED
    BY <2>1 DEF Following, CaptionType
<1> HIDE DEF c, m, n
<1>5. ASSUME NEW i \in 1..(m + n) PROVE \/ i \in 1..m /\ c[i] = a[i]
                                        \/ i - m \in 1..n /\ c[i] = b[i - m] /\ ~(i <= m)
  BY <1>2
<1>6. \A i \in 1..(m + n) : c[i].start < c[i].end
  BY <1>3, <1>4, <1>5
<1>7. ASSUME NEW i \in 1..(m + n - 1) PROVE c[i].end <= c[i + 1].start
  <2>1. i \in 1..(m + n) /\ i + 1 \in 1..(m + n)
    BY <1>2
  <2>2. CASE i + 1 <= m
    <3>1. i \in 1..(m - 1) /\ i <= m
      BY <1>2, <2>2
    <3>2. c[i] = a[i] /\ c[i + 1] = a[i + 1]
      BY <1>2, <2>1, <2>2, <3>1
    <3> QED
      BY <1>3, <3>1, <3>2
  <2>3. CASE i = m
    <3>1. c[i] = a[i] /\ c[i + 1] = b[1] /\ i \in 1..m /\ 1 \in 1..n
      <4>1. i \in 1..m /\ ~(i + 1 <= m) /\ (i + 1) - m = 1 /\ 1 \in 1..n
        BY <1>2, <2>3
      <4> QED
        BY <1>2, <2>1, <4>1
    <3>2. c[i].end <= t /\ c[i].end \in Nat /\ t <= c[i + 1].start /\ c[i + 1].start \in Nat
      BY <1>3, <1>4, <3>1
    <3> QED
      BY <3>2
  <2>4. CASE m < i
    <3>1. i - m \in 1..(n - 1) /\ (i + 1) - m = (i - m) + 1 /\ ~(i <= m) /\ ~(i + 1 <= m)
      BY <1>2, <2>4
    <3>2. c[i] = b[i - m] /\ c[i + 1] = b[(i - m) + 1]
      BY <1>2, <2>1, <3>1
    <3> QED
      BY <1>4, <3>1, <3>2
  <2>5. i + 1 <= m \/ i = m \/ m < i
    BY <1>2
  <2> QED
    BY <2>2, <2>3, <2>4, <2>5
<1>8. Following(c)
  BY <1>2, <1>6, <1>7 DEF Following
<1>9. \A i \in 1..Len(c) : (\E j \in 1..m : c[i] = a[j]) \/ (\E j \in 1..n : c[i] = b[j])
  BY <1>2, <1>5
<1> QED
  BY <1>8, <1>9 DEF c, m, n

\* A caption of one of the first k clips stands in the time of its clip.
Placed(c, clips, k) ==
  /\ c.clip \in 1..k /\ Captioned(clips[c.clip])
  /\ Cursor(clips, c.clip) <= c.start /\ c.end <= Cursor(clips, c.clip + 1)
  /\ c.end <= Cursor(clips, k + 1)

LEMMA EmptyFollows ==
  Following(<<>>)
<1>1. <<>> \in Seq(CaptionType) /\ Len(<<>>) = 0
  OBVIOUS
<1> QED
  BY <1>1 DEF Following

LEMMA PlanCaptionsFit ==
  ASSUME NEW clips, IsPlan(clips)
  PROVE  /\ Following(PlanCaptions(clips))
         /\ \A i \in 1..Len(PlanCaptions(clips)) : Placed(PlanCaptions(clips)[i], clips, Len(clips))
<1> DEFINE n == Len(clips)
           s == [k \in DOMAIN clips |->
                  IF Captioned(clips[k]) THEN ClipCaptions(clips[k], k, Cursor(clips, k)) ELSE <<>>]
<1>1. n \in Nat \ {0} /\ DOMAIN clips = 1..n /\ \A k \in 1..n : clips[k] \in Clip
  BY DEF IsPlan
<1>2. PlanCaptions(clips) = FlattenSeq(s)
  BY DEF PlanCaptions
<1> HIDE DEF n
<1>3. \A k \in 1..n : /\ Cursor(clips, k) \in Nat /\ Cursor(clips, k + 1) \in Nat
                      /\ Cursor(clips, k + 1) = Cursor(clips, k) + ClipTime(clips[k])
                      /\ ClipTime(clips[k]) \in Nat
  <2>1. ASSUME NEW k \in 1..n PROVE ClipTime(clips[k]) \in Nat
    <3>1. clips[k].dur \in {5, 10}
      BY <1>1 DEF Clip
    <3> QED
      BY <3>1 DEF ClipTime
  <2> QED
    BY <2>1, CursorGrows DEF n
<1>4. ASSUME NEW k \in 1..n
      PROVE  /\ Following(s[k])
             /\ \A i \in 1..Len(s[k]) : Cursor(clips, k) <= s[k][i].start /\ Placed(s[k][i], clips, k)
  <2>1. CASE Captioned(clips[k])
    <3>1. s[k] = ClipCaptions(clips[k], k, Cursor(clips, k))
      BY <1>1, <2>1
    <3> HIDE DEF s
    <3>2. clips[k] \in Clip /\ k \in Nat /\ Cursor(clips, k) \in Nat
          /\ Len(Chunks(Shown(clips[k]))) <= 500
      BY <1>1, <1>3 DEF IsPlan, n
    <3>3. /\ Following(s[k])
          /\ \A i \in 1..Len(s[k]) : /\ s[k][i].clip = k /\ Cursor(clips, k) <= s[k][i].start
                                     /\ s[k][i].end <= Cursor(clips, k) + clips[k].dur * 100
      BY <3>1, <3>2, ClipCaptionsFit
    <3>4. Cursor(clips, k + 1) = Cursor(clips, k) + clips[k].dur * 100
      BY <1>3, <2>1 DEF ClipTime
    <3>5. k \in 1..k
      BY <3>2
    <3> QED
      BY <2>1, <3>3, <3>4, <3>5 DEF Placed
  <2>2. CASE ~Captioned(clips[k])
    <3>1. s[k] = <<>> /\ Len(s[k]) = 0
      BY <1>1, <2>2
    <3> QED
      BY <3>1, EmptyFollows
  <2> QED
    BY <2>1, <2>2
<1>5. s \in Seq(Seq(CaptionType)) /\ s # <<>> /\ Len(s) = n
  <2>1. DOMAIN s = 1..n /\ s = [k \in 1..n |-> s[k]]
    BY <1>1
  <2> HIDE DEF s
  <2>2. \A k \in 1..n : s[k] \in Seq(CaptionType)
    BY <1>4 DEF Following
  <2>3. s \in [1..n -> Seq(CaptionType)]
    BY <2>1, <2>2
  <2> QED
    BY <1>1, <2>3
<1> HIDE DEF s
<1>6. PICK g : /\ g[1] = s[1] /\ \A i \in 2..Len(s) : g[i] = g[i - 1] \o s[i]
               /\ FlattenSeq(s) = g[Len(s)]
  BY <1>5, Flattened
<1> DEFINE T == {k \in 1..n : /\ Following(g[k])
                              /\ \A i \in 1..Len(g[k]) : Placed(g[k][i], clips, k)}
<1>7. 1 \in T
  <2>1. 1 \in 1..n
    BY <1>1
  <2> QED
    BY <1>4, <1>6, <2>1
<1>8. ASSUME NEW k \in 1..(n - 1), k \in T PROVE k + 1 \in T
  <2>1. k \in 1..n /\ k + 1 \in 1..n /\ k + 1 \in 2..n /\ (k + 1) - 1 = k /\ k \in Nat
    BY <1>1
  <2> DEFINE a == g[k]
             b == s[k + 1]
             t == Cursor(clips, k + 1)
  <2>2. g[k + 1] = a \o b
    BY <1>5, <1>6, <2>1
  <2>3. Following(a) /\ \A i \in 1..Len(a) : Placed(a[i], clips, k)
    BY <1>8
  <2>4. Following(b) /\ \A i \in 1..Len(b) : t <= b[i].start /\ Placed(b[i], clips, k + 1)
    BY <1>4, <2>1
  <2>5. t \in Nat /\ \A i \in 1..Len(a) : a[i].end <= t
    BY <1>3, <2>1, <2>3 DEF Placed
  <2> HIDE DEF a, b, t
  <2>6. \A i \in 1..Len(b) : t <= b[i].start
    BY <2>4
  <2>7. \A i \in 1..Len(a) : a[i].end <= t
    BY <2>5
  <2>8. Following(a) /\ Following(b) /\ t \in Nat
    BY <2>3, <2>4, <2>5
  <2>9. /\ Following(a \o b)
        /\ \A i \in 1..Len(a \o b) : \/ \E j \in 1..Len(a) : (a \o b)[i] = a[j]
                                     \/ \E j \in 1..Len(b) : (a \o b)[i] = b[j]
    BY SMTT(20), <2>6, <2>7, <2>8, FollowedBy
  <2>10. ASSUME NEW j \in 1..Len(a) PROVE Placed(a[j], clips, k + 1)
    <3>1. Placed(a[j], clips, k) /\ a[j].end <= t
      BY <2>3, <2>5
    <3>2. a[j].end \in Nat
      <4>1. a \in Seq(CaptionType)
        BY <2>3 DEF Following
      <4>2. a[j] \in CaptionType
        BY <4>1
      <4> QED
        BY <4>2 DEF CaptionType
    <3>3. t <= Cursor(clips, (k + 1) + 1) /\ Cursor(clips, (k + 1) + 1) \in Nat
      BY <1>3, <2>1 DEF t
    <3>4. a[j].end <= Cursor(clips, (k + 1) + 1)
      BY <2>5, <3>1, <3>2, <3>3
    <3>5. a[j].clip \in 1..(k + 1)
      BY <2>1, <3>1 DEF Placed
    <3> QED
      BY <3>1, <3>4, <3>5 DEF Placed
  <2>11. \A i \in 1..Len(a \o b) : Placed((a \o b)[i], clips, k + 1)
    BY <2>4, <2>9, <2>10
  <2> QED
    BY <2>1, <2>2, <2>9, <2>11
<1> HIDE DEF T
<1>9. n \in T
  <2>1. 1 \in Int /\ n \in Int /\ n \in 1..n
    BY <1>1
  <2>2. \A k \in 1..n : k \in T
    BY <1>7, <1>8, <2>1, CountingFrom
  <2> QED
    BY <2>1, <2>2
<1> QED
  BY <1>2, <1>5, <1>6, <1>9 DEF T, n

---------------------------------------------------------------------------
(* The captions of a narration.                                            *)

\* Where chunk i of n ends when the one before it ends at p.
ShareOf(chunks, total, i) == Higher(MinTime, (total * chunks[i]) \div Higher(1, Total(chunks)))
EndAfter(chunks, total, i, p) ==
  IF i = Len(chunks) THEN total ELSE Lower(total, p + ShareOf(chunks, total, i))
IsEnds(g, chunks, total) ==
  g = [i \in 0..Len(chunks) |-> IF i = 0 THEN 0 ELSE EndAfter(chunks, total, i, g[i - 1])]

LEMMA EndAfterFits ==
  ASSUME NEW chunks \in Seq(Int), NEW total \in Nat, NEW i \in 1..Len(chunks), NEW p \in 0..total
  PROVE  EndAfter(chunks, total, i, p) \in 0..total /\ p <= EndAfter(chunks, total, i, p)
<1> DEFINE all == Higher(1, Total(chunks))
           q == (total * chunks[i]) \div all
           share == ShareOf(chunks, total, i)
<1>1. all \in Nat \ {0}
  <2>1. Total(chunks) \in Int
    BY TotalNumbers
  <2> QED
    BY <2>1 DEF Higher
<1>2. total * chunks[i] \in Int
  <2>1. chunks[i] \in Int
    OBVIOUS
  <2> QED
    BY <2>1
<1> HIDE DEF all
<1>3. q \in Int
  BY <1>1, <1>2
<1>4. share = Higher(MinTime, q)
  BY DEF ShareOf, all
<1> HIDE DEF q
<1>5. share \in Nat
  BY <1>3, <1>4 DEF Higher, MinTime
<1> HIDE DEF share
<1>6. EndAfter(chunks, total, i, p) = IF i = Len(chunks) THEN total ELSE Lower(total, p + share)
  BY DEF EndAfter, share
<1>7. Lower(total, p + share) \in 0..total /\ p <= Lower(total, p + share)
  BY <1>5 DEF Lower
<1>8. total \in 0..total /\ p <= total
  OBVIOUS
<1> QED
  BY <1>6, <1>7, <1>8

LEMMA TextCaptionsFit ==
  ASSUME NEW text \in Seq(Nat), NEW total \in Nat
  PROVE  /\ Following(TextCaptions(text, total))
         /\ \A i \in 1..Len(TextCaptions(text, total)) : TextCaptions(text, total)[i].clip = 0
<1> DEFINE chunks == Chunks(text)
           n == Len(chunks)
           share(i) == Higher(MinTime, (total * chunks[i]) \div Higher(1, Total(chunks)))
           at[i \in 0..n] == IF i = 0 THEN 0 ELSE IF i = n THEN total
                             ELSE Lower(total, at[i - 1] + share(i))
           shown == {i \in 1..n : at[i - 1] < total /\ at[i] - at[i - 1] >= 20}
           index == Ascending(shown)
           step == [x \in (1..n) \X (0..total) |-> EndAfter(chunks, total, x[1], x[2])]
<1>1. TextCaptions(text, total) =
        IF total <= 0 THEN <<>>
        ELSE [i \in DOMAIN index |->
                [clip |-> 0, start |-> at[index[i] - 1], end |-> at[index[i]]]]
  BY DEF TextCaptions
<1>2. at = CHOOSE g : IsEnds(g, chunks, total)
  BY DEF IsEnds, EndAfter, ShareOf
<1> HIDE DEF at, shown, index
<1>3. chunks \in Seq(Int) /\ n \in Nat
  BY ChunksType
<1>4. \A i \in 1..n, p \in 0..total : step[<<i, p>>] = EndAfter(chunks, total, i, p)
  OBVIOUS
<1> HIDE DEF step
<1>5. \A i \in 1..n, p \in 0..total :
        EndAfter(chunks, total, i, p) \in 0..total /\ p <= EndAfter(chunks, total, i, p)
  <2> HIDE DEF chunks
  <2> QED
    BY <1>3, EndAfterFits
<1> HIDE DEF chunks, n, share
<1> DEFINE S == 0..total
<1>6. Follows(0, 1, n, S, 0, step)
  BY <1>3, <1>4, <1>5 DEF Follows
<1>7. PICK g \in [0..n -> S] : g[0] = 0 /\ \A i \in 1..n : g[i] = step[<<i, g[i - 1]>>]
  <2> HIDE DEF S
  <2> QED
    BY <1>6, Recursion
<1>8. \A i \in 1..n : i - 1 \in 0..n /\ i # 0 /\ i \in 0..n
  BY <1>3
<1>9. \A i \in 0..n : i = 0 \/ i \in 1..n
  BY <1>3
<1>10. \A i \in 1..n : g[i] = EndAfter(chunks, total, i, g[i - 1])
  BY <1>4, <1>7, <1>8
<1>11. IsEnds(g, chunks, total)
  <2>1. g = [i \in 0..n |-> g[i]]
    BY <1>7
  <2>2. \A i \in 0..n : g[i] = IF i = 0 THEN 0 ELSE EndAfter(chunks, total, i, g[i - 1])
    BY <1>7, <1>8, <1>9, <1>10
  <2>3. g = [i \in 0..n |-> IF i = 0 THEN 0 ELSE EndAfter(chunks, total, i, g[i - 1])]
    BY <2>1, <2>2
  <2> QED
    BY <2>3 DEF IsEnds, n
<1>12. IsEnds(at, chunks, total)
  BY <1>2, <1>11
<1>13. at[0] = 0 /\ \A i \in 1..n : at[i] = EndAfter(chunks, total, i, at[i - 1])
  <2>1. \A i \in 0..n : at[i] = IF i = 0 THEN 0 ELSE EndAfter(chunks, total, i, at[i - 1])
    BY <1>12 DEF IsEnds, n
  <2>2. 0 \in 0..n
    BY <1>3
  <2>3. at[0] = 0
    BY <2>1, <2>2
  <2>4. \A i \in 1..n : at[i] = EndAfter(chunks, total, i, at[i - 1])
    BY <1>8, <2>1
  <2> QED
    BY <2>3, <2>4
<1>14. \A i \in 0..n : at[i] \in 0..total
  <2> DEFINE T == {i \in 0..n : at[i] \in 0..total}
  <2>1. 0 \in T
    BY <1>3, <1>13
  <2>2. ASSUME NEW i \in 0..(n - 1), i \in T PROVE i + 1 \in T
    <3>1. i + 1 \in 1..n /\ (i + 1) - 1 = i /\ i + 1 \in 0..n
      BY <1>3
    <3>2. at[i + 1] = EndAfter(chunks, total, i + 1, at[i])
      BY <1>13, <3>1
    <3> QED
      BY <1>5, <2>2, <3>1, <3>2
  <2> HIDE DEF T
  <2>3. 0 \in Int /\ n \in Int
    BY <1>3
  <2>4. \A i \in 0..n : i \in T
    BY <2>1, <2>2, <2>3, CountingFrom
  <2> QED
    BY <2>4 DEF T
<1>15. \A i \in 1..n : at[i - 1] <= at[i]
  BY <1>5, <1>8, <1>13, <1>14
<1>16. ASSUME NEW i \in 0..n, NEW j \in 0..n, i <= j PROVE at[i] <= at[j]
  <2> DEFINE T == {k \in i..n : at[i] <= at[k]}
  <2>1. i \in T
    BY <1>3, <1>14
  <2>2. ASSUME NEW k \in i..(n - 1), k \in T PROVE k + 1 \in T
    <3>1. k + 1 \in 1..n /\ (k + 1) - 1 = k /\ k + 1 \in i..n /\ k \in 0..n /\ k + 1 \in 0..n
      BY <1>3
    <3>2. at[i] <= at[k] /\ at[k] <= at[k + 1]
      BY <1>15, <2>2, <3>1
    <3>3. at[i] \in Nat /\ at[k] \in Nat /\ at[k + 1] \in Nat
      BY <1>14, <3>1
    <3> QED
      BY <3>1, <3>2, <3>3
  <2> HIDE DEF T
  <2>3. i \in Int /\ n \in Int /\ j \in i..n
    BY <1>3, <1>16
  <2>4. \A k \in i..n : k \in T
    BY <2>1, <2>2, <2>3, CountingFrom
  <2> QED
    BY <2>3, <2>4 DEF T
<1> DEFINE m == Cardinality(shown)
<1>17. shown \subseteq 1..n /\ \A i \in shown : at[i - 1] < at[i]
  <2>1. shown \subseteq 1..n
    BY DEF shown
  <2>2. ASSUME NEW i \in shown PROVE at[i - 1] < at[i]
    <3>1. i \in 1..n /\ at[i] - at[i - 1] >= 20
      BY DEF shown
    <3>2. at[i] \in Nat /\ at[i - 1] \in Nat
      BY <1>8, <1>14, <3>1
    <3> QED
      BY <3>1, <3>2
  <2> QED
    BY <2>1, <2>2
<1>18. IsFiniteSet(shown)
  <2>1. IsFiniteSet(1..n)
    BY <1>3, FS_Interval
  <2> QED
    BY <1>17, <2>1, FS_Subset
<1>19. /\ m \in Nat /\ index \in [1..m -> shown]
       /\ \A j, k \in 1..m : j < k => index[j] < index[k]
  <2>1. shown \in SUBSET Int
    BY <1>3, <1>17
  <2> QED
    BY <1>18, <2>1, OrderedNumbers DEF index
<1> HIDE DEF m
<1> DEFINE cs == [i \in DOMAIN index |->
                    [clip |-> 0, start |-> at[index[i] - 1], end |-> at[index[i]]]]
<1>20. \A i \in 1..m : /\ index[i] \in 1..n /\ index[i] \in shown
                       /\ at[index[i]] \in Nat /\ at[index[i] - 1] \in Nat
  <2> SUFFICES ASSUME NEW i \in 1..m
               PROVE  /\ index[i] \in 1..n /\ index[i] \in shown
                      /\ at[index[i]] \in Nat /\ at[index[i] - 1] \in Nat
    OBVIOUS
  <2>1. index[i] \in shown /\ index[i] \in 1..n
    BY <1>17, <1>19
  <2>2. index[i] - 1 \in 0..n /\ index[i] \in 0..n
    BY <1>8, <2>1
  <2> QED
    BY <1>14, <2>1, <2>2
<1>21. \A i \in 1..m : /\ cs[i] \in CaptionType /\ cs[i].clip = 0
                       /\ cs[i].start = at[index[i] - 1] /\ cs[i].end = at[index[i]]
  <2> SUFFICES ASSUME NEW i \in 1..m
               PROVE  /\ cs[i] \in CaptionType /\ cs[i].clip = 0
                      /\ cs[i].start = at[index[i] - 1] /\ cs[i].end = at[index[i]]
    OBVIOUS
  <2>1. cs[i] = [clip |-> 0, start |-> at[index[i] - 1], end |-> at[index[i]]]
    BY <1>19
  <2> HIDE DEF cs
  <2> QED
    BY <1>20, <2>1 DEF CaptionType
<1>22. cs \in Seq(CaptionType) /\ Len(cs) = m
  <2>1. DOMAIN cs = 1..m /\ cs = [i \in 1..m |-> cs[i]]
    BY <1>19
  <2> HIDE DEF cs
  <2>2. cs \in [1..m -> CaptionType]
    BY <1>21, <2>1
  <2> QED
    BY <1>19, <2>2
<1> HIDE DEF cs
<1>23. \A i \in 1..m : cs[i].start < cs[i].end
  BY <1>17, <1>20, <1>21
<1>24. ASSUME NEW i \in 1..(m - 1) PROVE cs[i].end <= cs[i + 1].start
  <2>1. i \in 1..m /\ i + 1 \in 1..m /\ i < i + 1
    BY <1>19
  <2> DEFINE p == index[i]
             q == index[i + 1]
  <2>2. p \in 1..n /\ q \in 1..n /\ p < q
    BY <1>19, <1>20, <2>1
  <2>3. cs[i].end = at[p] /\ cs[i + 1].start = at[q - 1]
    BY <1>21, <2>1
  <2> HIDE DEF p, q
  <2>4. p \in 0..n /\ q - 1 \in 0..n /\ p <= q - 1
    BY <1>3, <2>2
  <2> QED
    BY <1>16, <2>3, <2>4
<1>25. Following(cs)
  BY <1>22, <1>23, <1>24 DEF Following
<1>26. CASE total <= 0
  <2>1. TextCaptions(text, total) = <<>> /\ Len(<<>>) = 0
    BY <1>1, <1>26
  <2> QED
    BY <2>1, EmptyFollows
<1>27. CASE ~(total <= 0)
  <2>1. TextCaptions(text, total) = cs
    BY <1>1, <1>27 DEF cs
  <2> QED
    BY <1>21, <1>22, <1>25, <2>1
<1> QED
  BY <1>26, <1>27

---------------------------------------------------------------------------
(* The words of the voice.                                                 *)

LEMMA WordType ==
  ASSUME NEW r \in RawWord, r.start <= r.end
  PROVE  WordFromRaw(r) \in Word /\ WordFromRaw(r).start <= WordFromRaw(r).end
<1>1. r.start \in Nat /\ r.end \in Nat /\ r.id \in STRING /\ r.chars \in Nat /\ r.tail \in Tails
  BY DEF RawWord
<1>2. r.start \div 1000 \in Nat /\ r.end \div 1000 \in Nat /\ r.start \div 1000 <= r.end \div 1000
  BY <1>1
<1>3. CASE r.float /\ r.start < SecondsBelow
  <2>1. WordFromRaw(r) = [chars |-> r.chars, start |-> r.start, end |-> r.end, tail |-> r.tail,
                          id |-> r.id]
    BY <1>3 DEF WordFromRaw
  <2> QED
    BY <1>1, <2>1 DEF Word
<1>4. CASE ~(r.float /\ r.start < SecondsBelow)
  <2>1. WordFromRaw(r) = [chars |-> r.chars, start |-> r.start \div 1000, end |-> r.end \div 1000,
                          tail |-> r.tail, id |-> r.id]
    BY <1>4 DEF WordFromRaw
  <2> QED
    BY <1>1, <1>2, <2>1 DEF Word
<1> QED
  BY <1>3, <1>4

\* Words in the order they start; none ends before it starts.
InOrder(words) ==
  /\ words \in Seq(Word)
  /\ \A i \in 1..Len(words) : words[i].start <= words[i].end
  /\ \A i, j \in 1..Len(words) : i < j => words[i].start <= words[j].start

LEMMA WordsInOrder ==
  ASSUME NEW raws \in Seq(RawWord), \A i \in DOMAIN raws : raws[i].start <= raws[i].end
  PROVE  InOrder(WordTimestamps(raws))
<1> DEFINE word(i) == WordFromRaw(raws[i])
           again(i) == \E j \in 1..(i - 1) :
                         word(j).id = word(i).id /\ word(j).start = word(i).start
           S == {i \in DOMAIN raws : raws[i].chars > 0 /\ ~again(i)}
           sooner(i, j) == word(i).start < word(j).start \/ (word(i).start = word(j).start /\ i < j)
           R == {p \in S \X S : sooner(p[1], p[2])}
           n == Cardinality(S)
           f == [k \in 1..n |-> CHOOSE x \in S : Cardinality({y \in S : y = x \/ sooner(y, x)}) = k]
<1>1. WordTimestamps(raws) = [k \in DOMAIN f |-> word(f[k])]
  BY DEF WordTimestamps, Ordered
<1>2. S \subseteq 1..Len(raws) /\ Len(raws) \in Nat /\ \A i \in 1..Len(raws) : raws[i] \in RawWord
  OBVIOUS
<1>3. IsFiniteSet(S) /\ n \in Nat
  <2>1. IsFiniteSet(1..Len(raws))
    BY <1>2, FS_Interval
  <2> HIDE DEF S
  <2> QED
    BY <1>2, <2>1, FS_Subset, FS_CardinalityType
<1>4. \A i \in S : word(i) \in Word /\ word(i).start <= word(i).end /\ word(i).start \in Nat /\ i \in Nat
  <2> SUFFICES ASSUME NEW i \in S
               PROVE  word(i) \in Word /\ word(i).start <= word(i).end /\ word(i).start \in Nat /\ i \in Nat
    OBVIOUS
  <2>1. i \in 1..Len(raws) /\ raws[i] \in RawWord /\ raws[i].start <= raws[i].end
    BY <1>2
  <2> HIDE DEF S
  <2>2. word(i) \in Word /\ word(i).start <= word(i).end
    BY <2>1, WordType
  <2>3. word(i).start \in Nat
    BY <2>2 DEF Word
  <2> QED
    BY <2>1, <2>2, <2>3
<1> HIDE DEF S, word
<1>5. IsOrder(R, S)
  <2>1. \A x \in S : <<x, x>> \notin R
    BY <1>4
  <2>2. \A x, y, z \in S : <<x, y>> \in R /\ <<y, z>> \in R => <<x, z>> \in R
    BY <1>4
  <2>3. \A x, y \in S : x = y \/ <<x, y>> \in R \/ <<y, x>> \in R
    BY <1>4
  <2> QED
    BY <2>1, <2>2, <2>3 DEF IsOrder
<1>6. \A x \in S : Rank(R, S, x) = Cardinality({y \in S : y = x \/ sooner(y, x)})
  <2>1. \A x \in S : {y \in S : y = x \/ sooner(y, x)} = {y \in S : y = x \/ <<y, x>> \in R}
    OBVIOUS
  <2> QED
    BY <2>1 DEF Rank
<1>7. \A x, y \in S : <<x, y>> \in R => word(x).start <= word(y).start
  BY <1>4
<1> HIDE DEF R
<1>8. ASSUME NEW k \in 1..n PROVE f[k] \in S /\ Rank(R, S, f[k]) = k
  <2>1. \E x \in S : Rank(R, S, x) = k
    BY <1>3, <1>5, PlaceTaken
  <2>2. \E x \in S : Cardinality({y \in S : y = x \/ sooner(y, x)}) = k
    BY <1>6, <2>1
  <2>3. f[k] = CHOOSE x \in S : Cardinality({y \in S : y = x \/ sooner(y, x)}) = k
    OBVIOUS
  <2> HIDE DEF f, sooner
  <2>4. f[k] \in S /\ Cardinality({y \in S : y = f[k] \/ sooner(y, f[k])}) = k
    BY <2>2, <2>3
  <2> QED
    BY <1>6, <2>4
<1>9. DOMAIN f = 1..n
  OBVIOUS
<1> HIDE DEF f
<1>10. \A j, k \in 1..n : j < k => <<f[j], f[k]>> \in R
  BY <1>3, <1>5, <1>8, Places
<1> DEFINE ws == [k \in 1..n |-> word(f[k])]
<1>11. \A k \in 1..n : word(f[k]) \in Word /\ word(f[k]).start <= word(f[k]).end
  BY <1>4, <1>8
<1>12. ws \in [1..n -> Word]
  BY <1>11
<1>13. ws \in Seq(Word) /\ Len(ws) = n
  BY <1>3, <1>12
<1>14. \A j, k \in 1..n : j < k => word(f[j]).start <= word(f[k]).start
  BY <1>7, <1>8, <1>10
<1>15. WordTimestamps(raws) = ws
  BY <1>1, <1>9
<1>16. \A k \in 1..n : ws[k] = word(f[k])
  OBVIOUS
<1> HIDE DEF ws
<1>17. \A k \in 1..Len(ws) : ws[k].start <= ws[k].end
  BY <1>11, <1>13, <1>16
<1>18. \A j, k \in 1..Len(ws) : j < k => ws[j].start <= ws[k].start
  BY <1>13, <1>14, <1>16
<1> QED
  BY <1>13, <1>15, <1>17, <1>18 DEF InOrder

---------------------------------------------------------------------------
(* The words stretched to the film.                                        *)

\* What stands within the source stands within the target.
LEMMA ScaledWithin ==
  ASSUME NEW v \in Nat, NEW target \in Nat, NEW source \in Nat \ {0}
  PROVE  Scaled(v, target, source) \in Nat /\ (v <= source => Scaled(v, target, source) <= target)
<1> DEFINE t == 2 * source
           a == 2 * v * target + source
           q == a \div t
<1>1. t \in Nat \ {0} /\ v * target \in Nat /\ source * target \in Nat
  OBVIOUS
<1>2. 2 * v * target = 2 * (v * target)
  OBVIOUS
<1>3. a \in Nat /\ a = 2 * (v * target) + source
  BY <1>1, <1>2
<1>4. Scaled(v, target, source) = q
  BY DEF Scaled
<1>5. (target + 1) * t = 2 * (source * target) + t
  OBVIOUS
<1> HIDE DEF a
<1>6. q \in Nat /\ q * t <= a
  <2> HIDE DEF t
  <2> QED
    BY <1>1, <1>3, Quotient
<1> HIDE DEF q
<1>7. ASSUME v <= source PROVE q <= target
  <2> SUFFICES ASSUME target + 1 <= q PROVE FALSE
    BY <1>6
  <2>1. v * target <= source * target
    BY <1>7
  <2>2. (target + 1) * t <= q * t
    <3> HIDE DEF t
    <3>1. \A x, y, z \in Nat : x <= y => x * z <= y * z
      OBVIOUS
    <3> QED
      BY <1>1, <1>6, <3>1
  <2>3. q * t \in Nat /\ (target + 1) * t \in Nat
    <3> HIDE DEF t
    <3> QED
      BY <1>1, <1>6
  <2>4. (target + 1) * t <= a
    BY <1>3, <1>6, <2>2, <2>3
  <2>5. 2 * (source * target) + t <= 2 * (v * target) + source
    BY <1>3, <1>5, <2>4
  <2>6. t = source + source
    OBVIOUS
  <2> HIDE DEF t
  <2> QED
    BY <1>1, <2>1, <2>5, <2>6
<1> QED
  BY <1>4, <1>6, <1>7

LEMMA HigherNat ==
  ASSUME NEW x \in Nat, NEW y \in Nat
  PROVE  /\ Higher(x, y) \in Nat /\ x <= Higher(x, y) /\ y <= Higher(x, y)
         /\ \A z \in Nat : x <= z /\ y <= z => Higher(x, y) <= z
BY DEF Higher

\* Where word i stands after one that stands at p.
NewTimes(words, target, i, p) ==
  LET source == Last(words).end
      start == Scaled(words[i].start, target, source)
      late  == Higher(start, p.end)
      end   == IF i = Len(words) THEN target
               ELSE Higher(start, Scaled(words[i].end, target, source))
  IN  [start |-> late, end |-> Higher(late, end)]
IsNew(g, words, target) ==
  g = [i \in 0..Len(words) |-> IF i = 0 THEN [start |-> 0, end |-> 0]
                                ELSE NewTimes(words, target, i, g[i - 1])]
Times == [start : Nat, end : Nat]

LEMMA NewTimesFit ==
  ASSUME NEW words, InOrder(words), NEW target \in Nat, Retimes(words, target),
         NEW i \in 1..Len(words), NEW p \in Times, NEW q, q = NewTimes(words, target, i, p)
  PROVE  /\ q \in Times /\ p.end <= q.start /\ q.start <= q.end
         /\ (words[i].end <= Last(words).end /\ p.end <= target =>
               q.end <= target /\ (i = Len(words) => q.end = target))
<1> DEFINE source == Last(words).end
           start == Scaled(words[i].start, target, source)
           scaled == Scaled(words[i].end, target, source)
           late == Higher(start, p.end)
           end == IF i = Len(words) THEN target ELSE Higher(start, scaled)
<1>1. /\ words[i].start \in Nat /\ words[i].end \in Nat /\ words[i].start <= words[i].end
      /\ p.end \in Nat
  <2>1. words \in Seq(Word) /\ words[i].start <= words[i].end
    BY DEF InOrder
  <2>2. words[i] \in Word
    BY <2>1
  <2> QED
    BY <2>1, <2>2 DEF Word, Times
<1>2. source \in Nat \ {0}
  <2>1. words # <<>> /\ words \in Seq(Word) /\ source > 0
    BY DEF Retimes, InOrder
  <2>2. Last(words) \in Word
    BY <2>1 DEF Last
  <2> QED
    BY <2>1, <2>2 DEF Word
<1>3. q = [start |-> late, end |-> Higher(late, end)]
  BY DEF NewTimes
<1> HIDE DEF source
<1>4. /\ start \in Nat /\ scaled \in Nat
      /\ (words[i].start <= source => start <= target) /\ (words[i].end <= source => scaled <= target)
  BY <1>1, <1>2, ScaledWithin
<1> HIDE DEF start, scaled
<1>5. late \in Nat /\ p.end <= late /\ (start <= target /\ p.end <= target => late <= target)
  BY <1>1, <1>4, HigherNat
<1>6. end \in Nat /\ (start <= target /\ scaled <= target => end <= target)
  <2>1. Higher(start, scaled) \in Nat
        /\ (start <= target /\ scaled <= target => Higher(start, scaled) <= target)
    BY <1>4, HigherNat
  <2> QED
    BY <2>1
<1> HIDE DEF late
<1>7. i = Len(words) => end = target
  OBVIOUS
<1> HIDE DEF end
<1>8. Higher(late, end) \in Nat /\ late <= Higher(late, end) /\ end <= Higher(late, end)
      /\ (late <= target /\ end <= target => Higher(late, end) <= target)
  BY <1>5, <1>6, HigherNat
<1>9. q.start = late /\ q.end = Higher(late, end) /\ q \in Times
  BY <1>3, <1>5, <1>8 DEF Times
<1>10. ASSUME words[i].end <= source, p.end <= target
       PROVE  q.end <= target /\ (i = Len(words) => q.end = target)
  <2>1. words[i].start <= source
    BY <1>1, <1>2, <1>10
  <2>2. start <= target /\ scaled <= target
    BY <1>4, <1>10, <2>1
  <2>3. late <= target /\ end <= target
    BY <1>5, <1>6, <1>10, <2>2
  <2>4. Higher(late, end) <= target
    BY <1>8, <2>3
  <2>5. i = Len(words) => Higher(late, end) = target
    BY <1>7, <1>8, <2>4
  <2> QED
    BY <1>9, <2>4, <2>5
<1> QED
  BY <1>5, <1>8, <1>9, <1>10 DEF source

\* Words that stand one after the other in a film.
OneByOne(words) ==
  /\ \A i \in 1..Len(words) : words[i].start \in Nat /\ words[i].end \in Nat /\ words[i].start <= words[i].end
  /\ \A i \in 1..(Len(words) - 1) : words[i].end <= words[i + 1].start

LEMMA RetimedFits ==
  ASSUME NEW words, InOrder(words), NEW target \in Nat, Retimes(words, target)
  PROVE  /\ Retimed(words, target) \in Seq(Word)
         /\ Len(Retimed(words, target)) = Len(words)
         /\ OneByOne(Retimed(words, target))
         /\ (\A i \in DOMAIN words : words[i].end <= Last(words).end) =>
              Retimed(words, target)[Len(words)].end = target
<1> DEFINE n == Len(words)
           zero == [start |-> 0, end |-> 0]
           new[i \in 0..n] ==
             IF i = 0 THEN zero
             ELSE LET start == Scaled(words[i].start, target, Last(words).end)
                      late  == Higher(start, new[i - 1].end)
                      end   == IF i = n THEN target
                               ELSE Higher(start, Scaled(words[i].end, target, Last(words).end))
                  IN  [start |-> late, end |-> Higher(late, end)]
<1>1. n \in Nat \ {0} /\ words \in Seq(Word) /\ DOMAIN words = 1..n
  BY DEF InOrder, Retimes
<1>2. Retimed(words, target)
        = [i \in DOMAIN words |-> [words[i] EXCEPT !.start = new[i].start, !.end = new[i].end]]
  BY DEF Retimed
<1>3. new = CHOOSE g : IsNew(g, words, target)
  BY DEF IsNew, NewTimes
<1> HIDE DEF new
<1> DEFINE step == [x \in (1..n) \X Times |-> NewTimes(words, target, x[1], x[2])]
<1>4. \A i \in 1..n, p \in Times : step[<<i, p>>] = NewTimes(words, target, i, p)
  OBVIOUS
<1>5. \A i \in 1..n, p \in Times : NewTimes(words, target, i, p) \in Times
  BY NewTimesFit
<1> HIDE DEF n, step
<1>6. Follows(0, 1, n, Times, zero, step)
  <2>1. zero \in Times
    BY DEF Times
  <2>2. \A i \in 1..n, p \in Times : step[<<i, p>>] \in Times
    BY <1>4, <1>5
  <2> HIDE DEF zero
  <2> QED
    BY <1>1, <2>1, <2>2 DEF Follows
<1>7. PICK g \in [0..n -> Times] : g[0] = zero /\ \A i \in 1..n : g[i] = step[<<i, g[i - 1]>>]
  BY <1>6, Recursion
<1>8. \A i \in 1..n : i - 1 \in 0..n /\ i # 0 /\ i \in 0..n
  BY <1>1
<1>9. \A i \in 0..n : i = 0 \/ i \in 1..n
  BY <1>1
<1>10. \A i \in 1..n : g[i] = NewTimes(words, target, i, g[i - 1])
  BY <1>4, <1>7, <1>8
<1>11. IsNew(g, words, target)
  <2>1. g = [i \in 0..n |-> g[i]]
    BY <1>7
  <2>2. \A i \in 0..n : g[i] = IF i = 0 THEN zero ELSE NewTimes(words, target, i, g[i - 1])
    BY <1>7, <1>8, <1>9, <1>10
  <2>3. g = [i \in 0..n |-> IF i = 0 THEN zero ELSE NewTimes(words, target, i, g[i - 1])]
    BY <2>1, <2>2
  <2> QED
    BY <2>3 DEF IsNew, n
<1>12. IsNew(new, words, target)
  BY <1>3, <1>11
<1>13. new[0] = zero /\ \A i \in 1..n : new[i] = NewTimes(words, target, i, new[i - 1])
  <2>1. \A i \in 0..n : new[i] = IF i = 0 THEN zero ELSE NewTimes(words, target, i, new[i - 1])
    BY <1>12 DEF IsNew, n
  <2>2. 0 \in 0..n
    BY <1>1
  <2>3. new[0] = zero
    BY <2>1, <2>2
  <2>4. \A i \in 1..n : new[i] = NewTimes(words, target, i, new[i - 1])
    BY <1>8, <2>1
  <2> QED
    BY <2>3, <2>4
<1> DEFINE long == \A i \in 1..n : words[i].end <= Last(words).end
           T == {i \in 0..n : new[i] \in Times /\ (long => new[i].end <= target)}
<1>14. \A i \in 0..n : i \in T
  <2>1. 0 \in T
    <3>1. zero \in Times /\ zero.end = 0 /\ 0 <= target
      BY DEF Times
    <3> QED
      BY <1>1, <1>13, <3>1
  <2>2. ASSUME NEW i \in 0..(n - 1), i \in T PROVE i + 1 \in T
    <3>1. i + 1 \in 1..n /\ (i + 1) - 1 = i /\ i + 1 \in 0..n
      BY <1>1
    <3>2. new[i + 1] = NewTimes(words, target, i + 1, new[i]) /\ new[i] \in Times
      BY <1>13, <2>2, <3>1
    <3>3. /\ new[i + 1] \in Times
          /\ (words[i + 1].end <= Last(words).end /\ new[i].end <= target => new[i + 1].end <= target)
      BY <3>1, <3>2, NewTimesFit DEF n
    <3>4. long => words[i + 1].end <= Last(words).end
      BY <3>1
    <3> QED
      BY <2>2, <3>1, <3>3, <3>4
  <2> HIDE DEF T
  <2>3. 0 \in Int /\ n \in Int
    BY <1>1
  <2> QED
    BY <2>1, <2>2, <2>3, CountingFrom
<1>15. \A i \in 0..n : new[i] \in Times /\ (long => new[i].end <= target)
  BY <1>14
<1> HIDE DEF T
<1>16. ASSUME NEW i \in 1..n
       PROVE  /\ new[i] \in Times /\ new[i].start <= new[i].end /\ new[i - 1].end <= new[i].start
              /\ (long /\ i = n => new[i].end = target)
  <2>1. new[i] = NewTimes(words, target, i, new[i - 1]) /\ new[i - 1] \in Times
        /\ (long => new[i - 1].end <= target)
    BY <1>8, <1>13, <1>15
  <2>2. /\ new[i] \in Times /\ new[i].start <= new[i].end /\ new[i - 1].end <= new[i].start
        /\ (words[i].end <= Last(words).end /\ new[i - 1].end <= target =>
              (i = n => new[i].end = target))
    BY <2>1, NewTimesFit DEF n
  <2> QED
    BY <2>1, <2>2
<1> DEFINE w == [i \in DOMAIN words |-> [words[i] EXCEPT !.start = new[i].start, !.end = new[i].end]]
<1>17. \A i \in 1..n : w[i] \in Word /\ w[i].start = new[i].start /\ w[i].end = new[i].end
  <2> SUFFICES ASSUME NEW i \in 1..n
               PROVE  w[i] \in Word /\ w[i].start = new[i].start /\ w[i].end = new[i].end
    OBVIOUS
  <2>1. words[i] \in Word /\ new[i].start \in Nat /\ new[i].end \in Nat
    BY <1>1, <1>16 DEF Times
  <2>2. w[i] = [words[i] EXCEPT !.start = new[i].start, !.end = new[i].end]
    BY <1>1
  <2> QED
    BY <2>1, <2>2 DEF Word
<1>18. w \in Seq(Word) /\ Len(w) = n
  <2>1. DOMAIN w = 1..n
    BY <1>1
  <2>2. w \in [1..n -> Word]
    BY <1>1, <1>17, <2>1
  <2> HIDE DEF w
  <2>3. Len(w) = n /\ w \in Seq(Word)
    BY <1>1, <2>2
  <2> QED
    BY <2>3
<1> HIDE DEF w
<1>19. OneByOne(w)
  <2>1. \A i \in 1..n : w[i].start \in Nat /\ w[i].end \in Nat /\ w[i].start <= w[i].end
    BY <1>16, <1>17 DEF Times
  <2>2. ASSUME NEW i \in 1..(n - 1) PROVE w[i].end <= w[i + 1].start
    <3>1. i \in 1..n /\ i + 1 \in 1..n /\ (i + 1) - 1 = i
      BY <1>1
    <3> QED
      BY <1>16, <1>17, <3>1
  <2> QED
    BY <1>18, <2>1, <2>2 DEF OneByOne
<1>20. long => w[n].end = target
  BY <1>1, <1>16, <1>17
<1>21. Retimed(words, target) = w
  BY <1>2 DEF w
<1>22. (\A i \in DOMAIN words : words[i].end <= Last(words).end) => long
  BY <1>1
<1> HIDE DEF long
<1> QED
  BY <1>18, <1>19, <1>20, <1>21, <1>22 DEF n

---------------------------------------------------------------------------
(* Lines of words.                                                         *)

\* The first word of the line of word i, when the word before it is in the line of word h.
HeadAfter(words, i, h) ==
  LET chars == Total([j \in 1..(i - h) |-> words[h + j - 1].chars])
  IN  IF Breaks(words[i - 1], chars, words[i]) THEN i ELSE h
IsHeads(g, words) ==
  g = [i \in 1..Len(words) |-> IF i = 1 THEN 1 ELSE HeadAfter(words, i, g[i - 1])]

\* A line reaches from one first word to before the next.
LEMMA LinesByHeads ==
  ASSUME NEW words, Len(words) \in Nat \ {0}
  PROVE  \E m \in Nat \ {0} : \E heads \in [1..m -> 1..Len(words)] :
           /\ \A j, k \in 1..m : j < k => heads[j] < heads[k]
           /\ Lines(words) = [k \in 1..m |->
                [start |-> words[heads[k]].start,
                 end   |-> words[IF k < m THEN heads[k + 1] - 1 ELSE Len(words)].end]]
<1> DEFINE n == Len(words)
           head[i \in 1..n] ==
             IF i = 1 THEN 1
             ELSE LET chars == Total([j \in 1..(i - head[i - 1]) |-> words[head[i - 1] + j - 1].chars])
                  IN  IF Breaks(words[i - 1], chars, words[i]) THEN i ELSE head[i - 1]
           H == {head[i] : i \in 1..n}
           heads == Ascending(H)
           step == [x \in (2..n) \X (1..n) |-> HeadAfter(words, x[1], x[2])]
<1>1. n \in Nat \ {0}
  OBVIOUS
<1>2. Lines(words) = [k \in DOMAIN heads |->
        [start |-> words[heads[k]].start,
         end   |-> words[IF k < Len(heads) THEN heads[k + 1] - 1 ELSE n].end]]
  BY DEF Lines
<1>3. head = CHOOSE g : IsHeads(g, words)
  BY DEF IsHeads, HeadAfter
<1> HIDE DEF head
<1>4. \A i \in 2..n, h \in 1..n : step[<<i, h>>] = HeadAfter(words, i, h)
  OBVIOUS
<1>5. \A i \in 2..n, h \in 1..n : HeadAfter(words, i, h) \in 1..n
  <2>1. \A i \in 2..n, h \in 1..n : HeadAfter(words, i, h) \in {i, h}
    BY DEF HeadAfter
  <2>2. \A i \in 2..n : i \in 1..n
    BY <1>1
  <2> HIDE DEF n
  <2> QED
    BY <2>1, <2>2
<1> HIDE DEF n, step
<1> DEFINE S == 1..n
<1>6. Follows(1, 2, n, S, 1, step)
  <2>1. 1 \in 1..n /\ n \in Int /\ 1 <= n /\ 2 = 1 + 1
    BY <1>1
  <2>2. \A i \in 2..n, h \in 1..n : step[<<i, h>>] \in 1..n
    BY <1>4, <1>5
  <2> QED
    BY <2>1, <2>2 DEF Follows
<1>7. PICK g \in [1..n -> 1..n] : g[1] = 1 /\ \A i \in 2..n : g[i] = step[<<i, g[i - 1]>>]
  <2> HIDE DEF S
  <2>1. \E g \in [1..n -> S] : g[1] = 1 /\ \A i \in 2..n : g[i] = step[<<i, g[i - 1]>>]
    BY <1>6, Recursion
  <2> QED
    BY <2>1 DEF S
<1>8. \A i \in 2..n : i - 1 \in 1..n /\ i # 1 /\ i \in 1..n
  BY <1>1
<1>9. \A i \in 1..n : i = 1 \/ i \in 2..n
  BY <1>1
<1>10. \A i \in 2..n : g[i] = HeadAfter(words, i, g[i - 1])
  BY <1>4, <1>7, <1>8
<1>11. IsHeads(g, words)
  <2>1. g = [i \in 1..n |-> g[i]]
    BY <1>7
  <2>2. \A i \in 1..n : g[i] = IF i = 1 THEN 1 ELSE HeadAfter(words, i, g[i - 1])
    BY <1>7, <1>8, <1>9, <1>10
  <2>3. g = [i \in 1..n |-> IF i = 1 THEN 1 ELSE HeadAfter(words, i, g[i - 1])]
    BY <2>1, <2>2
  <2> QED
    BY <2>3 DEF IsHeads, n
<1>12. IsHeads(head, words)
  BY <1>3, <1>11
<1>13. head[1] = 1 /\ \A i \in 2..n : head[i] = HeadAfter(words, i, head[i - 1])
  <2>1. \A i \in 1..n : head[i] = IF i = 1 THEN 1 ELSE HeadAfter(words, i, head[i - 1])
    BY <1>12 DEF IsHeads, n
  <2>2. 1 \in 1..n
    BY <1>1
  <2>3. head[1] = 1
    BY <2>1, <2>2
  <2>4. \A i \in 2..n : head[i] = HeadAfter(words, i, head[i - 1])
    BY <1>8, <2>1
  <2> QED
    BY <2>3, <2>4
<1>14. \A i \in 1..n : head[i] \in 1..n
  <2> DEFINE T == {i \in 1..n : head[i] \in 1..n}
  <2>1. 1 \in T
    BY <1>1, <1>13
  <2>2. ASSUME NEW i \in 1..(n - 1), i \in T PROVE i + 1 \in T
    <3>1. i + 1 \in 2..n /\ (i + 1) - 1 = i /\ i + 1 \in 1..n
      BY <1>1
    <3>2. head[i + 1] = HeadAfter(words, i + 1, head[i])
      BY <1>13, <3>1
    <3> QED
      BY <1>5, <2>2, <3>1, <3>2
  <2> HIDE DEF T
  <2>3. 1 \in Int /\ n \in Int
    BY <1>1
  <2>4. \A i \in 1..n : i \in T
    BY <2>1, <2>2, <2>3, CountingFrom
  <2> QED
    BY <2>4 DEF T
<1>15. H \subseteq 1..n /\ H # {}
  BY <1>1, <1>14
<1> DEFINE m == Cardinality(H)
<1>16. IsFiniteSet(H) /\ m \in Nat \ {0}
  <2>1. IsFiniteSet(1..n)
    BY <1>1, FS_Interval
  <2> HIDE DEF H
  <2>2. IsFiniteSet(H)
    BY <1>15, <2>1, FS_Subset
  <2> QED
    BY <1>15, <2>2, FS_CardinalityType, FS_EmptySet
<1>17. H \in SUBSET Int
  BY <1>15
<1> HIDE DEF H
<1> HIDE DEF heads, m
<1>18. /\ heads \in [1..m -> H]
       /\ \A j, k \in 1..m : j < k => heads[j] < heads[k]
  BY <1>16, <1>17, OrderedNumbers DEF heads, m
<1>19. heads \in [1..m -> 1..n] /\ DOMAIN heads = 1..m /\ Len(heads) = m
  <2>1. heads \in [1..m -> 1..n] /\ DOMAIN heads = 1..m
    BY <1>15, <1>18
  <2> QED
    BY <1>16, <2>1
<1>20. Lines(words) = [k \in 1..m |->
         [start |-> words[heads[k]].start,
          end   |-> words[IF k < m THEN heads[k + 1] - 1 ELSE n].end]]
  BY <1>2, <1>19
<1> QED
  BY <1>16, <1>18, <1>19, <1>20 DEF n

\* What holds of one word and the next holds of any two.
LEMMA OneByOneApart ==
  ASSUME NEW words, Len(words) \in Nat, OneByOne(words),
         NEW i \in 1..Len(words), NEW j \in 1..Len(words), i < j
  PROVE  words[i].end <= words[j].start /\ words[i].start <= words[j].start
<1> DEFINE n == Len(words)
           T == {k \in (i + 1)..n : words[i].end <= words[k].start}
<1>1. i \in Int /\ n \in Int /\ j \in (i + 1)..n /\ i + 1 \in Int /\ i + 1 \in (i + 1)..n
  OBVIOUS
<1>2. /\ \A k \in 1..n : /\ words[k].start \in Nat /\ words[k].end \in Nat
                         /\ words[k].start <= words[k].end
      /\ \A k \in 1..(n - 1) : words[k].end <= words[k + 1].start
  BY DEF OneByOne
<1> HIDE DEF n
<1>3. i + 1 \in T
  BY <1>1, <1>2
<1>4. ASSUME NEW k \in (i + 1)..(n - 1), k \in T PROVE k + 1 \in T
  <2>1. k \in 1..(n - 1) /\ k + 1 \in (i + 1)..n /\ k \in 1..n /\ k + 1 \in 1..n
    BY <1>1
  <2>2. words[k].start <= words[k].end /\ words[k].end <= words[k + 1].start
        /\ words[i].end <= words[k].start
    BY <1>2, <1>4, <2>1
  <2>3. words[i].end \in Nat /\ words[k].start \in Nat /\ words[k].end \in Nat
        /\ words[k + 1].start \in Nat
    BY <1>2, <2>1 DEF n
  <2> QED
    BY <2>1, <2>2, <2>3
<1> HIDE DEF T
<1>5. \A k \in (i + 1)..n : k \in T
  BY <1>1, <1>3, <1>4, CountingFrom
<1>6. words[i].end <= words[j].start
  BY <1>1, <1>5 DEF T
<1>7. words[i].start \in Nat /\ words[i].end \in Nat /\ words[j].start \in Nat
      /\ words[i].start <= words[i].end
  BY <1>2 DEF n
<1> QED
  BY <1>6, <1>7

\* The lines of words in order start in order; those of words one by one stand one by one,
\* and the last ends with the last word.
LEMMA LinesInOrder ==
  ASSUME NEW words, Len(words) \in Nat \ {0},
         \A i, j \in 1..Len(words) : i < j => words[i].start <= words[j].start
  PROVE  /\ Len(Lines(words)) \in Nat \ {0}
         /\ \A k \in 1..(Len(Lines(words)) - 1) : Lines(words)[k].start <= Lines(words)[k + 1].start
         /\ Last(Lines(words)).end = words[Len(words)].end
         /\ OneByOne(words) =>
              \A k \in 1..(Len(Lines(words)) - 1) : Lines(words)[k].end <= Lines(words)[k + 1].start
<1> DEFINE n == Len(words)
           lines == Lines(words)
<1>1. PICK m \in Nat \ {0} : \E heads \in [1..m -> 1..n] :
        /\ \A j, k \in 1..m : j < k => heads[j] < heads[k]
        /\ lines = [k \in 1..m |->
             [start |-> words[heads[k]].start,
              end   |-> words[IF k < m THEN heads[k + 1] - 1 ELSE n].end]]
  BY LinesByHeads
<1>2. PICK heads \in [1..m -> 1..n] :
        /\ \A j, k \in 1..m : j < k => heads[j] < heads[k]
        /\ lines = [k \in 1..m |->
             [start |-> words[heads[k]].start,
              end   |-> words[IF k < m THEN heads[k + 1] - 1 ELSE n].end]]
  BY <1>1
<1>3. n \in Nat \ {0} /\ m \in Nat \ {0} /\ m \in 1..m /\ ~(m < m)
  OBVIOUS
<1> HIDE DEF n, lines
<1>4. Len(lines) = m
  BY <1>2, <1>3
<1>5. \A k \in 1..m : /\ lines[k].start = words[heads[k]].start
                      /\ (k < m => lines[k].end = words[heads[k + 1] - 1].end)
                      /\ (k = m => lines[k].end = words[n].end)
  BY <1>2, <1>3
<1>6. Last(lines).end = words[n].end
  BY <1>3, <1>4, <1>5 DEF Last
<1>7. ASSUME NEW k \in 1..(m - 1)
      PROVE  /\ lines[k].start <= lines[k + 1].start
             /\ OneByOne(words) => lines[k].end <= lines[k + 1].start
  <2>1. k \in 1..m /\ k + 1 \in 1..m /\ k < k + 1 /\ k < m
    BY <1>3
  <2>2. heads[k] \in 1..n /\ heads[k + 1] \in 1..n /\ heads[k] < heads[k + 1]
    BY <1>2, <2>1
  <2>3. lines[k].start <= lines[k + 1].start
    BY <1>5, <2>1, <2>2 DEF n
  <2> DEFINE i == heads[k + 1] - 1
             j == heads[k + 1]
  <2>4. i \in 1..n /\ j \in 1..n /\ i < j
    BY <1>3, <2>2
  <2>5. lines[k].end = words[i].end /\ lines[k + 1].start = words[j].start
    BY <1>5, <2>1
  <2> HIDE DEF i, j
  <2>6. OneByOne(words) => words[i].end <= words[j].start
    BY <1>3, <2>4, OneByOneApart DEF n
  <2> QED
    BY <2>3, <2>5, <2>6
<1> QED
  BY <1>3, <1>4, <1>6, <1>7 DEF n, lines

---------------------------------------------------------------------------
(* Points.                                                                 *)

\* Five weighted numbers have their sum.
LEMMA FivePoints ==
  ASSUME NEW s, s \in [Fields -> Int]
  PROVE  Total(s) = s[1] + s[2] + s[3] + s[4] + s[5]
<1>1. s \in [1..5 -> Int]
  BY DEF Fields
<1>2. Len(s) = 5 /\ Len(s) \in Nat /\ \A i \in 1..5 : s[i] \in Int
  BY <1>1
<1>3. PICK g : /\ g[0] = 0 /\ \A i \in 1..Len(s) : g[i] = g[i - 1] + s[i]
               /\ Total(s) = g[Len(s)]
  BY <1>2, PartialSums
<1>4. /\ g[0] = 0 /\ g[1] = g[0] + s[1] /\ g[2] = g[1] + s[2] /\ g[3] = g[2] + s[3]
      /\ g[4] = g[3] + s[4] /\ g[5] = g[4] + s[5] /\ Total(s) = g[5]
  <2>1. g[0] = 0 /\ \A i \in 1..5 : g[i] = g[i - 1] + s[i]
    BY <1>2, <1>3
  <2>2. g[1] = g[0] + s[1] /\ g[2] = g[1] + s[2]
    BY <2>1
  <2>3. g[3] = g[2] + s[3] /\ g[4] = g[3] + s[4] /\ g[5] = g[4] + s[5]
    BY <2>1
  <2> QED
    BY <1>2, <1>3, <2>1, <2>2, <2>3
<1>5. g[1] = s[1] /\ g[2] = s[1] + s[2]
  BY <1>2, <1>4
<1>6. g[3] = s[1] + s[2] + s[3]
  BY <1>2, <1>4, <1>5
<1> QED
  BY <1>2, <1>4, <1>6

MostDeducted == 2500

LEMMA KeptRange ==
  ASSUME NEW t \in (-MostDeducted)..TopTotal
  PROVE  Kept(t) \in KeptScores
BY DEF Kept, KeptScores, TopTotal, MostDeducted

LEMMA BoundedRange ==
  ASSUME NEW x \in Int, NEW top \in Nat
  PROVE  Bounded(x, top) \in 0..top
BY DEF Bounded, Higher, Lower

\* A total of the text is at most 100 points, and the deductions take at most 25.
LEMMA DeductedRange ==
  ASSUME NEW x \in Int, NEW chars \in Nat, NEW image
  PROVE  Bounded(x, TopTotal) - Deductions(chars, image) \in (-MostDeducted)..TopTotal
<1>1. TopTotal \in Nat /\ MostDeducted \in Nat
  BY DEF TopTotal, MostDeducted
<1>2. Bounded(x, TopTotal) \in 0..TopTotal
  BY <1>1, BoundedRange
<1>3. Deductions(chars, image) \in 0..MostDeducted
  <2>1. CASE image
    BY <2>1 DEF Deductions, MostDeducted
  <2>2. CASE ~image
    BY <2>2 DEF Deductions, MostDeducted
  <2> QED
    BY <2>1, <2>2
<1> QED
  BY <1>1, <1>2, <1>3

LEMMA WeightedContent ==
  ASSUME NEW a, \A i \in DOMAIN a.points : a.points[i] \in Int
  PROVE  Weighted([i \in Fields |-> ContentPoint(a, i)], ContentWeights) \in Int
<1> DEFINE s == [i \in Fields |-> [j \in Fields |-> ContentPoint(a, j)][i] * ContentWeights[i]]
<1>1. \A i \in Fields : ContentPoint(a, i) \in Int
  BY DEF ContentPoint
<1>2. \A i \in Fields : ContentWeights[i] \in Int
  BY DEF Fields, ContentWeights
<1>3. s \in [Fields -> Int]
  BY <1>1, <1>2
<1>4. \A i \in 1..5 : s[i] \in Int
  BY <1>3 DEF Fields
<1>5. Weighted([i \in Fields |-> ContentPoint(a, i)], ContentWeights) = Total(s)
  BY DEF Weighted
<1> HIDE DEF s
<1>6. Total(s) = s[1] + s[2] + s[3] + s[4] + s[5]
  BY <1>3, FivePoints
<1>7. s[1] \in Int /\ s[2] \in Int /\ s[3] \in Int /\ s[4] \in Int /\ s[5] \in Int
  BY <1>4
<1> QED
  BY <1>5, <1>6, <1>7

LEMMA ContentRange ==
  ASSUME NEW a, \A i \in DOMAIN a.points : a.points[i] \in Int, NEW rhythm, NEW chars \in Nat,
         NEW image
  PROVE  ContentTotal(a, rhythm, chars, image) \in (-MostDeducted)..TopTotal
<1> DEFINE w == Weighted([i \in Fields |-> ContentPoint(a, i)], ContentWeights)
           x == w + RhythmBonus(rhythm)
<1>1. w \in Int
  BY WeightedContent
<1>2. RhythmBonus(rhythm) \in Int
  BY DEF RhythmBonus
<1> HIDE DEF w
<1>3. x \in Int
  BY <1>1, <1>2
<1>4. ContentTotal(a, rhythm, chars, image)
        = Bounded(x, TopTotal) - Deductions(chars, image)
  BY Zenon DEF ContentTotal, w
<1> HIDE DEF x
<1> QED
  BY <1>3, <1>4, DeductedRange

LEMMA HundredPoints ==
  ASSUME NEW p \in Int, NEW q \in Int, NEW r \in Int, NEW u \in Int, NEW w \in Int,
         0 <= p, p <= 100, 0 <= q, q <= 100, 0 <= r, r <= 100, 0 <= u, u <= 100, 0 <= w, w <= 100
  PROVE  p * 22 + q * 26 + r * 20 + u * 16 + w * 16 \in 0..TopTotal
BY DEF TopTotal

LEMMA VisionRange ==
  ASSUME NEW a, VisionReads(a), \A i \in DOMAIN a.points : a.points[i] \in Int, NEW attempt
  PROVE  VisionScore(a, attempt).total \in 0..TopTotal
<1> DEFINE point == [i \in Fields |-> Bounded(a.points[i], 100)]
           s == [i \in Fields |-> point[i] * VisionWeights[i]]
<1>1. point \in [Fields -> 0..100]
  <2>1. \A i \in Fields : a.points[i] \in Int
    BY DEF VisionReads
  <2>2. \A i \in Fields : Bounded(a.points[i], 100) \in 0..100
    BY <2>1 DEF Bounded, Higher, Lower
  <2> QED
    BY <2>2
<1>2. VisionScore(a, attempt).total = Total(s)
  BY DEF VisionScore, Weighted
<1> HIDE DEF point
<1>3. Total(s) = point[1] * 22 + point[2] * 26 + point[3] * 20 + point[4] * 16 + point[5] * 16
  <2>1. s \in [Fields -> Int]
    BY <1>1 DEF VisionWeights, Fields
  <2>2. /\ s[1] = point[1] * 22 /\ s[2] = point[2] * 26 /\ s[3] = point[3] * 20
        /\ s[4] = point[4] * 16 /\ s[5] = point[5] * 16
    BY DEF VisionWeights, Fields
  <2> HIDE DEF s
  <2> QED
    BY <2>1, <2>2, FivePoints
<1>4. \A i \in 1..5 : point[i] \in Int /\ 0 <= point[i] /\ point[i] <= 100
  BY <1>1 DEF Fields
<1>5. /\ point[1] \in Int /\ 0 <= point[1] /\ point[1] <= 100
      /\ point[2] \in Int /\ 0 <= point[2] /\ point[2] <= 100
      /\ point[3] \in Int /\ 0 <= point[3] /\ point[3] <= 100
      /\ point[4] \in Int /\ 0 <= point[4] /\ point[4] <= 100
      /\ point[5] \in Int /\ 0 <= point[5] /\ point[5] <= 100
  BY <1>4
<1>6. Total(s) \in 0..TopTotal
  BY <1>3, <1>5, HundredPoints
<1> QED
  BY <1>2, <1>6

---------------------------------------------------------------------------
(* What is known at each stage.                                            *)

Stages == {"join", "speak", "sound", "mix", "compare", "rescue", "caption", "cover", "judge",
           "send", "done", "refused", "raised"}

BoardInv ==
  /\ board.narration \in Seq(Nat) /\ IsPlan(board.clips)
  /\ Seconds(board.clips) \in Nat \ {0} /\ board.clips[1].dur \in Nat \ {0}

Strategy == {<<>>, <<"rewrite">>, <<"pad", "rewrite">>, <<"tempo", "pad", "rewrite">>}
Film     == [pictures : Nat, cut : Nat, voice : BOOLEAN, lost : Nat, music : BOOLEAN]
Streams  == [stage : {"closed", "connection", "session", "open"}, audio : 0..Parts,
             raws : RawWords \cup {<<>>}]
Timings  == {WordTimestamps(r) : r \in RawWords \cup {<<>>}} \cup {<<>>}
Voices   == [len : Nat, parts : 0..Parts, words : Timings]

TypeInv ==
  /\ pc \in Stages
  /\ joined \in [len : Nat, whole : BOOLEAN]
  /\ stream \in Streams /\ voice \in Voices
  /\ sounds \in [effects : Effects \cup {<<>>}, music : Musics]
  /\ film \in Film /\ rescue \in Strategy /\ blind \in BOOLEAN
  /\ burned \in {FALSE, BurnCaptions} /\ cover \in BOOLEAN
  /\ told \subseteq {"voice", "music", "cover", "id"}

\* There is a voice only for a narration, it is in the film only after the mix, and from there
\* on until a rescue the film is the mix of the pictures and that voice.
FilmInv ==
  /\ pc # "join" => joined.len > 0
  /\ pc \in {"join", "speak"} => voice.len = 0
  /\ pc = "speak" \/ voice.len > 0 => board.narration # <<>>
  /\ pc \in {"join", "speak", "sound", "mix"} => ~film.voice
  /\ pc \in {"compare", "rescue"} =>
       /\ film.lost = Higher(0, voice.len - joined.len)
       /\ film.cut = Higher(0, joined.len - voice.len)
  /\ pc \in {"compare", "rescue", "refused"} => voice.len > 0

\* The length of the voice once it is sped as measured.
Fitted == Sped(voice.len, Tempo(joined.len, voice.len))

\* A drift that a standing picture may make good is refused only after it was tried.
TriedInv ==
  (pc = "refused" \/ (pc = "rescue" /\ rescue \in {<<>>, <<"rewrite">>}))
    /\ ~blind /\ Abs(voice.len - joined.len) <= 80
  => ~Verified(joined.len + Pad(joined.len, Fitted), Fitted)

\* The words a voice may have are in order.
LEMMA TimingsInOrder ==
  ASSUME NEW words \in Timings
  PROVE  InOrder(words)
<1>1. InOrder(<<>>)
  <2>1. <<>> \in Seq(Word) /\ Len(<<>>) = 0
    OBVIOUS
  <2> QED
    BY <2>1 DEF InOrder
<1>2. ASSUME NEW raws \in RawWords \cup {<<>>} PROVE InOrder(WordTimestamps(raws))
  <2>1. raws \in Seq(RawWord) /\ \A i \in DOMAIN raws : raws[i].start <= raws[i].end
    <3>1. CASE raws \in RawWords
      BY <3>1, RawWordsAssumption
    <3>2. CASE raws = <<>>
      BY <3>2
    <3> QED
      BY <3>1, <3>2
  <2> QED
    BY <2>1, WordsInOrder
<1> QED
  BY <1>1, <1>2 DEF Timings

FinishInv == BoardInv /\ TypeInv /\ FilmInv /\ CutIsSmall /\ TriedInv

LEMMA SpokenFilm ==
  ASSUME NEW p \in Nat, NEW len \in Nat
  PROVE  /\ Spoken(p, len) \in Film /\ Spoken(p, len).voice
         /\ Spoken(p, len).lost = Higher(0, len - p) /\ Spoken(p, len).cut = Higher(0, p - len)
         /\ (len > 0 /\ Verified(p, len) => Spoken(p, len).lost <= 12 /\ Spoken(p, len).cut <= 12)
<1>1. Lower(p, len) \in Nat /\ Higher(0, len - p) \in Nat /\ Higher(0, p - len) \in Nat
  BY DEF Lower, Higher
<1>2. len > 0 /\ Verified(p, len) => Higher(0, len - p) <= 12 /\ Higher(0, p - len) <= 12
  BY DEF Verified, Drift, Abs, Higher
<1> QED
  BY <1>1, <1>2 DEF Spoken, Film

LEMMA SilentFilm ==
  ASSUME NEW p \in Nat
  PROVE  Silent(p) \in Film /\ ~Silent(p).voice
BY DEF Silent, Film

\* The seconds of the clips are five or ten for each.
LEMMA SecondsPlanned ==
  ASSUME NEW n \in Nat \ {0}, NEW clips, DOMAIN clips = 1..n,
         \A i \in 1..n : clips[i].dur \in {5, 10}
  PROVE  Seconds(clips) \in Nat \ {0} /\ clips[1].dur \in Nat \ {0}
<1> DEFINE s == [i \in DOMAIN clips |-> clips[i].dur]
<1>1. s \in Seq(Nat \ {0}) /\ Len(s) = n
  <2>1. s \in [1..n -> Nat \ {0}]
    OBVIOUS
  <2> QED
    BY <2>1
<1>2. Seconds(clips) = 10 * Total(s)
  BY DEF Seconds
<1> HIDE DEF s
<1>3. Total(s) \in Nat /\ n <= Total(s)
  BY <1>1, TotalAtLeast
<1>4. 1 \in 1..n
  OBVIOUS
<1> QED
  BY <1>2, <1>3, <1>4

LEMMA ElementType ==
  ASSUME NEW X, NEW s \in Seq(X), NEW i \in DOMAIN s
  PROVE  s[i] \in X
OBVIOUS

\* The clips of a storyboard with the seconds they are given.
LEMMA PlannedClips ==
  ASSUME NEW b \in Boards, NEW clips \in {PlanDurations(b.clips), Unplanned(b.clips)}
  PROVE  IsPlan(clips)
<1> DEFINE s == b.clips
           n == Len(s)
           R == [text : Seq(Nat), summary : Seq(Nat)]
<1>1. s \in Seq(R) /\ s # <<>>
  BY BoardsAssumption
<1>2. \A i \in DOMAIN s : Len(Chunks(s[i].text)) <= 500 /\ Len(Chunks(s[i].summary)) <= 500
  BY ShortTextsAssumption
<1>3. PICK dur : (\A i \in DOMAIN s : dur[i] \in {5, 10}) /\
        clips = [i \in DOMAIN s |-> [text |-> s[i].text, summary |-> s[i].summary, dur |-> dur[i]]]
  <2>1. CASE clips = PlanDurations(s)
    <3> DEFINE d == [i \in DOMAIN s |-> PickDuration(Chars(s[i].text))]
    <3>1. \A i \in DOMAIN s : d[i] \in {5, 10} /\ d[i] = PickDuration(Chars(s[i].text))
      BY DEF PickDuration
    <3>2. clips = [i \in DOMAIN s |-> [text |-> s[i].text, summary |-> s[i].summary, dur |-> d[i]]]
      BY <2>1 DEF PlanDurations
    <3> QED
      BY <3>1, <3>2
  <2>2. CASE clips = Unplanned(s)
    <3> DEFINE d == [i \in DOMAIN s |-> 5]
    <3>1. clips = [i \in DOMAIN s |-> [text |-> s[i].text, summary |-> s[i].summary, dur |-> d[i]]]
      BY <2>2 DEF Unplanned
    <3>2. \A i \in DOMAIN s : d[i] \in {5, 10}
      OBVIOUS
    <3> QED
      BY <3>1, <3>2
  <2> QED
    BY <2>1, <2>2
<1> HIDE DEF s
<1>4. n \in Nat \ {0} /\ DOMAIN s = 1..n
  BY <1>1
<1> HIDE DEF n, R
<1>5. ASSUME NEW i \in 1..n PROVE clips[i] \in Clip /\ Len(Chunks(Shown(clips[i]))) <= 500
  <2> DEFINE c == clips[i]
  <2>1. s[i] \in R
    BY <1>1, <1>4, ElementType
  <2>2. s[i].text \in Seq(Nat) /\ s[i].summary \in Seq(Nat) /\ dur[i] \in {5, 10}
    BY <1>3, <1>4, <2>1 DEF R
  <2>3. c = [text |-> s[i].text, summary |-> s[i].summary, dur |-> dur[i]]
    BY <1>3, <1>4
  <2> HIDE DEF c
  <2>4. c \in Clip
    BY <2>2, <2>3 DEF Clip
  <2>5. c.text = s[i].text /\ c.summary = s[i].summary
    BY <2>3
  <2>6. Shown(c) \in {s[i].text, s[i].summary}
    BY <2>5 DEF Shown
  <2>7. Len(Chunks(s[i].text)) <= 500 /\ Len(Chunks(s[i].summary)) <= 500
    BY <1>2, <1>4
  <2>8. Len(Chunks(Shown(c))) <= 500
    BY <2>6, <2>7
  <2> QED
    BY <2>4, <2>8 DEF c
<1>6. clips \in Seq(Clip) /\ Len(clips) = n
  <2>1. DOMAIN clips = 1..n /\ clips = [i \in 1..n |-> clips[i]]
    BY <1>3, <1>4
  <2>2. clips \in [1..n -> Clip]
    BY <1>5, <2>1
  <2> QED
    BY <1>4, <2>2
<1>7. clips # <<>>
  BY <1>4, <1>6
<1> QED
  BY <1>5, <1>6, <1>7 DEF IsPlan

LEMMA InitFinish ==
  Init => FinishInv
<1> SUFFICES ASSUME Init PROVE FinishInv
  OBVIOUS
<1>1. BoardInv
  <2>1. PICK b \in Boards : \E clips \in {PlanDurations(b.clips), Unplanned(b.clips)} :
                              board = [clips |-> clips, narration |-> b.narration]
    BY DEF Init
  <2>2. PICK clips \in {PlanDurations(b.clips), Unplanned(b.clips)} :
               board = [clips |-> clips, narration |-> b.narration]
    BY <2>1
  <2> DEFINE n == Len(b.clips)
  <2>3. n \in Nat \ {0} /\ DOMAIN b.clips = 1..n /\ b.narration \in Seq(Nat)
    BY BoardsAssumption
  <2> HIDE DEF n
  <2>4. DOMAIN clips = 1..n /\ \A i \in 1..n : clips[i].dur \in {5, 10}
    <3>1. \A c : PickDuration(c) \in {5, 10}
      BY DEF PickDuration
    <3>2. CASE clips = PlanDurations(b.clips)
      BY <2>3, <3>1, <3>2 DEF PlanDurations
    <3>3. CASE clips = Unplanned(b.clips)
      BY <2>3, <3>3 DEF Unplanned
    <3> QED
      BY <2>2, <3>2, <3>3
  <2>5. Seconds(clips) \in Nat \ {0} /\ clips[1].dur \in Nat \ {0}
    BY <2>3, <2>4, SecondsPlanned
  <2>6. board.clips = clips /\ board.narration = b.narration
    BY <2>2
  <2>7. IsPlan(clips)
    BY <2>2, PlannedClips
  <2> QED
    BY <2>3, <2>5, <2>6, <2>7 DEF BoardInv
<1>2. /\ pc = "join" /\ voice.len = 0 /\ ~film.voice
  BY SilentFilm DEF Init, NoVoice
<1>3. TypeInv
  <2>1. joined \in [len : Nat, whole : BOOLEAN]
    BY DEF Init
  <2>2. stream \in Streams
    BY DEF Init, NoStream, Streams, Parts
  <2>3. voice \in Voices
    BY DEF Init, NoVoice, Voices, Timings, Parts
  <2>4. sounds \in [effects : Effects \cup {<<>>}, music : Musics]
    BY DEF Init, NoSounds, Musics
  <2>5. film \in Film
    BY SilentFilm DEF Init
  <2>6. /\ blind \in BOOLEAN /\ burned \in {FALSE, BurnCaptions} /\ cover \in BOOLEAN
        /\ told \subseteq {"voice", "music", "cover", "id"}
    BY DEF Init
  <2>7. pc \in Stages /\ rescue \in Strategy
    BY DEF Init, Stages, Strategy
  <2> QED
    BY <2>1, <2>2, <2>3, <2>4, <2>5, <2>6, <2>7 DEF TypeInv
<1>4. FilmInv
  BY <1>2 DEF FilmInv
<1>5. CutIsSmall /\ TriedInv
  BY <1>2 DEF CutIsSmall, Leaving, TriedInv
<1> QED
  BY <1>1, <1>3, <1>4, <1>5 DEF FinishInv

---------------------------------------------------------------------------
(* Up to the mix.                                                          *)

LEMMA JoinFinish ==
  ASSUME FinishInv, Join
  PROVE  FinishInv'
<1> USE DEF FinishInv
<1>1. /\ pc = "join" /\ ~film.voice /\ voice.len = 0
      /\ UNCHANGED <<board, voice, sounds, rescue, blind, packed>>
  BY DEF Join, FilmInv
<1>2. PICK whole \in BOOLEAN :
        LET len == IF whole THEN Seconds(board.clips) ELSE 10 * board.clips[1].dur
        IN  joined' = [len |-> len, whole |-> whole] /\ film' = Silent(len)
  BY DEF Join
<1> DEFINE len == IF whole THEN Seconds(board.clips) ELSE 10 * board.clips[1].dur
<1>3. len \in Nat \ {0}
  BY DEF BoardInv
<1>4. joined' = [len |-> len, whole |-> whole] /\ film' = Silent(len)
  BY <1>2
<1> HIDE DEF len
<1>5. /\ joined' \in [len : Nat, whole : BOOLEAN] /\ joined'.len > 0
      /\ film' \in Film /\ ~film'.voice
  BY <1>3, <1>4, SilentFilm
<1>6. /\ pc' \in {"sound", "speak"} /\ (pc' = "speak" => board.narration # <<>>)
      /\ stream' \in {stream, [stage |-> "connection", audio |-> 0, raws |-> <<>>]}
  BY DEF Join
<1>7. stream' \in Streams
  BY <1>6 DEF TypeInv, Streams, Parts
<1>8. BoardInv'
  BY <1>1 DEF BoardInv
<1>9. TypeInv'
  BY <1>1, <1>5, <1>6, <1>7 DEF TypeInv, Stages, packed
<1>10. FilmInv' /\ CutIsSmall' /\ TriedInv'
  BY <1>1, <1>5, <1>6 DEF FilmInv, CutIsSmall, Leaving, TriedInv
<1> QED
  BY <1>8, <1>9, <1>10

\* Frames of the speech service change nothing but the stream.
LEMMA StreamFinish ==
  ASSUME FinishInv, Handshake \/ AudioFrame \/ WordsFrame
  PROVE  FinishInv'
<1> USE DEF FinishInv
<1>1. UNCHANGED <<pc, board, joined, voice, sounds, film, rescue, blind, packed>>
  BY DEF Handshake, AudioFrame, WordsFrame
<1>2. stream' \in Streams
  <2>1. CASE Handshake
    BY <2>1 DEF Handshake, TypeInv, Streams
  <2>2. CASE AudioFrame
    BY <2>2 DEF AudioFrame, TypeInv, Streams, Parts
  <2>3. CASE WordsFrame
    <3>1. PICK raws \in RawWords : stream' = [stream EXCEPT !.raws = raws]
      BY <2>3 DEF WordsFrame
    <3> QED
      BY <3>1 DEF TypeInv, Streams
  <2> QED
    BY <2>1, <2>2, <2>3
<1>3. BoardInv' /\ TypeInv'
  BY <1>1, <1>2 DEF BoardInv, TypeInv, packed
<1>4. FilmInv' /\ CutIsSmall' /\ TriedInv'
  BY <1>1 DEF FilmInv, CutIsSmall, Leaving, TriedInv, Fitted
<1> QED
  BY <1>3, <1>4

LEMMA SpeechFailsFinish ==
  ASSUME FinishInv, SpeechFails
  PROVE  FinishInv'
<1> USE DEF FinishInv
<1>1. /\ pc = "speak" /\ pc' = "sound" /\ stream' = NoStream
      /\ UNCHANGED <<board, joined, voice, sounds, film, rescue, blind, packed>>
  BY DEF SpeechFails
<1>2. stream' \in Streams
  BY <1>1 DEF NoStream, Streams, Parts
<1>3. BoardInv' /\ TypeInv'
  BY <1>1, <1>2 DEF BoardInv, TypeInv, packed, Stages
<1>4. FilmInv' /\ CutIsSmall' /\ TriedInv'
  BY <1>1 DEF FilmInv, CutIsSmall, Leaving, TriedInv
<1> QED
  BY <1>3, <1>4

LEMMA SpeechEndsFinish ==
  ASSUME FinishInv, SpeechEnds
  PROVE  FinishInv'
<1> USE DEF FinishInv
<1>1. /\ pc = "speak" /\ pc' = "sound" /\ stream' = NoStream
      /\ UNCHANGED <<board, joined, sounds, film, rescue, blind, packed>>
  BY DEF SpeechEnds
<1>2. PICK d \in Drifts :
        LET len == ((Seconds(board.clips) + d) * stream.audio) \div Parts
        IN  len > 0 /\ voice' = [len |-> len, parts |-> stream.audio,
                                 words |-> WordTimestamps(stream.raws)]
  BY DEF SpeechEnds
<1> DEFINE len == ((Seconds(board.clips) + d) * stream.audio) \div Parts
<1>3. len \in Int /\ stream.audio \in 0..Parts /\ WordTimestamps(stream.raws) \in Timings
  <2>1. d \in Int /\ Seconds(board.clips) \in Int /\ stream.audio \in 0..2 /\ Parts = 2
    BY DriftsAssumption DEF BoardInv, TypeInv, Streams, Parts
  <2>2. (Seconds(board.clips) + d) * stream.audio \in Int
    BY <2>1
  <2>3. len \in Int
    BY <2>1, <2>2
  <2>4. WordTimestamps(stream.raws) \in Timings
    BY DEF Timings, TypeInv, Streams
  <2> QED
    BY <2>1, <2>3, <2>4
<1>4. len > 0 /\ voice' = [len |-> len, parts |-> stream.audio,
                           words |-> WordTimestamps(stream.raws)]
  BY <1>2
<1> HIDE DEF len
<1>5. voice' \in Voices /\ voice'.len > 0
  BY <1>3, <1>4 DEF Voices
<1>6. stream' \in Streams
  BY <1>1 DEF NoStream, Streams, Parts
<1>7. BoardInv' /\ TypeInv'
  BY <1>1, <1>5, <1>6 DEF BoardInv, TypeInv, packed, Stages
<1>8. FilmInv' /\ CutIsSmall' /\ TriedInv'
  BY <1>1 DEF FilmInv, CutIsSmall, Leaving, TriedInv
<1> QED
  BY <1>7, <1>8

LEMMA ChooseSoundsFinish ==
  ASSUME FinishInv, ChooseSounds
  PROVE  FinishInv'
<1> USE DEF FinishInv
<1>1. /\ pc = "sound" /\ UNCHANGED <<board, joined, stream, voice, film, rescue, blind, packed>>
  BY DEF ChooseSounds
<1>2. PICK effects \in Effects, music \in Musics :
        /\ sounds' = [effects |-> effects, music |-> music]
        /\ pc' = IF voice.len > 0 \/ effects # <<>> \/ music THEN "mix" ELSE "caption"
  BY DEF ChooseSounds
<1>3. sounds' \in [effects : Effects \cup {<<>>}, music : Musics] /\ pc' \in {"mix", "caption"}
  BY <1>2
<1>4. BoardInv' /\ TypeInv'
  BY <1>1, <1>3 DEF BoardInv, TypeInv, packed, Stages
<1>5. FilmInv' /\ CutIsSmall' /\ TriedInv'
  BY <1>1, <1>3 DEF FilmInv, CutIsSmall, Leaving, TriedInv
<1> QED
  BY <1>4, <1>5

\* A sound that can be heard is one of those that were chosen.
LEMMA FirstHeard ==
  ASSUME NEW effects \in Effects \cup {<<>>}, Heard(effects) # {}
  PROVE  Sound(effects[Min(Heard(effects))]) \in Nat
<1> DEFINE E == [delay : Nat, dur : Nat, file : Nat]
           index == Min(Heard(effects))
<1>1. effects \in Seq(E)
  <2>1. Effects \subseteq Seq(E)
    BY EffectsAssumption
  <2> HIDE DEF E
  <2>2. <<>> \in Seq(E)
    OBVIOUS
  <2> QED
    BY <2>1, <2>2
<1> HIDE DEF E
<1>2. Heard(effects) \in SUBSET Nat /\ Heard(effects) \subseteq DOMAIN effects
  BY <1>1 DEF Heard
<1>3. \E x \in Heard(effects) : \A y \in Heard(effects) : x <= y
  BY <1>2, Least
<1>4. index \in Heard(effects)
  BY <1>3 DEF Min
<1> HIDE DEF index
<1>5. index \in DOMAIN effects
  BY <1>2, <1>4
<1>6. effects[index] \in E
  BY <1>1, <1>5
<1>7. effects[index].delay \in Nat /\ effects[index].dur \in Nat /\ effects[index].file \in Nat
  BY <1>6 DEF E
<1> QED
  BY <1>7 DEF Sound, Lower, index

LEMMA MixedFilm ==
  ASSUME FinishInv, pc = "mix"
  PROVE  LET mixed == MixedWith(sounds.effects)
         IN  /\ mixed \in Film
             /\ voice.len = 0 => ~mixed.voice
             /\ voice.len > 0 => mixed = Spoken(joined.len, voice.len)
<1> DEFINE mixed == MixedWith(sounds.effects)
<1>1. joined.len \in Nat /\ voice.len \in Nat /\ sounds.effects \in Effects \cup {<<>>}
  BY DEF FinishInv, TypeInv, Voices
<1>2. CASE voice.len > 0
  <2>1. mixed = Spoken(joined.len, voice.len)
    BY <1>1, <1>2 DEF MixedWith
  <2> QED
    BY <1>1, <1>2, <2>1, SpokenFilm
<1>3. CASE voice.len = 0 /\ ~sounds.music /\ Heard(sounds.effects) # {}
  <2> DEFINE first == Sound(sounds.effects[Min(Heard(sounds.effects))])
  <2>1. mixed = Sounding(joined.len, first)
    BY <1>3 DEF MixedWith
  <2>2. first \in Nat
    BY <1>1, <1>3, FirstHeard
  <2> HIDE DEF first
  <2>3. Lower(joined.len, first) \in Nat /\ Higher(0, joined.len - first) \in Nat
    BY <1>1, <2>2 DEF Lower, Higher
  <2> DEFINE silent == Silent(Lower(joined.len, first))
  <2>4. silent \in Film /\ ~silent.voice
    BY <2>3, SilentFilm
  <2>5. mixed = [silent EXCEPT !.cut = Higher(0, joined.len - first)]
    BY <2>1 DEF Sounding
  <2> HIDE DEF silent, mixed
  <2>6. mixed \in Film /\ ~mixed.voice
    BY <2>3, <2>4, <2>5 DEF Film
  <2> QED
    BY <1>3, <2>6 DEF mixed
<1>4. CASE voice.len = 0 /\ ~(~sounds.music /\ Heard(sounds.effects) # {})
  <2>1. mixed = Silent(joined.len)
    BY <1>4 DEF MixedWith
  <2> QED
    BY <1>1, <1>4, <2>1, SilentFilm
<1> QED
  BY <1>1, <1>2, <1>3, <1>4

LEMMA MixFinish ==
  ASSUME FinishInv, Mix
  PROVE  FinishInv'
<1> USE DEF FinishInv
<1>1. /\ pc = "mix"
      /\ UNCHANGED <<board, joined, stream, voice, sounds, rescue, blind, packed>>
  BY DEF Mix
<1>2. BoardInv'
  BY <1>1 DEF BoardInv
<1>3. CASE pc' = "caption" /\ UNCHANGED film
  BY <1>1, <1>2, <1>3 DEF TypeInv, packed, Stages, FilmInv, CutIsSmall, Leaving, TriedInv
<1>4. CASE /\ film' = [MixedWith(sounds.effects) EXCEPT !.music = sounds.music]
           /\ pc' = IF voice.len > 0 THEN "compare" ELSE "caption"
  <2> DEFINE mixed == MixedWith(sounds.effects)
  <2>1. /\ mixed \in Film
        /\ voice.len = 0 => ~mixed.voice
        /\ voice.len > 0 => mixed = Spoken(joined.len, voice.len)
    BY <1>1, MixedFilm
  <2>2. film' = [mixed EXCEPT !.music = sounds.music] /\ sounds.music \in BOOLEAN
    BY <1>4, SwitchesAssumption DEF TypeInv, Musics
  <2> HIDE DEF mixed
  <2>3. /\ film' \in Film /\ film'.voice = mixed.voice /\ film'.lost = mixed.lost
        /\ film'.cut = mixed.cut
    BY <2>1, <2>2 DEF Film
  <2>4. voice.len \in Nat /\ joined.len \in Nat
    BY DEF TypeInv, Voices
  <2>5. CASE voice.len > 0
    <3>1. /\ film'.lost = Higher(0, voice.len - joined.len)
          /\ film'.cut = Higher(0, joined.len - voice.len)
      BY <2>1, <2>3, <2>4, <2>5, SpokenFilm
    <3>2. TypeInv' /\ FilmInv'
      BY <1>1, <1>4, <2>3, <2>5, <3>1 DEF TypeInv, packed, Stages, FilmInv
    <3> QED
      BY <1>2, <1>4, <2>5, <3>2 DEF CutIsSmall, Leaving, TriedInv
  <2>6. CASE voice.len = 0
    <3>1. pc' = "caption" /\ ~film'.voice
      BY <1>4, <2>1, <2>3, <2>6
    <3> QED
      BY <1>1, <1>2, <2>3, <3>1 DEF TypeInv, packed, Stages, FilmInv, CutIsSmall, Leaving, TriedInv
  <2> QED
    BY <2>4, <2>5, <2>6
<1> QED
  BY <1>3, <1>4 DEF Mix

---------------------------------------------------------------------------
(* The comparison and the rescue.                                          *)

LEMMA CompareFinish ==
  ASSUME FinishInv, Compare
  PROVE  FinishInv'
<1> USE DEF FinishInv
<1>1. /\ pc = "compare" /\ voice.len > 0 /\ joined.len > 0
      /\ voice.len \in Nat /\ joined.len \in Nat /\ film \in Film
      /\ UNCHANGED <<board, joined, stream, voice, sounds, packed>>
  BY DEF Compare, FilmInv, TypeInv, Voices
<1>2. PICK p \in Probed(joined.len), v \in Probed(voice.len) :
        /\ blind' = (Failed(p, joined.len) \/ Failed(v, voice.len))
        /\ IF Severity(Drift(p, v)) = "hard_fail"
           THEN pc' = "rescue" /\ rescue' = Strategies(Drift(p, v))
           ELSE pc' = "caption" /\ UNCHANGED rescue
        /\ \/ /\ Severity(Drift(p, v)) = "soft_fix" /\ Drift(p, v) < 0
              /\ film' = [film EXCEPT !.pictures = Lower(@, v)]
           \/ UNCHANGED film
  BY DEF Compare
<1>3. p \in Nat /\ v \in Nat /\ Drift(p, v) \in Int
  BY <1>1 DEF Probed, Drift
<1>4. ~blind' => p = joined.len /\ v = voice.len /\ Drift(p, v) = voice.len - joined.len
  <2>1. ~blind' => p = joined.len /\ v = voice.len
    BY <1>2 DEF Failed
  <2> QED
    BY <1>1, <2>1 DEF Drift
<1>5. /\ film' \in Film /\ film'.lost = film.lost /\ film'.cut = film.cut
      /\ film'.voice = film.voice
  <2>1. Lower(film.pictures, v) \in Nat
    BY <1>1, <1>3 DEF Lower, Film
  <2> QED
    BY <1>1, <1>2, <2>1 DEF Film
<1>6. film.lost = Higher(0, voice.len - joined.len) /\ film.cut = Higher(0, joined.len - voice.len)
  BY <1>1 DEF FilmInv
<1>7. BoardInv'
  BY <1>1 DEF BoardInv
<1>8. CASE Severity(Drift(p, v)) = "hard_fail"
  <2>1. pc' = "rescue" /\ rescue' = Strategies(Drift(p, v))
    BY <1>2, <1>8
  <2>2. Strategies(Drift(p, v)) \in Strategy
    BY DEF Strategies, Strategy
  <2>3. Abs(Drift(p, v)) <= 80 => Strategies(Drift(p, v)) \notin {<<>>, <<"rewrite">>}
    BY <1>3 DEF Strategies, Abs
  <2>4. TypeInv'
    BY <1>1, <1>2, <1>5, <2>1, <2>2 DEF TypeInv, packed, Stages
  <2>5. FilmInv'
    BY <1>1, <1>5, <1>6, <2>1 DEF FilmInv
  <2>6. TriedInv'
    BY <1>1, <1>4, <2>1, <2>3 DEF TriedInv
  <2> QED
    BY <1>7, <2>1, <2>4, <2>5, <2>6 DEF CutIsSmall, Leaving
<1>9. CASE Severity(Drift(p, v)) # "hard_fail"
  <2>1. pc' = "caption" /\ UNCHANGED rescue
    BY <1>2, <1>9
  <2>2. Drift(p, v) <= 12 /\ -12 <= Drift(p, v)
    BY <1>3, <1>9 DEF Severity, Abs
  <2>3. ~blind' => film'.lost <= 12 /\ film'.cut <= 12
    BY <1>1, <1>4, <1>5, <1>6, <2>2 DEF Higher
  <2>4. TypeInv'
    BY <1>1, <1>2, <1>5, <2>1 DEF TypeInv, packed, Stages
  <2>5. FilmInv'
    BY <1>1, <2>1 DEF FilmInv
  <2> QED
    BY <1>7, <2>1, <2>3, <2>4, <2>5 DEF CutIsSmall, TriedInv
<1> QED
  BY <1>8, <1>9

\* A narration that is not empty has characters: at least the one that ends a part of it.
LEMMA CharsPositive ==
  ASSUME NEW s \in Seq(Nat), Len(s) \in Nat \ {0}
  PROVE  Chars(s) \in Nat \ {0}
<1>1. Total(s) \in Nat
  BY TotalNumbers
<1>2. Chars(s) = Total(s) + Len(s)
  BY DEF Chars
<1> QED
  BY <1>1, <1>2

\* What any try knows of the film before it.
LEMMA Rescuing ==
  ASSUME FinishInv, pc = "rescue"
  PROVE  /\ voice.len \in Nat \ {0} /\ joined.len \in Nat \ {0} /\ blind \in BOOLEAN
         /\ board.narration # <<>>
         /\ rescue # <<>> =>
              /\ Tail(rescue) \in Strategy
              /\ Head(rescue) = "tempo" => Tail(rescue) = <<"pad", "rewrite">>
              /\ Head(rescue) = "pad" => Tail(rescue) = <<"rewrite">>
              /\ Head(rescue) = "rewrite" => rescue = <<"rewrite">> /\ Tail(rescue) = <<>>
<1>1. /\ voice.len \in Nat \ {0} /\ joined.len \in Nat \ {0} /\ blind \in BOOLEAN
      /\ board.narration # <<>> /\ rescue \in Strategy
  BY DEF FinishInv, FilmInv, TypeInv, Voices
<1>2. CASE rescue = <<>>
  BY <1>1, <1>2
<1>3. CASE rescue = <<"rewrite">>
  <2>1. Head(rescue) = "rewrite" /\ Tail(rescue) = <<>>
    BY <1>3
  <2> QED
    BY <1>1, <1>3, <2>1 DEF Strategy
<1>4. CASE rescue = <<"pad", "rewrite">>
  <2>1. Head(rescue) = "pad" /\ Tail(rescue) = <<"rewrite">>
    BY <1>4
  <2> QED
    BY <1>1, <2>1 DEF Strategy
<1>5. CASE rescue = <<"tempo", "pad", "rewrite">>
  <2>1. Head(rescue) = "tempo" /\ Tail(rescue) = <<"pad", "rewrite">>
    BY <1>5
  <2> QED
    BY <1>1, <2>1 DEF Strategy
<1> QED
  BY <1>1, <1>2, <1>3, <1>4, <1>5 DEF Strategy

\* A rescue that is verified by what can be measured leaves little out.
LEMMA RescuedFinish ==
  ASSUME FinishInv, pc = "rescue", NEW pictures \in Nat, NEW len \in Nat,
         NEW q \in Probed(pictures), NEW w \in Probed(len), Verified(q, w),
         Rescued(pictures, len), blind' \in BOOLEAN,
         ~blind' => len > 0 /\ q = pictures /\ w = len,
         UNCHANGED <<board, joined, stream, voice, sounds, packed>>
  PROVE  FinishInv'
<1> USE DEF FinishInv
<1>1. pc' = "caption" /\ rescue' = <<>> /\ film' = Spoken(pictures, len)
  BY DEF Rescued
<1>2. film' \in Film /\ (~blind' => film'.lost <= 12 /\ film'.cut <= 12)
  BY <1>1, SpokenFilm
<1>3. BoardInv' /\ TypeInv'
  BY <1>1, <1>2 DEF BoardInv, TypeInv, packed, Stages, Strategy
<1>4. FilmInv'
  BY <1>1 DEF FilmInv
<1> QED
  BY <1>1, <1>2, <1>3, <1>4 DEF CutIsSmall, TriedInv

\* A try that does not help leaves the others.
LEMMA NextStrategyFinish ==
  ASSUME FinishInv, pc = "rescue", rescue # <<>>, NextStrategy, blind' \in BOOLEAN,
         UNCHANGED <<board, joined, stream, voice, sounds, packed>>, TriedInv'
  PROVE  FinishInv'
<1> USE DEF FinishInv
<1>1. pc' = "rescue" /\ rescue' = Tail(rescue) /\ UNCHANGED film
  BY DEF NextStrategy
<1>2. Tail(rescue) \in Strategy
  BY Rescuing
<1>3. BoardInv' /\ TypeInv'
  BY <1>1, <1>2 DEF BoardInv, TypeInv, packed
<1>4. FilmInv'
  BY <1>1 DEF FilmInv
<1> QED
  BY <1>1, <1>3, <1>4 DEF CutIsSmall, Leaving

LEMMA StrategyFailsFinish ==
  ASSUME FinishInv, StrategyFails
  PROVE  FinishInv'
<1>1. /\ pc = "rescue" /\ rescue # <<>> /\ NextStrategy /\ blind' = TRUE
      /\ UNCHANGED <<board, joined, stream, voice, sounds, packed>>
  BY DEF StrategyFails
<1>2. TriedInv'
  BY <1>1 DEF TriedInv
<1> QED
  BY <1>1, <1>2, NextStrategyFinish

LEMMA RescueByTempoFinish ==
  ASSUME FinishInv, RescueByTempo
  PROVE  FinishInv'
<1>1. /\ pc = "rescue" /\ rescue # <<>> /\ Head(rescue) = "tempo"
      /\ UNCHANGED <<board, joined, stream, voice, sounds, packed>>
  BY DEF RescueByTempo
<1>2. PICK p \in Probed(joined.len), v \in Probed(voice.len), q \in Probed(joined.len) :
        \E w \in Probed(Sped(voice.len, Tempo(p, v))) :
          /\ blind' = (blind \/ <<p, v, q, w>> # <<joined.len, voice.len, joined.len,
                                                   Sped(voice.len, Tempo(p, v))>>)
          /\ IF Verified(q, w) THEN Rescued(joined.len, Sped(voice.len, Tempo(p, v)))
             ELSE NextStrategy
  BY DEF RescueByTempo
<1> DEFINE len == Sped(voice.len, Tempo(p, v))
<1>3. PICK w \in Probed(len) :
        /\ blind' = (blind \/ <<p, v, q, w>> # <<joined.len, voice.len, joined.len, len>>)
        /\ IF Verified(q, w) THEN Rescued(joined.len, len) ELSE NextStrategy
  BY <1>2
<1>4. voice.len \in Nat \ {0} /\ joined.len \in Nat \ {0} /\ blind \in BOOLEAN
      /\ Tail(rescue) = <<"pad", "rewrite">>
  BY <1>1, Rescuing
<1>5. len \in Nat
  <2>1. p \in Nat /\ v \in Nat
    BY <1>4 DEF Probed
  <2> QED
    BY <1>4, <2>1, TempoType
<1>6. p = joined.len /\ v = voice.len => len > 0
  <2>1. Sped(voice.len, Tempo(joined.len, voice.len)) \in Nat \ {0}
    BY <1>4, SpedFits
  <2> QED
    BY <2>1
<1> HIDE DEF len
<1>7. blind' \in BOOLEAN /\ (~blind' => len > 0 /\ q = joined.len /\ w = len)
  BY <1>3, <1>6
<1>8. CASE Verified(q, w)
  BY <1>1, <1>3, <1>4, <1>5, <1>7, <1>8, RescuedFinish
<1>9. CASE ~Verified(q, w)
  <2>1. NextStrategy
    BY <1>3, <1>9
  <2>2. pc' = "rescue" /\ rescue' = <<"pad", "rewrite">>
    BY <1>1, <1>4, <2>1 DEF NextStrategy
  <2>3. <<"pad", "rewrite">> \notin {<<>>, <<"rewrite">>}
    OBVIOUS
  <2>4. TriedInv'
    BY <2>2, <2>3 DEF TriedInv
  <2> QED
    BY <1>1, <1>7, <2>1, <2>4, NextStrategyFinish
<1> QED
  BY <1>8, <1>9

LEMMA RescueByPadFinish ==
  ASSUME FinishInv, RescueByPad
  PROVE  FinishInv'
<1>1. /\ pc = "rescue" /\ rescue # <<>> /\ Head(rescue) = "pad"
      /\ UNCHANGED <<board, joined, stream, voice, sounds, packed>>
  BY DEF RescueByPad
<1>2. PICK p \in Probed(joined.len), v \in Probed(voice.len) :
        \E u \in Probed(Sped(voice.len, Tempo(p, v))) :
        \E q \in Probed(joined.len + Pad(p, u)), w \in Probed(Sped(voice.len, Tempo(p, v))) :
          /\ blind' = (blind \/ <<p, v, u, q, w>>
                                  # <<joined.len, voice.len, Sped(voice.len, Tempo(p, v)),
                                      joined.len + Pad(p, u), Sped(voice.len, Tempo(p, v))>>)
          /\ IF Verified(q, w)
             THEN Rescued(joined.len + Pad(p, u), Sped(voice.len, Tempo(p, v)))
             ELSE NextStrategy
  BY DEF RescueByPad
<1> DEFINE len == Sped(voice.len, Tempo(p, v))
<1>3. PICK u \in Probed(len) :
        \E q \in Probed(joined.len + Pad(p, u)), w \in Probed(len) :
          /\ blind' = (blind \/ <<p, v, u, q, w>>
                                  # <<joined.len, voice.len, len, joined.len + Pad(p, u), len>>)
          /\ IF Verified(q, w) THEN Rescued(joined.len + Pad(p, u), len) ELSE NextStrategy
  BY <1>2
<1> DEFINE padded == joined.len + Pad(p, u)
<1>4. PICK q \in Probed(padded), w \in Probed(len) :
        /\ blind' = (blind \/ <<p, v, u, q, w>> # <<joined.len, voice.len, len, padded, len>>)
        /\ IF Verified(q, w) THEN Rescued(padded, len) ELSE NextStrategy
  BY <1>3
<1>5. voice.len \in Nat \ {0} /\ joined.len \in Nat \ {0} /\ blind \in BOOLEAN
      /\ Tail(rescue) = <<"rewrite">>
  BY <1>1, Rescuing
<1>6. p \in Nat /\ v \in Nat
  BY <1>5 DEF Probed
<1>7. len \in Nat
  BY <1>5, <1>6, TempoType
<1>8. p = joined.len /\ v = voice.len => len > 0
  <2>1. Sped(voice.len, Tempo(joined.len, voice.len)) \in Nat \ {0}
    BY <1>5, SpedFits
  <2> QED
    BY <2>1
<1>9. p = joined.len /\ v = voice.len => len = Fitted
  BY DEF Fitted
<1> HIDE DEF len
<1>10. padded \in Nat
  <2>1. u \in Nat
    BY <1>7 DEF Probed
  <2>2. Pad(p, u) \in Nat
    BY <1>6, <2>1 DEF Pad, Higher, Lower, PadMax
  <2> QED
    BY <1>5, <2>2
<1>11. ~blind' => /\ p = joined.len /\ v = voice.len /\ u = len /\ q = padded /\ w = len
  BY <1>4
<1>12. blind' \in BOOLEAN
  BY <1>4
<1>13. CASE Verified(q, w)
  <2>1. Rescued(padded, len)
    BY <1>4, <1>13
  <2> HIDE DEF padded
  <2> QED
    BY <1>1, <1>7, <1>8, <1>10, <1>11, <1>12, <1>13, <2>1, RescuedFinish
<1>14. CASE ~Verified(q, w)
  <2>1. NextStrategy
    BY <1>4, <1>14
  <2>2. ~blind' => ~Verified(joined.len + Pad(joined.len, Fitted), Fitted)
    BY <1>9, <1>11, <1>14
  <2>3. Fitted' = Fitted
    BY <1>1 DEF Fitted
  <2>4. TriedInv'
    BY <1>1, <2>2, <2>3 DEF TriedInv
  <2> QED
    BY <1>1, <1>12, <2>1, <2>4, NextStrategyFinish
<1> QED
  BY <1>13, <1>14

LEMMA RescueByRewriteFinish ==
  ASSUME FinishInv, RescueByRewrite
  PROVE  FinishInv'
<1> DEFINE old == Chars(board.narration)
<1>1. /\ pc = "rescue" /\ rescue # <<>> /\ Head(rescue) = "rewrite"
      /\ UNCHANGED <<board, joined, stream, voice, sounds, packed>>
  BY DEF RescueByRewrite
<1>2. /\ voice.len \in Nat \ {0} /\ joined.len \in Nat \ {0} /\ blind \in BOOLEAN
      /\ board.narration # <<>> /\ rescue = <<"rewrite">>
  BY <1>1, Rescuing
<1>3. NextStrategy /\ (~blind' => ~blind) => TriedInv'
  <2>1. Fitted' = Fitted
    BY <1>1 DEF Fitted
  <2>2. TriedInv
    BY DEF FinishInv
  <2> QED
    BY <1>1, <1>2, <2>1, <2>2 DEF TriedInv, NextStrategy
<1>4. PICK p \in Probed(joined.len), v \in Probed(voice.len) :
       IF p = 0 \/ v = 0 THEN NextStrategy /\ blind' = TRUE
       ELSE \E chars \in {RewriteTarget(old, p, v), Lower(RewriteTarget(old, p, v), old)},
               slower \in {-10, 0, 10} :
              LET len == Higher(1, (voice.len * chars) \div old + slower)
              IN  \E q \in Probed(joined.len), w \in Probed(len) :
                    /\ blind' = (blind \/ q = 0 \/ w = 0)
                    /\ IF Verified(q, w) THEN Rescued(joined.len, len) ELSE NextStrategy
  BY DEF RescueByRewrite
<1>5. old \in Nat \ {0}
  <2>1. board.narration \in Seq(Nat) /\ Len(board.narration) \in Nat \ {0}
    BY <1>2 DEF FinishInv, BoardInv
  <2> QED
    BY <2>1, CharsPositive
<1> HIDE DEF old
<1>6. CASE p = 0 \/ v = 0
  <2>1. NextStrategy /\ blind' = TRUE
    BY <1>4, <1>6
  <2> QED
    BY <1>1, <1>3, <2>1, NextStrategyFinish
<1>7. CASE p # 0 /\ v # 0
  <2>1. PICK chars \in {RewriteTarget(old, p, v), Lower(RewriteTarget(old, p, v), old)},
             slower \in {-10, 0, 10} :
              LET len == Higher(1, (voice.len * chars) \div old + slower)
              IN  \E q \in Probed(joined.len), w \in Probed(len) :
                    /\ blind' = (blind \/ q = 0 \/ w = 0)
                    /\ IF Verified(q, w) THEN Rescued(joined.len, len) ELSE NextStrategy
    BY <1>4, <1>7
  <2> DEFINE len == Higher(1, (voice.len * chars) \div old + slower)
  <2>2. PICK q \in Probed(joined.len), w \in Probed(len) :
          /\ blind' = (blind \/ q = 0 \/ w = 0)
          /\ IF Verified(q, w) THEN Rescued(joined.len, len) ELSE NextStrategy
    BY <2>1
  <2>3. len \in Nat \ {0}
    <3>1. p \in Nat \ {0} /\ v \in Nat \ {0}
      BY <1>2, <1>7 DEF Probed
    <3>2. RewriteTarget(old, p, v) \in Nat
      <4>1. old * p * 92 \in Nat /\ v * 100 \in Nat \ {0}
        BY <1>5, <3>1
      <4>2. (old * p * 92) \div (v * 100) \in Nat
        BY <4>1
      <4> QED
        BY <4>2 DEF RewriteTarget, Higher
    <3>3. chars \in Nat
      BY <1>5, <3>2 DEF Lower
    <3>4. voice.len * chars \in Nat
      BY <1>2, <3>3
    <3>5. (voice.len * chars) \div old \in Nat
      BY <1>5, <3>4
    <3> QED
      BY <3>5 DEF Higher
  <2> HIDE DEF len
  <2>4. /\ blind' \in BOOLEAN /\ (~blind' => ~blind)
        /\ (~blind' => len > 0 /\ q = joined.len /\ w = len)
    <3>1. blind' = (blind \/ q = 0 \/ w = 0)
      BY <2>2
    <3>2. q \in {joined.len, 0} /\ w \in {len, 0}
      BY DEF Probed
    <3>3. blind' \in BOOLEAN /\ (~blind' => ~blind)
      BY <3>1, <1>2
    <3>4. ~blind' => q # 0 /\ w # 0
      BY <3>1
    <3>5. len > 0
      BY <2>3
    <3> QED
      BY <3>2, <3>3, <3>4, <3>5
  <2>5. CASE Verified(q, w)
    BY <1>1, <1>2, <2>2, <2>3, <2>4, <2>5, RescuedFinish
  <2>6. CASE ~Verified(q, w)
    <3>1. NextStrategy
      BY <2>2, <2>6
    <3> QED
      BY <1>1, <1>3, <2>4, <3>1, NextStrategyFinish
  <2> QED
    BY <2>5, <2>6
<1> QED
  BY <1>6, <1>7

LEMMA RefuseFinish ==
  ASSUME FinishInv, Refuse
  PROVE  FinishInv'
<1> USE DEF FinishInv
<1>1. /\ pc = "rescue" /\ rescue = <<>> /\ pc' = "refused"
      /\ UNCHANGED <<board, joined, stream, voice, sounds, film, rescue, blind, packed>>
  BY DEF Refuse
<1>2. BoardInv' /\ TypeInv'
  BY <1>1 DEF BoardInv, TypeInv, packed, Stages
<1>3. FilmInv' /\ CutIsSmall'
  BY <1>1 DEF FilmInv, CutIsSmall, Leaving
<1>4. TriedInv'
  BY <1>1 DEF TriedInv, Fitted
<1> QED
  BY <1>2, <1>3, <1>4

---------------------------------------------------------------------------
(* Captions, cover, judgement and sending leave the film as it is.         *)

LEMMA PackedFinish ==
  ASSUME FinishInv, Caption \/ MakeCover \/ Judge \/ SendFilm
  PROVE  FinishInv'
<1> USE DEF FinishInv
<1>1. /\ pc \in {"caption", "cover", "judge", "send"}
      /\ pc' \in {"cover", "judge", "send", "done", "raised"}
      /\ UNCHANGED <<board, joined, stream, film, rescue, blind>>
  BY DEF Caption, MakeCover, Judge, SendFilm
<1>2. voice' \in {voice, [voice EXCEPT !.words = <<>>]}
  BY DEF Caption, MakeCover, Judge, SendFilm
<1>3. sounds' \in {sounds, [sounds EXCEPT !.effects = <<>>]}
  BY DEF Caption, MakeCover, Judge, SendFilm
<1>4. voice' \in Voices /\ voice'.len = voice.len
  BY <1>2 DEF TypeInv, Voices, Timings
<1>5. sounds' \in [effects : Effects \cup {<<>>}, music : Musics]
  BY <1>3 DEF TypeInv
<1>6. /\ burned' \in {FALSE, BurnCaptions} /\ cover' \in BOOLEAN
      /\ told' \subseteq {"voice", "music", "cover", "id"}
  <2>1. CASE Caption
    BY <2>1 DEF Caption, TypeInv
  <2>2. CASE MakeCover
    BY <2>2 DEF MakeCover, TypeInv
  <2>3. CASE Judge
    BY <2>3 DEF Judge, TypeInv
  <2>4. CASE SendFilm
    BY <2>4 DEF SendFilm, Summary, TypeInv
  <2> QED
    BY <2>1, <2>2, <2>3, <2>4
<1>7. BoardInv' /\ TypeInv'
  BY <1>1, <1>4, <1>5, <1>6 DEF BoardInv, TypeInv, Stages
<1>8. FilmInv'
  BY <1>1, <1>4 DEF FilmInv
<1>9. CutIsSmall' /\ TriedInv'
  BY <1>1 DEF CutIsSmall, Leaving, TriedInv
<1> QED
  BY <1>7, <1>8, <1>9

LEMMA NextFinish ==
  ASSUME FinishInv, [Next]_vars
  PROVE  FinishInv'
<1>1. CASE Next
  BY <1>1, JoinFinish, StreamFinish, SpeechFailsFinish, SpeechEndsFinish, ChooseSoundsFinish,
     MixFinish, CompareFinish, StrategyFailsFinish, RescueByTempoFinish, RescueByPadFinish,
     RescueByRewriteFinish, RefuseFinish, PackedFinish DEF Next
<1>2. CASE UNCHANGED vars
  <2>1. UNCHANGED <<pc, board, joined, stream, voice, sounds, film, rescue, blind, burned, cover,
                    told>>
    BY <1>2 DEF vars, packed
  <2>2. BoardInv' /\ TypeInv' /\ FilmInv'
    BY <2>1 DEF FinishInv, BoardInv, TypeInv, FilmInv
  <2>3. CutIsSmall' /\ TriedInv'
    BY <2>1 DEF FinishInv, CutIsSmall, Leaving, TriedInv, Fitted
  <2> QED
    BY <2>2, <2>3 DEF FinishInv
<1> QED
  BY <1>1, <1>2

LEMMA AlwaysFinishInv ==
  Spec => []FinishInv
BY InitFinish, NextFinish, PTL DEF Spec

---------------------------------------------------------------------------
(* The score of the video.                                                 *)

ScoreInv == score = <<>> \/ \E x \in KeptScores : score = <<x>>

LEMMA JudgedScore ==
  ASSUME FinishInv, Judge
  PROVE  ScoreInv'
<1>1. PICK a \in Answers, first \in Answers, second \in Answers, rhythm \in Rhythms,
           said \in {0, film.pictures} :
        LET total   == ContentTotal(a, rhythm, Chars(board.narration), TRUE)
            content == IF ContentReads(a) THEN <<Kept(total)>> ELSE <<>>
            vision  == IF Frames(said, film.pictures, 6) # {} THEN Judged(first, second, 0) ELSE Unjudged
        IN  score' = Recorded(vision, content)
  BY DEF Judge
<1> DEFINE total   == ContentTotal(a, rhythm, Chars(board.narration), TRUE)
           content == IF ContentReads(a) THEN <<Kept(total)>> ELSE <<>>
           vision  == IF Frames(said, film.pictures, 6) # {} THEN Judged(first, second, 0) ELSE Unjudged
<1>2. score' = Recorded(vision, content)
  BY <1>1
<1>3. Kept(total) \in KeptScores
  <2>1. \A i \in DOMAIN a.points : a.points[i] \in Int
    BY AnswersAssumption
  <2>2. Chars(board.narration) \in Nat
    <3>1. board.narration \in Seq(Nat)
      BY DEF FinishInv, BoardInv
    <3>2. Total(board.narration) \in Nat /\ Len(board.narration) \in Nat
      BY <3>1, TotalNumbers
    <3> QED
      BY <3>2 DEF Chars
  <2>3. total \in (-MostDeducted)..TopTotal
    BY <2>1, <2>2, ContentRange
  <2> HIDE DEF total
  <2> QED
    BY <2>3, KeptRange
<1>4. vision.valid => Kept(vision.total) \in KeptScores
  <2>1. \A x \in {first, second} : \A i \in DOMAIN x.points : x.points[i] \in Int
    BY AnswersAssumption
  <2>2. \A x \in {first, second} : VisionReads(x) => VisionScore(x, 0).total \in 0..TopTotal
    BY <2>1, VisionRange
  <2>3. vision \in {Unjudged} \cup {VisionScore(x, 0) : x \in {y \in {first, second} : VisionReads(y)}}
    BY DEF Judged
  <2>4. ~Unjudged.valid
    BY DEF Unjudged
  <2> HIDE DEF vision
  <2>5. vision.valid => vision.total \in 0..TopTotal
    BY <2>2, <2>3, <2>4
  <2>6. \A t \in 0..TopTotal : t \in (-MostDeducted)..TopTotal
    BY DEF TopTotal, MostDeducted
  <2>7. vision.valid => vision.total \in (-MostDeducted)..TopTotal
    BY <2>5, <2>6
  <2> DEFINE t == vision.total
  <2>8. t \in (-MostDeducted)..TopTotal => Kept(t) \in KeptScores
    <3> HIDE DEF t
    <3> QED
      BY KeptRange
  <2> QED
    BY <2>7, <2>8
<1> HIDE DEF vision, total
<1>5. content = <<>> \/ content = <<Kept(total)>>
  OBVIOUS
<1> HIDE DEF content
<1>6. score' = content \/ (vision.valid /\ score' = <<Kept(vision.total)>>)
  BY <1>2 DEF Recorded
<1> QED
  BY <1>3, <1>4, <1>5, <1>6 DEF ScoreInv

LEMMA NextScore ==
  ASSUME FinishInv, ScoreInv, [Next]_vars
  PROVE  ScoreInv'
<1>1. CASE Judge
  BY <1>1, JudgedScore
<1>2. CASE SendFilm
  <2>1. score' \in {score, <<>>}
    BY <1>2 DEF SendFilm
  <2> QED
    BY <2>1 DEF ScoreInv
<1>3. CASE UNCHANGED score
  BY Zenon, <1>3 DEF ScoreInv
<1>4. [Next]_vars => Judge \/ SendFilm \/ UNCHANGED score
  BY DEF Next, vars, packed, Join, SpeechFails, Handshake, AudioFrame, WordsFrame, SpeechEnds,
     ChooseSounds, Mix, Compare, StrategyFails, RescueByTempo, RescueByPad, RescueByRewrite,
     Refuse, Caption, MakeCover
<1> QED
  BY <1>1, <1>2, <1>3, <1>4

LEMMA AlwaysScoreInv ==
  Spec => []ScoreInv
<1>1. Init => ScoreInv
  BY DEF Init, ScoreInv
<1> QED
  BY <1>1, NextScore, AlwaysFinishInv, PTL DEF Spec

---------------------------------------------------------------------------
(* The theorems.                                                           *)

\* Whatever the voice's length, whichever rescue was used and whatever failed on the way, a
\* film that is sent with a voice lost at most 1.2 s of the voice and of its pictures, unless
\* a measurement failed (av_sync.py, av_sync_rescue.py): for any storyboards, voices, effects
\* and answers.
THEOREM AlwaysCutIsSmall ==
  Spec => []CutIsSmall
<1>1. FinishInv => CutIsSmall
  BY DEF FinishInv
<1> QED
  BY <1>1, AlwaysFinishInv, PTL

\* A video that is refused although every call succeeded and voice and pictures differ by no
\* more than 8 s is one that no speed between 0.85 and 1.30 and no standing picture of up to
\* five seconds would have saved: the speed that is computed, and the seconds, are the best
\* (attempt_rescue).
THEOREM AlwaysRefusedForReason ==
  Spec => []RefusedForReason
<1>1. FinishInv => RefusedForReason
  <2> SUFFICES ASSUME FinishInv, pc = "refused", ~blind, Abs(voice.len - joined.len) <= 80,
                      NEW tempo \in 85..130, NEW still \in 0..50
               PROVE  Abs((voice.len * 100) \div tempo - joined.len - still) > 12
    BY DEF RefusedForReason
  <2>1. voice.len \in Nat \ {0} /\ joined.len \in Nat \ {0}
    BY DEF FinishInv, FilmInv, TypeInv, Voices
  <2>2. ~Verified(joined.len + Pad(joined.len, Fitted), Fitted)
    BY DEF FinishInv, TriedInv
  <2> QED
    BY <2>1, <2>2, NoOtherHelps DEF Fitted
<1> QED
  BY <1>1, AlwaysFinishInv, PTL

\* Every variable has values of its kind: the stages, the session with the speech service, a
\* voice whose words end at a time, a film whose losses are never negative, the strategies
\* that are left, and a score between -25.0 and 100.0 (_finalize_after_visual_clips).
THEOREM FinishingTypeCorrect ==
  Spec => []TypeOK
<1>1. FinishInv /\ ScoreInv => TypeOK
  <2> SUFFICES ASSUME FinishInv, ScoreInv PROVE TypeOK
    OBVIOUS
  <2>1. TypeInv
    BY DEF FinishInv
  <2>2. pc \in Stages /\ rescue \in Strategy /\ film \in Film
    BY <2>1 DEF TypeInv
  <2>3. joined.len \in Nat /\ joined.whole \in BOOLEAN
    BY <2>1 DEF TypeInv
  <2>4. stream.stage \in {"closed", "connection", "session", "open"} /\ stream.audio \in 0..Parts
    BY <2>1 DEF TypeInv, Streams
  <2>5. voice.len \in Nat /\ voice.parts \in 0..Parts /\ voice.words \in Timings
    BY <2>1 DEF TypeInv, Voices
  <2>6. \A w \in Range(voice.words) : w.end \in Nat
    <3>1. voice.words \in Seq(Word)
      BY <2>5, TimingsInOrder DEF InOrder
    <3>2. \A w \in Range(voice.words) : w \in Word
      BY <3>1 DEF Range
    <3> QED
      BY <3>2 DEF Word
  <2>7. sounds.effects \in Effects \cup {<<>>} /\ sounds.music \in Musics
    BY <2>1 DEF TypeInv
  <2>8. /\ blind \in BOOLEAN /\ burned \in {FALSE, BurnCaptions} /\ cover \in BOOLEAN
        /\ told \subseteq {"voice", "music", "cover", "id"}
    BY <2>1 DEF TypeInv
  <2>9. \A n \in Range(score) : n \in KeptScores
    <3>1. CASE score = <<>>
      <4>1. Range(score) = {}
        BY <3>1 DEF Range
      <4> QED
        BY <4>1
    <3>2. CASE \E x \in KeptScores : score = <<x>>
      <4>1. PICK x \in KeptScores : score = <<x>>
        BY <3>2
      <4>2. Range(score) = {x}
        BY <4>1 DEF Range
      <4> QED
        BY <4>1, <4>2
    <3> QED
      BY <3>1, <3>2 DEF ScoreInv
  <2> QED
    BY <2>2, <2>3, <2>4, <2>5, <2>6, <2>7, <2>8, <2>9 DEF TypeOK, Stages, Strategy, Film
<1> QED
  BY <1>1, AlwaysFinishInv, AlwaysScoreInv, PTL

\* Each caption stands for a while, none begins before the one before it has ended, and one of
\* a clip stands while that clip is shown if every clip up to it has text
\* (_build_timed_captions_from_plan, _build_timed_captions_from_text): for any storyboards.
THEOREM AlwaysCaptionUnderItsClip ==
  Spec => []CaptionUnderItsClip
<1>1. FinishInv => CaptionUnderItsClip
  <2> SUFFICES ASSUME FinishInv PROVE CaptionUnderItsClip
    OBVIOUS
  <2>1. IsPlan(board.clips) /\ board.narration \in Seq(Nat) /\ Seconds(board.clips) \in Nat
    BY DEF FinishInv, BoardInv
  <2>2. CaptionSeconds \in Nat
    <3>1. voice.len \in Nat /\ InOrder(voice.words)
      BY TimingsInOrder DEF FinishInv, TypeInv, Voices
    <3>2. voice.words # <<>> => Last(voice.words).end \in Nat
      <4>1. voice.words \in Seq(Word)
        BY <3>1 DEF InOrder
      <4>2. voice.words # <<>> => Last(voice.words) \in Word
        BY <4>1 DEF Last
      <4> QED
        BY <4>2 DEF Word
    <3>3. SaidLength \in Nat
      BY <3>1, <3>2 DEF SaidLength
    <3> QED
      BY <2>1, <3>3 DEF CaptionSeconds
  <2> DEFINE clips == board.clips
             cs == BuiltCaptions
             n == Len(clips)
  <2>3. /\ Following(cs)
        /\ \A i \in 1..Len(cs) : cs[i].clip = 0 \/ Placed(cs[i], clips, n)
    BY <2>1, <2>2, PlanCaptionsFit, TextCaptionsFit DEF BuiltCaptions, RebuiltCaptions
  <2> HIDE DEF cs
  <2>4. cs \in Seq(CaptionType) /\ DOMAIN cs = 1..Len(cs)
    BY <2>3 DEF Following
  <2>5. ASSUME NEW i \in DOMAIN cs, cs[i].clip > 0,
               \A j \in 1..cs[i].clip : Captioned(board.clips[j])
        PROVE  ClipStart(cs[i].clip) <= cs[i].start /\ cs[i].end <= ClipStart(cs[i].clip + 1)
    <3> DEFINE k == cs[i].clip
    <3>1. Placed(cs[i], clips, n)
      BY <2>3, <2>4, <2>5
    <3>2. k \in 1..n /\ Cursor(clips, k) <= cs[i].start /\ cs[i].end <= Cursor(clips, k + 1)
      BY <3>1 DEF Placed
    <3>3. \A j \in 1..k : Captioned(clips[j])
      BY <2>5
    <3> HIDE DEF k
    <3>4. n \in Nat
      BY <2>1 DEF IsPlan
    <3> HIDE DEF n
    <3>5. k \in 1..(n + 1) /\ k + 1 \in 1..(n + 1) /\ \A j \in 1..(k - 1) : j \in 1..k
      BY <3>2, <3>4
    <3>6. (k + 1) - 1 = k
      BY <3>2, <3>4
    <3>7. StartOf(clips, k) = Cursor(clips, k)
      BY <2>1, <3>3, <3>5, CursorIsStart DEF n
    <3>8. StartOf(clips, k + 1) = Cursor(clips, k + 1)
      BY <2>1, <3>3, <3>5, <3>6, CursorIsStart DEF n
    <3>9. ClipStart(k) = StartOf(clips, k) /\ ClipStart(k + 1) = StartOf(clips, k + 1)
      BY DEF ClipStart, StartOf
    <3> QED
      BY <3>2, <3>7, <3>8, <3>9 DEF k
  <2> QED
    BY <2>3, <2>4, <2>5 DEF CaptionUnderItsClip, Following, cs
<1> QED
  BY <1>1, AlwaysFinishInv, PTL

\* The lines made of the voice's words stand in the words' order; once the words are stretched
\* to the film none overlaps the next, and the last ends with the film unless a word outlasts
\* the last one (_retime_word_timestamps, _group_words_to_lines): for any words.
THEOREM AlwaysLinesFitFilm ==
  Spec => []LinesFitFilm
<1>1. FinishInv => LinesFitFilm
  <2> SUFFICES ASSUME FinishInv, voice.words # <<>> PROVE LinesFitFilm
    BY DEF LinesFitFilm
  <2> DEFINE said == voice.words
             target == 100 * film.pictures
             words == Retimed(said, target)
             lines == Lines(words)
             longest == \A i \in DOMAIN said : said[i].end <= Last(said).end
  <2>1. InOrder(said)
    BY TimingsInOrder DEF FinishInv, TypeInv, Voices
  <2>2. target \in Nat
    BY DEF FinishInv, TypeInv, Film
  <2>3. Len(said) \in Nat \ {0}
    BY <2>1 DEF InOrder
  <2> HIDE DEF said, target
  <2>4. /\ Len(words) = Len(said)
        /\ \A i, j \in 1..Len(words) : i < j => words[i].start <= words[j].start
        /\ Retimes(said, target) => OneByOne(words) /\ (longest => words[Len(words)].end = target)
    <3>1. CASE Retimes(said, target)
      <4>1. /\ Len(words) = Len(said) /\ OneByOne(words)
            /\ longest => words[Len(said)].end = target
        BY <2>1, <2>2, <3>1, RetimedFits
      <4> HIDE DEF words, longest
      <4>2. Len(words) \in Nat
        BY <2>3, <4>1
      <4>3. \A i, j \in 1..Len(words) : i < j => words[i].start <= words[j].start
        BY <4>1, <4>2, OneByOneApart
      <4> QED
        BY <4>1, <4>3
    <3>2. CASE ~Retimes(said, target)
      <4>1. words = said
        BY <3>2 DEF Retimed
      <4> QED
        BY <2>1, <3>2, <4>1 DEF InOrder
    <3> QED
      BY <3>1, <3>2
  <2> HIDE DEF words, longest
  <2>5. Len(words) \in Nat \ {0}
    BY <2>3, <2>4
  <2>6. /\ \A k \in 1..(Len(lines) - 1) : lines[k].start <= lines[k + 1].start
        /\ Last(lines).end = words[Len(words)].end
        /\ OneByOne(words) => \A k \in 1..(Len(lines) - 1) : lines[k].end <= lines[k + 1].start
    BY <2>4, <2>5, LinesInOrder
  <2> HIDE DEF lines
  <2>7. /\ \A i \in 1..(Len(lines) - 1) : lines[i].start <= lines[i + 1].start
        /\ Retimes(said, target) =>
             /\ \A i \in 1..(Len(lines) - 1) : lines[i].end <= lines[i + 1].start
             /\ longest => Last(lines).end = target
    BY <2>4, <2>6
  <2> QED
    BY <2>7 DEF LinesFitFilm, said, target, words, lines, longest
<1> QED
  BY <1>1, AlwaysFinishInv, PTL
=============================================================================
