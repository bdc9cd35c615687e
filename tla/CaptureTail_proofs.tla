-------------------------- MODULE CaptureTail_proofs --------------------------
(***************************************************************************)
(* The window of captureWriter is the end of the response, for every       *)
(* window size, every response and every way of cutting it into chunks.    *)
(* The count read there is the one of the response, and a number.          *)
(***************************************************************************)
EXTENDS CaptureTail, FoldFacts, SequenceTheorems, FiniteSetTheorems, TLAPS

\* What LastBytes returns, element by element.
LEMMA LastBytesElements ==
  ASSUME NEW S, NEW s \in Seq(S), NEW n \in 0 .. Len(s)
  PROVE  /\ LastBytes(s, n) \in Seq(S)
         /\ Len(LastBytes(s, n)) = n
         /\ \A i \in 1 .. n : LastBytes(s, n)[i] = s[Len(s) - n + i]
<1> DEFINE first == Len(s) - n + 1
<1>1. /\ Len(s) \in Nat /\ n \in Nat
      /\ first \in 1 .. Len(s) + 1
  OBVIOUS
<1>2. CASE n = 0
  <2>1. LastBytes(s, n) = <<>>
    BY <1>2 DEF LastBytes
  <2> QED BY <2>1, <1>2
<1>3. CASE n # 0
  <2>1. first \in 1 .. Len(s)
    BY <1>3
  <2>2. /\ SubSeq(s, first, Len(s)) \in Seq(S)
        /\ Len(SubSeq(s, first, Len(s))) = Len(s) - first + 1
        /\ \A i \in 1 .. Len(s) - first + 1 :
             SubSeq(s, first, Len(s))[i] = s[first + i - 1]
    BY <2>1, <1>1, SubSeqProperties
  <2>3. LastBytes(s, n) = SubSeq(s, first, Len(s))
    BY DEF LastBytes
  <2> HIDE DEF first
  <2>4. first = Len(s) - n + 1
    BY DEF first
  <2> QED BY <2>2, <2>3, <2>4, <1>1
<1> QED BY <1>2, <1>3

\* The end of a sequence that was the end of a longer one, with a chunk added.
LEMMA LastBytesOfConcat ==
  ASSUME NEW S, NEW s \in Seq(S), NEW t \in Seq(S), NEW m \in 0 .. Len(s),
         NEW n \in 0 .. m + Len(t)
  PROVE  LastBytes(LastBytes(s, m) \o t, n) = LastBytes(s \o t, n)
<1> DEFINE u == LastBytes(s, m)
           a == LastBytes(u \o t, n)
           b == LastBytes(s \o t, n)
<1>1. Len(s) \in Nat /\ Len(t) \in Nat /\ m \in Nat /\ n \in Nat
  OBVIOUS
<1>2. /\ u \in Seq(S) /\ Len(u) = m
      /\ \A i \in 1 .. m : u[i] = s[Len(s) - m + i]
  BY LastBytesElements
<1>3. /\ u \o t \in Seq(S) /\ Len(u \o t) = m + Len(t)
      /\ \A i \in 1 .. m + Len(t) :
           (u \o t)[i] = IF i <= m THEN u[i] ELSE t[i - m]
  <2> HIDE DEF u
  <2> QED BY <1>2, ConcatProperties
<1>4. /\ s \o t \in Seq(S) /\ Len(s \o t) = Len(s) + Len(t)
      /\ \A i \in 1 .. Len(s) + Len(t) :
           (s \o t)[i] = IF i <= Len(s) THEN s[i] ELSE t[i - Len(s)]
  BY ConcatProperties
<1>5. n \in 0 .. Len(u \o t) /\ n \in 0 .. Len(s \o t)
  <2> HIDE DEF u
  <2> QED BY <1>1, <1>3, <1>4
<1>6. /\ a \in Seq(S) /\ Len(a) = n
      /\ \A i \in 1 .. n : a[i] = (u \o t)[m + Len(t) - n + i]
  <2>1. /\ a \in Seq(S) /\ Len(a) = n
        /\ \A i \in 1 .. n : a[i] = (u \o t)[Len(u \o t) - n + i]
    <3> HIDE DEF u
    <3> QED BY <1>3, <1>5, LastBytesElements
  <2> QED BY <2>1, <1>3
<1>7. /\ b \in Seq(S) /\ Len(b) = n
      /\ \A i \in 1 .. n : b[i] = (s \o t)[Len(s) + Len(t) - n + i]
  <2>1. /\ b \in Seq(S) /\ Len(b) = n
        /\ \A i \in 1 .. n : b[i] = (s \o t)[Len(s \o t) - n + i]
    BY <1>4, <1>5, LastBytesElements
  <2> QED BY <2>1, <1>4
<1>8. ASSUME NEW i \in 1 .. n
      PROVE  a[i] = b[i]
  <2> DEFINE j == m + Len(t) - n + i
             k == Len(s) + Len(t) - n + i
  <2>1. /\ j \in 1 .. m + Len(t) /\ k \in 1 .. Len(s) + Len(t)
        /\ j <= m <=> k <= Len(s)
        /\ k = Len(s) - m + j /\ k - Len(s) = j - m
    BY <1>1
  <2>2. a[i] = (u \o t)[j] /\ b[i] = (s \o t)[k]
    BY <1>6, <1>7
  <2> HIDE DEF a, b, u, j, k
  <2>3. CASE j <= m
    <3>1. a[i] = u[j] /\ b[i] = s[k]
      BY <2>1, <2>2, <2>3, <1>3, <1>4
    <3>2. u[j] = s[Len(s) - m + j]
      BY <1>1, <1>2, <2>1, <2>3
    <3> QED BY <3>1, <3>2, <2>1
  <2>4. CASE ~(j <= m)
    <3>1. a[i] = t[j - m] /\ b[i] = t[k - Len(s)]
      BY <2>1, <2>2, <2>4, <1>3, <1>4
    <3> QED BY <3>1, <2>1
  <2> QED BY <2>3, <2>4
<1>9. a = b
  <2> HIDE DEF a, b
  <2> QED BY <1>6, <1>7, <1>8, SeqEqual
<1> QED BY <1>9

\* All of a sequence is its own end, and the end of an appended chunk is the end
\* of the whole.
LEMMA LastBytesWhole ==
  ASSUME NEW S, NEW s \in Seq(S)
  PROVE  LastBytes(s, Len(s)) = s
<1> DEFINE a == LastBytes(s, Len(s))
<1>1. Len(s) \in 0 .. Len(s)
  OBVIOUS
<1>2. /\ a \in Seq(S) /\ Len(a) = Len(s)
      /\ \A i \in 1 .. Len(s) : a[i] = s[Len(s) - Len(s) + i]
  BY <1>1, LastBytesElements
<1>3. \A i \in 1 .. Len(s) : a[i] = s[i]
  <2> HIDE DEF a
  <2>1. \A i \in 1 .. Len(s) : Len(s) - Len(s) + i = i
    OBVIOUS
  <2> QED BY <1>2, <2>1
<1> HIDE DEF a
<1>4. a = s
  BY <1>2, <1>3, SeqEqual
<1> QED BY <1>4 DEF a

LEMMA LastBytesOfChunk ==
  ASSUME NEW S, NEW s \in Seq(S), NEW t \in Seq(S), NEW n \in 0 .. Len(t)
  PROVE  LastBytes(t, n) = LastBytes(s \o t, n)
<1>1. 0 \in 0 .. Len(s) /\ n \in 0 .. 0 + Len(t)
  OBVIOUS
<1>2. LastBytes(s, 0) \in Seq(S) /\ Len(LastBytes(s, 0)) = 0
  BY <1>1, LastBytesElements
<1>3. LastBytes(s, 0) \o t = t
  <2>1. LastBytes(s, 0) = <<>>
    BY <1>2, EmptySeq
  <2> QED BY <2>1, ConcatEmptySeq
<1>4. LastBytes(LastBytes(s, 0) \o t, n) = LastBytes(s \o t, n)
  BY <1>1, LastBytesOfConcat
<1> QED BY <1>3, <1>4

------------------------------------------------------------------------------
(* The window.                                                             *)

BodyInv == body \in Seq(Bytes) /\ TailIsSuffix

\* A chunk is a sequence of bytes with at least one of them.
LEMMA ChunkType ==
  ASSUME NEW chunk \in Chunks, body \in Seq(Bytes)
  PROVE  chunk \in Seq(Bytes) /\ Len(chunk) \in Nat \ {0}
<1>1. MaxBody - Len(body) \in Int
  BY TailAssumption
<1>2. PICK n \in 1 .. MaxBody - Len(body) : chunk \in [1 .. n -> Bytes]
  BY DEF Chunks
<1>3. n \in Nat \ {0}
  BY <1>1
<1>4. chunk \in Seq(Bytes)
  BY <1>2, <1>3
<1>5. Len(chunk) = n
  BY <1>2, <1>3, <1>4
<1> QED BY <1>3, <1>4, <1>5

\* SlideTail keeps the end of what it appends to, in each of its three cases.
LEMMA SlideTailKeepsSuffix ==
  ASSUME BodyInv, NEW chunk \in Seq(Bytes), Len(chunk) \in Nat \ {0}
  PROVE  SlideTail(chunk) =
           LastBytes(body \o chunk, Lesser(Len(body \o chunk), ResponseTailBytes))
<1> DEFINE m == Lesser(Len(body), ResponseTailBytes)
           whole == body \o chunk
           n == Lesser(Len(whole), ResponseTailBytes)
<1>1. /\ ResponseTailBytes \in Nat \ {0}
      /\ body \in Seq(Bytes) /\ Len(body) \in Nat
      /\ tail = LastBytes(body, m)
  BY TailAssumption DEF BodyInv, TailIsSuffix
<1>2. Len(whole) = Len(body) + Len(chunk) /\ whole \in Seq(Bytes)
  BY <1>1, ConcatProperties
<1>3. m \in 0 .. Len(body) /\ m <= ResponseTailBytes
  BY <1>1 DEF Lesser
<1>4. tail \in Seq(Bytes) /\ Len(tail) = m
  BY <1>1, <1>3, LastBytesElements
<1>5. tail \o chunk \in Seq(Bytes) /\ Len(tail \o chunk) = m + Len(chunk)
  BY <1>4, ConcatProperties
<1>6. CASE Len(chunk) >= ResponseTailBytes
  <2>1. SlideTail(chunk) = LastBytes(chunk, ResponseTailBytes)
    BY <1>6 DEF SlideTail
  <2>2. n = ResponseTailBytes /\ ResponseTailBytes \in 0 .. Len(chunk)
    BY <1>1, <1>2, <1>6 DEF Lesser
  <2>3. LastBytes(chunk, ResponseTailBytes) = LastBytes(whole, ResponseTailBytes)
    BY <1>1, <2>2, LastBytesOfChunk
  <2> QED BY <2>1, <2>2, <2>3
<1>7. CASE /\ ~(Len(chunk) >= ResponseTailBytes)
           /\ Len(tail \o chunk) > ResponseTailBytes
  <2>1. SlideTail(chunk) = LastBytes(tail \o chunk, ResponseTailBytes)
    BY <1>7 DEF SlideTail
  <2>2. n = ResponseTailBytes /\ ResponseTailBytes \in 0 .. m + Len(chunk)
    BY <1>1, <1>2, <1>3, <1>5, <1>7 DEF Lesser
  <2>3. LastBytes(LastBytes(body, m) \o chunk, ResponseTailBytes) =
          LastBytes(whole, ResponseTailBytes)
    BY <1>1, <1>3, <2>2, LastBytesOfConcat
  <2> QED BY <1>1, <2>1, <2>2, <2>3
<1>8. CASE /\ ~(Len(chunk) >= ResponseTailBytes)
           /\ ~(Len(tail \o chunk) > ResponseTailBytes)
  <2>1. SlideTail(chunk) = tail \o chunk
    BY <1>8 DEF SlideTail
  <2>2. m = Len(body) /\ n = Len(whole)
    BY <1>1, <1>2, <1>3, <1>5, <1>8 DEF Lesser
  <2>3. tail = body
    BY <1>1, <2>2, LastBytesWhole
  <2>4. LastBytes(whole, Len(whole)) = whole
    BY <1>2, LastBytesWhole
  <2> QED BY <2>1, <2>2, <2>3, <2>4
<1> QED BY <1>6, <1>7, <1>8

LEMMA BodyInvInductive == Spec => []BodyInv
<1>1. Init => BodyInv
  <2> SUFFICES ASSUME Init PROVE BodyInv
    OBVIOUS
  <2>1. body = <<>> /\ tail = <<>> /\ <<>> \in Seq(Bytes) /\ Len(<<>>) = 0
    BY DEF Init
  <2>2. Lesser(Len(body), ResponseTailBytes) = 0
    BY <2>1, TailAssumption DEF Lesser
  <2>3. LastBytes(body, Len(body)) = body
    BY <2>1, LastBytesWhole
  <2> QED BY <2>1, <2>2, <2>3 DEF BodyInv, TailIsSuffix
<1>2. BodyInv /\ [Next]_vars => BodyInv'
  <2> SUFFICES ASSUME BodyInv, [Next]_vars PROVE BodyInv'
    OBVIOUS
  <2>1. ASSUME NEW chunk \in Chunks, Write(chunk)
        PROVE  BodyInv'
    <3>1. chunk \in Seq(Bytes) /\ Len(chunk) \in Nat \ {0}
      BY ChunkType DEF BodyInv
    <3>2. body' = body \o chunk /\ tail' = SlideTail(chunk)
      BY <2>1 DEF Write
    <3>3. body' \in Seq(Bytes)
      BY <3>1, <3>2, ConcatProperties DEF BodyInv
    <3>4. tail' = LastBytes(body', Lesser(Len(body'), ResponseTailBytes))
      BY <3>1, <3>2, SlideTailKeepsSuffix
    <3> QED BY <3>3, <3>4 DEF BodyInv, TailIsSuffix
  <2>2. CASE UNCHANGED <<tail, body>>
    BY <2>2 DEF BodyInv, TailIsSuffix, LastBytes, Lesser
  <2> QED BY <2>1, <2>2 DEF Next, WriteHeader, Extract, Over, vars
<1> QED BY <1>1, <1>2, PTL DEF Spec

\* However captureWriter.Write is called, the window is the end of the response.
THEOREM WindowIsSuffix == Spec => []TailIsSuffix
<1>1. BodyInv => TailIsSuffix
  BY DEF BodyInv
<1> QED BY <1>1, BodyInvInductive, PTL

\* captureWriter never holds more than responseTailBytes bytes, however long the
\* response.
THEOREM WindowIsBounded == Spec => [](Len(tail) <= ResponseTailBytes)
<1>1. BodyInv => Len(tail) <= ResponseTailBytes
  <2> SUFFICES ASSUME BodyInv PROVE Len(tail) <= ResponseTailBytes
    OBVIOUS
  <2> DEFINE m == Lesser(Len(body), ResponseTailBytes)
  <2>1. m \in 0 .. Len(body) /\ m <= ResponseTailBytes
    BY TailAssumption DEF BodyInv, Lesser
  <2>2. body \in Seq(Bytes) /\ tail = LastBytes(body, m)
    BY DEF BodyInv, TailIsSuffix
  <2> HIDE DEF m
  <2>3. Len(tail) = m
    BY <2>1, <2>2, LastBytesElements
  <2> QED BY <2>1, <2>3
<1> QED BY <1>1, BodyInvInductive, PTL

------------------------------------------------------------------------------
(* What is read from the end of a response is what stands there.           *)

\* t is what is left of b without its first off elements.
IsEnd(t, b, off) ==
  /\ t \in Seq(Bytes) /\ b \in Seq(Bytes) /\ off \in Nat
  /\ Len(b) = Len(t) + off
  /\ \A i \in 1 .. Len(t) : t[i] = b[off + i]

LEMMA MaxExists ==
  ASSUME NEW n \in Nat, NEW S \in SUBSET (1 .. n), S # {}
  PROVE  Max(S) \in S /\ \A y \in S : Max(S) >= y
<1>1. \E x \in S : \A y \in S : x >= y
  BY Largest
<1> QED BY <1>1 DEF Max

\* SubSeq under a name that the provers do not expand.
Cut(s, m, k) == SubSeq(s, m, k)

LEMMA CutOfEnd ==
  ASSUME NEW t, NEW b, NEW off, IsEnd(t, b, off),
         NEW m \in 1 .. Len(t) + 1, NEW k \in Int, k <= Len(t)
  PROVE  Cut(t, m, k) = Cut(b, m + off, k + off)
<1> DEFINE u == SubSeq(t, m, k)
           v == SubSeq(b, m + off, k + off)
<1>1. \A i \in m .. k : t[i] \in Bytes
  BY DEF IsEnd
<1>2. \A i \in m + off .. k + off : b[i] \in Bytes
  BY DEF IsEnd
<1>3. m \in Int /\ m + off \in Int /\ k + off \in Int /\ off \in Nat
  BY DEF IsEnd
<1>4. /\ u \in Seq(Bytes) /\ Len(u) = (IF m <= k THEN k - m + 1 ELSE 0)
      /\ \A i \in 1 .. k - m + 1 : u[i] = t[m + i - 1]
  BY <1>1, <1>3, SubSeqProperties
<1>5. /\ v \in Seq(Bytes) /\ Len(v) = (IF m + off <= k + off THEN (k + off) - (m + off) + 1 ELSE 0)
      /\ \A i \in 1 .. (k + off) - (m + off) + 1 : v[i] = b[m + off + i - 1]
  BY <1>2, <1>3, SubSeqProperties
<1> HIDE DEF u, v
<1>6. Len(u) = Len(v)
  BY <1>3, <1>4, <1>5
<1>7. ASSUME NEW i \in 1 .. Len(u)
      PROVE  u[i] = v[i]
  <2>1. i \in 1 .. k - m + 1 /\ i \in 1 .. (k + off) - (m + off) + 1
    BY <1>3, <1>4
  <2>2. m + i - 1 \in 1 .. Len(t) /\ m + off + i - 1 = off + (m + i - 1)
    BY <1>3, <2>1
  <2>3. t[m + i - 1] = b[off + (m + i - 1)]
    BY <2>2 DEF IsEnd
  <2> QED BY <1>4, <1>5, <2>1, <2>2, <2>3
<1>8. u = v
  BY <1>4, <1>5, <1>6, <1>7, SeqEqual
<1> QED BY <1>8 DEF u, v, Cut

\* The bytes of some class that follow a position.
Run(bytes, at, class) ==
  {i \in at .. Len(bytes) : \A j \in at .. i : bytes[j] \in class}

LEMMA RunSize ==
  ASSUME NEW t \in Seq(Bytes), NEW at \in 1 .. Len(t) + 1, NEW class
  PROVE  /\ IsFiniteSet(Run(t, at, class))
         /\ Cardinality(Run(t, at, class)) \in Nat
         /\ at + Cardinality(Run(t, at, class)) \in 1 .. Len(t) + 1
<1>1. at \in Int /\ Len(t) \in Int
  OBVIOUS
<1>2. /\ IsFiniteSet(at .. Len(t))
      /\ Cardinality(at .. Len(t)) = IF at > Len(t) THEN 0 ELSE Len(t) - at + 1
  BY <1>1, FS_Interval
<1>3. Run(t, at, class) \in SUBSET (at .. Len(t))
  BY DEF Run
<1>4. /\ IsFiniteSet(Run(t, at, class))
      /\ Cardinality(Run(t, at, class)) <= Cardinality(at .. Len(t))
  BY <1>2, <1>3, FS_Subset
<1>5. Cardinality(Run(t, at, class)) \in Nat
  BY <1>4, FS_CardinalityType
<1> QED BY <1>2, <1>4, <1>5

LEMMA RunOfEnd ==
  ASSUME NEW t, NEW b, NEW off, IsEnd(t, b, off), NEW at \in 1 .. Len(t) + 1, NEW class
  PROVE  Cardinality(Run(b, at + off, class)) = Cardinality(Run(t, at, class))
<1> DEFINE R == Run(t, at, class)
           Q == Run(b, at + off, class)
           f == [i \in R |-> i + off]
<1>1. /\ off \in Nat /\ Len(t) \in Nat /\ Len(b) = Len(t) + off
      /\ \A i \in 1 .. Len(t) : t[i] = b[off + i]
  BY DEF IsEnd
<1>2. ASSUME NEW i \in at .. Len(t)
      PROVE  (\A j \in at .. i : t[j] \in class) <=>
             (\A j \in at + off .. i + off : b[j] \in class)
  <2>1. ASSUME \A j \in at .. i : t[j] \in class, NEW j \in at + off .. i + off
        PROVE  b[j] \in class
    <3>1. j - off \in at .. i /\ j - off \in 1 .. Len(t) /\ off + (j - off) = j
      BY <1>1
    <3> QED BY <1>1, <2>1, <3>1
  <2>2. ASSUME \A j \in at + off .. i + off : b[j] \in class, NEW j \in at .. i
        PROVE  t[j] \in class
    <3>1. j \in 1 .. Len(t) /\ off + j \in at + off .. i + off
      BY <1>1
    <3> QED BY <1>1, <2>2, <3>1
  <2> QED BY <2>1, <2>2
<1>3. \A i \in R : i + off \in Q
  <2> SUFFICES ASSUME NEW i \in R PROVE i + off \in Q
    OBVIOUS
  <2>1. i \in at .. Len(t) /\ \A j \in at .. i : t[j] \in class
    BY DEF Run
  <2>2. i + off \in at + off .. Len(b)
    BY <1>1, <2>1
  <2> QED BY <1>2, <2>1, <2>2 DEF Run
<1>4. \A k \in Q : k - off \in R /\ (k - off) + off = k
  <2> SUFFICES ASSUME NEW k \in Q PROVE k - off \in R /\ (k - off) + off = k
    OBVIOUS
  <2>1. k \in at + off .. Len(b) /\ \A j \in at + off .. k : b[j] \in class
    BY DEF Run
  <2>2. k - off \in at .. Len(t) /\ (k - off) + off = k
    BY <1>1, <2>1
  <2> QED BY <1>2, <2>1, <2>2 DEF Run
<1>5. R \subseteq Int
  BY DEF Run
<1> HIDE DEF R, Q
<1>6. f \in Bijection(R, Q)
  <2>1. f \in [R -> Q] /\ \A i, j \in R : f[i] = f[j] => i = j
    BY <1>1, <1>3, <1>5
  <2>2. \A k \in Q : \E i \in R : f[i] = k
    BY <1>4
  <2> QED BY <2>1, <2>2 DEF Bijection, Injection, Surjection, IsInjective
<1>7. IsFiniteSet(R)
  BY RunSize DEF R, IsEnd
<1>8. Cardinality(Q) = Cardinality(R)
  BY <1>6, <1>7, FS_Bijection DEF ExistsBijection
<1> QED BY <1>8 DEF R, Q

LEMMA NumberOfEnd ==
  ASSUME NEW t, NEW b, NEW off, IsEnd(t, b, off), NEW at \in 1 .. Len(t) + 1
  PROVE  NumberAfter(t, at) = NumberAfter(b, at + off)
<1> DEFINE start == at + Cardinality(Run(t, at, Spaces))
           stop == start + Cardinality(Run(t, start, Digits))
           startB == (at + off) + Cardinality(Run(b, at + off, Spaces))
           stopB == startB + Cardinality(Run(b, startB, Digits))
<1>1. t \in Seq(Bytes) /\ off \in Nat /\ Len(t) \in Nat
  BY DEF IsEnd
<1>2. start \in 1 .. Len(t) + 1 /\ Cardinality(Run(t, at, Spaces)) \in Nat
  BY <1>1, RunSize
<1>3. startB = start + off
  BY <1>1, <1>2, RunOfEnd
<1> HIDE DEF start, startB
<1>4. stop \in 1 .. Len(t) + 1 /\ Cardinality(Run(t, start, Digits)) \in Nat
  BY <1>1, <1>2, RunSize
<1>5. Cardinality(Run(b, start + off, Digits)) = Cardinality(Run(t, start, Digits))
  BY <1>2, RunOfEnd
<1>6. stopB = stop + off
  BY <1>1, <1>2, <1>3, <1>4, <1>5
<1> HIDE DEF stop, stopB
<1>7. Cut(t, start, stop - 1) = Cut(b, start + off, (stop - 1) + off)
  <2>1. stop - 1 \in Int /\ stop - 1 <= Len(t)
    BY <1>1, <1>4
  <2> QED BY <1>2, <2>1, CutOfEnd
<1>8. (stop - 1) + off = stopB - 1
  BY <1>1, <1>4, <1>6
<1>9. /\ NumberAfter(t, at) = Cut(t, start, stop - 1)
      /\ NumberAfter(b, at + off) = Cut(b, startB, stopB - 1)
  BY DEF NumberAfter, start, stop, startB, stopB, Run, Cut
<1> QED BY <1>3, <1>7, <1>8, <1>9

Keys == {OpenAIKey, AnthropicKey}

LEMMA OccurrencesOfEnd ==
  ASSUME NEW t, NEW b, NEW off, IsEnd(t, b, off), NEW key \in Keys, NEW at \in Nat \ {0}
  PROVE  at \in Occurrences(t, key) <=> at + off \in Occurrences(b, key)
<1>1. Len(key) \in Nat \ {0}
  BY TailAssumption, EmptySeq DEF Keys
<1>2. Len(t) \in Nat /\ off \in Nat /\ Len(b) = Len(t) + off
  BY DEF IsEnd
<1> DEFINE k == at + Len(key) - 1
<1>3. (at + off) + Len(key) - 1 = k + off /\ k \in Int /\ at <= k
  BY <1>1, <1>2
<1>4. k <= Len(t) <=> k + off <= Len(b)
  BY <1>2, <1>3
<1>5. k <= Len(t) => Cut(t, at, k) = Cut(b, at + off, k + off)
  <2> SUFFICES ASSUME k <= Len(t)
               PROVE  Cut(t, at, k) = Cut(b, at + off, k + off)
    OBVIOUS
  <2>1. at \in 1 .. Len(t) + 1
    BY <1>2, <1>3
  <2> HIDE DEF k
  <2> QED BY <1>3, <2>1, CutOfEnd
<1>6. Occurs(t, key, at) <=> Occurs(b, key, at + off)
  BY <1>3, <1>4, <1>5 DEF Occurs, Cut
<1>7. /\ Occurs(t, key, at) => at \in 1 .. Len(t)
      /\ Occurs(b, key, at + off) => at + off \in 1 .. Len(b)
  BY <1>1, <1>2 DEF Occurs
<1> QED BY <1>6, <1>7 DEF Occurrences

\* A key that occurs in the end of a response is followed there by the same number.
LEMMA ScanOfEnd ==
  ASSUME NEW t, NEW b, NEW off, IsEnd(t, b, off), NEW key \in Keys,
         Occurrences(t, key) # {}
  PROVE  ScanIntAfter(t, key) = ScanIntAfter(b, key)
<1> DEFINE T == Occurrences(t, key)
           B == Occurrences(b, key)
<1>1. /\ Len(t) \in Nat /\ off \in Nat /\ Len(b) = Len(t) + off
      /\ Len(key) \in Nat \ {0}
  BY TailAssumption, EmptySeq DEF IsEnd, Keys
<1>2. T \in SUBSET (1 .. Len(t)) /\ B \in SUBSET (1 .. Len(b))
  BY DEF Occurrences
<1>3. \A at \in Nat \ {0} : at \in T <=> at + off \in B
  BY OccurrencesOfEnd
<1>4. Max(T) \in T /\ \A y \in T : Max(T) >= y
  BY <1>1, <1>2, MaxExists
<1>5. Max(T) \in 1 .. Len(t) /\ Max(T) + off \in B
  BY <1>2, <1>3, <1>4
<1>6. Max(B) \in B /\ \A y \in B : Max(B) >= y
  <2>1. Len(b) \in Nat /\ B # {}
    BY <1>1, <1>5
  <2> HIDE DEF B
  <2> QED BY <1>2, <2>1, MaxExists
<1> HIDE DEF T, B
<1>7. Max(B) = Max(T) + off
  <2>1. Max(B) \in 1 .. Len(b) /\ Max(B) >= Max(T) + off
    BY <1>2, <1>5, <1>6
  <2>2. Max(B) - off \in Nat \ {0} /\ (Max(B) - off) + off = Max(B)
    BY <1>1, <1>5, <2>1
  <2>3. Max(T) >= Max(B) - off
    BY <1>3, <1>4, <1>6, <2>2
  <2> QED BY <1>1, <1>5, <2>1, <2>3
<1>8. Max(T) + Len(key) \in 1 .. Len(t) + 1
  <2>1. Max(T) + Len(key) - 1 <= Len(t)
    BY <1>4 DEF T, Occurrences, Occurs
  <2> QED BY <1>1, <1>5, <2>1
<1>9. (Max(T) + Len(key)) + off = Max(B) + Len(key)
  BY <1>1, <1>5, <1>7
<1>10. NumberAfter(t, Max(T) + Len(key)) = NumberAfter(b, Max(B) + Len(key))
  BY <1>8, <1>9, NumberOfEnd
<1>11. T # {} /\ B # {}
  BY <1>5 DEF T
<1> QED BY <1>10, <1>11 DEF ScanIntAfter, T, B

\* The window is an end of the response, of which it has all or its size.
LEMMA WindowIsEnd ==
  ASSUME BodyInv
  PROVE  /\ IsEnd(tail, body, Len(body) - Len(tail))
         /\ Len(tail) = Lesser(Len(body), ResponseTailBytes)
<1> DEFINE m == Lesser(Len(body), ResponseTailBytes)
<1>1. /\ body \in Seq(Bytes) /\ Len(body) \in Nat /\ tail = LastBytes(body, m)
      /\ m \in 0 .. Len(body)
  BY TailAssumption DEF BodyInv, TailIsSuffix, Lesser
<1> HIDE DEF m
<1>2. /\ tail \in Seq(Bytes) /\ Len(tail) = m
      /\ \A i \in 1 .. m : tail[i] = body[Len(body) - m + i]
  BY <1>1, LastBytesElements
<1>3. Len(body) - Len(tail) \in Nat /\ Len(body) = Len(tail) + (Len(body) - Len(tail))
  BY <1>1, <1>2
<1> QED BY <1>1, <1>2, <1>3 DEF IsEnd, m

\* What the handler has read, it has read in the window as it is now.
HitInv == BodyInv /\ (hit = Pending \/ hit = ExtractCacheHit(tail))

LEMMA HitInvInductive == Spec => []HitInv
<1>1. Init => hit = Pending
  BY DEF Init
<1>2. /\ hit = Pending \/ hit = ExtractCacheHit(tail)
      /\ [Next]_vars
      => (hit = Pending \/ hit = ExtractCacheHit(tail))'
  <2> SUFFICES ASSUME hit = Pending \/ hit = ExtractCacheHit(tail), [Next]_vars
               PROVE  (hit = Pending \/ hit = ExtractCacheHit(tail))'
    OBVIOUS
  <2>1. ASSUME NEW code \in Codes, WriteHeader(code) PROVE hit' = Pending
    BY <2>1 DEF WriteHeader
  <2>2. ASSUME NEW chunk \in Chunks, Write(chunk) PROVE hit' = Pending
    BY <2>2 DEF Write
  <2>3. ASSUME Extract PROVE hit' = ExtractCacheHit(tail) /\ tail' = tail
    BY <2>3 DEF Extract
  <2>4. CASE UNCHANGED <<hit, tail>>
    BY <2>4
  <2>5. CASE Extract
    BY <2>3, <2>5
  <2> QED BY <2>1, <2>2, <2>4, <2>5 DEF Next, Over, vars
<1> QED BY <1>1, <1>2, BodyInvInductive, PTL DEF Spec, HitInv

\* A count that is found in the window comes from the response and not from a piece of
\* a key or of a number that the window or a chunk has cut, for every response, window,
\* pair of keys and way of cutting (ExtractCacheHit on captureWriter.tail).
THEOREM CountsAreGenuine == Spec => []HitIsGenuine
<1>1. HitInv => HitIsGenuine
  <2> SUFFICES ASSUME HitInv, hit.ok
               PROVE  \E key \in Keys : ScanIntAfter(body, key) = hit
    BY DEF HitIsGenuine, Keys
  <2>1. hit = ExtractCacheHit(tail)
    BY DEF HitInv, Pending
  <2>2. PICK key \in Keys : hit = ScanIntAfter(tail, key)
    BY <2>1 DEF ExtractCacheHit, Keys
  <2>3. Occurrences(tail, key) # {}
    BY <2>2 DEF ScanIntAfter, NoSignal
  <2>4. ScanIntAfter(tail, key) = ScanIntAfter(body, key)
    BY <2>3, WindowIsEnd, ScanOfEnd DEF HitInv
  <2> QED BY <2>2, <2>4
<1> QED BY <1>1, HitInvInductive, PTL

\* A count of the response whose key is in the window is read there.
LEMMA LateKeyIsInWindow ==
  ASSUME BodyInv, NEW key \in Keys,
         LastCount(key) > 0, LastCount(key) > Len(body) - ResponseTailBytes
  PROVE  /\ ScanIntAfter(tail, key) = ScanIntAfter(body, key)
         /\ ScanIntAfter(body, key).ok
<1> DEFINE off == Len(body) - Len(tail)
           last == Max(Occurrences(body, key))
<1>1. IsEnd(tail, body, off) /\ Len(tail) = Lesser(Len(body), ResponseTailBytes)
  BY WindowIsEnd
<1>2. ScanIntAfter(body, key).ok /\ LastCount(key) = last
  BY DEF LastCount
<1>3. Occurrences(body, key) # {}
  BY <1>2 DEF ScanIntAfter, NoSignal
<1>4. Len(body) \in Nat /\ ResponseTailBytes \in Nat
  BY TailAssumption DEF BodyInv
<1>5. Occurrences(body, key) \in SUBSET (1 .. Len(body))
  BY DEF Occurrences
<1>6. last \in Occurrences(body, key) /\ last \in 1 .. Len(body)
  BY <1>3, <1>4, <1>5, MaxExists
<1> HIDE DEF last
<1>7. last - off \in Nat \ {0} /\ (last - off) + off = last
  BY <1>1, <1>2, <1>4, <1>6 DEF Lesser
<1> HIDE DEF off
<1>8. last - off \in Occurrences(tail, key)
  <2>1. \A at \in Nat \ {0} : at \in Occurrences(tail, key) <=> at + off \in Occurrences(body, key)
    BY <1>1, OccurrencesOfEnd
  <2> QED BY <1>6, <1>7, <2>1
<1>9. ScanIntAfter(tail, key) = ScanIntAfter(body, key)
  BY <1>1, <1>8, ScanOfEnd
<1> QED BY <1>2, <1>9

\* And what is read there is such a count.
LEMMA FoundIsLate ==
  ASSUME BodyInv, NEW key \in Keys, ScanIntAfter(tail, key).ok
  PROVE  ScanIntAfter(tail, key) = ScanIntAfter(body, key) /\ key \in LateKeys
<1> DEFINE off == Len(body) - Len(tail)
           last == Max(Occurrences(body, key))
<1>1. IsEnd(tail, body, off) /\ Len(tail) = Lesser(Len(body), ResponseTailBytes)
  BY WindowIsEnd
<1>2. Len(body) \in Nat /\ ResponseTailBytes \in Nat
  BY TailAssumption DEF BodyInv
<1>3. Occurrences(tail, key) # {}
  BY DEF ScanIntAfter, NoSignal
<1>4. ScanIntAfter(tail, key) = ScanIntAfter(body, key)
  BY <1>1, <1>3, ScanOfEnd
<1>5. Occurrences(body, key) \in SUBSET (1 .. Len(body))
  BY DEF Occurrences
<1>6. PICK at \in Occurrences(tail, key) : at \in Nat \ {0}
  BY <1>3 DEF Occurrences
<1>7. at + off \in Occurrences(body, key)
  BY <1>1, <1>6, OccurrencesOfEnd
<1>8. last >= at + off /\ last \in 1 .. Len(body)
  BY <1>2, <1>5, <1>7, MaxExists
<1>9. LastCount(key) = last
  BY <1>4 DEF LastCount
<1> HIDE DEF last
<1>10. last > 0 /\ last > Len(body) - ResponseTailBytes
  BY <1>1, <1>2, <1>6, <1>8 DEF Lesser
<1> QED BY <1>4, <1>9, <1>10 DEF LateKeys, Keys

\* A count that the provider sends no earlier than in the last responseTailBytes bytes is
\* not missed, whatever the chunks, and none from before takes its place.
THEOREM LateCountsAreSeen == Spec => []LateCountIsSeen
<1>1. HitInv => LateCountIsSeen
  <2> SUFFICES ASSUME HitInv, hit # Pending, LateKeys # {}
               PROVE  \E key \in LateKeys : hit = ScanIntAfter(body, key)
    BY DEF LateCountIsSeen
  <2>1. hit = ExtractCacheHit(tail) /\ BodyInv
    BY DEF HitInv
  <2>2. \A key \in LateKeys : /\ ScanIntAfter(tail, key) = ScanIntAfter(body, key)
                              /\ ScanIntAfter(tail, key).ok
    BY <2>1, LateKeyIsInWindow DEF LateKeys, Keys
  <2>3. PICK key \in Keys : hit = ScanIntAfter(tail, key) /\ ScanIntAfter(tail, key).ok
    BY <2>1, <2>2 DEF LateKeys, Keys, ExtractCacheHit
  <2>4. ScanIntAfter(tail, key) = ScanIntAfter(body, key) /\ key \in LateKeys
    BY <2>1, <2>3, FoundIsLate
  <2> QED BY <2>3, <2>4
<1> QED BY <1>1, HitInvInductive, PTL

------------------------------------------------------------------------------
(* The number that is read.                                                *)

\* The fold behind Value, for n digits.
Numbers(digits, n, it) ==
  it = [s \in SUBSET (1 .. n) |->
          IF s = {} THEN 0 ELSE 10 * it[s \ {Max(s)}] + digits[Max(s)]]

LEMMA ValueIsFold ==
  ASSUME NEW digits, NEW n \in Nat, DOMAIN digits = 1 .. n
  PROVE  Value(digits) = (CHOOSE it : Numbers(digits, n, it))[1 .. n]
BY DEF Value, FoldLeft, MapThenFoldSet, Numbers

LEMMA ValueType ==
  ASSUME NEW digits \in Seq(Digits)
  PROVE  Value(digits) \in Nat
<1> DEFINE n == Len(digits)
           step == [i \in 1 .. n |-> [v \in Nat |-> 10 * v + digits[i]]]
           it == CHOOSE it : Numbers(digits, n, it)
<1>1. n \in Nat /\ DOMAIN digits = 1 .. n /\ \A i \in 1 .. n : digits[i] \in Nat
  BY DEF Digits
<1> HIDE DEF n
<1>2. PICK g : Solves(g, n, Nat, 0, step)
  <2>1. ASSUME NEW i \in 1 .. n, NEW v \in Nat PROVE step[i][v] \in Nat
    <3>1. step[i][v] = 10 * v + digits[i] /\ digits[i] \in Nat
      BY <1>1
    <3> QED BY <3>1
  <2>2. 0 \in Nat
    OBVIOUS
  <2> HIDE DEF step
  <2> QED BY <1>1, <2>1, <2>2, FoldExists
<1>3. Numbers(digits, n, g)
  <2>1. /\ g = [s \in SUBSET (1 .. n) |-> g[s]]
        /\ \A s \in SUBSET (1 .. n) : g[s] \in Nat /\ g[s] = FoldStep(0, step, g, s)
    BY <1>2 DEF Solves
  <2>2. ASSUME NEW s \in SUBSET (1 .. n)
        PROVE  g[s] = IF s = {} THEN 0 ELSE 10 * g[s \ {Max(s)}] + digits[Max(s)]
    <3>1. CASE s = {}
      BY <2>1, <3>1 DEF FoldStep
    <3>2. CASE s # {}
      <4>1. Max(s) \in 1 .. n /\ s \ {Max(s)} \in SUBSET (1 .. n)
        BY <1>1, <3>2, MaxOf
      <4>2. g[s \ {Max(s)}] \in Nat
        BY <2>1, <4>1
      <4>3. g[s] = step[Max(s)][g[s \ {Max(s)}]]
        BY <2>1, <3>2 DEF FoldStep
      <4> QED BY <3>2, <4>1, <4>2, <4>3
    <3> QED BY <3>1, <3>2
  <2> QED BY <2>1, <2>2 DEF Numbers
<1>4. Numbers(digits, n, it)
  BY <1>3
<1> HIDE DEF it
<1>5. it[{}] \in Nat
  BY <1>4 DEF Numbers
<1>6. ASSUME NEW s \in SUBSET (1 .. n), s # {} /\ it[s \ {Max(s)}] \in Nat
      PROVE  it[s] \in Nat
  <2>1. Max(s) \in 1 .. n
    BY <1>1, <1>6, MaxOf
  <2>2. it[s] = 10 * it[s \ {Max(s)}] + digits[Max(s)]
    BY <1>4, <1>6 DEF Numbers
  <2> QED BY <1>1, <1>6, <2>1, <2>2
<1>7. it[1 .. n] \in Nat
  <2>1. \A s \in SUBSET (1 .. n) : it[s] \in Nat
    BY <1>1, <1>5, <1>6, FoldTyped
  <2>2. (1 .. n) \in SUBSET (1 .. n)
    OBVIOUS
  <2> QED BY <2>1, <2>2
<1> QED BY <1>1, <1>7, ValueIsFold DEF it

\* A run is a stretch without gaps.
LEMMA RunIsInterval ==
  ASSUME NEW t \in Seq(Bytes), NEW at \in 1 .. Len(t) + 1, NEW class
  PROVE  \A j \in at .. at + Cardinality(Run(t, at, class)) - 1 : t[j] \in class
<1> DEFINE R == Run(t, at, class)
           size == Cardinality(R)
<1>1. Len(t) \in Nat /\ at \in Nat \ {0} /\ size \in Nat
      /\ at + size \in 1 .. Len(t) + 1
  BY RunSize
<1>2. SUFFICES ASSUME NEW j \in at .. at + size - 1, t[j] \notin class PROVE FALSE
  OBVIOUS
<1>3. R \in SUBSET (at .. j - 1)
  <2> SUFFICES ASSUME NEW i \in R PROVE i \in at .. j - 1
    OBVIOUS
  <2>1. i \in at .. Len(t) /\ \A k \in at .. i : t[k] \in class
    BY DEF Run
  <2>2. j \in Int /\ at <= j
    BY <1>1
  <2>3. ~(j \in at .. i)
    BY <1>2, <2>1
  <2> QED BY <1>1, <2>1, <2>2, <2>3
<1>4. at \in Int /\ j - 1 \in Int /\ at <= j /\ j - at < size
  BY <1>1
<1>5. /\ IsFiniteSet(at .. j - 1)
      /\ Cardinality(at .. j - 1) = IF at > j - 1 THEN 0 ELSE (j - 1) - at + 1
  BY <1>4, FS_Interval
<1>6. size <= Cardinality(at .. j - 1)
  BY <1>3, <1>5, FS_Subset
<1> HIDE DEF R, size
<1> QED BY <1>1, <1>4, <1>5, <1>6

LEMMA NumberIsDigits ==
  ASSUME NEW t \in Seq(Bytes), NEW at \in 1 .. Len(t) + 1
  PROVE  NumberAfter(t, at) \in Seq(Digits)
<1> DEFINE start == at + Cardinality(Run(t, at, Spaces))
           stop == start + Cardinality(Run(t, start, Digits))
<1>1. start \in 1 .. Len(t) + 1
  BY RunSize
<1> HIDE DEF start
<1>2. stop \in 1 .. Len(t) + 1 /\ \A j \in start .. stop - 1 : t[j] \in Digits
  BY <1>1, RunSize, RunIsInterval
<1> HIDE DEF stop
<1>3. start \in Int /\ stop - 1 \in Int
  BY <1>1, <1>2
<1>4. SubSeq(t, start, stop - 1) \in Seq(Digits)
  BY <1>2, <1>3, SubSeqProperties
<1> QED BY <1>4 DEF NumberAfter, start, stop, Run

LEMMA ScanType ==
  ASSUME NEW t \in Seq(Bytes), NEW key \in Keys
  PROVE  ScanIntAfter(t, key) \in [n : Nat, ok : BOOLEAN]
<1> DEFINE at == Max(Occurrences(t, key)) + Len(key)
           digits == NumberAfter(t, at)
<1>1. CASE Occurrences(t, key) = {}
  BY <1>1 DEF ScanIntAfter, NoSignal
<1>2. CASE Occurrences(t, key) # {}
  <2>1. Len(t) \in Nat /\ Len(key) \in Nat \ {0}
    BY TailAssumption, EmptySeq DEF Keys
  <2>2. Occurrences(t, key) \in SUBSET (1 .. Len(t))
    BY DEF Occurrences
  <2>3. Max(Occurrences(t, key)) \in Occurrences(t, key)
    BY <1>2, <2>1, <2>2, MaxExists
  <2>4. Max(Occurrences(t, key)) \in 1 .. Len(t)
        /\ Max(Occurrences(t, key)) + Len(key) - 1 <= Len(t)
    BY <2>3 DEF Occurrences, Occurs
  <2>5. at \in 1 .. Len(t) + 1
    BY <2>1, <2>4
  <2> HIDE DEF at
  <2>6. Value(digits) \in Nat
    BY <2>5, NumberIsDigits, ValueType
  <2>7. ScanIntAfter(t, key) = IF digits = <<>> THEN NoSignal
                                                ELSE [n |-> Value(digits), ok |-> TRUE]
    BY <1>2 DEF ScanIntAfter, at
  <2> HIDE DEF digits
  <2> QED BY <2>6, <2>7 DEF NoSignal
<1> QED BY <1>1, <1>2

CountersInv == status \in {0} \cup Codes /\ bodyBytes = Len(body) /\ body \in Seq(Bytes)

LEMMA CountersInductive == Spec => []CountersInv
<1>1. Init => CountersInv
  BY DEF Init, CountersInv
<1>2. CountersInv /\ [Next]_vars => CountersInv'
  <2> SUFFICES ASSUME CountersInv, [Next]_vars PROVE CountersInv'
    OBVIOUS
  <2>1. ASSUME NEW code \in Codes, WriteHeader(code) PROVE CountersInv'
    BY <2>1 DEF WriteHeader, CountersInv
  <2>2. ASSUME NEW chunk \in Chunks, Write(chunk) PROVE CountersInv'
    <3>1. chunk \in Seq(Bytes) /\ Len(body \o chunk) = Len(body) + Len(chunk)
          /\ body \o chunk \in Seq(Bytes)
      BY ChunkType, ConcatProperties DEF CountersInv
    <3> QED BY <2>2, <3>1 DEF Write, CountersInv, Codes
  <2>3. CASE Extract
    BY <2>3 DEF Extract, CountersInv
  <2>4. CASE UNCHANGED vars
    BY <2>4 DEF vars, CountersInv
  <2> QED BY <2>1, <2>2, <2>3, <2>4 DEF Next, Over
<1> QED BY <1>1, <1>2, PTL DEF Spec

\* The window never outgrows its size, the bytes are counted, and a hit is a number or
\* the sign that there is none, for all responses (captureWriter, ExtractCacheHit).
THEOREM CaptureIsTyped == Spec => []TypeOK
<1>1. HitInv /\ CountersInv => TypeOK
  <2> SUFFICES ASSUME HitInv, CountersInv PROVE TypeOK
    OBVIOUS
  <2>1. BodyInv /\ body \in Seq(Bytes)
    BY DEF HitInv, BodyInv
  <2>2. tail \in Seq(Bytes) /\ Len(tail) = Lesser(Len(body), ResponseTailBytes)
    BY <2>1, WindowIsEnd DEF IsEnd
  <2>3. Len(tail) <= ResponseTailBytes
    BY <2>1, <2>2, TailAssumption DEF Lesser
  <2>4. ExtractCacheHit(tail) \in [n : Nat, ok : BOOLEAN]
    BY <2>2, ScanType DEF ExtractCacheHit, Keys
  <2> QED BY <2>1, <2>2, <2>3, <2>4 DEF TypeOK, HitInv, CountersInv
<1> QED BY <1>1, HitInvInductive, CountersInductive, PTL

==============================================================================
