--------------------------- MODULE SequenceFacts ---------------------------
(***************************************************************************)
(* Prefixes and parts of sequences, as the proofs about byte streams need  *)
(* them.                                                                   *)
(***************************************************************************)
EXTENDS SequencesExt, Integers, SequenceTheorems, TLAPS

(* The part of a sequence before a position. *)
LEMMA FrontProperties ==
  ASSUME NEW S, NEW s \in Seq(S), NEW n \in 0 .. Len(s)
  PROVE  /\ SubSeq(s, 1, n) \in Seq(S)
         /\ Len(SubSeq(s, 1, n)) = n
         /\ \A i \in 1 .. n : SubSeq(s, 1, n)[i] = s[i]
<1>1. Len(s) \in Nat /\ n \in Nat /\ n <= Len(s)
  BY LenProperties
<1>2. \A i \in 1 .. n : s[i] \in S
  BY <1>1, ElementOfSeq
<1>3. /\ SubSeq(s, 1, n) \in Seq(S)
      /\ Len(SubSeq(s, 1, n)) = IF 1 <= n THEN n - 1 + 1 ELSE 0
      /\ \A i \in 1 .. n - 1 + 1 : SubSeq(s, 1, n)[i] = s[1 + i - 1]
  BY <1>1, <1>2, SubSeqProperties
<1>4. n - 1 + 1 = n /\ \A i \in 1 .. n : 1 + i - 1 = i
  BY <1>1
<1> QED
  BY <1>1, <1>3, <1>4

(* Sequences that agree up to a position have the same part before it. *)
LEMMA FrontEqual ==
  ASSUME NEW S, NEW s \in Seq(S), NEW t \in Seq(S), NEW n \in Nat,
         n <= Len(s), n <= Len(t), \A i \in 1 .. n : s[i] = t[i]
  PROVE  SubSeq(s, 1, n) = SubSeq(t, 1, n)
<1>1. n \in 0 .. Len(s) /\ n \in 0 .. Len(t)
  BY LenProperties
<1> DEFINE u == SubSeq(s, 1, n)
           v == SubSeq(t, 1, n)
<1>2. /\ u \in Seq(S) /\ v \in Seq(S) /\ Len(u) = n /\ Len(v) = n
      /\ \A i \in 1 .. n : u[i] = v[i]
  BY <1>1, FrontProperties
<1> HIDE DEF u, v
<1> QED
  <2>1. u = v
    BY <1>2, SeqEqual
  <2> QED
    BY <2>1 DEF u, v

(* An earlier part is a prefix of a later one. *)
LEMMA FrontsAreNested ==
  ASSUME NEW S, NEW s \in Seq(S), NEW m \in Nat, NEW n \in Nat,
         m <= n, n <= Len(s)
  PROVE  /\ IsPrefix(SubSeq(s, 1, m), SubSeq(s, 1, n))
         /\ IsPrefix(SubSeq(s, 1, n), s)
<1> DEFINE u == SubSeq(s, 1, m)
           v == SubSeq(s, 1, n)
<1>1. m \in 0 .. Len(s) /\ n \in 0 .. Len(s)
  BY LenProperties
<1>2. /\ u \in Seq(S) /\ Len(u) = m /\ \A i \in 1 .. m : u[i] = s[i]
      /\ v \in Seq(S) /\ Len(v) = n /\ \A i \in 1 .. n : v[i] = s[i]
  BY <1>1, FrontProperties
<1> HIDE DEF u, v
<1>3. SubSeq(u, 1, m) = SubSeq(v, 1, m) /\ SubSeq(v, 1, n) = SubSeq(s, 1, n)
  BY <1>2, FrontEqual
<1>4. IsPrefix(u, v) /\ IsPrefix(v, s)
  BY <1>2, <1>3 DEF IsPrefix
<1> QED
  BY <1>4 DEF u, v

(* A sequence is a prefix of whatever extends it. *)
LEMMA ConcatExtends ==
  ASSUME NEW S, NEW s \in Seq(S), NEW t \in Seq(S)
  PROVE  IsPrefix(s, s \o t)
<1> DEFINE u == s \o t
<1>1. Len(s) \in Nat /\ Len(t) \in Nat
  BY LenProperties
<1>2. /\ u \in Seq(S) /\ Len(u) = Len(s) + Len(t)
      /\ \A i \in 1 .. Len(s) : u[i] = s[i]
  BY <1>1, ConcatProperties
<1> HIDE DEF u
<1>3. SubSeq(s, 1, Len(s)) = SubSeq(u, 1, Len(s)) /\ Len(s) <= Len(u)
  BY <1>1, <1>2, FrontEqual
<1>4. IsPrefix(s, u)
  BY <1>3 DEF IsPrefix
<1> QED
  BY <1>4 DEF u

(* The elements of two sequences put together. *)
LEMMA ConcatElements ==
  ASSUME NEW S, NEW s \in Seq(S), NEW t \in Seq(S)
  PROVE  /\ s \o t \in Seq(S) /\ Len(s \o t) = Len(s) + Len(t)
         /\ \A i \in 1 .. Len(s) : (s \o t)[i] = s[i]
         /\ \A i \in 1 .. Len(t) : (s \o t)[Len(s) + i] = t[i]
<1> DEFINE u == s \o t
<1>1. Len(s) \in Nat /\ Len(t) \in Nat
  BY LenProperties
<1>2. /\ u \in Seq(S) /\ Len(u) = Len(s) + Len(t)
      /\ \A i \in 1 .. Len(s) + Len(t) : u[i] = IF i <= Len(s) THEN s[i] ELSE t[i - Len(s)]
  BY ConcatProperties
<1> HIDE DEF u
<1>3. \A i \in 1 .. Len(s) : u[i] = s[i]
  BY <1>1, <1>2
<1>4. ASSUME NEW i \in 1 .. Len(t) PROVE u[Len(s) + i] = t[i]
  <2>1. Len(s) + i \in 1 .. Len(s) + Len(t) /\ Len(s) + i > Len(s) /\ Len(s) + i - Len(s) = i
    BY <1>1
  <2> QED
    BY <1>1, <1>2, <2>1
<1> QED
  BY <1>2, <1>3, <1>4 DEF u

(* The part of k elements behind the first m. *)
LEMMA PartElements ==
  ASSUME NEW S, NEW s \in Seq(S), NEW m \in Nat, NEW k \in Nat, m + k <= Len(s)
  PROVE  /\ SubSeq(s, m + 1, m + k) \in Seq(S)
         /\ Len(SubSeq(s, m + 1, m + k)) = k
         /\ \A i \in 1 .. k : SubSeq(s, m + 1, m + k)[i] = s[m + i]
<1> DEFINE a == m + 1
           b == m + k
           u == SubSeq(s, a, b)
<1>1. Len(s) \in Nat /\ a \in Int /\ b \in Int /\ b - a + 1 = k
  BY LenProperties
<1>2. \A i \in a .. b : s[i] \in S
  BY <1>1, ElementOfSeq
<1>3. \A i \in 1 .. k : a + i - 1 = m + i
  OBVIOUS
<1>4. (IF a <= b THEN b - a + 1 ELSE 0) = k
  BY <1>1
<1> HIDE DEF a, b
<1>5. /\ u \in Seq(S) /\ Len(u) = (IF a <= b THEN b - a + 1 ELSE 0)
      /\ \A i \in 1 .. b - a + 1 : u[i] = s[a + i - 1]
  BY <1>1, <1>2, SubSeqProperties
<1> HIDE DEF u
<1>6. u \in Seq(S) /\ Len(u) = k /\ \A i \in 1 .. k : u[i] = s[m + i]
  BY <1>1, <1>3, <1>4, <1>5
<1> QED
  BY <1>6 DEF u, a, b

(* A sequence falls into the parts before and behind a position. *)
LEMMA SplitAt ==
  ASSUME NEW S, NEW s \in Seq(S), NEW k \in 0 .. Len(s)
  PROVE  /\ SubSeq(s, 1, k) \in Seq(S) /\ Len(SubSeq(s, 1, k)) = k
         /\ SubSeq(s, k + 1, Len(s)) \in Seq(S)
         /\ Len(SubSeq(s, k + 1, Len(s))) = Len(s) - k
         /\ s = SubSeq(s, 1, k) \o SubSeq(s, k + 1, Len(s))
<1>1. Len(s) \in Nat /\ k \in Nat /\ k <= Len(s)
  BY LenProperties
<1>2. SubSeq(s, 1, k) \in Seq(S) /\ Len(SubSeq(s, 1, k)) = k
  BY <1>1, FrontProperties
<1>3. \A i \in k + 1 .. Len(s) : s[i] \in S
  BY <1>1, ElementOfSeq
<1>4. /\ SubSeq(s, k + 1, Len(s)) \in Seq(S)
      /\ Len(SubSeq(s, k + 1, Len(s))) = IF k + 1 <= Len(s) THEN Len(s) - (k + 1) + 1 ELSE 0
  BY <1>1, <1>3, SubSeqProperties
<1>5. Len(SubSeq(s, k + 1, Len(s))) = Len(s) - k
  BY <1>1, <1>4
<1>6. 1 \in 1 .. Len(s) + 1 /\ k \in 1 - 1 .. Len(s) /\ Len(s) \in k .. Len(s)
  BY <1>1
<1>7. SubSeq(s, 1, k) \o SubSeq(s, k + 1, Len(s)) = SubSeq(s, 1, Len(s))
  BY <1>6, ConcatAdjacentSubSeq
<1> QED
  BY <1>2, <1>4, <1>5, <1>7, SubSeqFull
=============================================================================
