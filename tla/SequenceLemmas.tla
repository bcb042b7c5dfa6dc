----------------------------- MODULE SequenceLemmas -----------------------------
(***************************************************************************)
(* What the proofs need of sequences: induction, and with it what          *)
(* flattening a sequence of sequences gives; parts of byte streams and     *)
(* whole chunks.  A stream's first n pieces are [k \in 1..n |-> k], which  *)
(* StreamRelay and TcpPump call PiecesUpTo(n).                             *)
(***************************************************************************)
EXTENDS Integers, SequencesExt, SequenceTheorems, FiniteSetTheorems, TLAPS

\* Induction on the natural numbers, for a set: its least counterexample up to
\* some n has a predecessor that is one, too, so that taking the predecessor maps
\* the finite set of counterexamples into itself, one to one, and misses n.
LEMMA Induction ==
  ASSUME NEW S, 0 \in S, \A n \in Nat : n \in S => n + 1 \in S
  PROVE  Nat \subseteq S
<1> SUFFICES ASSUME NEW n \in Nat, n \notin S PROVE FALSE
  OBVIOUS
<1> DEFINE T == (0..n) \ S
           f == [m \in T |-> m - 1]
<1>1. IsFiniteSet(T)
  <2>1. IsFiniteSet(0..n)
    BY FS_Interval
  <2> QED
    BY <2>1, FS_Subset
<1>2. \A m \in T : m \in Nat /\ m - 1 \in T
  OBVIOUS
<1>3. f \in Injection(T, T)
  BY <1>2 DEF Injection, IsInjective
<1>4. f \in Surjection(T, T)
  BY <1>1, <1>3, FS_Injection
<1>5. n \in T
  OBVIOUS
<1>6. \E m \in T : f[m] = n
  BY <1>4, <1>5 DEF Surjection
<1> QED BY <1>2, <1>6

\* A function on the first n numbers is a sequence of length n.
LEMMA FunctionIsSeq ==
  ASSUME NEW S, NEW n \in Nat, NEW f \in [1..n -> S]
  PROVE  f \in Seq(S) /\ Len(f) = n
<1>1. f \in Seq(S)
  BY SeqDef
<1> QED
  BY <1>1, LenProperties

-----------------------------------------------------------------------------
\* Flattening appends the sequences one by one: FlattenSeq's recursive function
\* exists, since it does up to each place.
LEMMA FlattenDef ==
  ASSUME NEW S, NEW s \in Seq(Seq(S))
  PROVE  \E f : /\ f[0] = <<>>
                /\ \A n \in 0..(Len(s) - 1) : f[n + 1] = f[n] \o s[n + 1]
                /\ FlattenSeq(s) = f[Len(s)]
<1> DEFINE Def(g, n) == g = [i \in 1..n |-> IF i = 1 THEN s[i] ELSE g[i - 1] \o s[i]]
           Good == {n \in Nat : \E g : Def(g, n)}
<1>1. Len(s) \in Nat
  OBVIOUS
<1>2. 0 \in Good
  <2>1. Def([i \in {} |-> s], 0)
    OBVIOUS
  <2> QED
    BY <2>1
<1>3. ASSUME NEW n \in Nat, n \in Good PROVE n + 1 \in Good
  <2>1. PICK g : Def(g, n)
    BY <1>3
  <2> DEFINE last == IF n = 0 THEN s[1] ELSE g[n] \o s[n + 1]
             h == [i \in 1..(n + 1) |-> IF i = n + 1 THEN last ELSE g[i]]
  <2>2. DOMAIN g = 1..n /\ \A i \in 1..n : g[i] = IF i = 1 THEN s[i] ELSE g[i - 1] \o s[i]
    BY <2>1
  <2>3. ASSUME NEW i \in 1..(n + 1) PROVE h[i] = IF i = 1 THEN s[i] ELSE h[i - 1] \o s[i]
    <3>1. CASE i = n + 1
      <4>1. h[i] = last /\ (n # 0 => h[i - 1] = g[n])
        BY <3>1
      <4> QED
        BY <3>1, <4>1
    <3>2. CASE i # n + 1
      <4>1. i \in 1..n /\ h[i] = g[i] /\ (i # 1 => h[i - 1] = g[i - 1])
        BY <3>2
      <4> QED
        BY <2>2, <4>1
    <3> QED
      BY <3>1, <3>2
  <2>4. Def(h, n + 1)
    BY <2>3
  <2>5. \E f : Def(f, n + 1)
    <3> HIDE DEF h, Def
    <3> QED
      BY <2>4
  <2> HIDE DEF Def
  <2> QED
    BY <2>5
<1>4. \E g : Def(g, Len(s))
  <2> HIDE DEF Good
  <2>1. Nat \subseteq Good
    BY <1>2, <1>3, Induction
  <2> QED
    BY <1>1, <2>1 DEF Good
<1> DEFINE g == CHOOSE g : Def(g, Len(s))
           f == [n \in 0..Len(s) |-> IF n = 0 THEN <<>> ELSE g[n]]
<1>5. DOMAIN g = 1..Len(s) /\ \A i \in 1..Len(s) : g[i] = IF i = 1 THEN s[i] ELSE g[i - 1] \o s[i]
  <2>1. Def(g, Len(s))
    BY <1>4
  <2> HIDE DEF g
  <2> QED
    BY <2>1
<1>6. Len(s) > 0 => FlattenSeq(s) = g[Len(s)]
  BY DEF FlattenSeq
<1>7. Len(s) = 0 => FlattenSeq(s) = <<>>
  BY EmptySeq DEF FlattenSeq
<1> HIDE DEF g
<1>8. FlattenSeq(s) = f[Len(s)]
  BY <1>1, <1>6, <1>7
<1>9. ASSUME NEW n \in 0..(Len(s) - 1) PROVE f[n + 1] = f[n] \o s[n + 1]
  <2>1. n + 1 \in 1..Len(s) /\ n \in 0..Len(s) /\ n + 1 \in 0..Len(s) /\ n + 1 # 0 /\ (n + 1) - 1 = n
    BY <1>1
  <2>2. /\ f[n + 1] = g[n + 1] /\ s[n + 1] \in Seq(S)
        /\ f[n] = IF n = 0 THEN <<>> ELSE g[n]
    BY <2>1
  <2>5. g[n + 1] = IF n = 0 THEN s[n + 1] ELSE g[n] \o s[n + 1]
    <3>1. g[n + 1] = IF n + 1 = 1 THEN s[n + 1] ELSE g[(n + 1) - 1] \o s[n + 1]
      BY <1>5, <2>1
    <3> QED
      BY <2>1, <3>1
  <2> HIDE DEF f
  <2>3. CASE n = 0
    <3>1. f[n] = <<>> /\ g[n + 1] = s[n + 1]
      BY <2>2, <2>3, <2>5
    <3> QED
      BY <2>2, <3>1, ConcatEmptySeq
  <2>4. CASE n # 0
    <3>1. f[n] = g[n] /\ g[n + 1] = g[n] \o s[n + 1]
      BY <2>2, <2>4, <2>5
    <3> QED
      BY <2>2, <3>1
  <2> QED
    BY <2>3, <2>4
<1>10. f[0] = <<>>
  BY <1>1
<1> HIDE DEF f
<1> QED
  BY <1>8, <1>9, <1>10

\* The sequence a consists of the first n sequences of s, each beginning after at.
Laid(a, s, at, n) ==
  /\ Len(a) = at[n + 1]
  /\ \A i \in 1..n : at[i] + Len(s[i]) <= Len(a)
  /\ \A i \in 1..n : \A j \in 1..Len(s[i]) : a[at[i] + j] = s[i][j]

\* Appending the next one leaves the others where they are.
LEMMA LaidOn ==
  ASSUME NEW S, NEW s \in Seq(Seq(S)), NEW n \in Nat, n + 1 <= Len(s), NEW a \in Seq(S),
         NEW at \in [1..(Len(s) + 1) -> Nat], at[n + 2] = at[n + 1] + Len(s[n + 1]),
         Laid(a, s, at, n)
  PROVE  a \o s[n + 1] \in Seq(S) /\ Laid(a \o s[n + 1], s, at, n + 1)
<1> DEFINE b == s[n + 1]
           ab == a \o b
<1>1. n + 1 \in 1..Len(s) /\ b \in Seq(S) /\ Len(b) \in Nat /\ Len(a) \in Nat
  OBVIOUS
<1>2. /\ ab \in Seq(S) /\ Len(ab) = Len(a) + Len(b)
      /\ \A k \in 1..Len(a) : ab[k] = a[k]
      /\ \A k \in 1..Len(b) : ab[Len(a) + k] = b[k]
  <2> HIDE DEF b
  <2> QED
    BY <1>1, ConcatProperties
<1>3. Len(a) = at[n + 1] /\ Len(ab) = at[(n + 1) + 1]
  BY <1>1, <1>2 DEF Laid
<1> HIDE DEF ab
<1>4. ASSUME NEW i \in 1..(n + 1)
      PROVE  /\ at[i] + Len(s[i]) <= Len(ab)
             /\ \A j \in 1..Len(s[i]) : ab[at[i] + j] = s[i][j]
  <2>1. CASE i = n + 1
    BY <1>1, <1>2, <1>3, <2>1
  <2>2. CASE i # n + 1
    <3>0. i \in 1..n /\ i \in 1..Len(s) /\ i \in 1..(Len(s) + 1) /\ s[i] \in Seq(S)
      BY <1>1, <2>2
    <3>1. i \in 1..n /\ at[i] \in Nat /\ Len(s[i]) \in Nat
      BY <3>0
    <3>2. at[i] + Len(s[i]) <= Len(a) /\ \A j \in 1..Len(s[i]) : a[at[i] + j] = s[i][j]
      BY <3>1 DEF Laid
    <3>3. \A j \in 1..Len(s[i]) : at[i] + j \in 1..Len(a)
      BY <1>1, <3>1, <3>2, SMTT(30)
    <3>4. at[i] + Len(s[i]) <= Len(ab)
      BY <1>1, <1>2, <3>1, <3>2, SMTT(30)
    <3>5. \A j \in 1..Len(s[i]) : ab[at[i] + j] = s[i][j]
      BY <1>2, <3>2, <3>3
    <3> QED
      BY <3>4, <3>5
  <2> QED
    BY <2>1, <2>2
<1> QED
  BY <1>2, <1>3, <1>4 DEF Laid, ab

\* Flattened sequences are found where the lengths of those before put them.
LEMMA Flattened ==
  ASSUME NEW S, NEW s \in Seq(Seq(S)), NEW at \in [1..(Len(s) + 1) -> Nat], at[1] = 0,
         \A i \in 1..Len(s) : at[i + 1] = at[i] + Len(s[i])
  PROVE  FlattenSeq(s) \in Seq(S) /\ Laid(FlattenSeq(s), s, at, Len(s))
<1>1. Len(s) \in Nat
  OBVIOUS
<1>2. PICK f : /\ f[0] = <<>>
               /\ \A n \in 0..(Len(s) - 1) : f[n + 1] = f[n] \o s[n + 1]
               /\ FlattenSeq(s) = f[Len(s)]
  BY FlattenDef
<1> DEFINE Good == {n \in Nat : n <= Len(s) => f[n] \in Seq(S) /\ Laid(f[n], s, at, n)}
<1>3. 0 \in Good
  <2>1. f[0] \in Seq(S) /\ Len(f[0]) = 0
    BY <1>2
  <2>2. Laid(f[0], s, at, 0)
    BY <2>1 DEF Laid
  <2> QED
    BY <2>1, <2>2
<1>4. ASSUME NEW n \in Nat, n \in Good PROVE n + 1 \in Good
  <2>1. SUFFICES ASSUME n + 1 <= Len(s) PROVE f[n + 1] \in Seq(S) /\ Laid(f[n + 1], s, at, n + 1)
    OBVIOUS
  <2>2. f[n] \in Seq(S) /\ Laid(f[n], s, at, n)
    BY <1>1, <1>4, <2>1
  <2>3. n + 1 \in 1..Len(s) /\ n \in 0..(Len(s) - 1) /\ (n + 1) + 1 = n + 2
    BY <1>1, <2>1
  <2>4. f[n + 1] = f[n] \o s[n + 1]
    BY <1>2, <2>3
  <2>5. at[(n + 1) + 1] = at[n + 1] + Len(s[n + 1])
    BY <2>3
  <2> QED
    BY <2>1, <2>2, <2>3, <2>4, <2>5, LaidOn
<1> HIDE DEF Good
<1>5. Len(s) \in Good
  BY <1>1, <1>3, <1>4, Induction
<1> QED
  BY <1>1, <1>2, <1>5 DEF Good

-----------------------------------------------------------------------------
\* The first n pieces are a sequence of length n.
LEMMA FirstPieces ==
  ASSUME NEW n \in Nat
  PROVE  /\ [k \in 1..n |-> k] \in Seq(1..n)
         /\ [k \in 1..n |-> k] \in Seq(Nat)
         /\ Len([k \in 1..n |-> k]) = n
         /\ \A i \in 1..n : [k \in 1..n |-> k][i] = i
<1>1. [k \in 1..n |-> k] \in [1..n -> 1..n] /\ [k \in 1..n |-> k] \in [1..n -> Nat]
  OBVIOUS
<1>2. [k \in 1..n |-> k] \in Seq(1..n) /\ [k \in 1..n |-> k] \in Seq(Nat)
  BY <1>1, SeqDef
<1>3. Len([k \in 1..n |-> k]) = n
  BY <1>2, LenProperties
<1> QED
  BY <1>2, <1>3

\* One more piece.
LEMMA AppendPiece ==
  ASSUME NEW n \in Nat
  PROVE  Append([k \in 1..n |-> k], n + 1) = [k \in 1..(n + 1) |-> k]
<1>1. n + 1 \in Nat
  OBVIOUS
<1>2. /\ Append([k \in 1..n |-> k], n + 1) \in Seq(Nat)
      /\ Len(Append([k \in 1..n |-> k], n + 1)) = n + 1
      /\ \A i \in 1..n : Append([k \in 1..n |-> k], n + 1)[i] = i
      /\ Append([k \in 1..n |-> k], n + 1)[n + 1] = n + 1
  BY <1>1, FirstPieces, AppendProperties
<1>3. /\ [k \in 1..(n + 1) |-> k] \in Seq(Nat)
      /\ Len([k \in 1..(n + 1) |-> k]) = n + 1
  BY <1>1, FirstPieces
<1> QED
  BY <1>2, <1>3, SeqEqual

\* What is read from position m on completes the first m pieces.
LEMMA ReadOnFrom ==
  ASSUME NEW m \in Nat, NEW n \in Nat, m <= n
  PROVE  /\ SubSeq([k \in 1..n |-> k], m + 1, n) \in Seq(1..n)
         /\ Len(SubSeq([k \in 1..n |-> k], m + 1, n)) = n - m
         /\ [k \in 1..m |-> k] \o SubSeq([k \in 1..n |-> k], m + 1, n) = [k \in 1..n |-> k]
<1>. DEFINE all == [k \in 1..n |-> k]
            old == [k \in 1..m |-> k]
            new == SubSeq(all, m + 1, n)
<1>1. /\ all \in Seq(Nat) /\ Len(all) = n /\ \A i \in 1..n : all[i] = i
      /\ old \in Seq(Nat) /\ Len(old) = m /\ \A i \in 1..m : old[i] = i
  BY FirstPieces
<1>. HIDE DEF all, old
<1>2. /\ new \in Seq(1..n) /\ new \in Seq(Nat) /\ Len(new) = n - m
      /\ \A i \in 1..(n - m) : new[i] = m + i
  <2>1. m + 1 \in Int /\ n \in Int /\ \A i \in (m + 1)..n : all[i] \in 1..n
    BY <1>1
  <2>2. /\ new \in Seq(1..n)
        /\ Len(new) = IF m + 1 <= n THEN n - (m + 1) + 1 ELSE 0
        /\ \A i \in 1..(n - (m + 1) + 1) : new[i] = all[(m + 1) + i - 1]
    BY <2>1, SubSeqProperties
  <2>3. new \in Seq(Nat)
    BY <2>2, SeqMonotonic
  <2> QED
    BY <1>1, <2>2, <2>3
<1>. HIDE DEF new
<1>3. /\ old \o new \in Seq(Nat) /\ Len(old \o new) = n
      /\ \A i \in 1..n : (old \o new)[i] = i
  <2>1. /\ old \o new \in Seq(Nat) /\ Len(old \o new) = Len(old) + Len(new)
        /\ \A i \in 1..(Len(old) + Len(new)) :
             (old \o new)[i] = IF i <= Len(old) THEN old[i] ELSE new[i - Len(old)]
    <3>1. old \in Seq(Nat) /\ new \in Seq(Nat)
      BY <1>1, <1>2
    <3> QED
      BY <3>1, ConcatProperties
  <2>2. Len(old \o new) = n
    BY <1>1, <1>2, <2>1
  <2>3. ASSUME NEW i \in 1..n PROVE (old \o new)[i] = i
    <3>1. (old \o new)[i] = IF i <= m THEN old[i] ELSE new[i - m]
      <4>1. Len(old) = m /\ Len(new) = n - m /\ i \in 1..(Len(old) + Len(new))
        BY <1>1, <1>2
      <4>2. (old \o new)[i] = IF i <= Len(old) THEN old[i] ELSE new[i - Len(old)]
        BY <2>1, <4>1, Zenon
      <4> QED
        BY <4>1, <4>2, Zenon
    <3>2. CASE i <= m
      BY <1>1, <3>1, <3>2
    <3>3. CASE ~(i <= m)
      <4>1. i - m \in 1..(n - m) /\ m + (i - m) = i
        BY <3>3
      <4> QED
        BY <1>2, <3>1, <3>3, <4>1
    <3> QED
      BY <3>2, <3>3
  <2> QED
    BY <2>1, <2>2, <2>3
<1>4. old \o new = all
  BY <1>1, <1>3, SeqEqual
<1> QED
  BY <1>2, <1>4 DEF all, old, new

\* A part of the first n pieces that has no gap in front is a prefix of them.
LEMMA PartIsPrefix ==
  ASSUME NEW n \in Nat, NEW s \in Seq(Nat), NEW t \in Seq(Nat), s \o t = [k \in 1..n |-> k]
  PROVE  /\ Len(s) \in 0..n /\ Len(t) = n - Len(s)
         /\ s = [k \in 1..Len(s) |-> k]
         /\ s = SubSeq([k \in 1..n |-> k], 1, Len(s))
<1>. DEFINE all == [k \in 1..n |-> k]
<1>1. all \in Seq(Nat) /\ Len(all) = n /\ \A i \in 1..n : all[i] = i
  BY FirstPieces
<1>2. s \o t = all
  OBVIOUS
<1>. HIDE DEF all
<1>3. /\ Len(s) \in Nat /\ Len(t) \in Nat /\ Len(s) + Len(t) = n
      /\ \A i \in 1..Len(s) : s[i] = i
  BY <1>1, <1>2, ConcatProperties, LenProperties
<1>4. s = [k \in 1..Len(s) |-> k]
  BY <1>3, FirstPieces, SeqEqual
<1>5. s = SubSeq(all, 1, Len(s))
  <2>1. /\ SubSeq(all, 1, Len(s)) \in Seq(Nat)
        /\ Len(SubSeq(all, 1, Len(s))) = Len(s)
        /\ \A i \in 1..Len(s) : SubSeq(all, 1, Len(s))[i] = i
    <3>1. \A i \in 1..Len(s) : all[i] \in Nat /\ all[i] = i
      BY <1>1, <1>3
    <3>2. /\ SubSeq(all, 1, Len(s)) \in Seq(Nat)
          /\ Len(SubSeq(all, 1, Len(s))) = IF 1 <= Len(s) THEN Len(s) - 1 + 1 ELSE 0
          /\ \A i \in 1..(Len(s) - 1 + 1) : SubSeq(all, 1, Len(s))[i] = all[1 + i - 1]
      BY <1>3, <3>1, SubSeqProperties
    <3> QED
      BY <1>3, <3>1, <3>2
  <2> QED
    BY <1>3, <2>1, SeqEqual
<1> QED
  BY <1>3, <1>4, <1>5 DEF all

\* Cutting a sequence in two loses nothing.
LEMMA CutInTwo ==
  ASSUME NEW S, NEW b \in Seq(S), NEW n \in 0..Len(b)
  PROVE  /\ SubSeq(b, 1, n) \in Seq(S) /\ Len(SubSeq(b, 1, n)) = n
         /\ SubSeq(b, n + 1, Len(b)) \in Seq(S) /\ Len(SubSeq(b, n + 1, Len(b))) = Len(b) - n
         /\ SubSeq(b, 1, n) \o SubSeq(b, n + 1, Len(b)) = b
<1>1. Len(b) \in Nat /\ n \in Nat /\ \A i \in 1..Len(b) : b[i] \in S
  BY LenProperties, ElementOfSeq
<1>2. SubSeq(b, 1, n) \in Seq(S) /\ Len(SubSeq(b, 1, n)) = IF 1 <= n THEN n - 1 + 1 ELSE 0
  BY <1>1, SubSeqProperties
<1>3. /\ SubSeq(b, n + 1, Len(b)) \in Seq(S)
      /\ Len(SubSeq(b, n + 1, Len(b))) = IF n + 1 <= Len(b) THEN Len(b) - (n + 1) + 1 ELSE 0
  BY <1>1, SubSeqProperties
<1>4. SubSeq(b, 1, n) \o SubSeq(b, n + 1, Len(b)) = SubSeq(b, 1, Len(b))
  <2>1. 1 \in 1..(Len(b) + 1) /\ n \in (1 - 1)..Len(b) /\ Len(b) \in n..Len(b)
    BY <1>1
  <2> QED
    BY <2>1, ConcatAdjacentSubSeq
<1>5. SubSeq(b, 1, Len(b)) = b
  BY SubSeqFull
<1>6. Len(SubSeq(b, 1, n)) = n /\ Len(SubSeq(b, n + 1, Len(b))) = Len(b) - n
  BY <1>1, <1>2, <1>3
<1>7. SubSeq(b, 1, n) \o SubSeq(b, n + 1, Len(b)) = b
  BY <1>4, <1>5, Zenon
<1> QED
  BY <1>2, <1>3, <1>6, <1>7, Zenon

-----------------------------------------------------------------------------
\* The whole chunks of u pieces among x pieces leave less than a chunk.
LEMMA WholeChunks ==
  ASSUME NEW x \in Nat, NEW u \in Nat \ {0}
  PROVE  /\ x \div u \in Nat
         /\ (x \div u) * u \in 0..x
         /\ x - (x \div u) * u < u
  BY Z3

\* Among whole chunks, all are whole.
LEMMA OnlyWholeChunks ==
  ASSUME NEW m \in Nat, NEW u \in Nat \ {0}
  PROVE  m * u \in Nat /\ (m * u) \div u = m
  BY Z3

\* A chunk more is u pieces more.
LEMMA OneMoreChunk ==
  ASSUME NEW m \in Nat, NEW u \in Nat
  PROVE  m * u \in Nat /\ (m + 1) * u = m * u + u /\ (m > 0 => u <= m * u)
  BY Z3

\* More chunks are not fewer pieces.
LEMMA MoreChunks ==
  ASSUME NEW m \in Nat, NEW n \in Nat, NEW u \in Nat, m <= n
  PROVE  m * u <= n * u /\ (n - m) * u = n * u - m * u
  BY Z3

\* The pieces of chunks add up.
LEMMA MoreChunksAdd ==
  ASSUME NEW m \in Nat, NEW n \in Nat, NEW u \in Nat
  PROVE  (m + n) * u = m * u + n * u
  BY Z3

\* Fewer pieces are not more chunks.
LEMMA FewerChunks ==
  ASSUME NEW m \in Nat, NEW n \in Nat, NEW u \in Nat \ {0}, m * u <= n * u
  PROVE  m <= n
  BY Z3
=============================================================================
