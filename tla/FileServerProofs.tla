-------------------------- MODULE FileServerProofs --------------------------
(***************************************************************************)
(* Proofs about the file server (FileServer, Rle), for any number of       *)
(* clients, paths, files and commands.  Decoding gives back every file     *)
(* that was encoded, whatever its length.  The locks are released and      *)
(* never block everybody, and when every file has one path they keep a     *)
(* writer alone.                                                           *)
(***************************************************************************)
EXTENDS FileServer, WellFoundedInduction, FiniteSetTheorems, TLAPS

-----------------------------------------------------------------------------
(* Induction on numbers, for a set in place of a predicate. *)

\* A set with 0 in it and with every successor has all the numbers.
LEMMA NatInductive ==
  ASSUME NEW T, 0 \in T, \A n \in Nat : n \in T => n + 1 \in T
  PROVE  Nat \subseteq T
<1> SUFFICES ASSUME Nat \ T # {} PROVE FALSE
  BY Zenon
<1> DEFINE R == OpToRel(<, Nat)
<1>1. IsWellFoundedOn(R, Nat)
  BY NatLessThanWellFounded, Zenon
<1>2. \A i, j \in Nat : i < j => <<i, j>> \in R
  BY Zenon DEF OpToRel
<1> HIDE DEF R
<1>3. PICK x \in Nat \ T : \A y \in Nat \ T : ~ (<<y, x>> \in R)
  BY <1>1, WFMin, Zenon
<1>4. x # 0 /\ x - 1 \in Nat /\ x - 1 < x
  BY <1>3
<1>5. x - 1 \in T
  BY <1>2, <1>3, <1>4, Zenon
<1>6. (x - 1) + 1 \in T
  BY <1>4, <1>5, Zenon
<1> QED
  BY <1>3, <1>4, <1>6

\* The run that starts at a byte ends within the input.
LEMMA RunFits ==
  ASSUME NEW in \in Seq(Nat), NEW i \in 0..(Len(in) - 1)
  PROVE  /\ RunAt(in, i) \in 1..MaxRun /\ i + RunAt(in, i) <= Len(in)
         /\ \A k \in 1..RunAt(in, i) : in[i + k] = in[i + 1]
<1> DEFINE Same(n) == i + n <= Len(in) /\ \A k \in 1..n : in[i + k] = in[i + 1]
           Ends(n) == n = MaxRun \/ i + n = Len(in) \/ in[i + n + 1] # in[i + 1]
<1>1. SUFFICES \E r \in 1..MaxRun : Same(r) /\ Ends(r)
  BY Zenon DEF RunAt
<1> DEFINE T == {n \in Nat : n \in 1..MaxRun => Same(n)}
<1>2. SUFFICES ASSUME \A r \in 1..MaxRun : Same(r) => ~Ends(r) PROVE FALSE
  BY Zenon
<1>3. MaxRun \in Nat /\ MaxRun >= 1 /\ MaxRun \in 1..MaxRun
  BY RleAssumption
<1>4. Same(1)
  OBVIOUS
<1>5. \A n \in 1..MaxRun : Same(n) /\ ~Ends(n) => Same(n + 1)
  <2> SUFFICES ASSUME NEW n \in 1..MaxRun, Same(n), ~Ends(n) PROVE Same(n + 1)
    BY Zenon
  <2>1. i + (n + 1) <= Len(in)
    BY <1>3
  <2>2. in[i + (n + 1)] = in[i + 1]
    <3>1. i + (n + 1) = i + n + 1
      BY <1>3
    <3> QED
      BY <3>1, Zenon
  <2>3. \A k \in 1..(n + 1) : k \in 1..n \/ k = n + 1
    BY <1>3
  <2> QED
    BY <2>1, <2>2, <2>3, Zenon
<1>6. Ends(MaxRun)
  BY Zenon
<1> HIDE DEF Same, Ends
<1>7. 0 \in T
  OBVIOUS
<1>8. \A n \in Nat : n \in T => n + 1 \in T
  <2> SUFFICES ASSUME NEW n \in Nat, n \in T, n + 1 \in 1..MaxRun PROVE Same(n + 1)
    OBVIOUS
  <2>1. CASE n = 0
    BY <2>1, <1>4
  <2>2. CASE n # 0
    <3>1. n \in 1..MaxRun
      BY <2>2, <1>3
    <3> QED
      BY <3>1, <1>2, <1>5, Zenon
  <2> QED
    BY <2>1, <2>2, Zenon
<1> HIDE DEF T
<1>9. MaxRun \in T
  BY <1>3, <1>7, <1>8, NatInductive, Zenon
<1> QED
  BY <1>2, <1>3, <1>6, <1>9, Zenon DEF T
-----------------------------------------------------------------------------
(* Sequences *)

\* A sequence is a function on 1..Len(s).
LEMMA LenProperties ==
  ASSUME NEW S, NEW s \in Seq(S)
  PROVE  Len(s) \in Nat /\ s \in [1..Len(s) -> S] /\ DOMAIN s = 1..Len(s)
OBVIOUS

\* Sequences that agree everywhere are equal.
LEMMA SeqEqual ==
  ASSUME NEW S, NEW s \in Seq(S), NEW t \in Seq(S),
         Len(s) = Len(t), \A i \in 1..Len(s) : s[i] = t[i]
  PROVE  s = t
<1>1. s \in [1..Len(s) -> S] /\ t \in [1..Len(s) -> S]
  BY LenProperties, Zenon
<1> QED
  BY <1>1

\* The elements of two sequences, one after the other.
LEMMA ConcatProperties ==
  ASSUME NEW S, NEW s \in Seq(S), NEW t \in Seq(S)
  PROVE  /\ s \o t \in Seq(S) /\ Len(s \o t) = Len(s) + Len(t)
         /\ \A i \in 1..Len(s) + Len(t) :
              (s \o t)[i] = IF i <= Len(s) THEN s[i] ELSE t[i - Len(s)]
OBVIOUS

\* The bytes from m + 1 to n.
LEMMA SliceIs ==
  ASSUME NEW P \in Seq(Nat), NEW m \in Nat, NEW n \in Nat, m <= n, n <= Len(P)
  PROVE  /\ SubSeq(P, m + 1, n) \in Seq(Nat) /\ Len(SubSeq(P, m + 1, n)) = n - m
         /\ \A j \in 1..(n - m) : SubSeq(P, m + 1, n)[j] = P[m + j]
OBVIOUS

\* One sequence after the other.
LEMMA JoinIs ==
  ASSUME NEW s \in Seq(Nat), NEW t \in Seq(Nat)
  PROVE  /\ s \o t \in Seq(Nat) /\ Len(s \o t) = Len(s) + Len(t)
         /\ \A j \in 1..Len(s) : (s \o t)[j] = s[j]
         /\ \A j \in 1..Len(t) : (s \o t)[Len(s) + j] = t[j]
<1> DEFINE q == s \o t
<1>1. /\ q \in Seq(Nat) /\ Len(q) = Len(s) + Len(t)
      /\ \A i \in 1..Len(s) + Len(t) : q[i] = IF i <= Len(s) THEN s[i] ELSE t[i - Len(s)]
  BY ConcatProperties, Zenon
<1>2. Len(s) \in Nat /\ Len(t) \in Nat
  OBVIOUS
<1> HIDE DEF q
<1>3. \A j \in 1..Len(s) : j \in 1..Len(s) + Len(t) /\ j <= Len(s)
  BY <1>2
<1>4. \A j \in 1..Len(t) : /\ Len(s) + j \in 1..Len(s) + Len(t) /\ ~(Len(s) + j <= Len(s))
                           /\ (Len(s) + j) - Len(s) = j
  BY <1>2
<1> QED
  BY <1>1, <1>3, <1>4, Zenon DEF q

\* A sequence is what comes before a place and what comes after it.
LEMMA ConcatAdjacentSubSeq ==
  ASSUME NEW P \in Seq(Nat), NEW k \in 0..Len(P), NEW n \in k..Len(P)
  PROVE  SubSeq(P, 1, k) \o SubSeq(P, k + 1, n) = SubSeq(P, 1, n)
<1> DEFINE a == SubSeq(P, 1, k)
           b == SubSeq(P, k + 1, n)
           c == SubSeq(P, 1, n)
<1>1. Len(P) \in Nat /\ k \in Nat /\ n \in Nat /\ k <= n /\ n <= Len(P) /\ 0 + 1 = 1
      /\ k - 0 = k /\ n - 0 = n
  OBVIOUS
<1>2. a \in Seq(Nat) /\ Len(a) = k /\ \A j \in 1..k : a[j] = P[0 + j]
  BY <1>1, SliceIs
<1>3. b \in Seq(Nat) /\ Len(b) = n - k /\ \A j \in 1..(n - k) : b[j] = P[k + j]
  BY <1>1, SliceIs, Zenon
<1>4. c \in Seq(Nat) /\ Len(c) = n /\ \A j \in 1..n : c[j] = P[0 + j]
  BY <1>1, SliceIs
<1> HIDE DEF a, b, c
<1>5. /\ a \o b \in Seq(Nat) /\ Len(a \o b) = Len(a) + Len(b)
      /\ \A j \in 1..Len(a) : (a \o b)[j] = a[j]
      /\ \A j \in 1..Len(b) : (a \o b)[Len(a) + j] = b[j]
  BY <1>2, <1>3, JoinIs, Zenon
<1>6. Len(a) + Len(b) = n
  BY <1>1, <1>2, <1>3
<1>7. ASSUME NEW j \in 1..n PROVE (a \o b)[j] = c[j]
  <2>1. 0 + j = j /\ (j \in 1..k \/ (j - k \in 1..(n - k) /\ k + (j - k) = j))
    BY <1>1
  <2>2. c[j] = P[j]
    BY <1>4, <2>1, Zenon
  <2>3. CASE j \in 1..k
    BY <1>2, <1>5, <2>1, <2>2, <2>3, Zenon
  <2>4. CASE j - k \in 1..(n - k) /\ k + (j - k) = j
    <3>1. (a \o b)[k + (j - k)] = b[j - k]
      BY <1>2, <1>3, <1>5, <2>4, Zenon
    <3>2. b[j - k] = P[k + (j - k)]
      BY <1>3, <2>4, Zenon
    <3> QED
      BY <2>2, <2>4, <3>1, <3>2, Zenon
  <2> QED
    BY <2>1, <2>3, <2>4, Zenon
<1> QED
  BY <1>4, <1>5, <1>6, <1>7, SeqEqual, Zenon DEF a, b, c

-----------------------------------------------------------------------------
(* The compressed file *)

\* f gives the pairs from every byte on.
From(in, f) ==
  f = [i \in 0..Len(in) |->
         IF i = Len(in) THEN <<>>
         ELSE <<RunAt(in, i), in[i + 1]>> \o f[i + RunAt(in, i)]]

\* The loop of rle_compress_bytes() ends, for every input.
LEMMA PairsExist ==
  ASSUME NEW in \in Seq(Nat)
  PROVE  \E f : From(in, f)
<1> DEFINE L == Len(in)
           D(n) == {i \in 0..L : L - i <= n}
           E(i, g) == IF i = L THEN <<>> ELSE <<RunAt(in, i), in[i + 1]>> \o g[i + RunAt(in, i)]
           T == {n \in Nat : \E g : g = [i \in D(n) |-> E(i, g)]}
<1>0. L \in Nat /\ L - L <= 0
  OBVIOUS
<1>1. \A i \in 0..L : i # L => i + RunAt(in, i) \in i + 1..L
  <2> SUFFICES ASSUME NEW i \in 0..L, i # L PROVE i + RunAt(in, i) \in i + 1..L
    BY Zenon
  <2>1. i \in 0..(Len(in) - 1)
    BY <1>0
  <2>2. RunAt(in, i) \in 1..MaxRun /\ i + RunAt(in, i) <= L
    BY <2>1, RunFits, Zenon
  <2> QED
    BY <2>2, RleAssumption
<1> HIDE DEF L
<1>2. 0 \in T
  <2>1. \A i \in D(0) : i = L
    BY <1>0
  <2> DEFINE g == [i \in D(0) |-> <<>>]
  <2>2. g = [i \in D(0) |-> E(i, g)]
    BY <2>1, Zenon
  <2> QED
    BY <2>2, Zenon
<1>3. \A n \in Nat : n \in T => n + 1 \in T
  <2> SUFFICES ASSUME NEW n \in Nat, n \in T PROVE n + 1 \in T
    BY Zenon
  <2>1. PICK g : g = [i \in D(n) |-> E(i, g)]
    BY Zenon
  <2> DEFINE h == [i \in D(n + 1) |-> E(i, g)]
  <2>2. \A i \in D(n + 1) : i # L => i + RunAt(in, i) \in D(n) /\ i + RunAt(in, i) \in D(n + 1)
    BY <1>0, <1>1
  <2>3. \A i \in D(n) : i \in D(n + 1) /\ h[i] = g[i]
    <3>1. \A i \in D(n) : i \in D(n + 1)
      BY <1>0
    <3>2. \A i \in D(n) : g[i] = E(i, g)
      BY <2>1, Zenon
    <3> QED
      BY <3>1, <3>2, Zenon
  <2> HIDE DEF D
  <2>4. \A i \in D(n + 1) : E(i, h) = E(i, g)
    BY <2>2, <2>3, Zenon
  <2>5. h = [i \in D(n + 1) |-> E(i, h)]
    BY <2>4, Zenon
  <2>6. n + 1 \in Nat
    OBVIOUS
  <2> QED
    BY <2>5, <2>6, Zenon
<1>4. L \in T
  <2> HIDE DEF T
  <2> QED
    BY <1>0, <1>2, <1>3, NatInductive, Zenon
<1>5. D(L) = 0..Len(in)
  BY <1>0 DEF L
<1> QED
  BY <1>4, <1>5, Zenon DEF From, L

\* What Pairs(in) stands for: the pairs from every byte on, up to the end.
LEMMA PairsAre ==
  ASSUME NEW in \in Seq(Nat)
  PROVE  \E f \in [0..Len(in) -> Seq(Nat)] : From(in, f) /\ Pairs(in) = f[0]
<1> DEFINE f == CHOOSE g : From(in, g)
<1>1. From(in, f)
  BY PairsExist, Zenon
<1>2. Pairs(in) = f[0]
  BY Zenon DEF Pairs, From
<1> HIDE DEF f
<1> DEFINE L == Len(in)
           T == {n \in Nat : \A i \in 0..L : L - i <= n => f[i] \in Seq(Nat)}
<1>3. L \in Nat /\ 0 \in 0..L /\ \A i \in 0..L : L - i <= L
  OBVIOUS
<1>4. f[L] = <<>>
  <2>1. L \in 0..L
    BY <1>3
  <2> QED
    BY <1>1, <2>1, Zenon DEF From
<1>5. \A i \in 0..L : i # L =>
        /\ f[i] = <<RunAt(in, i), in[i + 1]>> \o f[i + RunAt(in, i)]
        /\ RunAt(in, i) \in Nat /\ in[i + 1] \in Nat
        /\ i + RunAt(in, i) \in i + 1..L
  <2> SUFFICES ASSUME NEW i \in 0..L, i # L
               PROVE  /\ f[i] = <<RunAt(in, i), in[i + 1]>> \o f[i + RunAt(in, i)]
                      /\ RunAt(in, i) \in Nat /\ in[i + 1] \in Nat
                      /\ i + RunAt(in, i) \in i + 1..L
    BY Zenon
  <2>1. i \in 0..(Len(in) - 1)
    BY <1>3
  <2>2. RunAt(in, i) \in 1..MaxRun /\ i + RunAt(in, i) <= L
    BY <2>1, RunFits
  <2>3. f[i] = <<RunAt(in, i), in[i + 1]>> \o f[i + RunAt(in, i)]
    BY <1>1, Zenon DEF From
  <2> HIDE DEF L
  <2>4. RunAt(in, i) \in Nat /\ i + RunAt(in, i) \in i + 1..L
    BY <2>2, <1>3, RleAssumption
  <2>5. in[i + 1] \in Nat
    BY <1>3 DEF L
  <2> QED
    BY <2>3, <2>4, <2>5, Zenon
<1> HIDE DEF L
<1>6. 0 \in T
  <2>1. \A i \in 0..L : L - i <= 0 => i = L
    BY <1>3
  <2>2. f[L] \in Seq(Nat)
    BY <1>4
  <2> QED
    BY <2>1, <2>2, Zenon
<1>7. \A n \in Nat : n \in T => n + 1 \in T
  <2> SUFFICES ASSUME NEW n \in Nat, n \in T, NEW i \in 0..L, L - i <= n + 1
               PROVE  f[i] \in Seq(Nat)
    OBVIOUS
  <2>1. CASE i = L
    BY <2>1, <1>4
  <2>2. CASE i # L
    <3> DEFINE r == RunAt(in, i)
    <3>1. /\ f[i] = <<r, in[i + 1]>> \o f[i + r]
          /\ r \in Nat /\ in[i + 1] \in Nat /\ i + r \in i + 1..L
      BY <2>2, <1>5, Zenon
    <3> HIDE DEF r
    <3>2. i + r \in 0..L /\ L - (i + r) <= n
      BY <3>1, <1>3
    <3>3. f[i + r] \in Seq(Nat)
      BY <3>2, Zenon
    <3>4. <<r, in[i + 1]>> \in Seq(Nat)
      BY <3>1
    <3> QED
      BY <3>1, <3>3, <3>4, JoinIs, Zenon
  <2> QED
    BY <2>1, <2>2, Zenon
<1>8. L \in T
  <2> HIDE DEF T
  <2> QED
    BY <1>3, <1>6, <1>7, NatInductive, Zenon
<1>9. \A i \in 0..L : f[i] \in Seq(Nat)
  BY <1>3, <1>8, Zenon
<1>10. f \in [0..L -> Seq(Nat)]
  BY <1>1, <1>9, Zenon DEF From, L
<1> QED
  BY <1>1, <1>2, <1>10, Zenon DEF L
-----------------------------------------------------------------------------
(* The decompressed file *)

\* A loop from 1 to K that carries a value of S defines a function.
Loops(K, S) ==
  \A a \in S : \A step \in [(1..K) \X S -> S] :
    \E f \in [0..K -> S] :
      /\ f[0] = a
      /\ \A k \in 1..K : f[k] = step[<<k, f[k - 1]>>]

\* A loop of K rounds over a state from S runs to its end.
LEMMA LoopExists == ASSUME NEW K \in Nat, NEW S PROVE Loops(K, S)
<1> SUFFICES ASSUME NEW a \in S, NEW step \in [(1..K) \X S -> S]
             PROVE  \E f \in [0..K -> S] :
                      /\ f[0] = a
                      /\ \A k \in 1..K : f[k] = step[<<k, f[k - 1]>>]
  BY Zenon DEF Loops
<1> DEFINE Good(n, f) == /\ f \in [0..n -> S] /\ f[0] = a
                         /\ \A k \in 1..n : f[k] = step[<<k, f[k - 1]>>]
           T == {n \in Nat : n <= K => \E f : Good(n, f)}
<1>1. 0 \in T
  <2>1. Good(0, [k \in 0..0 |-> a])
    OBVIOUS
  <2> QED
    BY <2>1, Zenon
<1>2. \A n \in Nat : n \in T => n + 1 \in T
  <2> SUFFICES ASSUME NEW n \in Nat, n \in T, n + 1 <= K PROVE \E f : Good(n + 1, f)
    OBVIOUS
  <2>1. PICK f : Good(n, f)
    OBVIOUS
  <2> DEFINE v == step[<<n + 1, f[n]>>]
             h == [k \in 0..(n + 1) |-> IF k = n + 1 THEN v ELSE f[k]]
  <2>2. v \in S
    <3>1. f[n] \in S /\ n + 1 \in 1..K
      BY <2>1
    <3> QED
      BY <3>1, Zenon
  <2> HIDE DEF v
  <2>3. h \in [0..(n + 1) -> S] /\ h[0] = a /\ h[n + 1] = v
    BY <2>1, <2>2
  <2>4. \A k \in 0..n : h[k] = f[k]
    OBVIOUS
  <2> HIDE DEF h
  <2>5. \A k \in 1..(n + 1) : h[k] = step[<<k, h[k - 1]>>]
    <3> SUFFICES ASSUME NEW k \in 1..(n + 1) PROVE h[k] = step[<<k, h[k - 1]>>]
      BY Zenon
    <3>1. CASE k = n + 1
      <4>1. k - 1 = n /\ n \in 0..n
        BY <3>1
      <4> QED
        BY <3>1, <4>1, <2>3, <2>4, Zenon DEF v
    <3>2. CASE k # n + 1
      <4>1. k \in 1..n /\ k \in 0..n /\ k - 1 \in 0..n
        BY <3>2
      <4> QED
        BY <4>1, <2>1, <2>4, Zenon
    <3> QED
      BY <3>1, <3>2, Zenon
  <2> QED
    BY <2>3, <2>5, Zenon
<1>3. K \in T
  <2> HIDE DEF T
  <2> QED
    BY <1>1, <1>2, NatInductive, Zenon
<1> QED
  BY <1>3

PairCount(in) == (Len(in) - Len(Magic)) \div 2
RunOf(in, k) == [j \in 1..in[Len(Magic) + 2 * k - 1] |-> in[Len(Magic) + 2 * k]]

\* The pairs lie within the input.
LEMMA PairsInside ==
  ASSUME NEW in \in Seq(Nat), Len(in) >= Len(Magic)
  PROVE  /\ PairCount(in) \in Nat
         /\ \A k \in 1..PairCount(in) :
              in[Len(Magic) + 2 * k - 1] \in Nat /\ RunOf(in, k) \in Seq(Nat)
<1> DEFINE L == Len(in)
           M == Len(Magic)
           K == (L - M) \div 2
<1>1. L \in Nat /\ M \in Nat
  BY RleAssumption
<1>2. \A i \in 1..L : in[i] \in Nat
  OBVIOUS
<1>3. L >= M
  BY Zenon
<1> HIDE DEF L, M
<1>4. K \in Nat /\ 2 * K <= L - M
  BY <1>1, <1>3
<1>5. \A k \in 1..K : M + 2 * k - 1 \in 1..L /\ M + 2 * k \in 1..L
  <2> HIDE DEF K
  <2> QED
    BY <1>1, <1>4
<1>6. \A n \in Nat : \A x \in Nat : [j \in 1..n |-> x] \in Seq(Nat)
  OBVIOUS
<1> QED
  BY <1>2, <1>4, <1>5, <1>6, Zenon DEF PairCount, RunOf, L, M

\* f and g are what the two loops of rle_decompress_bytes() have after each
\* pair: the output and its length.
Decodes(in, f, g) ==
  /\ f \in [0..PairCount(in) -> Seq(Nat)] /\ g \in [0..PairCount(in) -> Nat]
  /\ f[0] = <<>> /\ g[0] = 0
  /\ \A k \in 1..PairCount(in) : /\ f[k] = f[k - 1] \o RunOf(in, k)
                                 /\ g[k] = g[k - 1] + in[Len(Magic) + 2 * k - 1]
  /\ rle_decompress_bytes(in) = f[PairCount(in)]
  /\ Total(in) = g[PairCount(in)]

\* The output of rle_decompress_bytes(), pair by pair.
LEMMA DecodeOutput ==
  ASSUME NEW in \in Seq(Nat), Len(in) >= Len(Magic)
  PROVE  \E f \in [0..PairCount(in) -> Seq(Nat)] :
           /\ f[0] = <<>>
           /\ \A k \in 1..PairCount(in) : f[k] = f[k - 1] \o RunOf(in, k)
           /\ rle_decompress_bytes(in) = f[PairCount(in)]
<1> DEFINE K == PairCount(in)
           E(k, u) == IF k = 0 THEN <<>> ELSE u[k - 1] \o RunOf(in, k)
           f == CHOOSE u : u = [k \in 0..K |-> E(k, u)]
           step == [p \in (1..K) \X Seq(Nat) |-> p[2] \o RunOf(in, p[1])]
<1>1. K \in Nat /\ \A k \in 1..K : RunOf(in, k) \in Seq(Nat)
  BY PairsInside, Zenon
<1>2. rle_decompress_bytes(in) = f[K]
  BY Zenon DEF rle_decompress_bytes, PairCount, RunOf
<1> HIDE DEF K
<1>3. step \in [(1..K) \X Seq(Nat) -> Seq(Nat)]
  BY <1>1, ConcatProperties, Zenon
<1>4. <<>> \in Seq(Nat)
  OBVIOUS
<1>4a. Loops(K, Seq(Nat))
  BY <1>1, LoopExists, Zenon
<1>5. PICK u \in [0..K -> Seq(Nat)] :
        u[0] = <<>> /\ \A k \in 1..K : u[k] = step[<<k, u[k - 1]>>]
  <2> HIDE DEF step
  <2> QED
    BY <1>3, <1>4, <1>4a, Zenon DEF Loops
<1>6. \A k \in 0..K : u[k] = E(k, u)
  <2> SUFFICES ASSUME NEW k \in 0..K, k # 0 PROVE u[k] = u[k - 1] \o RunOf(in, k)
    BY <1>5, Zenon
  <2>1. k \in 1..K /\ k - 1 \in 0..K
    BY <1>1
  <2>2. <<k, u[k - 1]>> \in (1..K) \X Seq(Nat)
    BY <2>1, <1>5, Zenon
  <2> QED
    BY <2>1, <2>2, <1>5, Zenon
<1>7. u = [k \in 0..K |-> E(k, u)]
  BY <1>5, <1>6, Zenon
<1>8. f = [k \in 0..K |-> E(k, f)]
  BY <1>7, Zenon
<1> HIDE DEF f
<1>9. f[0] = <<>> /\ \A k \in 1..K : f[k] = f[k - 1] \o RunOf(in, k)
  <2>1. 0 \in 0..K /\ \A k \in 1..K : k \in 0..K /\ k # 0
    BY <1>1
  <2> QED
    BY <1>8, <2>1, Zenon
<1> DEFINE T == {n \in Nat : n <= K => f[n] \in Seq(Nat)}
<1>10. 0 \in T
  BY <1>4, <1>9, Zenon
<1>11. \A n \in Nat : n \in T => n + 1 \in T
  <2> SUFFICES ASSUME NEW n \in Nat, n \in T, n + 1 <= K PROVE f[n + 1] \in Seq(Nat)
    OBVIOUS
  <2>1. n + 1 \in 1..K /\ (n + 1) - 1 = n /\ n <= K
    BY <1>1
  <2>2. f[n + 1] = f[n] \o RunOf(in, n + 1) /\ f[n] \in Seq(Nat) /\ RunOf(in, n + 1) \in Seq(Nat)
    BY <2>1, <1>1, <1>9, Zenon
  <2> QED
    BY <2>2
<1>12. Nat \subseteq T
  <2> HIDE DEF T
  <2> QED
    BY <1>10, <1>11, NatInductive, Zenon
<1>13. \A k \in 0..K : f[k] \in Seq(Nat)
  BY <1>1, <1>12
<1>14. f \in [0..K -> Seq(Nat)]
  BY <1>8, <1>13, Zenon
<1> QED
  BY <1>2, <1>9, <1>14, Zenon DEF K

\* The total that the first pass of rle_decompress_bytes() adds up, pair by pair.
LEMMA DecodeTotal ==
  ASSUME NEW in \in Seq(Nat), Len(in) >= Len(Magic)
  PROVE  \E g \in [0..PairCount(in) -> Nat] :
           /\ g[0] = 0
           /\ \A k \in 1..PairCount(in) : g[k] = g[k - 1] + in[Len(Magic) + 2 * k - 1]
           /\ Total(in) = g[PairCount(in)]
<1> DEFINE K == PairCount(in)
           R(k) == in[Len(Magic) + 2 * k - 1]
           E(k, u) == IF k = 0 THEN 0 ELSE u[k - 1] + R(k)
           g == CHOOSE u : u = [k \in 0..K |-> E(k, u)]
           step == [p \in (1..K) \X Nat |-> p[2] + R(p[1])]
<1>1. K \in Nat /\ \A k \in 1..K : R(k) \in Nat
  BY PairsInside, Zenon
<1>2. Total(in) = g[K]
  BY Zenon DEF Total, PairCount
<1> HIDE DEF K, R
<1>3. step \in [(1..K) \X Nat -> Nat]
  BY <1>1
<1>4a. Loops(K, Nat)
  BY <1>1, LoopExists, Zenon
<1>5. PICK u \in [0..K -> Nat] :
        u[0] = 0 /\ \A k \in 1..K : u[k] = step[<<k, u[k - 1]>>]
  <2>1. 0 \in Nat
    BY Zenon
  <2> HIDE DEF step
  <2> QED
    BY <1>3, <2>1, <1>4a, Zenon DEF Loops
<1>6. \A k \in 0..K : u[k] = E(k, u)
  <2> SUFFICES ASSUME NEW k \in 0..K, k # 0 PROVE u[k] = u[k - 1] + R(k)
    BY <1>5, Zenon
  <2>1. k \in 1..K /\ k - 1 \in 0..K
    BY <1>1
  <2>2. <<k, u[k - 1]>> \in (1..K) \X Nat
    BY <2>1, <1>5, Zenon
  <2> QED
    BY <2>1, <2>2, <1>5, Zenon
<1>7. u = [k \in 0..K |-> E(k, u)]
  BY <1>5, <1>6, Zenon
<1>8. g = [k \in 0..K |-> E(k, g)]
  BY <1>7, Zenon
<1> HIDE DEF g
<1>9. g[0] = 0 /\ \A k \in 1..K : g[k] = g[k - 1] + R(k)
  <2>1. 0 \in 0..K /\ \A k \in 1..K : k \in 0..K /\ k # 0
    BY <1>1
  <2> QED
    BY <1>8, <2>1, Zenon
<1> DEFINE T == {n \in Nat : n <= K => g[n] \in Nat}
<1>10. 0 \in T
  BY <1>9
<1>11. \A n \in Nat : n \in T => n + 1 \in T
  <2> SUFFICES ASSUME NEW n \in Nat, n \in T, n + 1 <= K PROVE g[n + 1] \in Nat
    OBVIOUS
  <2>1. n + 1 \in 1..K /\ (n + 1) - 1 = n /\ n <= K
    BY <1>1
  <2>2. g[n + 1] = g[n] + R(n + 1) /\ g[n] \in Nat /\ R(n + 1) \in Nat
    BY <2>1, <1>1, <1>9, Zenon
  <2> QED
    BY <2>2
<1>12. Nat \subseteq T
  <2> HIDE DEF T
  <2> QED
    BY <1>10, <1>11, NatInductive, Zenon
<1>13. \A k \in 0..K : g[k] \in Nat
  BY <1>1, <1>12
<1>14. g \in [0..K -> Nat]
  BY <1>8, <1>13, Zenon
<1> QED
  BY <1>2, <1>9, <1>14, Zenon DEF K, R

\* Both passes of rle_decompress_bytes() at once.
LEMMA DecodeIs ==
  ASSUME NEW in \in Seq(Nat), Len(in) >= Len(Magic)
  PROVE  \E f, g : Decodes(in, f, g)
BY DecodeOutput, DecodeTotal, Zenon DEF Decodes

\* What the two functions return are files.
LEMMA CodesAreFiles ==
  ASSUME NEW in \in Seq(Nat)
  PROVE  /\ rle_compress_bytes(in) \in Seq(Nat)
         /\ Decodable(in) => rle_decompress_bytes(in) \in Seq(Nat)
<1>1. rle_compress_bytes(in) \in Seq(Nat)
  <2>1. PICK f \in [0..Len(in) -> Seq(Nat)] : Pairs(in) = f[0]
    BY PairsAre, Zenon
  <2>2. Pairs(in) \in Seq(Nat)
    BY <2>1
  <2> QED
    BY <2>2, RleAssumption, ConcatProperties, Zenon DEF rle_compress_bytes
<1>2. ASSUME Decodable(in) PROVE rle_decompress_bytes(in) \in Seq(Nat)
  <2>1. Len(in) >= Len(Magic)
    BY <1>2, Zenon DEF Decodable, HasMagic
  <2>2. PICK f, g : Decodes(in, f, g)
    BY <2>1, DecodeIs, Zenon
  <2>3. PairCount(in) \in 0..PairCount(in)
    BY <2>1, PairsInside
  <2> QED
    BY <2>2, <2>3, Zenon DEF Decodes
<1> QED
  BY <1>1, <1>2, Zenon

-----------------------------------------------------------------------------
(* Decompressing what was compressed *)

\* After n bytes of P come x, y and t.
Comes(P, n, x, y, t) == n <= Len(P) /\ SubSeq(P, n + 1, Len(P)) = <<x, y>> \o t
Gone(P, n, x, y, t) ==
  /\ n + 2 <= Len(P) /\ P[n + 1] = x /\ P[n + 2] = y
  /\ SubSeq(P, n + 3, Len(P)) = t

\* A tail that starts with a pair has the next tail after that pair.
LEMMA TailOfTail ==
  ASSUME NEW P \in Seq(Nat), NEW t \in Seq(Nat), NEW x \in Nat, NEW y \in Nat,
         NEW n \in Nat, Comes(P, n, x, y, t)
  PROVE  Gone(P, n, x, y, t)
<1> USE DEF Comes, Gone
<1> DEFINE q == SubSeq(P, n + 1, Len(P))
           two == <<x, y>>
           p == Len(P)
           l == Len(t)
<1>1. p \in Nat /\ l \in Nat /\ p <= p
  BY LenProperties
<1>2. q \in Seq(Nat) /\ Len(q) = p - n /\ \A j \in 1..(p - n) : q[j] = P[n + j]
  BY <1>1, SliceIs, Zenon
<1>3. /\ two \in Seq(Nat) /\ Len(two) = 2 /\ 1 \in 1..2 /\ 2 \in 1..2
      /\ two[1] = x /\ two[2] = y
  OBVIOUS
<1>4. q = two \o t
  BY Zenon
<1> HIDE DEF two, q
<1>5. /\ Len(q) = Len(two) + l
      /\ \A j \in 1..Len(two) : q[j] = two[j]
      /\ \A j \in 1..l : q[Len(two) + j] = t[j]
  <2>1. /\ Len(two \o t) = Len(two) + Len(t)
        /\ \A j \in 1..Len(two) : (two \o t)[j] = two[j]
        /\ \A j \in 1..Len(t) : (two \o t)[Len(two) + j] = t[j]
    BY <1>3, JoinIs, Zenon
  <2> QED
    BY <1>4, <2>1, Zenon
<1>6. /\ Len(q) = 2 + l /\ q[1] = x /\ q[2] = y
      /\ \A j \in 1..l : q[2 + j] = t[j]
  BY <1>3, <1>5, Zenon
<1> HIDE DEF p, l
<1>7. n + 2 <= p /\ 1 \in 1..(p - n) /\ 2 \in 1..(p - n)
  BY <1>1, <1>2, <1>6
<1>8. P[n + 1] = x /\ P[n + 2] = y
  BY <1>2, <1>6, <1>7, Zenon
<1> DEFINE w == SubSeq(P, n + 3, p)
<1>9. w \in Seq(Nat) /\ Len(w) = p - n - 2 /\ \A j \in 1..(p - n - 2) : w[j] = P[n + 2 + j]
  <2>1. n + 2 \in Nat /\ (n + 2) + 1 = n + 3 /\ p - (n + 2) = p - n - 2
    BY <1>1
  <2>2. /\ SubSeq(P, (n + 2) + 1, p) \in Seq(Nat)
        /\ Len(SubSeq(P, (n + 2) + 1, p)) = p - (n + 2)
        /\ \A j \in 1..(p - (n + 2)) : SubSeq(P, (n + 2) + 1, p)[j] = P[(n + 2) + j]
    <3> DEFINE m == n + 2
    <3>1. m \in Nat /\ m <= p /\ p \in Nat /\ p <= Len(P)
      BY <1>1, <1>7, <2>1, Zenon DEF p
    <3> HIDE DEF m
    <3>2. /\ SubSeq(P, m + 1, p) \in Seq(Nat) /\ Len(SubSeq(P, m + 1, p)) = p - m
          /\ \A j \in 1..(p - m) : SubSeq(P, m + 1, p)[j] = P[m + j]
      BY <3>1, SliceIs, Zenon
    <3> QED
      BY <3>2, Zenon DEF m
  <2> QED
    BY <2>1, <2>2, Zenon
<1> HIDE DEF w
<1>10. \A j \in 1..l : w[j] = t[j]
  <2> SUFFICES ASSUME NEW j \in 1..l PROVE w[j] = t[j]
    BY Zenon
  <2>1. j \in 1..(p - n - 2) /\ 2 + j \in 1..(p - n) /\ n + (2 + j) = n + 2 + j
    BY <1>1, <1>2, <1>6
  <2> QED
    BY <2>1, <1>2, <1>6, <1>9, Zenon
<1>11. Len(w) = l
  <2>1. p - n = 2 + l => p - n - 2 = l
    BY <1>1
  <2> QED
    BY <2>1, <1>2, <1>6, <1>9, Zenon
<1>12. w = t
  BY <1>9, <1>10, <1>11, SeqEqual, Zenon DEF l
<1> QED
  BY <1>7, <1>8, <1>12, Zenon DEF w, p

\* After i bytes of s come r times b.
Repeats(s, i, r, b) == i + r <= Len(s) /\ \A k \in 1..r : s[i + k] = b
Grows(s, i, r, b) ==
  SubSeq(s, 1, i) \o [j \in 1..r |-> b] = SubSeq(s, 1, i + r)

\* A prefix and the run that follows it are a longer prefix.
LEMMA GrowPrefix ==
  ASSUME NEW s \in Seq(Nat), NEW i \in Nat, NEW r \in Nat, NEW b \in Nat, Repeats(s, i, r, b)
  PROVE  Grows(s, i, r, b)
<1> USE DEF Repeats
<1> DEFINE p == SubSeq(s, 1, i)
           t == [j \in 1..r |-> b]
           w == SubSeq(s, 1, i + r)
<1>1. p \in Seq(Nat) /\ Len(p) = i /\ \A j \in 1..i : p[j] = s[j]
  OBVIOUS
<1>2. t \in Seq(Nat) /\ Len(t) = r /\ \A j \in 1..r : t[j] = b
  OBVIOUS
<1>3. w \in Seq(Nat) /\ Len(w) = i + r /\ \A j \in 1..(i + r) : w[j] = s[j]
  OBVIOUS
<1> HIDE DEF p, t, w
<1>4. /\ p \o t \in Seq(Nat) /\ Len(p \o t) = i + r
      /\ \A j \in 1..i : (p \o t)[j] = p[j]
      /\ \A j \in 1..r : (p \o t)[i + j] = t[j]
  <2>1. /\ p \o t \in Seq(Nat) /\ Len(p \o t) = Len(p) + Len(t)
        /\ \A j \in 1..Len(p) : (p \o t)[j] = p[j]
        /\ \A j \in 1..Len(t) : (p \o t)[Len(p) + j] = t[j]
    BY <1>1, <1>2, JoinIs, Zenon
  <2> QED
    BY <1>1, <1>2, <2>1, Zenon
<1>5. \A j \in 1..(i + r) : (p \o t)[j] = w[j]
  <2> SUFFICES ASSUME NEW j \in 1..(i + r) PROVE (p \o t)[j] = w[j]
    BY Zenon
  <2>1. w[j] = s[j] /\ (j \in 1..i \/ (j - i \in 1..r /\ i + (j - i) = j))
    BY <1>3
  <2>2. CASE j \in 1..i
    BY <2>1, <2>2, <1>1, <1>4, Zenon
  <2>3. CASE j - i \in 1..r /\ i + (j - i) = j
    <3>1. (p \o t)[i + (j - i)] = b /\ s[i + (j - i)] = b
      BY <2>3, <1>2, <1>4, Zenon
    <3> QED
      BY <2>1, <2>3, <3>1, Zenon
  <2> QED
    BY <2>1, <2>2, <2>3, Zenon
<1>6. p \o t = w
  <2>1. Len(p \o t) = Len(w) /\ \A j \in 1..Len(p \o t) : (p \o t)[j] = w[j]
    <3>1. Len(p \o t) = i + r /\ Len(w) = i + r
      BY <1>3, <1>4, Zenon
    <3> QED
      BY <1>5, <3>1, Zenon
  <2> QED
    BY <1>3, <1>4, <2>1, SeqEqual, Zenon
<1> QED
  BY <1>6, Zenon DEF p, t, w, Grows

\* What rle_decompress_bytes() has done after k pairs of a compressed file: the
\* pairs left are those from some byte i on, and the first i bytes are restored.
Restores(s, f, P, u, g) ==
  /\ PairCount(Magic \o P) = Len(P) \div 2
  /\ \A k \in 0..(Len(P) \div 2) : \E i \in 0..Len(s) :
       /\ SubSeq(P, 2 * k + 1, Len(P)) = f[i]
       /\ u[k] = SubSeq(s, 1, i)
       /\ g[k] = i

\* After every pair, rle_decompress_bytes() has restored what the pairs so far
\* stand for.
LEMMA HalfWay ==
  ASSUME NEW s \in Seq(Nat), NEW f \in [0..Len(s) -> Seq(Nat)], From(s, f),
         NEW P \in Seq(Nat), P = f[0], NEW u, NEW g, Decodes(Magic \o P, u, g)
  PROVE  Restores(s, f, P, u, g)
<1> DEFINE L == Len(s)
           M == Len(Magic)
           p == Len(P)
           K == p \div 2
           out == Magic \o P
           Reached(k, i) == /\ SubSeq(P, 2 * k + 1, p) = f[i]
                       /\ u[k] = SubSeq(s, 1, i)
                       /\ g[k] = i
           T == {k \in Nat : k <= K => \E i \in 0..L : Reached(k, i)}
<1>1. L \in Nat /\ M \in Nat /\ p \in Nat /\ p <= p /\ Magic \in Seq(Nat)
  BY RleAssumption, LenProperties
<1>2. /\ Len(out) = M + p
      /\ \A j \in 1..p : out[M + j] = P[j]
  BY <1>1, JoinIs, Zenon
<1> HIDE DEF L, M, p
<1>3. PairCount(out) = K
  <2>1. (M + p) - M = p
    BY <1>1
  <2> QED
    BY <1>2, <2>1, Zenon DEF PairCount, M
<1>4. K \in Nat /\ 2 * K <= p
  BY <1>1
<1> HIDE DEF out, K, Reached
<1>5. /\ u[0] = <<>> /\ g[0] = 0
      /\ \A k \in 1..K : u[k] = u[k - 1] \o RunOf(out, k) /\ g[k] = g[k - 1] + out[M + 2 * k - 1]
  BY <1>3, Zenon DEF Decodes, out, M
<1>6. 0 \in T
  <2>1. SubSeq(P, 1, p) = P
    BY DEF p
  <2>2. SubSeq(s, 1, 0) = <<>>
    OBVIOUS
  <2>3. 2 * 0 + 1 = 1 /\ 0 \in 0..L
    BY <1>1
  <2>4. Reached(0, 0)
    BY <2>1, <2>2, <2>3, <1>5, Zenon DEF Reached
  <2> QED
    BY <2>3, <2>4, Zenon
<1>7. \A k \in Nat : k \in T => k + 1 \in T
  <2> SUFFICES ASSUME NEW k \in Nat, k \in T, k + 1 <= K
               PROVE  \E i \in 0..L : Reached(k + 1, i)
    OBVIOUS
  <2>1. PICK i \in 0..L : Reached(k, i)
    BY <1>4
  <2>2. 2 * k \in Nat /\ 2 * k + 2 <= p /\ 2 * k <= p
    BY <1>1, <1>4
  <2>3. i # L
    <3> SUFFICES ASSUME i = L PROVE FALSE
      BY Zenon
    <3>1. f[i] = <<>>
      BY <1>1, Zenon DEF From, L
    <3>2. Len(SubSeq(P, 2 * k + 1, p)) = p - 2 * k
      BY <1>1, <2>2, SliceIs, Zenon DEF p
    <3>3. Len(f[i]) = 0
      BY <3>1, Zenon
    <3>4. p - 2 * k # 0
      BY <1>1, <2>2
    <3> QED
      BY <2>1, <3>2, <3>3, <3>4, Zenon DEF Reached
  <2> DEFINE r == RunAt(s, i)
             b == s[i + 1]
  <2>4. i \in 0..(Len(s) - 1)
    BY <1>1, <2>3 DEF L
  <2>5. /\ r \in 1..MaxRun /\ i + r <= L
        /\ \A j \in 1..r : s[i + j] = b
    BY <2>4, RunFits, Zenon DEF L
  <2>6. r \in Nat /\ i \in Nat /\ i + r \in 0..L
    <3> HIDE DEF r
    <3> QED
      BY <2>5, <1>1, RleAssumption
  <2>7. f[i] = <<r, b>> \o f[i + r]
    BY <2>3, Zenon DEF From, L
  <2>8. b \in Nat
    BY <2>4
  <2>9. f[i + r] \in Seq(Nat)
    BY <2>6, Zenon DEF L
  <2> HIDE DEF r, b
  <2>10. SubSeq(P, 2 * k + 1, p) = <<r, b>> \o f[i + r]
    BY <2>1, <2>7, Zenon DEF Reached
  <2>11. /\ P[2 * k + 1] = r /\ P[2 * k + 2] = b
         /\ SubSeq(P, 2 * k + 3, p) = f[i + r]
    <3> DEFINE t == f[i + r]
               n == 2 * k
    <3>1. t \in Seq(Nat) /\ n \in Nat /\ Comes(P, n, r, b, t)
      BY <2>2, <2>9, <2>10, Zenon DEF p, Comes
    <3> HIDE DEF t, n
    <3>2. Gone(P, n, r, b, t)
      BY <3>1, <2>6, <2>8, TailOfTail, Zenon
    <3> QED
      BY <3>2, Zenon DEF Gone, t, n, p
  <2>12. /\ 2 * (k + 1) + 1 = 2 * k + 3 /\ k + 1 \in 1..K /\ (k + 1) - 1 = k
         /\ M + 2 * (k + 1) - 1 = M + (2 * k + 1) /\ M + 2 * (k + 1) = M + (2 * k + 2)
         /\ 2 * k + 1 \in 1..p /\ 2 * k + 2 \in 1..p
    BY <1>1, <1>4, <2>2
  <2>13. out[M + 2 * (k + 1) - 1] = r /\ out[M + 2 * (k + 1)] = b
    BY <1>2, <2>11, <2>12, Zenon
  <2>14. RunOf(out, k + 1) = [j \in 1..r |-> b]
    BY <2>13, Zenon DEF RunOf, M
  <2>15. SubSeq(s, 1, i) \o [j \in 1..r |-> b] = SubSeq(s, 1, i + r)
    <3>1. Repeats(s, i, r, b)
      BY <2>5, Zenon DEF Repeats, L
    <3>2. Grows(s, i, r, b)
      BY <2>6, <2>8, <3>1, GrowPrefix, Zenon
    <3> QED
      BY <3>2, Zenon DEF Grows
  <2>16. u[k + 1] = SubSeq(s, 1, i + r) /\ g[k + 1] = i + r
    <3>1. u[k] = SubSeq(s, 1, i) /\ g[k] = i
      BY <2>1, Zenon DEF Reached
    <3>a. k + 1 \in 1..K
      BY <2>12, Zenon
    <3>2. u[k + 1] = u[(k + 1) - 1] \o RunOf(out, k + 1)
          /\ g[k + 1] = g[(k + 1) - 1] + out[M + 2 * (k + 1) - 1]
      BY <1>5, <3>a, Zenon
    <3> QED
      BY <2>12, <2>13, <2>14, <2>15, <3>1, <3>2, Zenon
  <2>17. SubSeq(P, 2 * (k + 1) + 1, p) = f[i + r]
    BY <2>11, <2>12, Zenon
  <2>18. Reached(k + 1, i + r)
    BY <2>16, <2>17, Zenon DEF Reached
  <2> QED
    BY <2>6, <2>18, Zenon
<1>8. Nat \subseteq T
  <2> HIDE DEF T
  <2> QED
    BY <1>6, <1>7, NatInductive, Zenon
<1>9. \A k \in 0..K : \E i \in 0..L : Reached(k, i)
  BY <1>4, <1>8
<1> QED
  BY <1>3, <1>9, Zenon DEF Restores, Reached, L, p, K, out

\* DECOMPRESS after COMPRESS gives the file back (file_ops.c: the two commands
\* are each other's inverse on files the server handles): whatever is in it,
\* the compressed file is accepted and restored.
THEOREM RleRoundTrip ==
  \A s \in Seq(Nat) : Len(s) <= MAX_FILE_SIZE =>
    /\ Decodable(rle_compress_bytes(s))
    /\ rle_decompress_bytes(rle_compress_bytes(s)) = s
<1> SUFFICES ASSUME NEW s \in Seq(Nat), Len(s) <= MAX_FILE_SIZE
             PROVE  /\ Decodable(rle_compress_bytes(s))
                    /\ rle_decompress_bytes(rle_compress_bytes(s)) = s
  BY Zenon
<1>1. PICK f \in [0..Len(s) -> Seq(Nat)] : From(s, f) /\ Pairs(s) = f[0]
  BY PairsAre, Zenon
<1> DEFINE P == f[0]
           out == Magic \o P
           p == Len(P)
           M == Len(Magic)
           L == Len(s)
           K == p \div 2
<1>2. rle_compress_bytes(s) = out
  BY <1>1, Zenon DEF rle_compress_bytes
<1>3. P \in Seq(Nat)
  BY LenProperties, <1>1
<1>4. Magic \in Seq(Nat) /\ M \in Nat /\ p \in Nat /\ L \in Nat /\ p <= p
  BY RleAssumption, <1>3, LenProperties
<1> HIDE DEF P
<1>5. out \in Seq(Nat) /\ Len(out) = M + p /\ \A j \in 1..M : out[j] = Magic[j]
  BY <1>3, <1>4, JoinIs, Zenon
<1> HIDE DEF M, p, L, out
<1>6. Len(out) >= Len(Magic)
  BY <1>4, <1>5 DEF M
<1>7. PICK u, g : Decodes(out, u, g)
  BY <1>5, <1>6, DecodeIs, Zenon
<1>8. /\ PairCount(out) = K
      /\ \A k \in 0..K : \E i \in 0..L :
           SubSeq(P, 2 * k + 1, p) = f[i] /\ u[k] = SubSeq(s, 1, i) /\ g[k] = i
  <2>1. P = f[0] /\ Decodes(Magic \o P, u, g)
    BY <1>7, Zenon DEF P, out
  <2>2. Restores(s, f, P, u, g)
    BY <1>1, <1>3, <2>1, HalfWay, Zenon
  <2> QED
    BY <2>2, Zenon DEF Restores, p, L, K, out
<1>9. K \in Nat /\ K \in 0..K /\ 2 * K \in Nat /\ 2 * K <= p /\ p - 2 * K < 2
  BY <1>4
<1> HIDE DEF K
<1>10. PICK i \in 0..L : SubSeq(P, 2 * K + 1, p) = f[i] /\ u[K] = SubSeq(s, 1, i) /\ g[K] = i
  BY <1>8, <1>9, Zenon
<1>11. Len(f[i]) = p - 2 * K
  <2>1. Len(SubSeq(P, 2 * K + 1, p)) = p - 2 * K
    BY <1>3, <1>9, <1>4, SliceIs, Zenon DEF p
  <2> QED
    BY <1>10, <2>1, Zenon
<1>12. i = L
  <2> SUFFICES ASSUME i # L PROVE FALSE
    BY Zenon
  <2> DEFINE r == RunAt(s, i)
  <2>1. i \in 0..(Len(s) - 1)
    BY <1>4 DEF L
  <2>2. r \in 1..MaxRun /\ i + r <= L
    BY <2>1, RunFits, Zenon DEF L
  <2>3. f[i] = <<r, s[i + 1]>> \o f[i + r]
    BY <1>1, Zenon DEF From, L
  <2>4. s[i + 1] \in Nat
    BY <2>1
  <2> HIDE DEF r
  <2>5. r \in Nat /\ i + r \in 0..L
    BY <2>2, <1>4, RleAssumption
  <2>6. <<r, s[i + 1]>> \in Seq(Nat) /\ Len(<<r, s[i + 1]>>) = 2
    BY <2>4, <2>5
  <2>7. f[i + r] \in Seq(Nat) /\ Len(f[i + r]) \in Nat
    BY <2>5, LenProperties, Zenon DEF L
  <2>8. Len(f[i]) = 2 + Len(f[i + r])
    <3> DEFINE two == <<r, s[i + 1]>>
               t == f[i + r]
    <3>1. two \in Seq(Nat) /\ t \in Seq(Nat) /\ Len(two) = 2 /\ f[i] = two \o t
      BY <2>3, <2>6, <2>7, Zenon
    <3> HIDE DEF two, t
    <3>2. Len(two \o t) = Len(two) + Len(t)
      BY <3>1, JoinIs, Zenon
    <3> QED
      BY <3>1, <3>2, Zenon DEF t
  <2>9. \A x \in Nat : 2 + x # p - 2 * K
    BY <1>4, <1>9
  <2> QED
    BY <2>7, <2>8, <2>9, <1>11, Zenon
<1>13. p = 2 * K
  <2>1. f[i] = <<>>
    BY <1>1, <1>12, <1>4, Zenon DEF From, L
  <2>2. Len(f[i]) = 0
    BY <2>1
  <2> QED
    BY <2>2, <1>4, <1>9, <1>11
<1>14. rle_decompress_bytes(out) = s /\ Total(out) = L
  <2>1. SubSeq(s, 1, L) = s
    BY DEF L
  <2> QED
    BY <1>7, <1>8, <1>10, <1>12, <2>1, Zenon DEF Decodes
<1>15. HasMagic(out)
  <2>1. M <= Len(out) /\ 0 \in Nat /\ 0 <= M /\ M - 0 = M
    BY <1>4, <1>5
  <2>2. 0 + 1 = 1 /\ \A j \in 1..M : 0 + j = j
    BY <1>4
  <2>3. /\ SubSeq(out, 1, M) \in Seq(Nat) /\ Len(SubSeq(out, 1, M)) = M
        /\ \A j \in 1..M : SubSeq(out, 1, M)[j] = out[0 + j]
    <3>1. /\ SubSeq(out, 0 + 1, M) \in Seq(Nat) /\ Len(SubSeq(out, 0 + 1, M)) = M - 0
          /\ \A j \in 1..(M - 0) : SubSeq(out, 0 + 1, M)[j] = out[0 + j]
      BY <1>4, <1>5, <2>1, SliceIs, Zenon
    <3> QED
      BY <2>1, <2>2, <3>1, Zenon
  <2>4. SubSeq(out, 1, M) = Magic
    <3> DEFINE w == SubSeq(out, 1, M)
    <3>1. w \in Seq(Nat) /\ Len(w) = Len(Magic) /\ \A j \in 1..Len(w) : w[j] = Magic[j]
      <4>1. \A j \in 1..M : w[j] = Magic[j]
        BY <1>5, <2>2, <2>3, Zenon
      <4> QED
        BY <4>1, <2>3, Zenon DEF M
    <3> HIDE DEF w
    <3>2. w = Magic
      BY <1>4, <3>1, SeqEqual, Zenon
    <3> QED
      BY <3>2, Zenon DEF w
  <2> QED
    BY <1>6, <2>4, Zenon DEF HasMagic, M
<1>16. (Len(out) - Len(Magic)) % 2 = 0
  BY <1>4, <1>5, <1>9, <1>13 DEF M
<1>17. Total(out) <= MAX_FILE_SIZE
  BY <1>14, Zenon DEF L
<1> QED
  BY <1>2, <1>14, <1>15, <1>16, <1>17, Zenon DEF Decodable

-----------------------------------------------------------------------------
(* The locks *)

\* Who holds which lock: a client at work has what its command needs, one that
\* waits for its second lock has the first, and nobody else has any.
NoMixedLock == \A n \in Paths : readers[n] # {} => writer[n] = None
BusyHasCommand == \A c \in Clients : ~At(c, "idle") => cmd[c] \in Commands
ReaderHasLock ==
  \A c \in Clients : pc[c] \in Active /\ Runs(c, ReadOps) => c \in readers[cmd[c].src]
WriterHasLocks ==
  \A c \in Clients : pc[c] \in Active /\ ~Runs(c, ReadOps) =>
    writer[cmd[c].src] = c /\ writer[cmd[c].dst] = c
WaiterHasFirst ==
  \A c \in Clients : At(c, "lock2") =>
    ~Runs(c, ReadOps) /\ cmd[c].src # cmd[c].dst /\ writer[First(cmd[c])] = c
ReadersAreBusy ==
  \A c \in Clients, n \in Paths : c \in readers[n] => pc[c] \notin {"idle", "lock", "lock2"}
WritersAreBusy ==
  \A c \in Clients, n \in Paths : writer[n] = c =>
    pc[c] \notin {"idle", "lock"} /\ (At(c, "lock2") => n = First(cmd[c]))
LockInv ==
  /\ NoMixedLock /\ BusyHasCommand /\ ReaderHasLock /\ WriterHasLocks
  /\ WaiterHasFirst /\ ReadersAreBusy /\ WritersAreBusy

\* What the client library sends: known commands on known paths, whose locks
\* are taken in the order of the paths.
LEMMA CommandFacts ==
  ASSUME NEW m \in Commands
  PROVE  /\ m.op \in Ops /\ m.src \in Paths /\ m.dst \in Paths /\ m.data \in Seq(Nat)
         /\ m.src \in Nat /\ m.dst \in Nat
         /\ First(m) \in {m.src, m.dst} /\ Second(m) \in {m.src, m.dst}
         /\ m.src # m.dst => First(m) < Second(m) /\ {First(m), Second(m)} = {m.src, m.dst}
         /\ m.src = m.dst => First(m) = m.src
<1>1. /\ m.op \in Ops /\ m.src \in Paths /\ m.dst \in Paths /\ m.data \in Seq(Nat)
      /\ m.src \in Nat /\ m.dst \in Nat
  BY FileServerAssumption, Zenon
<1> QED
  BY <1>1 DEF First, Second

\* A step of c that touches neither the locks nor the commands.
Moves(c, l) ==
  /\ Goto(c, l) /\ UNCHANGED <<locks, cmd>>
  /\ \/ l \in Active /\ pc[c] \in Active
     \/ l = "release" /\ pc[c] # "idle"

\* Such a step keeps the locks right.
LEMMA MovesKeepLocks ==
  ASSUME TypeOK, LockInv, NEW c \in Clients, NEW l, Moves(c, l)
  PROVE  LockInv'
<1>1. /\ readers' = readers /\ writer' = writer /\ cmd' = cmd /\ pc'[c] = l
      /\ \A d \in Clients : d # c => pc'[d] = pc[d]
  BY Zenon DEF Moves, Goto, TypeOK, locks
<1>2. pc'[c] \notin {"idle", "lock", "lock2"} /\ pc[c] # "idle" /\ (pc'[c] \in Active => pc[c] \in Active)
  BY <1>1, Zenon DEF Moves, Active
<1> QED
  BY <1>1, <1>2, Zenon
     DEF LockInv, NoMixedLock, BusyHasCommand, ReaderHasLock, WriterHasLocks,
         WaiterHasFirst, ReadersAreBusy, WritersAreBusy, At, Runs

-----------------------------------------------------------------------------
(* There is always an unused inode *)

\* A function has at most as many values as arguments.
LEMMA ValuesAreFew ==
  ASSUME NEW S, IsFiniteSet(S), NEW g
  PROVE  /\ IsFiniteSet({g[x] : x \in S})
         /\ Cardinality({g[x] : x \in S}) <= Cardinality(S)
<1> DEFINE T == {g[x] : x \in S}
           f == [x \in S |-> g[x]]
<1>1. f \in Surjection(S, T)
  BY Zenon DEF Surjection
<1> HIDE DEF f, T
<1>2. IsFiniteSet(T) /\ Cardinality(T) <= Cardinality(S)
  BY <1>1, FS_Surjection, Zenon
<1> QED
  BY <1>2, Zenon DEF T

\* create() finds an inode that no entry names and nobody has open: at most one
\* inode for every other file and two for every client are in use.
LEMMA NewInodeIs ==
  ASSUME TypeOK, NEW f \in Files, dir[f] = None
  PROVE  /\ NewInode \in Inodes /\ NewInode \notin Open
         /\ \A g \in Files : dir[g] # NewInode
<1> DEFINE N == {dir[g] : g \in Files \ {f}}
           R == {rfd[c] : c \in Clients}
           W == {wfd[c] : c \in Clients}
           nF == Cardinality(Files)
           nC == Cardinality(Clients)
           nI == Cardinality(Inodes)
<1>1. /\ IsFiniteSet(Files) /\ IsFiniteSet(Clients) /\ IsFiniteSet(Inodes) /\ None \notin Inodes
      /\ nI >= nF + 2 * nC
  BY FileServerAssumption, Zenon
<1>2. nF \in Nat /\ nC \in Nat /\ nI \in Nat
  BY <1>1, FS_CardinalityType, Zenon
<1>3. IsFiniteSet(Files \ {f}) /\ Cardinality(Files \ {f}) = nF - 1
  BY <1>1, FS_RemoveElement, Zenon
<1>4. /\ IsFiniteSet(N) /\ Cardinality(N) <= nF - 1
      /\ IsFiniteSet(R) /\ Cardinality(R) <= nC
      /\ IsFiniteSet(W) /\ Cardinality(W) <= nC
  <2>1. IsFiniteSet(N) /\ Cardinality(N) <= Cardinality(Files \ {f})
    BY <1>3, ValuesAreFew, Zenon
  <2>2. IsFiniteSet(R) /\ Cardinality(R) <= nC /\ IsFiniteSet(W) /\ Cardinality(W) <= nC
    BY <1>1, ValuesAreFew, Zenon
  <2> QED
    BY <2>1, <2>2, <1>3, Zenon
<1> HIDE DEF N, R, W
<1>5. /\ IsFiniteSet(R \cup W) /\ IsFiniteSet(N \cup (R \cup W))
      /\ Cardinality(R \cup W) = Cardinality(R) + Cardinality(W) - Cardinality(R \cap W)
      /\ Cardinality(N \cup (R \cup W)) =
           Cardinality(N) + Cardinality(R \cup W) - Cardinality(N \cap (R \cup W))
  BY <1>4, FS_Union, Zenon
<1>6. /\ Cardinality(N) \in Nat /\ Cardinality(R) \in Nat /\ Cardinality(W) \in Nat
      /\ Cardinality(R \cup W) \in Nat /\ Cardinality(N \cup (R \cup W)) \in Nat
      /\ Cardinality(R \cap W) \in Nat /\ Cardinality(N \cap (R \cup W)) \in Nat
  <2>1. R \cap W \in SUBSET R /\ N \cap (R \cup W) \in SUBSET N
    BY Zenon
  <2>2. IsFiniteSet(R \cap W) /\ IsFiniteSet(N \cap (R \cup W))
    BY <2>1, <1>4, FS_Subset, Zenon
  <2> QED
    BY <2>2, <1>4, <1>5, FS_CardinalityType, Zenon
<1> HIDE DEF nF, nC, nI
<1>7. Cardinality(N \cup (R \cup W)) < nI
  <2> DEFINE a == Cardinality(N)
             b == Cardinality(R)
             d == Cardinality(W)
             e == Cardinality(R \cup W)
             x == Cardinality(N \cup (R \cup W))
             y == Cardinality(R \cap W)
             z == Cardinality(N \cap (R \cup W))
  <2>1. /\ a <= nF - 1 /\ b <= nC /\ d <= nC /\ nI >= nF + 2 * nC
        /\ a \in Nat /\ b \in Nat /\ d \in Nat /\ e \in Nat /\ x \in Nat /\ y \in Nat /\ z \in Nat
        /\ e = b + d - y /\ x = a + e - z
    BY <1>1, <1>4, <1>5, <1>6, Zenon
  <2> HIDE DEF a, b, d, e, x, y, z
  <2>2. x < nI
    BY <2>1, <1>2
  <2> QED
    BY <2>2, Zenon DEF x
<1>8. ~(Inodes \subseteq N \cup (R \cup W))
  <2> SUFFICES ASSUME Inodes \subseteq N \cup (R \cup W) PROVE FALSE
    BY Zenon
  <2>1. Cardinality(Inodes) <= Cardinality(N \cup (R \cup W))
    BY <1>5, FS_Subset, Zenon
  <2> QED
    BY <2>1, <1>2, <1>6, <1>7 DEF nI
<1>9. PICK i \in Inodes : i \notin N /\ i \notin R \cup W
  BY <1>8, Zenon
<1>10. i \notin Open /\ \A g \in Files : dir[g] # i
  BY <1>1, <1>9, Zenon DEF N, R, W, Open
<1> QED
  BY <1>10, Zenon DEF NewInode

-----------------------------------------------------------------------------
(* Types *)

\* Which descriptors a command has open where it stands (l), by its name (o).
Desc(l, o, r, w) ==
  /\ l \in {"idle", "lock", "lock2", "op", "release"} => r = None /\ w = None
  /\ l = "read" => o \in ReadAllOps /\ r # None /\ w = None
  /\ l = "open" => o \in {"COMPRESS", "DECOMPRESS", "COPYFILE"} /\ w = None
  /\ l = "write" => o \in {"SETFILE", "COMPRESS", "DECOMPRESS", "COPYFILE"} /\ w # None
  /\ l = "copy" => o = "COPYFILE" /\ w # None
  /\ l \in {"open", "write", "copy"} => (r # None <=> o = "COPYFILE")

\* Contents and buffers are sequences of bytes.
FileTypes ==
  /\ TypeOK
  /\ data \in [Inodes -> Seq(Nat)] /\ buf \in [Clients -> Seq(Nat)]
  /\ saved \in [Clients -> Seq(Nat) \cup {None}]
  /\ DOMAIN reply = Clients
  /\ \A c \in Clients : Desc(pc[c], cmd[c].op, rfd[c], wfd[c])

\* c is the only client whose own variables change.
Alone(c) ==
  \A d \in Clients : d # c =>
    /\ cmd'[d] = cmd[d] /\ pc'[d] = pc[d] /\ reply'[d] = reply[d]
    /\ rfd'[d] = rfd[d] /\ roff'[d] = roff[d] /\ size'[d] = size[d]
    /\ wfd'[d] = wfd[d] /\ woff'[d] = woff[d] /\ buf'[d] = buf[d] /\ saved'[d] = saved[d]

\* The variables of the clients are functions on the clients.
LEMMA Domains ==
  ASSUME FileTypes
  PROVE  /\ DOMAIN cmd = Clients /\ DOMAIN pc = Clients /\ DOMAIN reply = Clients
         /\ DOMAIN rfd = Clients /\ DOMAIN roff = Clients /\ DOMAIN size = Clients
         /\ DOMAIN wfd = Clients /\ DOMAIN woff = Clients
         /\ DOMAIN buf = Clients /\ DOMAIN saved = Clients
BY Zenon DEF FileTypes, TypeOK

\* A thread changes the variables of its own client only.
LEMMA StepsAreAlone ==
  ASSUME FileTypes, NEW c \in Clients, ClientStep(c) \/ \E m \in Commands : receive(c, m)
  PROVE  Alone(c)
<1> USE DEF Alone, fs, locks, local, Goto
<1>1. CASE \E r : Done(c, r)
  <2> SUFFICES ASSUME NEW d \in Clients, d # c
               PROVE  /\ cmd'[d] = cmd[d] /\ pc'[d] = pc[d] /\ reply'[d] = reply[d]
                      /\ rfd'[d] = rfd[d] /\ roff'[d] = roff[d] /\ size'[d] = size[d]
                      /\ wfd'[d] = wfd[d] /\ woff'[d] = woff[d] /\ buf'[d] = buf[d]
                      /\ saved'[d] = saved[d]
    BY Zenon
  <2>0. cmd'[d] = cmd[d] /\ pc'[d] = pc[d]
    BY <1>1, Domains, Zenon DEF Done
  <2>1. reply'[d] = reply[d] /\ rfd'[d] = rfd[d]
    BY <1>1, Domains, Zenon DEF Done
  <2>2. roff'[d] = roff[d] /\ size'[d] = size[d] /\ wfd'[d] = wfd[d]
    BY <1>1, Domains, Zenon DEF Done
  <2>3. woff'[d] = woff[d] /\ buf'[d] = buf[d] /\ saved'[d] = saved[d]
    BY <1>1, Domains, Zenon DEF Done
  <2> QED
    BY <2>0, <2>1, <2>2, <2>3, Zenon
<1>2. CASE locks_acquire_read(c) \/ locks_acquire_write(c) \/ locks_acquire_second(c) \/ locks_release(c)
  BY <1>2, Domains, Zenon
     DEF locks_acquire_read, locks_acquire_write, locks_acquire_second, locks_release
<1>3. CASE open_read(c) \/ copy_open(c) \/ copy_next(c)
  BY <1>3, Domains, Zenon DEF open_read, copy_open, copy_next
<1>4. CASE compress(c) \/ decompress(c)
  BY <1>4, Domains, Zenon DEF compress, decompress, Convert
<1>5. CASE open_write(c)
  BY <1>5, Domains, Zenon DEF open_write
<1>6. CASE \E k \in Counts : read_some(c, k) \/ write_some(c, k) \/ copy_read(c, k)
  BY <1>6, Domains, Zenon DEF read_some, write_some, copy_read
<1>7. CASE \E m \in Commands : receive(c, m)
  BY <1>7, Domains, Zenon DEF receive
<1> QED
  BY <1>1, <1>2, <1>3, <1>4, <1>5, <1>6, <1>7, Zenon
     DEF ClientStep, lock_fails, not_found, too_large, getfile_reply, decompress_fails,
         copy_not_found, write_done, copy_done, stat, unlink, rename, io_fails

-----------------------------------------------------------------------------
(* The steps and the locks *)

\* The steps that leave the locks alone: between the system calls of a command,
\* and to its end.
LEMMA WorkMoves ==
  ASSUME FileTypes, NEW c \in Clients, ClientStep(c),
         ~(locks_acquire_read(c) \/ locks_acquire_write(c) \/ locks_acquire_second(c)
           \/ locks_release(c))
  PROVE  \E l \in Labels : Moves(c, l)
<1> USE DEF At, Active, Goto, locks, Labels, Moves
<1>1. CASE (\E r : Done(c, r)) /\ pc[c] # "idle"
  BY <1>1, Zenon DEF Done
<1>2. CASE open_read(c) \/ copy_open(c) \/ copy_next(c)
  BY <1>2, Zenon DEF open_read, copy_open, copy_next
<1>3. CASE compress(c) \/ decompress(c)
  BY <1>3, Zenon DEF compress, decompress, Convert, ReadAll
<1>4. CASE open_write(c)
  BY <1>4, Zenon DEF open_write
<1>5. CASE \E k \in Counts : read_some(c, k) \/ write_some(c, k)
  <2>1. pc' = pc /\ pc[c] \in {"read", "write"} /\ UNCHANGED <<locks, cmd>>
    BY <1>5, Zenon DEF read_some, write_some
  <2>2. pc' = [pc EXCEPT ![c] = pc[c]]
    BY <2>1, Zenon DEF FileTypes, TypeOK
  <2> QED
    BY <2>1, <2>2, Zenon
<1>6. CASE \E k \in Counts : copy_read(c, k)
  BY <1>6, Zenon DEF copy_read
<1> QED
  BY <1>1, <1>2, <1>3, <1>4, <1>5, <1>6, Zenon
     DEF ClientStep, lock_fails, not_found, too_large, getfile_reply, decompress_fails,
         copy_not_found, write_done, copy_done, stat, unlink, rename, io_fails, ReadAll

\* Every step of every client keeps the locks right.
LEMMA LocksStep ==
  ASSUME FileTypes, LockInv, NEW c \in Clients,
         ClientStep(c) \/ \E m \in Commands : receive(c, m)
  PROVE  LockInv'
<1>t. TypeOK /\ None \notin Clients
  BY FileServerAssumption, Zenon DEF FileTypes
<1>a. \A d \in Clients : d # c => cmd'[d] = cmd[d] /\ pc'[d] = pc[d]
  BY StepsAreAlone, Zenon DEF Alone
<1>1. CASE locks_acquire_read(c)
  <2> DEFINE n == cmd[c].src
  <2>1. /\ pc[c] = "lock" /\ cmd[c].op \in ReadOps /\ writer[n] = None
        /\ readers' = [readers EXCEPT ![n] = @ \cup {c}] /\ writer' = writer /\ cmd' = cmd
        /\ pc'[c] = "op"
    BY <1>1, Domains, Zenon DEF locks_acquire_read, At, Runs, CanRead, Goto
  <2>2. n \in Paths /\ cmd[c] \in Commands
    BY <2>1, CommandFacts, Zenon DEF LockInv, BusyHasCommand, WaiterHasFirst, At
  <2>3. \A p \in Paths : readers'[p] = IF p = n THEN readers[p] \cup {c} ELSE readers[p]
    BY <2>1, <2>2, <1>t, Zenon DEF TypeOK
  <2> HIDE DEF n
  <2>4. NoMixedLock'
    BY <2>1, <2>2, <2>3, Zenon DEF LockInv, NoMixedLock
  <2>5. BusyHasCommand' /\ WaiterHasFirst'
    BY <2>1, <2>2, <1>a, Zenon DEF LockInv, BusyHasCommand, WaiterHasFirst, At, Runs
  <2>6. ReaderHasLock'
    <3> SUFFICES ASSUME NEW d \in Clients, pc'[d] \in Active, cmd[d].op \in ReadOps
                 PROVE  d \in readers'[cmd[d].src]
      BY <2>1, Zenon DEF ReaderHasLock, Runs
    <3>1. CASE d = c
      BY <3>1, <2>2, <2>3, Zenon DEF n
    <3>2. CASE d # c
      <4>1. pc[d] \in Active /\ pc[d] # "idle"
        BY <3>2, <1>a, Zenon DEF Active
      <4>2. cmd[d].src \in Paths /\ d \in readers[cmd[d].src]
        BY <4>1, CommandFacts, Zenon DEF LockInv, BusyHasCommand, ReaderHasLock, At, Runs
      <4> QED
        BY <4>2, <2>3, Zenon
    <3> QED
      BY <3>1, <3>2, Zenon
  <2>7. WriterHasLocks'
    BY <2>1, <2>2, <1>a, Zenon DEF LockInv, WriterHasLocks, At, Runs, Active
  <2>8. ReadersAreBusy'
    BY <2>1, <2>2, <2>3, <1>a DEF LockInv, ReadersAreBusy
  <2>9. WritersAreBusy'
    BY <2>1, <2>2, <1>a, Zenon DEF LockInv, WritersAreBusy, At
  <2> QED
    BY <2>4, <2>5, <2>6, <2>7, <2>8, <2>9, Zenon DEF LockInv
<1>2. CASE locks_acquire_write(c)
  <2> DEFINE m == cmd[c]
             n == First(m)
  <2>1. /\ pc[c] = "lock" /\ m.op \notin ReadOps /\ writer[n] = None /\ readers[n] = {}
        /\ writer' = [writer EXCEPT ![n] = c] /\ readers' = readers /\ cmd' = cmd
        /\ pc'[c] = IF m.src = m.dst THEN "op" ELSE "lock2"
    BY <1>2, Domains, Zenon DEF locks_acquire_write, At, Runs, CanWrite, Goto
  <2>2. m \in Commands /\ n \in Paths /\ m.src \in Paths /\ m.dst \in Paths
        /\ (m.src = m.dst => n = m.src)
    BY <2>1, CommandFacts, Zenon DEF LockInv, BusyHasCommand, WaiterHasFirst, At
  <2>3. \A p \in Paths : writer'[p] = IF p = n THEN c ELSE writer[p]
    BY <2>1, <2>2, <1>t, Zenon DEF TypeOK
  <2>w. \A d \in Clients, p \in Paths : d # c /\ writer[p] = d => writer'[p] = d
    BY <2>1, <2>3, <1>t, Zenon
  <2>o. \A d \in Clients : pc[d] # "idle" =>
          cmd[d].src \in Paths /\ cmd[d].dst \in Paths /\ First(cmd[d]) \in Paths
    BY CommandFacts, Zenon DEF LockInv, BusyHasCommand, At
  <2>i. \A d \in Clients : pc[d] \in Active => pc[d] # "idle"
    BY Zenon DEF Active
  <2> HIDE DEF n
  <2>4. NoMixedLock' /\ BusyHasCommand'
    BY <2>1, <2>2, <2>3, <1>a, Zenon DEF LockInv, NoMixedLock, BusyHasCommand, At
  <2>5. pc'[c] \in Active => m.src = m.dst
    BY <2>1, Zenon DEF Active
  <2>6. ReaderHasLock'
    BY <2>1, <1>a, Zenon DEF LockInv, ReaderHasLock, Runs
  <2>7. WriterHasLocks'
    <3> SUFFICES ASSUME NEW d \in Clients, pc'[d] \in Active, cmd[d].op \notin ReadOps
                 PROVE  writer'[cmd[d].src] = d /\ writer'[cmd[d].dst] = d
      BY <2>1, Zenon DEF WriterHasLocks, Runs
    <3>1. CASE d = c
      BY <2>2, <2>3, <2>5, <3>1, Zenon
    <3>2. CASE d # c
      <4>1. pc[d] \in Active /\ pc[d] # "idle"
        BY <3>2, <2>i, <1>a, Zenon
      <4>2. writer[cmd[d].src] = d /\ writer[cmd[d].dst] = d
        BY <4>1, Zenon DEF LockInv, WriterHasLocks, Runs
      <4> QED
        BY <3>2, <4>1, <4>2, <2>w, <2>o, Zenon
    <3> QED
      BY <3>1, <3>2, Zenon
  <2>8. WaiterHasFirst'
    <3> SUFFICES ASSUME NEW d \in Clients, pc'[d] = "lock2"
                 PROVE  ~Runs(d, ReadOps)' /\ cmd'[d].src # cmd'[d].dst /\ writer'[First(cmd'[d])] = d
      BY Zenon DEF WaiterHasFirst, At
    <3>1. CASE d = c
      BY <2>1, <2>2, <2>3, <3>1, Zenon DEF Runs, n
    <3>2. CASE d # c
      <4>1. pc[d] = "lock2" /\ pc[d] # "idle" /\ cmd'[d] = cmd[d]
        BY <3>2, <1>a, Zenon
      <4> QED
        BY <4>1, <2>w, <2>o, <3>2, Zenon DEF LockInv, WaiterHasFirst, Runs, At
    <3> QED
      BY <3>1, <3>2, Zenon
  <2>9. ReadersAreBusy'
    BY <2>1, <1>a, Zenon DEF LockInv, ReadersAreBusy
  <2>10. WritersAreBusy'
    <3> SUFFICES ASSUME NEW d \in Clients, NEW p \in Paths, writer'[p] = d
                 PROVE  pc'[d] \notin {"idle", "lock"} /\ (pc'[d] = "lock2" => p = First(cmd'[d]))
      BY Zenon DEF WritersAreBusy, At
    <3>1. CASE d = c
      <4>1. p = n
        BY <2>1, <2>3, <3>1, Zenon DEF LockInv, WritersAreBusy
      <4>2. pc'[c] \notin {"idle", "lock"}
        BY <2>1, Zenon
      <4> QED
        BY <2>1, <3>1, <4>1, <4>2, Zenon DEF n
    <3>2. CASE d # c
      <4>1. writer[p] = d /\ pc'[d] = pc[d] /\ cmd'[d] = cmd[d]
        BY <2>3, <3>2, <1>a, Zenon
      <4> QED
        BY <4>1, Zenon DEF LockInv, WritersAreBusy, At
    <3> QED
      BY <3>1, <3>2, Zenon
  <2> QED
    BY <2>4, <2>6, <2>7, <2>8, <2>9, <2>10, Zenon DEF LockInv
<1>3. CASE locks_acquire_second(c)
  <2> DEFINE m == cmd[c]
             n == Second(m)
  <2>1. /\ pc[c] = "lock2" /\ writer[n] = None /\ readers[n] = {}
        /\ writer' = [writer EXCEPT ![n] = c] /\ readers' = readers /\ cmd' = cmd
        /\ pc'[c] = "op"
    BY <1>3, Domains, Zenon DEF locks_acquire_second, At, Runs, CanWrite, Goto
  <2>2. /\ m \in Commands /\ n \in Paths /\ m.src \in Paths /\ m.dst \in Paths
        /\ m.op \notin ReadOps /\ m.src # m.dst /\ writer[First(m)] = c
    <3>1. /\ m \in Commands /\ m.op \notin ReadOps /\ m.src # m.dst /\ writer[First(m)] = c
      BY <2>1, Zenon DEF LockInv, BusyHasCommand, WaiterHasFirst, At, Runs
    <3> QED
      BY <3>1, CommandFacts, Zenon
  <2>3. \A p \in Paths : writer'[p] = IF p = n THEN c ELSE writer[p]
    BY <2>1, <2>2, <1>t, Zenon DEF TypeOK
  <2>4. writer'[m.src] = c /\ writer'[m.dst] = c
    BY <2>2, <2>3, CommandFacts
  <2>w. \A d \in Clients, p \in Paths : d # c /\ writer[p] = d => writer'[p] = d
    BY <2>1, <2>3, <1>t, Zenon
  <2>o. \A d \in Clients : pc[d] # "idle" =>
          cmd[d].src \in Paths /\ cmd[d].dst \in Paths /\ First(cmd[d]) \in Paths
    BY CommandFacts, Zenon DEF LockInv, BusyHasCommand, At
  <2>i. \A d \in Clients : pc[d] \in Active => pc[d] # "idle"
    BY DEF Active
  <2> HIDE DEF n
  <2>5. NoMixedLock' /\ BusyHasCommand'
    BY <2>1, <2>2, <2>3, <1>a, Zenon DEF LockInv, NoMixedLock, BusyHasCommand, At
  <2>6. ReaderHasLock'
    BY <2>1, <2>2, <1>a, Zenon DEF LockInv, ReaderHasLock, Runs
  <2>7. WriterHasLocks'
    <3> SUFFICES ASSUME NEW d \in Clients, pc'[d] \in Active, cmd[d].op \notin ReadOps
                 PROVE  writer'[cmd[d].src] = d /\ writer'[cmd[d].dst] = d
      BY <2>1, Zenon DEF WriterHasLocks, Runs
    <3>1. CASE d = c
      BY <2>4, <3>1, Zenon
    <3>2. CASE d # c
      <4>1. pc[d] \in Active /\ pc[d] # "idle"
        BY <3>2, <2>i, <1>a, Zenon
      <4>2. writer[cmd[d].src] = d /\ writer[cmd[d].dst] = d
        BY <4>1, Zenon DEF LockInv, WriterHasLocks, Runs
      <4> QED
        BY <3>2, <4>1, <4>2, <2>w, <2>o, Zenon
    <3> QED
      BY <3>1, <3>2, Zenon
  <2>8. WaiterHasFirst'
    BY <2>1, <2>w, <2>o, <1>a, Zenon DEF LockInv, WaiterHasFirst, Runs, At
  <2>9. ReadersAreBusy'
    BY <2>1, <1>a, Zenon DEF LockInv, ReadersAreBusy
  <2>10. WritersAreBusy'
    <3> SUFFICES ASSUME NEW d \in Clients, NEW p \in Paths, writer'[p] = d
                 PROVE  pc'[d] \notin {"idle", "lock"} /\ (pc'[d] = "lock2" => p = First(cmd'[d]))
      BY Zenon DEF WritersAreBusy, At
    <3>1. CASE d = c
      BY <2>1, <3>1
    <3>2. CASE d # c
      <4>1. writer[p] = d /\ pc'[d] = pc[d] /\ cmd'[d] = cmd[d]
        BY <2>3, <3>2, <1>a, Zenon
      <4> QED
        BY <4>1, Zenon DEF LockInv, WritersAreBusy, At
    <3> QED
      BY <3>1, <3>2, Zenon
  <2> QED
    BY <2>5, <2>6, <2>7, <2>8, <2>9, <2>10, Zenon DEF LockInv
<1>4. CASE locks_release(c)
  <2>1. /\ \A n \in Paths : readers'[n] = readers[n] \ {c}
        /\ \A n \in Paths : writer'[n] = IF writer[n] = c THEN None ELSE writer[n]
        /\ pc'[c] = "idle"
    BY <1>4, Domains, Zenon DEF locks_release, Goto
  <2>2. NoMixedLock'
    BY <2>1, Zenon DEF LockInv, NoMixedLock
  <2>3. BusyHasCommand'
    BY <2>1, <1>a, Zenon DEF LockInv, BusyHasCommand, At
  <2>4. ReaderHasLock' /\ WriterHasLocks'
    <3> SUFFICES ASSUME NEW d \in Clients, pc'[d] \in Active
                 PROVE  /\ Runs(d, ReadOps)' => d \in readers'[cmd'[d].src]
                        /\ ~Runs(d, ReadOps)' => writer'[cmd'[d].src] = d /\ writer'[cmd'[d].dst] = d
      BY Zenon DEF ReaderHasLock, WriterHasLocks
    <3>1. d # c /\ cmd'[d] = cmd[d] /\ pc[d] \in Active /\ pc[d] # "idle"
      BY <2>1, <1>a, Zenon DEF Active
    <3>2. cmd[d].src \in Paths /\ cmd[d].dst \in Paths
      BY <3>1, CommandFacts, Zenon DEF LockInv, BusyHasCommand, At
    <3> QED
      BY <2>1, <3>1, <3>2, Zenon DEF LockInv, ReaderHasLock, WriterHasLocks, Runs
  <2>5. WaiterHasFirst'
    <3> SUFFICES ASSUME NEW d \in Clients, pc'[d] = "lock2"
                 PROVE  ~Runs(d, ReadOps)' /\ cmd'[d].src # cmd'[d].dst /\ writer'[First(cmd'[d])] = d
      BY Zenon DEF WaiterHasFirst, At
    <3>1. d # c /\ cmd'[d] = cmd[d] /\ pc[d] = "lock2" /\ cmd[d] \in Commands
      BY <2>1, <1>a, Zenon DEF LockInv, BusyHasCommand, At
    <3>2. First(cmd[d]) \in Paths
      BY <3>1, CommandFacts, Zenon
    <3> QED
      BY <2>1, <3>1, <3>2, Zenon DEF LockInv, WaiterHasFirst, Runs, At
  <2>6. ReadersAreBusy'
    BY <2>1, <1>a, Zenon DEF LockInv, ReadersAreBusy
  <2>7. WritersAreBusy'
    BY <2>1, <1>a, <1>t DEF LockInv, WritersAreBusy, At
  <2> QED
    BY <2>2, <2>3, <2>4, <2>5, <2>6, <2>7, Zenon DEF LockInv
<1>5. CASE \E m \in Commands : receive(c, m)
  BY <1>5, <1>a, <1>t, Domains
     DEF receive, LockInv, NoMixedLock, BusyHasCommand, ReaderHasLock, WriterHasLocks,
         WaiterHasFirst, ReadersAreBusy, WritersAreBusy, At, Runs, Active, Goto, locks
<1>6. CASE \E l \in Labels : Moves(c, l)
  BY <1>6, <1>t, MovesKeepLocks, Zenon
<1> QED
  BY <1>1, <1>2, <1>3, <1>4, <1>5, <1>6, WorkMoves, Zenon

-----------------------------------------------------------------------------
(* The steps and the types *)

\* A client that is not idle has a command on files that exist in the model.
LEMMA AtWork ==
  ASSUME LockInv, NEW c \in Clients, pc[c] # "idle"
  PROVE  /\ cmd[c] \in Commands /\ cmd[c].op \in Ops /\ cmd[c].data \in Seq(Nat)
         /\ cmd[c].src \in Paths /\ cmd[c].dst \in Paths
         /\ Source(c) \in Files /\ Target(c) \in Files
<1>1. cmd[c] \in Commands
  BY Zenon DEF LockInv, BusyHasCommand, At
<1>2. FileOf \in [Paths -> Files]
  BY FileServerAssumption, Zenon
<1> QED
  BY <1>1, <1>2, CommandFacts, Zenon DEF Source, Target

\* pc, the commands and the locks.
LEMMA ControlTypes ==
  ASSUME FileTypes, LockInv, NEW c \in Clients,
         ClientStep(c) \/ \E m \in Commands : receive(c, m)
  PROVE  /\ pc' \in [Clients -> Labels] /\ cmd' \in [Clients -> Commands \cup {NoCommand}]
         /\ readers' \in [Paths -> SUBSET Clients] /\ writer' \in [Paths -> Clients \cup {None}]
<1> USE DEF FileTypes, TypeOK, Goto, locks
<1>1. CASE locks_acquire_read(c)
  <2>1. cmd[c].src \in Paths
    BY <1>1, AtWork, Zenon DEF locks_acquire_read, At
  <2>2. readers[cmd[c].src] \cup {c} \in SUBSET Clients
    BY <2>1, Zenon
  <2>3. readers' \in [Paths -> SUBSET Clients]
    BY <1>1, <2>2, Zenon DEF locks_acquire_read
  <2> QED
    BY <1>1, <2>3, Zenon DEF locks_acquire_read, Labels
<1>2. CASE locks_acquire_write(c)
  BY <1>2, Zenon DEF locks_acquire_write, Labels
<1>3. CASE locks_acquire_second(c)
  BY <1>3, Zenon DEF locks_acquire_second, Labels
<1>4. CASE locks_release(c)
  BY <1>4, Zenon DEF locks_release, Labels
<1>5. CASE \E m \in Commands : receive(c, m)
  BY <1>5 DEF receive, Labels
<1>6. CASE \E l \in Labels : Moves(c, l)
  <2>1. PICK l \in Labels : Moves(c, l)
    BY <1>6, Zenon
  <2>2. cmd' = cmd /\ readers' = readers /\ writer' = writer
    BY <2>1, Zenon DEF Moves
  <2>3. pc' \in [Clients -> Labels]
    BY <2>1, Zenon DEF Moves
  <2> QED
    BY <2>2, <2>3, Zenon
<1> QED
  BY <1>1, <1>2, <1>3, <1>4, <1>5, <1>6, WorkMoves, Zenon

\* What remains to be shown of a step of c.
LEMMA TypesFrom ==
  ASSUME FileTypes, LockInv, NEW c \in Clients,
         ClientStep(c) \/ \E m \in Commands : receive(c, m),
         dir' \in [Files -> Inodes \cup {None}], data' \in [Inodes -> Seq(Nat)],
         rfd' \in [Clients -> Inodes \cup {None}], wfd' \in [Clients -> Inodes \cup {None}],
         roff' \in [Clients -> Nat], woff' \in [Clients -> Nat],
         size' \in [Clients -> 0..MAX_FILE_SIZE],
         buf' \in [Clients -> Seq(Nat)], saved' \in [Clients -> Seq(Nat) \cup {None}],
         DOMAIN reply' = Clients, Desc(pc'[c], cmd'[c].op, rfd'[c], wfd'[c])
  PROVE  FileTypes'
<1>1. TypeOK'
  BY ControlTypes, Zenon DEF TypeOK
<1>2. \A d \in Clients : Desc(pc'[d], cmd'[d].op, rfd'[d], wfd'[d])
  BY StepsAreAlone, Zenon DEF Alone, FileTypes
<1> QED
  BY <1>1, <1>2, Zenon DEF FileTypes

\* A command that ends has no descriptor.
LEMMA DoneTypes ==
  ASSUME FileTypes, LockInv, NEW c \in Clients, ClientStep(c), NEW r, Done(c, r),
         dir' \in [Files -> Inodes \cup {None}], data' \in [Inodes -> Seq(Nat)]
  PROVE  FileTypes'
<1>1. rfd' \in [Clients -> Inodes \cup {None}] /\ wfd' \in [Clients -> Inodes \cup {None}]
  BY Zenon DEF Done, FileTypes, TypeOK
<1>2. roff' \in [Clients -> Nat] /\ woff' \in [Clients -> Nat] /\ size' \in [Clients -> 0..MAX_FILE_SIZE]
  BY RleAssumption DEF Done, FileTypes, TypeOK
<1>3. buf' \in [Clients -> Seq(Nat)] /\ saved' \in [Clients -> Seq(Nat) \cup {None}]
  <2>1. <<>> \in Seq(Nat)
    OBVIOUS
  <2> QED
    BY <2>1, Zenon DEF Done, FileTypes
<1>4. DOMAIN reply' = Clients
  BY Zenon DEF Done, FileTypes
<1>5. Desc(pc'[c], cmd'[c].op, rfd'[c], wfd'[c])
  <2>1. pc'[c] = "release" /\ rfd'[c] = None /\ wfd'[c] = None
    BY Domains, Zenon DEF Done, Goto
  <2> QED
    BY <2>1, Zenon DEF Desc
<1> QED
  BY <1>1, <1>2, <1>3, <1>4, <1>5, TypesFrom, Zenon

\* write() at the end of a file appends.
LEMMA WriteAtIs ==
  ASSUME NEW s \in Seq(Nat), NEW o \in Nat, NEW t \in Seq(Nat)
  PROVE  /\ WriteAt(s, o, t) \in Seq(Nat)
         /\ o = Len(s) => WriteAt(s, o, t) = s \o t
<1> DEFINE l == Len(s)
           k == Len(t)
           n == IF o + k > l THEN o + k ELSE l
           w == WriteAt(s, o, t)
           E(j) == IF j > o /\ j <= o + k THEN t[j - o] ELSE IF j <= l THEN s[j] ELSE 0
<1>1. l \in Nat /\ k \in Nat
  BY LenProperties, Zenon
<1>2. w = [j \in 1..n |-> E(j)]
  BY Zenon DEF WriteAt
<1>3. (\A j \in 1..l : s[j] \in Nat) /\ (\A j \in 1..k : t[j] \in Nat)
  OBVIOUS
<1> HIDE DEF l, k, w
<1>4. n \in Nat
  BY <1>1
<1>5. \A j \in 1..n : E(j) \in Nat
  <2> SUFFICES ASSUME NEW j \in 1..n PROVE E(j) \in Nat
    BY Zenon
  <2>1. CASE j > o /\ j <= o + k
    <3>1. j - o \in 1..k
      BY <2>1, <1>1, <1>4
    <3> QED
      BY <2>1, <3>1, <1>3, Zenon
  <2>2. CASE ~(j > o /\ j <= o + k) /\ j <= l
    <3>1. j \in 1..l
      BY <2>2, <1>1, <1>4
    <3> QED
      BY <2>2, <3>1, <1>3, Zenon
  <2>3. CASE ~(j > o /\ j <= o + k) /\ ~(j <= l)
    BY <2>3, Zenon
  <2> QED
    BY <2>1, <2>2, <2>3, Zenon
<1>6. w \in Seq(Nat) /\ Len(w) = n
  <2> HIDE DEF n, E
  <2> QED
    BY <1>2, <1>4, <1>5
<1>7. ASSUME o = l PROVE w = s \o t
  <2>1. n = l + k
    BY <1>7, <1>1
  <2>2. s \o t \in Seq(Nat) /\ Len(s \o t) = l + k
        /\ \A j \in 1..(l + k) : (s \o t)[j] = IF j <= l THEN s[j] ELSE t[j - l]
    BY ConcatProperties, Zenon DEF l, k
  <2>3. \A j \in 1..(l + k) : w[j] = E(j)
    <3> HIDE DEF n, E
    <3> QED
      BY <1>2, <2>1, Zenon
  <2>4. \A j \in 1..(l + k) : E(j) = IF j <= l THEN s[j] ELSE t[j - l]
    <3> SUFFICES ASSUME NEW j \in 1..(l + k) PROVE E(j) = IF j <= l THEN s[j] ELSE t[j - l]
      BY Zenon
    <3>1. (j > o /\ j <= o + k) <=> ~(j <= l)
      BY <1>1, <1>7
    <3> QED
      BY <3>1, <1>7, Zenon
  <2> DEFINE q == s \o t
  <2>5. q \in Seq(Nat) /\ Len(q) = Len(w) /\ \A j \in 1..Len(w) : w[j] = q[j]
    <3> HIDE DEF E, n
    <3> QED
      BY <1>6, <2>1, <2>2, <2>3, <2>4, Zenon
  <2> HIDE DEF q
  <2>6. w = q
    BY <1>6, <2>5, SeqEqual, Zenon
  <2> QED
    BY <2>6, Zenon DEF q
<1> QED
  BY <1>6, <1>7, Zenon DEF w, l

\* The bytes a read() delivers.
LEMMA ReadIs ==
  ASSUME FileTypes, NEW c \in Clients, NEW k \in Counts, rfd[c] # None, k <= Left(c)
  PROVE  /\ rfd[c] \in Inodes /\ data[rfd[c]] \in Seq(Nat)
         /\ k \in Nat /\ roff[c] \in Nat /\ roff[c] + k \in Nat /\ roff[c] + k <= Len(data[rfd[c]])
         /\ SubSeq(data[rfd[c]], roff[c] + 1, roff[c] + k) \in Seq(Nat)
<1>1. /\ rfd[c] \in Inodes /\ data[rfd[c]] \in Seq(Nat) /\ roff[c] \in Nat
  BY Zenon DEF FileTypes, TypeOK
<1>2. Len(Magic) \in Nat /\ MAX_FILE_SIZE \in Nat
  BY RleAssumption, LenProperties, Zenon
<1>3. k \in Nat
  BY <1>2 DEF Counts
<1> DEFINE s == data[rfd[c]]
           o == roff[c]
           n == Len(s)
<1>4. n \in Nat
  BY <1>1, LenProperties, Zenon
<1>5. k <= n - o
  BY Zenon DEF Left
<1> HIDE DEF o, s, n
<1>6. o + k \in Nat /\ o <= o + k /\ o + k <= n
  BY <1>1, <1>3, <1>4, <1>5 DEF o
<1>7. SubSeq(s, o + 1, o + k) \in Seq(Nat)
  BY <1>1, <1>6, SliceIs, Zenon DEF o, s, n
<1> QED
  BY <1>1, <1>3, <1>6, <1>7, Zenon DEF o, s, n

\* The two parts of the buffer around a write().
WriteIs(c, k) ==
  /\ k \in Nat /\ k <= Len(buf[c])
  /\ SubSeq(buf[c], 1, k) \in Seq(Nat) /\ SubSeq(buf[c], k + 1, Len(buf[c])) \in Seq(Nat)
  /\ SubSeq(buf[c], 1, k) \o SubSeq(buf[c], k + 1, Len(buf[c])) = buf[c]
  /\ Len(SubSeq(buf[c], 1, k)) = k

\* A short write takes a part of the buffer and leaves the rest.
LEMMA WritesAre ==
  ASSUME FileTypes, NEW c \in Clients, NEW k \in Counts, k <= Len(buf[c])
  PROVE  WriteIs(c, k)
<1>1. Len(Magic) \in Nat /\ MAX_FILE_SIZE \in Nat
  BY RleAssumption, LenProperties, Zenon
<1>2. k \in Nat
  BY <1>1 DEF Counts
<1> DEFINE b == buf[c]
           n == Len(b)
<1>3. b \in Seq(Nat) /\ n \in Nat
  <2>1. b \in Seq(Nat)
    BY Zenon DEF FileTypes
  <2> QED
    BY <2>1, LenProperties, Zenon
<1>4. k <= n
  BY Zenon
<1> HIDE DEF b
<1>5. /\ 0 \in Nat /\ 0 <= k /\ k - 0 = k /\ 0 + 1 = 1 /\ n <= n /\ n = Len(b)
  BY <1>2, <1>3
<1>6. SubSeq(b, 0 + 1, k) \in Seq(Nat) /\ Len(SubSeq(b, 0 + 1, k)) = k - 0
  BY <1>2, <1>3, <1>4, <1>5, SliceIs, Zenon
<1>7. SubSeq(b, k + 1, n) \in Seq(Nat)
  BY <1>2, <1>3, <1>4, <1>5, SliceIs, Zenon
<1>8. SubSeq(b, 1, k) \o SubSeq(b, k + 1, n) = b
  <2>1. k \in 0..Len(b) /\ n \in k..Len(b)
    BY <1>2, <1>3, <1>4
  <2>2. SubSeq(b, 1, k) \o SubSeq(b, k + 1, n) = SubSeq(b, 1, n)
    BY <1>3, <2>1, ConcatAdjacentSubSeq, Zenon
  <2>3. SubSeq(b, 1, n) = b
    BY <1>3
  <2> QED
    BY <2>2, <2>3, Zenon
<1> QED
  BY <1>2, <1>4, <1>5, <1>6, <1>7, <1>8, Zenon DEF WriteIs, b

\* Every step of every client keeps the types.
LEMMA TypesStep ==
  ASSUME FileTypes, LockInv, NEW c \in Clients,
         ClientStep(c) \/ \E m \in Commands : receive(c, m)
  PROVE  FileTypes'
<1>t. /\ dir \in [Files -> Inodes \cup {None}] /\ data \in [Inodes -> Seq(Nat)]
      /\ rfd \in [Clients -> Inodes \cup {None}] /\ wfd \in [Clients -> Inodes \cup {None}]
      /\ roff \in [Clients -> Nat] /\ woff \in [Clients -> Nat]
      /\ size \in [Clients -> 0..MAX_FILE_SIZE]
      /\ buf \in [Clients -> Seq(Nat)] /\ saved \in [Clients -> Seq(Nat) \cup {None}]
      /\ DOMAIN reply = Clients /\ DOMAIN pc = Clients /\ DOMAIN cmd = Clients
      /\ Desc(pc[c], cmd[c].op, rfd[c], wfd[c])
  BY Zenon DEF FileTypes, TypeOK
<1>e. <<>> \in Seq(Nat) /\ 0 \in 0..MAX_FILE_SIZE /\ 0 \in Nat
  BY RleAssumption
<1>1. CASE ClientStep(c) /\ \E r : Done(c, r) /\ UNCHANGED fs
  BY <1>1, <1>t, DoneTypes, Zenon DEF fs
<1>2. CASE \/ locks_acquire_read(c) \/ locks_acquire_write(c)
           \/ locks_acquire_second(c) \/ locks_release(c)
  <2>1. UNCHANGED <<dir, data, rfd, roff, size, wfd, woff, buf, saved>>
    BY <1>2, Zenon DEF locks_acquire_read, locks_acquire_write, locks_acquire_second,
                       locks_release, fs, local
  <2>2. /\ pc[c] \in {"lock", "lock2", "release"} /\ pc'[c] \in {"op", "lock2", "idle"}
        /\ DOMAIN reply' = Clients
    BY <1>2, <1>t, Zenon DEF locks_acquire_read, locks_acquire_write, locks_acquire_second,
                             locks_release, At, Goto
  <2>3. Desc(pc'[c], cmd'[c].op, rfd'[c], wfd'[c])
    BY <1>t, <2>1, <2>2, Zenon DEF Desc
  <2> QED
    BY <1>t, <2>1, <2>2, <2>3, TypesFrom, Zenon
<1>3. CASE \E m \in Commands : receive(c, m)
  <2>1. PICK m \in Commands : receive(c, m)
    BY <1>3, Zenon
  <2>2. buf' \in [Clients -> Seq(Nat)]
    BY <2>1, <1>t, CommandFacts, Zenon DEF receive
  <2>3. pc[c] = "idle" /\ pc'[c] = "lock" /\ rfd' = rfd /\ wfd' = wfd
    BY <2>1, <1>t, Zenon DEF receive, At, Goto
  <2>4. Desc(pc'[c], cmd'[c].op, rfd'[c], wfd'[c])
    BY <1>t, <2>3, Zenon DEF Desc
  <2>5. UNCHANGED <<dir, data, roff, size, woff, saved, reply>>
    BY <2>1, Zenon DEF receive, fs
  <2> QED
    BY <1>3, <1>t, <2>2, <2>3, <2>4, <2>5, TypesFrom, Zenon
<1>4. CASE open_read(c)
  <2>1. Source(c) \in Files
    BY <1>4, AtWork, Zenon DEF open_read, At
  <2> DEFINE i == dir[Source(c)]
  <2>2. i \in Inodes
    BY <1>4, <1>t, <2>1, Zenon DEF open_read
  <2>3. Len(data[i]) \in 0..MAX_FILE_SIZE
    <3>1. data[i] \in Seq(Nat) /\ Len(data[i]) <= MAX_FILE_SIZE
      BY <1>4, <1>t, <2>2, Zenon DEF open_read
    <3>2. Len(data[i]) \in Nat
      BY <3>1, LenProperties, Zenon
    <3> QED
      BY <3>1, <3>2, RleAssumption
  <2>4. rfd' = [rfd EXCEPT ![c] = i] /\ size' = [size EXCEPT ![c] = Len(data[i])]
    BY <1>4, Zenon DEF open_read
  <2> HIDE DEF i
  <2>5. rfd' \in [Clients -> Inodes \cup {None}] /\ size' \in [Clients -> 0..MAX_FILE_SIZE]
    BY <2>2, <2>3, <2>4, <1>t, Zenon
  <2>6. /\ pc[c] = "op" /\ pc'[c] = "read" /\ rfd'[c] = i /\ wfd' = wfd /\ cmd' = cmd
        /\ cmd[c].op \in ReadAllOps
    BY <1>4, <1>t, <2>4, Zenon DEF open_read, At, Goto, Runs
  <2>7. Desc(pc'[c], cmd'[c].op, rfd'[c], wfd'[c])
    <3>1. i # None
      BY <2>2, FileServerAssumption, Zenon
    <3> QED
      BY <3>1, <1>t, <2>6, Zenon DEF Desc
  <2>8. UNCHANGED <<dir, data, roff, wfd, woff, buf, saved, reply>>
    BY <1>4, Zenon DEF open_read, fs
  <2>9. ClientStep(c)
    BY <1>4, Zenon DEF ClientStep
  <2> QED
    BY <1>t, <2>5, <2>7, <2>8, <2>9, TypesFrom, Zenon
<1>5. CASE compress(c) \/ decompress(c)
  <2>1. PICK s : Convert(c, s) /\ s \in Seq(Nat)
    <3>1. buf[c] \in Seq(Nat)
      BY <1>t, Zenon
    <3> QED
      BY <1>5, <3>1, CodesAreFiles, Zenon DEF compress, decompress
  <2>2. /\ buf' = [buf EXCEPT ![c] = s] /\ rfd' = [rfd EXCEPT ![c] = None]
        /\ roff' = [roff EXCEPT ![c] = 0] /\ size' = [size EXCEPT ![c] = 0]
        /\ pc'[c] = "open" /\ UNCHANGED <<dir, data, cmd, wfd, woff, saved, reply>>
    BY <2>1, <1>t, Zenon DEF Convert, Goto, fs
  <2>3. /\ buf' \in [Clients -> Seq(Nat)] /\ rfd' \in [Clients -> Inodes \cup {None}]
        /\ roff' \in [Clients -> Nat] /\ size' \in [Clients -> 0..MAX_FILE_SIZE]
    BY <2>1, <2>2, <1>t, <1>e, Zenon
  <2>4. pc[c] = "read" /\ cmd[c].op \in {"COMPRESS", "DECOMPRESS"} /\ rfd'[c] = None
    BY <1>5, <2>2, <1>t, Zenon DEF compress, decompress, ReadAll, At, Runs
  <2>5. Desc(pc'[c], cmd'[c].op, rfd'[c], wfd'[c])
    BY <1>t, <2>2, <2>4, Zenon DEF Desc
  <2>6. ClientStep(c)
    BY <1>5, Zenon DEF ClientStep
  <2> QED
    BY <1>t, <2>2, <2>3, <2>5, <2>6, TypesFrom, Zenon
<1>6. CASE copy_open(c)
  <2>1. Source(c) \in Files
    BY <1>6, AtWork, Zenon DEF copy_open, At
  <2> DEFINE i == dir[Source(c)]
  <2>2. i \in Inodes /\ i # None
    BY <1>6, <1>t, <2>1, Zenon DEF copy_open
  <2>3. /\ rfd' = [rfd EXCEPT ![c] = i] /\ pc[c] = "op" /\ pc'[c] = "open" /\ cmd[c].op = "COPYFILE"
        /\ UNCHANGED <<dir, data, cmd, roff, size, wfd, woff, buf, saved, reply>>
    BY <1>6, <1>t, Zenon DEF copy_open, At, Goto, Runs, fs
  <2> HIDE DEF i
  <2>4. rfd' \in [Clients -> Inodes \cup {None}] /\ rfd'[c] = i
    BY <2>2, <2>3, <1>t, Zenon
  <2>5. Desc(pc'[c], cmd'[c].op, rfd'[c], wfd'[c])
    BY <1>t, <2>2, <2>3, <2>4, Zenon DEF Desc
  <2>6. ClientStep(c)
    BY <1>6, Zenon DEF ClientStep
  <2> QED
    BY <1>t, <2>3, <2>4, <2>5, <2>6, TypesFrom, Zenon
<1>7. CASE open_write(c)
  <2> DEFINE old == dir[Target(c)]
             i == IF old = None THEN NewInode ELSE old
  <2>1. Target(c) \in Files
    BY <1>7, AtWork, Zenon DEF open_write, At
  <2>2. i \in Inodes /\ i # None
    <3>1. CASE old = None
      BY <3>1, <2>1, NewInodeIs, FileServerAssumption, Zenon DEF FileTypes
    <3>2. CASE old # None
      BY <3>2, <2>1, <1>t, FileServerAssumption, Zenon
    <3> QED
      BY <3>1, <3>2, Zenon
  <2>3. /\ dir' = [dir EXCEPT ![Target(c)] = i] /\ data' = [data EXCEPT ![i] = <<>>]
        /\ wfd' = [wfd EXCEPT ![c] = i]
        /\ saved' = [saved EXCEPT ![c] = IF old = None THEN None ELSE data[old]]
        /\ pc'[c] = IF cmd[c].op = "COPYFILE" THEN "copy" ELSE "write"
        /\ UNCHANGED <<cmd, rfd, roff, size, woff, buf, reply>>
    BY <1>7, <1>t, Zenon DEF open_write, Goto, Runs
  <2>4. (IF old = None THEN None ELSE data[old]) \in Seq(Nat) \cup {None}
    BY <2>1, <1>t, Zenon
  <2>5. pc[c] = "open" \/ (pc[c] = "op" /\ cmd[c].op = "SETFILE")
    BY <1>7, Zenon DEF open_write, At, Runs
  <2> HIDE DEF i, old
  <2>6. /\ dir' \in [Files -> Inodes \cup {None}] /\ wfd' \in [Clients -> Inodes \cup {None}]
        /\ wfd'[c] = i
    BY <2>2, <2>3, <1>t, Zenon
  <2>7. data' \in [Inodes -> Seq(Nat)]
    BY <2>2, <2>3, <1>t, <1>e, Zenon
  <2>8. saved' \in [Clients -> Seq(Nat) \cup {None}]
    BY <2>3, <2>4, <1>t, Zenon
  <2>9. Desc(pc'[c], cmd'[c].op, rfd'[c], wfd'[c])
    BY <1>t, <2>2, <2>3, <2>5, <2>6, Zenon DEF Desc
  <2>10. ClientStep(c)
    BY <1>7, Zenon DEF ClientStep
  <2> QED
    BY <1>t, <2>3, <2>6, <2>7, <2>8, <2>9, <2>10, TypesFrom, Zenon
<1>8. CASE copy_next(c)
  <2>1. /\ UNCHANGED <<dir, data, cmd, rfd, roff, size, wfd, woff, buf, saved, reply>>
        /\ pc[c] = "write" /\ pc'[c] = "copy" /\ cmd[c].op = "COPYFILE"
    BY <1>8, <1>t, Zenon DEF copy_next, fs, local, At, Goto, Runs
  <2>2. Desc(pc'[c], cmd'[c].op, rfd'[c], wfd'[c])
    BY <1>t, <2>1, Zenon DEF Desc
  <2>3. ClientStep(c)
    BY <1>8, Zenon DEF ClientStep
  <2> QED
    BY <1>t, <2>1, <2>2, <2>3, TypesFrom, Zenon
<1>9. CASE \E k \in Counts : read_some(c, k) \/ copy_read(c, k)
  <2>1. PICK k \in Counts : read_some(c, k) \/ copy_read(c, k)
    BY <1>9, Zenon
  <2>2. rfd[c] # None /\ pc[c] \in {"read", "copy"} /\ k <= Left(c)
    <3>1. pc[c] \in {"read", "copy"} /\ k <= Left(c)
      BY <2>1, Zenon DEF read_some, copy_read, At
    <3> QED
      BY <3>1, <1>t, Zenon DEF Desc
  <2> DEFINE s == SubSeq(data[rfd[c]], roff[c] + 1, roff[c] + k)
  <2>3. s \in Seq(Nat) /\ roff[c] + k \in Nat
    BY <2>2, ReadIs, Zenon
  <2>4. buf[c] \o s \in Seq(Nat)
    BY <2>3, <1>t, JoinIs, Zenon
  <2>5. /\ UNCHANGED <<dir, data, cmd, rfd, size, wfd, woff, saved, reply>>
        /\ roff' = [roff EXCEPT ![c] = roff[c] + k]
        /\ buf' = [buf EXCEPT ![c] = s] \/ buf' = [buf EXCEPT ![c] = buf[c] \o s]
        /\ pc'[c] = IF pc[c] = "read" THEN "read" ELSE "write"
    BY <2>1, <1>t, Zenon DEF read_some, copy_read, fs, At, Goto
  <2> HIDE DEF s
  <2>6. roff' \in [Clients -> Nat] /\ buf' \in [Clients -> Seq(Nat)]
    BY <2>3, <2>4, <2>5, <1>t, Zenon
  <2>7. Desc(pc'[c], cmd'[c].op, rfd'[c], wfd'[c])
    BY <1>t, <2>2, <2>5, Zenon DEF Desc
  <2>8. ClientStep(c)
    BY <1>9, Zenon DEF ClientStep
  <2> QED
    BY <1>t, <2>5, <2>6, <2>7, <2>8, TypesFrom, Zenon
<1>10. CASE \E k \in Counts : write_some(c, k)
  <2>1. PICK k \in Counts : write_some(c, k)
    BY <1>10, Zenon
  <2>2. pc[c] = "write" /\ wfd[c] \in Inodes
    <3>1. pc[c] = "write"
      BY <2>1, Zenon DEF write_some, At
    <3>2. wfd[c] # None
      BY <3>1, <1>t, Zenon DEF Desc
    <3> QED
      BY <3>1, <3>2, <1>t, Zenon
  <2>3. WriteIs(c, k)
    BY <2>1, WritesAre, Zenon DEF write_some
  <2> DEFINE s == SubSeq(buf[c], 1, k)
             t == SubSeq(buf[c], k + 1, Len(buf[c]))
             w == WriteAt(data[wfd[c]], woff[c], s)
  <2>4. w \in Seq(Nat)
    BY <2>2, <2>3, <1>t, WriteAtIs, Zenon DEF WriteIs
  <2>5. t \in Seq(Nat) /\ woff[c] + k \in Nat
    <3>1. woff[c] \in Nat /\ k \in Nat
      BY <1>t, <2>3, Zenon DEF WriteIs
    <3> QED
      BY <3>1, <2>3 DEF WriteIs
  <2>6. /\ data' = [data EXCEPT ![wfd[c]] = w] /\ woff' = [woff EXCEPT ![c] = woff[c] + k]
        /\ buf' = [buf EXCEPT ![c] = t]
        /\ UNCHANGED <<dir, cmd, pc, rfd, roff, size, wfd, saved, reply>>
    BY <2>1, Zenon DEF write_some
  <2> HIDE DEF s, t, w
  <2>7. data' \in [Inodes -> Seq(Nat)]
    BY <2>2, <2>4, <2>6, <1>t, Zenon
  <2>8. woff' \in [Clients -> Nat] /\ buf' \in [Clients -> Seq(Nat)]
    BY <2>5, <2>6, <1>t, Zenon
  <2>9. ClientStep(c)
    BY <1>10, Zenon DEF ClientStep
  <2> QED
    BY <1>t, <2>6, <2>7, <2>8, <2>9, TypesFrom, Zenon
<1>11. CASE unlink(c) \/ rename(c)
  <2>1. ClientStep(c)
    BY <1>11, Zenon DEF ClientStep
  <2>2. dir' \in [Files -> Inodes \cup {None}]
    <3>1. Source(c) \in Files /\ Target(c) \in Files
      BY <1>11, AtWork, Zenon DEF unlink, rename, At
    <3> QED
      BY <1>11, <3>1, <1>t, Zenon DEF unlink, rename
  <2>3. data' \in [Inodes -> Seq(Nat)]
    <3>1. data' = Reclaimed(dir')
      BY <1>11, Zenon DEF unlink, rename
    <3> QED
      BY <3>1, <1>t, <1>e, Zenon DEF Reclaimed
  <2> QED
    BY <1>11, <2>1, <2>2, <2>3, DoneTypes, Zenon DEF unlink, rename
<1> QED
  BY <1>1, <1>2, <1>3, <1>4, <1>5, <1>6, <1>7, <1>8, <1>9, <1>10, <1>11, Zenon
     DEF ClientStep, lock_fails, not_found, too_large, getfile_reply, decompress_fails,
         copy_not_found, write_done, copy_done, stat, io_fails

-----------------------------------------------------------------------------
(* Nobody waits in a circle *)

\* A finite set of numbers has a largest one.
LEMMA LargestExists ==
  ASSUME NEW S \in SUBSET Nat, IsFiniteSet(S), S # {}
  PROVE  \E x \in S : \A y \in S : y <= x
<1> DEFINE HasLargest(U) == U # {} => \E x \in U : \A y \in U : y <= x
           Fine(n) == \A U \in SUBSET Nat : IsFiniteSet(U) /\ Cardinality(U) = n => HasLargest(U)
           T == {n \in Nat : Fine(n)}
<1>1. 0 \in T
  BY FS_EmptySet, Zenon
<1>2. \A n \in Nat : n \in T => n + 1 \in T
  <2> SUFFICES ASSUME NEW n \in Nat, Fine(n) PROVE Fine(n + 1)
    <3>1. \A n \in Nat : n + 1 \in Nat
      OBVIOUS
    <3> QED
      BY <3>1, Zenon
  <2> SUFFICES ASSUME NEW U \in SUBSET Nat, IsFiniteSet(U), Cardinality(U) = n + 1, U # {}
               PROVE  \E x \in U : \A y \in U : y <= x
    BY Zenon
  <2>1. PICK x \in U : TRUE
    BY Zenon
  <2> DEFINE V == U \ {x}
  <2>2. IsFiniteSet(V) /\ Cardinality(V) = n
    <3>1. IsFiniteSet(V) /\ Cardinality(V) = (n + 1) - 1
      BY FS_RemoveElement, Zenon
    <3> QED
      BY <3>1
  <2>3. HasLargest(V)
    BY <2>2, Zenon
  <2>4. CASE V = {}
    BY <2>4
  <2>5. CASE V # {}
    <3>1. PICK z \in V : \A y \in V : y <= z
      BY <2>3, <2>5, Zenon
    <3>2. CASE z <= x
      BY <3>1, <3>2
    <3>3. CASE x <= z
      BY <3>1, <3>3, Zenon
    <3> QED
      BY <3>1, <3>2, <3>3
  <2> QED
    BY <2>4, <2>5, Zenon
<1>3. Nat \subseteq T
  <2> HIDE DEF T
  <2> QED
    BY <1>1, <1>2, NatInductive, Zenon
<1>4. Cardinality(S) \in Nat
  BY FS_CardinalityType, Zenon
<1> QED
  BY <1>3, <1>4, Zenon

\* If everybody is blocked, look at who waits for the largest path: its holder
\* waits too, for a still larger one.
LEMMA SomebodyGoesOn ==
  ASSUME TypeOK, LockInv PROVE NotAllBlocked
<1> SUFFICES ASSUME NEW b \in Clients, ~At(b, "idle"),
                    \A c \in Clients : ~At(c, "idle") => Blocked(c)
             PROVE  FALSE
  BY Zenon DEF NotAllBlocked
<1> DEFINE W == {c \in Clients : pc[c] = "lock2"}
           S == {Second(cmd[c]) : c \in W}
<1>1. \A c \in Clients : pc[c] \in {"idle", "lock", "lock2"}
  BY Zenon DEF Blocked, At
<1>2. \A n \in Paths : readers[n] = {} /\ (writer[n] = None \/ writer[n] \in W)
  BY <1>1, Zenon DEF TypeOK, LockInv, ReadersAreBusy, WritersAreBusy
<1>3. \A c \in W : /\ cmd[c] \in Commands /\ Second(cmd[c]) \in Paths /\ Second(cmd[c]) \in Nat
                   /\ First(cmd[c]) \in Nat /\ First(cmd[c]) < Second(cmd[c])
  <2> SUFFICES ASSUME NEW c \in W
               PROVE  /\ cmd[c] \in Commands /\ Second(cmd[c]) \in Paths /\ Second(cmd[c]) \in Nat
                      /\ First(cmd[c]) \in Nat /\ First(cmd[c]) < Second(cmd[c])
    BY Zenon
  <2>1. cmd[c] \in Commands /\ cmd[c].src # cmd[c].dst
    BY Zenon DEF LockInv, BusyHasCommand, WaiterHasFirst, At
  <2> QED
    BY <2>1, CommandFacts, Zenon
<1>4. W # {}
  <2>1. CASE pc[b] = "lock2"
    BY <2>1, Zenon
  <2>2. CASE pc[b] = "lock"
    <3>1. cmd[b] \in Commands
      BY Zenon DEF LockInv, BusyHasCommand
    <3>2. cmd[b].src \in Paths /\ First(cmd[b]) \in Paths
      BY <3>1, CommandFacts, Zenon
    <3>3. ~CanRead(cmd[b].src) \/ ~CanWrite(First(cmd[b]))
      BY <2>2, Zenon DEF Blocked, At
    <3> QED
      BY <3>2, <3>3, <1>2, Zenon DEF CanRead, CanWrite
  <2> QED
    BY <1>1, <2>1, <2>2, Zenon DEF At
<1>5. IsFiniteSet(S)
  <2>1. IsFiniteSet(W)
    <3>1. W \in SUBSET Clients /\ IsFiniteSet(Clients)
      BY FileServerAssumption, Zenon
    <3> QED
      BY <3>1, FS_Subset, Zenon
  <2> DEFINE g == [c \in W |-> Second(cmd[c])]
  <2>2. S = {g[c] : c \in W}
    BY Zenon
  <2> HIDE DEF g, S, W
  <2>3. IsFiniteSet({g[c] : c \in W})
    BY <2>1, ValuesAreFew, Zenon
  <2> QED
    BY <2>2, <2>3, Zenon
<1>6. PICK c \in W : \A d \in W : Second(cmd[d]) <= Second(cmd[c])
  <2>1. S \in SUBSET Nat /\ S # {}
    BY <1>3, <1>4, Zenon
  <2>2. PICK x \in S : \A y \in S : y <= x
    <3> HIDE DEF S
    <3> QED
      BY <1>5, <2>1, LargestExists, Zenon
  <2> QED
    BY <2>2, Zenon
<1>7. ~CanWrite(Second(cmd[c]))
  BY Zenon DEF Blocked, At
<1>8. writer[Second(cmd[c])] \in W
  BY <1>2, <1>3, <1>6, <1>7, Zenon DEF CanWrite
<1> DEFINE d == writer[Second(cmd[c])]
<1>9. Second(cmd[c]) = First(cmd[d])
  BY <1>3, <1>6, <1>8, Zenon DEF LockInv, WritersAreBusy, At
<1>10. First(cmd[d]) < Second(cmd[d]) /\ Second(cmd[d]) <= First(cmd[d])
       /\ First(cmd[d]) \in Nat /\ Second(cmd[d]) \in Nat
  BY <1>3, <1>6, <1>8, <1>9, Zenon
<1> HIDE DEF d
<1> QED
  BY <1>10

-----------------------------------------------------------------------------
(* The files, when the clients at work spell them in the same way *)

\* A file is what its directory entry leads to, and so is an open descriptor.
Descriptors ==
  /\ \A f, g \in Files : dir[f] # None /\ dir[f] = dir[g] => f = g
  /\ \A c \in Clients : rfd[c] # None => rfd[c] = dir[Source(c)]
  /\ \A c \in Clients : wfd[c] # None => wfd[c] = dir[Target(c)]

\* What a file holds now, and what it held for the command of c, which may have
\* truncated it since.
Holds(f) == IF dir[f] = None THEN None ELSE data[dir[f]]
Bytes(i) == IF i = None THEN <<>> ELSE data[i]
Self(c) == Source(c) = Target(c)
Input(c) == IF wfd[c] # None /\ Self(c) THEN saved[c] ELSE Holds(Source(c))

\* What a command m that finds in puts into its destination, if it comes to
\* that (self: it is its own source).
Result(m, self, in) ==
  CASE m.op = "SETFILE" -> m.data
    [] m.op = "COPYFILE" -> IF self THEN <<>> ELSE in
    [] m.op = "COMPRESS" -> rle_compress_bytes(in)
    [] m.op = "DECOMPRESS" -> rle_decompress_bytes(in)
MayWrite(m, in) ==
  \/ m.op = "SETFILE"
  \/ m.op \in {"COPYFILE", "COMPRESS"} /\ in # None
  \/ m.op = "DECOMPRESS" /\ in # None /\ Decodable(in)

\* How far the command m has come at l: it has read the first ro bytes of src,
\* and written dst of its result; b is in its buffer.
Progress(l, m, self, in, src, ro, sz, dst, wo, b) ==
  /\ l \notin {"read", "write", "copy"} => ro = 0
  /\ l \notin {"write", "copy"} => wo = 0
  /\ l \in {"lock", "lock2", "op"} => b = m.data
  /\ l = "read" => sz = Len(src) /\ ro <= sz /\ b = SubSeq(src, 1, ro)
  /\ l = "open" => MayWrite(m, in) /\ (m.op # "COPYFILE" => b = Result(m, self, in))
  /\ l \in {"write", "copy"} => MayWrite(m, in) /\ wo = Len(dst)
  /\ l = "write" /\ m.op # "COPYFILE" => dst \o b = Result(m, self, in)
  /\ l \in {"write", "copy"} /\ m.op = "COPYFILE" =>
       IF self THEN l = "copy" /\ ro = 0 /\ dst = <<>>
       ELSE /\ ro <= Len(src)
            /\ SubSeq(src, 1, ro) = IF l = "copy" THEN dst ELSE dst \o b

ProgressOf(c) ==
  Progress(pc[c], cmd[c], Self(c), Input(c), Bytes(rfd[c]), roff[c], size[c],
           Bytes(wfd[c]), woff[c], buf[c])

FileInv ==
  FileTypes /\ LockInv /\ Descriptors /\ \A c \in Clients : ProgressOf(c)

\* A command that writes shares no path with another command at work.
LEMMA WriterExcludes ==
  ASSUME FileTypes, LockInv, NEW c \in Clients, NEW d \in Clients, c # d,
         pc[c] \in Active, pc[d] \in Active, ~Runs(c, ReadOps)
  PROVE  PathsOf(c) \cap PathsOf(d) = {}
<1>1. pc[c] # "idle" /\ pc[d] # "idle"
  BY Zenon DEF Active
<1>2. /\ cmd[c].src \in Paths /\ cmd[c].dst \in Paths
      /\ cmd[d].src \in Paths /\ cmd[d].dst \in Paths /\ cmd[d] \in Commands
  BY <1>1, AtWork, Zenon
<1>3. writer[cmd[c].src] = c /\ writer[cmd[c].dst] = c
  BY Zenon DEF LockInv, WriterHasLocks
<1>4. CASE Runs(d, ReadOps)
  <2>1. cmd[d].dst = cmd[d].src
    BY <1>2, <1>4, FileServerAssumption, Zenon DEF Runs, ReadOps, OnePathOps
  <2>2. d \in readers[cmd[d].src]
    BY <1>4, Zenon DEF LockInv, ReaderHasLock
  <2>3. writer[cmd[d].src] = None /\ None # c
    BY <2>2, <1>2, FileServerAssumption, Zenon DEF LockInv, NoMixedLock
  <2> QED
    BY <2>1, <2>3, <1>3, Zenon DEF PathsOf
<1>5. CASE ~Runs(d, ReadOps)
  <2>1. writer[cmd[d].src] = d /\ writer[cmd[d].dst] = d
    BY <1>5, Zenon DEF LockInv, WriterHasLocks
  <2> QED
    BY <2>1, <1>3, Zenon DEF PathsOf
<1> QED
  BY <1>4, <1>5, Zenon

\* Two clients at work that do not both read share no path.
LEMMA PathsExclude ==
  ASSUME FileTypes, LockInv, NEW c \in Clients, NEW d \in Clients, Meet(c, d)
  PROVE  PathsOf(c) \cap PathsOf(d) = {}
<1>1. /\ c # d /\ pc[c] \in Active /\ pc[d] \in Active
      /\ ~Runs(c, ReadOps) \/ ~Runs(d, ReadOps)
  BY Zenon DEF Meet
<1>2. CASE ~Runs(c, ReadOps)
  BY <1>1, <1>2, WriterExcludes, Zenon
<1>3. CASE ~Runs(d, ReadOps)
  <2>1. PathsOf(d) \cap PathsOf(c) = {}
    BY <1>1, <1>3, WriterExcludes, Zenon
  <2> QED
    BY <2>1, Zenon
<1> QED
  BY <1>1, <1>2, <1>3, Zenon

\* A command that writes shares no file with another command at work that spells it
\* in the same way.
LEMMA WorkersAreApart ==
  ASSUME SameSpelling, FileTypes, LockInv, NEW c \in Clients, NEW d \in Clients, c # d,
         pc[c] \in Active, pc[d] \in Active, ~Runs(c, ReadOps)
  PROVE  {Source(c), Target(c)} \cap {Source(d), Target(d)} = {}
<1>1. PathsOf(c) \cap PathsOf(d) = {}
  BY WriterExcludes, Zenon
<1>2. \A m \in PathsOf(c), n \in PathsOf(d) : FileOf[m] # FileOf[n]
  BY <1>1, Zenon DEF SameSpelling, Meet
<1> QED
  BY <1>2, Zenon DEF PathsOf, Source, Target

\* Only a command at work has a descriptor.
LEMMA OpenAreActive ==
  ASSUME FileTypes, NEW c \in Clients
  PROVE  /\ rfd[c] # None \/ wfd[c] # None => pc[c] \in Active
         /\ wfd[c] # None => ~Runs(c, ReadOps) /\ pc[c] \in {"write", "copy"}
<1>1. Desc(pc[c], cmd[c].op, rfd[c], wfd[c]) /\ pc[c] \in Labels
  BY Zenon DEF FileTypes, TypeOK
<1> QED
  BY <1>1, Zenon DEF Desc, Labels, Active, Runs, ReadOps

\* A file that is being written is open to one client only.
LEMMA WritersAreAlone ==
  ASSUME SameSpelling, FileTypes, LockInv, Descriptors
  PROVE  WriterIsAlone
<1> SUFFICES ASSUME NEW c \in Clients, NEW d \in Clients, c # d, wfd[c] # None
             PROVE  wfd[d] # wfd[c] /\ rfd[d] # wfd[c]
  BY Zenon DEF WriterIsAlone
<1>1. pc[c] \in Active /\ ~Runs(c, ReadOps) /\ wfd[c] = dir[Target(c)]
  BY OpenAreActive, Zenon DEF Descriptors
<1> SUFFICES ASSUME wfd[d] = wfd[c] \/ rfd[d] = wfd[c] PROVE FALSE
  BY Zenon
<1>2. pc[d] \in Active
  BY OpenAreActive, Zenon
<1>3. pc[c] # "idle" /\ pc[d] # "idle"
  BY <1>1, <1>2, Zenon DEF Active
<1>4. {Source(c), Target(c)} \cap {Source(d), Target(d)} = {}
  BY <1>1, <1>2, WorkersAreApart, Zenon
<1>5. Source(d) \in Files /\ Target(d) \in Files /\ Target(c) \in Files
  BY <1>3, AtWork, Zenon
<1>6. dir[Target(c)] # None /\ (dir[Target(c)] = dir[Target(d)] \/ dir[Target(c)] = dir[Source(d)])
  BY <1>1, Zenon DEF Descriptors
<1> QED
  BY <1>4, <1>5, <1>6, Zenon DEF Descriptors

-----------------------------------------------------------------------------
(* What a step leaves alone *)

\* A step of c keeps the entry and the contents of file f.
Keeps(f) == dir'[f] = dir[f] /\ (dir[f] # None => data'[dir[f]] = data[dir[f]])

\* Creating, truncating and writing a file leaves the others alone.
LEMMA WritesKeep ==
  ASSUME FileTypes, LockInv, Descriptors, NEW c \in Clients,
         open_write(c) \/ \E k \in Counts : write_some(c, k)
  PROVE  \A f \in Files : f # Target(c) => Keeps(f)
<1>t. /\ dir \in [Files -> Inodes \cup {None}] /\ DOMAIN data = Inodes /\ None \notin Inodes
  BY FileServerAssumption, Zenon DEF FileTypes, TypeOK
<1>w. pc[c] # "idle"
  BY Zenon DEF open_write, write_some, At
<1>f. Target(c) \in Files
  BY <1>w, AtWork, Zenon
<1> SUFFICES ASSUME NEW f \in Files, f # Target(c) PROVE Keeps(f)
  BY Zenon
<1>1. CASE open_write(c)
  <2> DEFINE old == dir[Target(c)]
             i == IF old = None THEN NewInode ELSE old
  <2>1. dir' = [dir EXCEPT ![Target(c)] = i] /\ data' = [data EXCEPT ![i] = <<>>]
    BY <1>1, Zenon DEF open_write
  <2>2. dir[f] # None => dir[f] # i
    <3>1. CASE old = None
      BY <3>1, <1>f, NewInodeIs, Zenon DEF FileTypes
    <3>2. CASE old # None
      BY <3>2, <1>f, Zenon DEF Descriptors
    <3> QED
      BY <3>1, <3>2, Zenon
  <2> HIDE DEF i
  <2> QED
    BY <2>1, <2>2, <1>t, Zenon DEF Keeps
<1>2. CASE \E k \in Counts : write_some(c, k)
  <2>1. dir' = dir /\ \E v : data' = [data EXCEPT ![wfd[c]] = v]
    BY <1>2, Zenon DEF write_some
  <2>2. dir[f] # None => dir[f] # wfd[c]
    BY <1>f, Zenon DEF Descriptors
  <2> QED
    BY <2>1, <2>2, <1>t, Zenon DEF Keeps
<1> QED
  BY <1>1, <1>2, Zenon

\* Only a client with the write locks changes the file system, and only the
\* files of its command.
LEMMA StepsKeep ==
  ASSUME FileTypes, LockInv, Descriptors, NEW c \in Clients,
         ClientStep(c) \/ \E m \in Commands : receive(c, m)
  PROVE  \/ UNCHANGED fs
         \/ /\ pc[c] \in Active /\ ~Runs(c, ReadOps)
            /\ \A f \in Files : f \notin {Source(c), Target(c)} => Keeps(f)
<1>t. /\ dir \in [Files -> Inodes \cup {None}] /\ DOMAIN data = Inodes
      /\ Desc(pc[c], cmd[c].op, rfd[c], wfd[c])
  BY Zenon DEF FileTypes, TypeOK
<1>1. CASE open_write(c) \/ \E k \in Counts : write_some(c, k)
  <2>1. \/ pc[c] = "open" \/ pc[c] = "write" \/ (pc[c] = "op" /\ cmd[c].op = "SETFILE")
    BY <1>1, Zenon DEF open_write, write_some, At, Runs
  <2>2. pc[c] \in Active /\ ~Runs(c, ReadOps)
    BY <2>1, <1>t, Zenon DEF Desc, Active, Runs, ReadOps
  <2> QED
    BY <1>1, <2>2, WritesKeep, Zenon
<1>2. CASE unlink(c) \/ rename(c)
  <2>1. pc[c] = "op" /\ cmd[c].op \in {"DELFILE", "RENAMEFILE"} /\ data' = Reclaimed(dir')
        /\ \/ dir' = [dir EXCEPT ![Source(c)] = None]
           \/ dir' = dir
           \/ dir' = [dir EXCEPT ![Target(c)] = dir[Source(c)], ![Source(c)] = None]
    BY <1>2, Zenon DEF unlink, rename, At, Runs
  <2>2. pc[c] \in Active /\ ~Runs(c, ReadOps)
    BY <2>1, Zenon DEF Active, Runs, ReadOps
  <2> SUFFICES ASSUME NEW f \in Files, f \notin {Source(c), Target(c)} PROVE Keeps(f)
    BY <2>2, Zenon
  <2>3. dir'[f] = dir[f]
    BY <2>1, <1>t, Zenon
  <2> QED
    BY <2>1, <2>3, <1>t, Zenon DEF Keeps, Reclaimed
<1> QED
  BY <1>1, <1>2, Zenon
     DEF ClientStep, locks_acquire_read, locks_acquire_write, locks_acquire_second, locks_release,
         lock_fails, not_found, too_large, getfile_reply, decompress_fails, open_read, compress,
         decompress, Convert, copy_open, copy_not_found, write_done, copy_next, copy_done, read_some,
         copy_read, stat, io_fails, receive

\* Nothing another command at work has to do with changes.
LEMMA OthersAreKept ==
  ASSUME SameSpelling, FileTypes, LockInv, Descriptors, NEW c \in Clients,
         ClientStep(c) \/ \E m \in Commands : receive(c, m),
         NEW d \in Clients, d # c
  PROVE  /\ Source(d)' = Source(d) /\ Target(d)' = Target(d)
         /\ pc[d] \in Active => /\ Keeps(Source(d)) /\ Keeps(Target(d)) /\ Input(d)' = Input(d)
         /\ Bytes(rfd[d])' = Bytes(rfd[d]) /\ Bytes(wfd[d])' = Bytes(wfd[d])
<1>a. cmd'[d] = cmd[d] /\ rfd'[d] = rfd[d] /\ wfd'[d] = wfd[d] /\ saved'[d] = saved[d]
  BY StepsAreAlone, Zenon DEF Alone
<1>1. Source(d)' = Source(d) /\ Target(d)' = Target(d)
  BY <1>a, Zenon DEF Source, Target
<1>2. ASSUME pc[d] \in Active
      PROVE  Keeps(Source(d)) /\ Keeps(Target(d))
  <2>1. CASE UNCHANGED fs
    BY <2>1, Zenon DEF Keeps, fs
  <2>2. CASE /\ pc[c] \in Active /\ ~Runs(c, ReadOps)
             /\ \A f \in Files : f \notin {Source(c), Target(c)} => Keeps(f)
    <3>1. {Source(c), Target(c)} \cap {Source(d), Target(d)} = {}
      BY <1>2, <2>2, WorkersAreApart, Zenon
    <3>2. Source(d) \in Files /\ Target(d) \in Files
      <4>1. pc[d] # "idle"
        BY <1>2, Zenon DEF Active
      <4> QED
        BY <4>1, AtWork, Zenon
    <3> QED
      BY <2>2, <3>1, <3>2, Zenon
  <2> QED
    BY <2>1, <2>2, StepsKeep, Zenon
<1>3. ASSUME pc[d] \in Active PROVE Input(d)' = Input(d)
  BY <1>a, <1>1, <1>2, <1>3, Zenon DEF Input, Self, Holds, Keeps
<1>4. Bytes(rfd[d])' = Bytes(rfd[d])
  <2>1. CASE rfd[d] = None
    BY <2>1, <1>a, Zenon DEF Bytes
  <2>2. CASE rfd[d] # None
    <3>1. pc[d] \in Active /\ rfd[d] = dir[Source(d)]
      BY <2>2, OpenAreActive, Zenon DEF Descriptors
    <3> QED
      BY <2>2, <3>1, <1>2, <1>a, Zenon DEF Bytes, Keeps
  <2> QED
    BY <2>1, <2>2, Zenon
<1>5. Bytes(wfd[d])' = Bytes(wfd[d])
  <2>1. CASE wfd[d] = None
    BY <2>1, <1>a, Zenon DEF Bytes
  <2>2. CASE wfd[d] # None
    <3>1. pc[d] \in Active /\ wfd[d] = dir[Target(d)]
      BY <2>2, OpenAreActive, Zenon DEF Descriptors
    <3> QED
      BY <2>2, <3>1, <1>2, <1>a, Zenon DEF Bytes, Keeps
  <2> QED
    BY <2>1, <2>2, Zenon
<1> QED
  BY <1>1, <1>2, <1>3, <1>4, <1>5, Zenon

-----------------------------------------------------------------------------
(* The steps and the descriptors *)

\* Two names never get the same inode: rename() takes the old name away.
LEMMA EntriesStep ==
  ASSUME FileTypes, LockInv, Descriptors, NEW c \in Clients,
         ClientStep(c) \/ \E m \in Commands : receive(c, m)
  PROVE  (\A f, g \in Files : dir[f] # None /\ dir[f] = dir[g] => f = g)'
<1>t. dir \in [Files -> Inodes \cup {None}]
  BY Zenon DEF FileTypes, TypeOK
<1>1. CASE dir' = dir
  BY <1>1, Zenon DEF Descriptors
<1>2. CASE open_write(c)
  <2>w. pc[c] # "idle"
    BY <1>2, Zenon DEF open_write, At
  <2>f. Target(c) \in Files
    BY <2>w, AtWork, Zenon
  <2> DEFINE old == dir[Target(c)]
             i == IF old = None THEN NewInode ELSE old
  <2>1. dir' = [dir EXCEPT ![Target(c)] = i]
    BY <1>2, Zenon DEF open_write
  <2>2. \A f \in Files : dir[f] = i => f = Target(c)
    <3>1. CASE old = None
      BY <3>1, <2>f, NewInodeIs, Zenon DEF FileTypes
    <3>2. CASE old # None
      BY <3>2, <2>f, Zenon DEF Descriptors
    <3> QED
      BY <3>1, <3>2, Zenon
  <2> HIDE DEF i
  <2> QED
    BY <2>1, <2>2, <1>t, Zenon DEF Descriptors
<1>3. CASE unlink(c)
  BY <1>3, <1>t, Zenon DEF unlink, Descriptors
<1>4. CASE rename(c) /\ dir' # dir
  <2>w. pc[c] # "idle"
    BY <1>4, Zenon DEF rename, At
  <2>f. Source(c) \in Files /\ Target(c) \in Files
    BY <2>w, AtWork, Zenon
  <2>1. /\ dir' = [dir EXCEPT ![Target(c)] = dir[Source(c)], ![Source(c)] = None]
        /\ Source(c) # Target(c)
    BY <1>4, Zenon DEF rename
  <2>2. \A f \in Files : dir'[f] = IF f = Source(c) THEN None
                                   ELSE IF f = Target(c) THEN dir[Source(c)] ELSE dir[f]
    BY <2>1, <1>t, Zenon
  <2> QED
    BY <2>2, <2>f, Zenon DEF Descriptors
<1> QED
  BY <1>1, <1>2, <1>3, <1>4, Zenon
     DEF ClientStep, locks_acquire_read, locks_acquire_write, locks_acquire_second, locks_release,
         lock_fails, not_found, too_large, getfile_reply, decompress_fails, open_read, compress,
         decompress, Convert, copy_open, copy_not_found, write_done, write_some, copy_next, copy_done,
         read_some, copy_read, stat, io_fails, receive, fs

\* A descriptor stays a descriptor of the file its client has locked.
LEMMA DescriptorsStep ==
  ASSUME SameSpelling, FileTypes, LockInv, Descriptors, NEW c \in Clients,
         ClientStep(c) \/ \E m \in Commands : receive(c, m)
  PROVE  Descriptors'
<1>t. /\ DOMAIN dir = Files /\ DOMAIN rfd = Clients /\ DOMAIN wfd = Clients /\ DOMAIN cmd = Clients
      /\ Desc(pc[c], cmd[c].op, rfd[c], wfd[c])
  BY Zenon DEF FileTypes, TypeOK
<1>o. ASSUME NEW d \in Clients, d # c
      PROVE  /\ rfd'[d] # None => rfd'[d] = dir'[Source(d)']
             /\ wfd'[d] # None => wfd'[d] = dir'[Target(d)']
  <2>1. rfd'[d] = rfd[d] /\ wfd'[d] = wfd[d]
    BY <1>o, StepsAreAlone, Zenon DEF Alone
  <2>2. rfd[d] # None \/ wfd[d] # None => pc[d] \in Active
    BY OpenAreActive, Zenon
  <2>3. /\ Source(d)' = Source(d) /\ Target(d)' = Target(d)
        /\ pc[d] \in Active => Keeps(Source(d)) /\ Keeps(Target(d))
    BY <1>o, OthersAreKept, Zenon
  <2> QED
    BY <2>1, <2>2, <2>3, Zenon DEF Descriptors, Keeps
<1>c. /\ rfd'[c] # None => rfd'[c] = dir'[Source(c)']
      /\ wfd'[c] # None => wfd'[c] = dir'[Target(c)']
  <2>1. CASE \E r : Done(c, r)
    BY <2>1, <1>t, Zenon DEF Done
  <2>2. CASE rfd' = rfd /\ wfd' = wfd /\ dir' = dir /\ cmd' = cmd
    BY <2>2, Zenon DEF Descriptors, Source, Target
  <2>3. CASE open_read(c) \/ copy_open(c)
    BY <2>3, <1>t, Zenon DEF open_read, copy_open, Descriptors, Source, Target, fs
  <2>4. CASE compress(c) \/ decompress(c)
    BY <2>4, <1>t, Zenon DEF compress, decompress, Convert, Descriptors, Source, Target, fs
  <2>5. CASE locks_release(c) \/ \E m \in Commands : receive(c, m)
    <3>1. pc[c] \in {"idle", "release"} /\ rfd' = rfd /\ wfd' = wfd
      BY <2>5, Zenon DEF locks_release, receive, local, At
    <3>2. rfd[c] = None /\ wfd[c] = None
      BY <3>1, <1>t, Zenon DEF Desc
    <3> QED
      BY <3>1, <3>2, Zenon
  <2>6. CASE open_write(c)
    <3>w. pc[c] # "idle"
      BY <2>6, Zenon DEF open_write, At
    <3>f. Source(c) \in Files /\ Target(c) \in Files
      BY <3>w, AtWork, Zenon
    <3> DEFINE old == dir[Target(c)]
               i == IF old = None THEN NewInode ELSE old
    <3>1. dir' = [dir EXCEPT ![Target(c)] = i] /\ wfd' = [wfd EXCEPT ![c] = i] /\ rfd' = rfd /\ cmd' = cmd
      BY <2>6, Zenon DEF open_write
    <3>2. Source(c)' = Source(c) /\ Target(c)' = Target(c)
      BY <3>1, Zenon DEF Source, Target
    <3>3. rfd[c] # None => rfd[c] = dir[Source(c)]
      BY Zenon DEF Descriptors
    <3>4. rfd[c] # None => dir'[Source(c)] = dir[Source(c)]
      <4>1. Source(c) = Target(c) /\ rfd[c] # None => i = dir[Source(c)]
        BY <3>3, Zenon
      <4> HIDE DEF i
      <4> QED
        BY <4>1, <3>1, <3>f, <1>t, Zenon
    <3> HIDE DEF i
    <3> QED
      BY <3>1, <3>2, <3>3, <3>4, <3>f, <1>t, Zenon
  <2> QED
    BY <2>1, <2>2, <2>3, <2>4, <2>5, <2>6, Zenon
       DEF ClientStep, locks_acquire_read, locks_acquire_write, locks_acquire_second,
           lock_fails, not_found, too_large, getfile_reply, decompress_fails,
           copy_not_found, write_done, write_some, copy_next, copy_done,
           read_some, copy_read, stat, unlink, rename, io_fails, fs, local
<1> QED
  BY <1>o, <1>c, EntriesStep, Zenon DEF Descriptors

-----------------------------------------------------------------------------
(* The locks work *)

\* The server starts with no file open and no lock taken.
LEMMA FilesInit == Init => FileTypes /\ LockInv /\ Descriptors
<1> SUFFICES ASSUME Init PROVE FileTypes /\ LockInv /\ Descriptors
  BY Zenon
<1>1. <<>> \in Seq(Nat) /\ 0 \in 0..MAX_FILE_SIZE /\ 0 \in Nat
  BY RleAssumption
<1>2. TypeOK
  BY <1>1, Zenon DEF Init, TypeOK, Labels
<1>3. \A c \in Clients : pc[c] = "idle" /\ rfd[c] = None /\ wfd[c] = None
  BY Zenon DEF Init
<1>4. \A c \in Clients : Desc(pc[c], cmd[c].op, rfd[c], wfd[c])
  BY <1>3, Zenon DEF Desc
<1>5. FileTypes
  BY <1>1, <1>2, <1>4, Zenon DEF FileTypes, Init
<1>6. \A n \in Paths : readers[n] = {} /\ writer[n] = None
  BY Zenon DEF Init
<1>7. LockInv
  BY <1>3, <1>6, FileServerAssumption, Zenon
     DEF LockInv, NoMixedLock, BusyHasCommand, ReaderHasLock, WriterHasLocks, WaiterHasFirst,
         ReadersAreBusy, WritersAreBusy, At, Active
<1>8. Descriptors
  BY <1>3, Zenon DEF Descriptors, Init
<1> QED
  BY <1>5, <1>7, <1>8, Zenon

\* Nothing changes when nothing happens.
LEMMA FilesStutter ==
  ASSUME UNCHANGED vars
  PROVE  /\ FileTypes => FileTypes'
         /\ LockInv => LockInv'
         /\ Descriptors => Descriptors'
<1>1. UNCHANGED <<dir, data, readers, writer, cmd, pc, rfd, roff, size, wfd, woff, buf, saved, reply>>
  BY Zenon DEF vars, fs, locks, local
<1>2. FileTypes => FileTypes'
  BY <1>1, Zenon DEF FileTypes, TypeOK
<1>3. LockInv => LockInv'
  BY <1>1, Zenon DEF LockInv, NoMixedLock, BusyHasCommand, ReaderHasLock, WriterHasLocks,
                     WaiterHasFirst, ReadersAreBusy, WritersAreBusy, At, Runs, First
<1>4. Descriptors => Descriptors'
  BY <1>1, Zenon DEF Descriptors, Source, Target
<1> QED
  BY <1>2, <1>3, <1>4, Zenon

\* Every step keeps the types and the bookkeeping of the locks, whatever paths lead
\* to which file.
LEMMA FilesStep ==
  FileTypes /\ LockInv /\ [Next]_vars => (FileTypes /\ LockInv)'
<1> SUFFICES ASSUME FileTypes, LockInv, [Next]_vars PROVE (FileTypes /\ LockInv)'
  BY Zenon
<1>1. CASE UNCHANGED vars
  BY <1>1, FilesStutter, Zenon
<1>2. CASE Next
  <2>1. PICK c \in Clients : ClientStep(c) \/ \E m \in Commands : receive(c, m)
    BY <1>2, Zenon DEF Next
  <2>2. FileTypes'
    BY <2>1, TypesStep, Zenon
  <2>3. LockInv'
    BY <2>1, LocksStep, Zenon
  <2> QED
    BY <2>2, <2>3, Zenon
<1> QED
  BY <1>1, <1>2, Zenon

\* Whatever commands the clients send, however many paths lead to a file, and
\* whatever system calls fail: a path that a command changes is in no other
\* command's hands, a client that has replied holds no lock, and the commands never
\* wait for each other in a circle, because locks_acquire_two_write() takes the
\* locks in the order of the paths.
THEOREM LocksDoTheirWork == Spec => []LocksWork
<1>1. FileTypes /\ LockInv => LocksWork
  <2> SUFFICES ASSUME FileTypes, LockInv PROVE LocksWork
    BY Zenon
  <2>1. TypeOK
    BY Zenon DEF FileTypes
  <2>2. IdleHoldsNothing
    BY Zenon DEF IdleHoldsNothing, LockInv, ReadersAreBusy, WritersAreBusy, At
  <2>3. NotAllBlocked
    BY <2>1, SomebodyGoesOn, Zenon
  <2>4. PathsAreExclusive
    BY PathsExclude, Zenon DEF PathsAreExclusive, Meet
  <2> QED
    BY <2>1, <2>2, <2>3, <2>4, Zenon DEF LocksWork
<1> QED
  BY <1>1, FilesInit, FilesStep, PTL DEF Spec

\* As long as the clients at work spell a file in the same way, the locks of paths
\* protect files: nobody has a file open that another client is writing.
THEOREM WritersStayAlone == Spec /\ []SameSpelling => []WriterIsAlone
<1>1. FileTypes /\ LockInv /\ Descriptors /\ SameSpelling /\ [Next]_vars
      => (FileTypes /\ LockInv /\ Descriptors)'
  <2> SUFFICES ASSUME FileTypes, LockInv, Descriptors, SameSpelling, [Next]_vars
               PROVE  (FileTypes /\ LockInv /\ Descriptors)'
    BY Zenon
  <2>1. CASE UNCHANGED vars
    BY <2>1, FilesStutter, Zenon
  <2>2. CASE Next
    <3>1. PICK c \in Clients : ClientStep(c) \/ \E m \in Commands : receive(c, m)
      BY <2>2, Zenon DEF Next
    <3>2. FileTypes'
      BY <3>1, TypesStep, Zenon
    <3>3. LockInv'
      BY <3>1, LocksStep, Zenon
    <3>4. Descriptors'
      BY <3>1, DescriptorsStep, Zenon
    <3> QED
      BY <3>2, <3>3, <3>4, Zenon
  <2> QED
    BY <2>1, <2>2, Zenon
<1>2. FileTypes /\ LockInv /\ Descriptors /\ SameSpelling => WriterIsAlone
  BY WritersAreAlone, Zenon
<1> QED
  BY <1>1, <1>2, FilesInit, PTL DEF Spec

=============================================================================
