--------------------------- MODULE VimSwap_lines_proofs ---------------------------
(*****************************************************************************)
(* The lines of VimSwap, on top of the memory file: the text is the rows of  *)
(* the data blocks, concatenated in the order of the entries of block 1.     *)
(* ml_find_line keeps the rows and locks the block of the line; putting      *)
(* other lines into it changes one row; a split puts two rows in place of    *)
(* one and another root in place of block 1. The tree stands and the counts  *)
(* are right after each of them.                                             *)
(*****************************************************************************)
EXTENDS VimSwap_file_proofs

-----------------------------------------------------------------------------
(* Sums, and sequences put together.                                       *)

\* Sums is the running total of a sequence.
LEMMA SumsIs ==
  ASSUME NEW s \in Seq(Int)
  PROVE  /\ Sums(s)[0] = 0
         /\ \A k \in 1 .. Len(s) : Sums(s)[k] = Sums(s)[k - 1] + s[k]
         /\ \A k \in 0 .. Len(s) : Sums(s)[k] \in Int
<1> DEFINE n == Len(s)
           g == [p \in Int \X (1 .. n) |-> p[1] + s[p[2]]]
           Is(f) == f = [k \in 0 .. n |-> IF k = 0 THEN 0 ELSE f[k - 1] + s[k]]
<1>0. n \in Nat /\ \A k \in 1 .. n : s[k] \in Int
  OBVIOUS
<1> HIDE DEF n
<1>1. PICK f \in [0 .. n -> Int] : f[0] = 0 /\ \A i \in 1 .. n : f[i] = g[<<f[i - 1], i>>]
  <2>1. g \in [Int \X (1 .. n) -> Int]
    BY <1>0
  <2> HIDE DEF g
  <2>2. Iteration(n, Int, 0, g)
    <3>1. 0 \in Int
      OBVIOUS
    <3>2. QED
      BY <1>0, <2>1, <3>1, IterationExists
  <2>3. QED
    BY <2>2 DEF Iteration
<1>2. \A i \in 1 .. n : f[i] = f[i - 1] + s[i]
  <2> SUFFICES ASSUME NEW i \in 1 .. n PROVE f[i] = f[i - 1] + s[i]
    OBVIOUS
  <2>1. i - 1 \in 0 .. n
    BY <1>0
  <2>2. <<f[i - 1], i>> \in Int \X (1 .. n)
    BY <1>1, <2>1
  <2>3. QED
    BY <1>1, <2>2
<1>3. Is(f)
  <2>1. \A k \in 0 .. n : f[k] = IF k = 0 THEN 0 ELSE f[k - 1] + s[k]
    BY <1>0, <1>1, <1>2
  <2>2. QED
    BY <2>1
<1> DEFINE u == CHOOSE h : Is(h)
<1>4. Is(u)
  <2> HIDE DEF Is
  <2>1. QED
    BY <1>3
<1>5. Sums(s) = u
  BY DEF Sums, n
<1> HIDE DEF u
<1>6. u[0] = 0 /\ \A k \in 1 .. n : u[k] = u[k - 1] + s[k]
  <2>1. \A k \in 0 .. n : u[k] = IF k = 0 THEN 0 ELSE u[k - 1] + s[k]
    BY <1>4
  <2>2. 0 \in 0 .. n /\ \A k \in 1 .. n : k \in 0 .. n /\ k # 0
    BY <1>0
  <2>3. QED
    BY <2>1, <2>2
<1>7. \A k \in 0 .. n : u[k] \in Int
  <2> DEFINE T == {k \in 0 .. n : u[k] \in Int}
  <2>1. 0 \in T
    BY <1>0, <1>6
  <2>2. ASSUME NEW k \in 1 .. n, k - 1 \in T PROVE k \in T
    <3>1. u[k - 1] \in Int /\ s[k] \in Int /\ u[k] = u[k - 1] + s[k] /\ k \in 0 .. n
      BY <1>0, <1>6, <2>2
    <3>2. QED
      BY <3>1
  <2> HIDE DEF T
  <2>3. \A k \in 0 .. n : k \in T
    BY <1>0, <2>1, <2>2, UpTo
  <2>4. QED
    BY <2>3 DEF T
<1>8. QED
  BY <1>5, <1>6, <1>7 DEF n

\* F has what the first k sequences of R make together.
FlatUpTo(S, R, F) ==
  /\ F \in [0 .. Len(R) -> Seq(S)] /\ F[0] = <<>>
  /\ \A k \in 1 .. Len(R) : F[k] = F[k - 1] \o R[k]

\* The concatenations of the first k rows exist as a function of k.
LEMMA PrefixesExist ==
  ASSUME NEW S, NEW R \in Seq(Seq(S))
  PROVE  \E F : FlatUpTo(S, R, F)
<1> DEFINE n == Len(R)
           g == [p \in Seq(S) \X (1 .. n) |-> p[1] \o R[p[2]]]
<1>0. n \in Nat /\ \A k \in 1 .. n : R[k] \in Seq(S)
  OBVIOUS
<1> HIDE DEF n
<1>1. g \in [Seq(S) \X (1 .. n) -> Seq(S)]
  <2> SUFFICES ASSUME NEW p \in Seq(S) \X (1 .. n) PROVE p[1] \o R[p[2]] \in Seq(S)
    OBVIOUS
  <2>1. p[1] \in Seq(S) /\ R[p[2]] \in Seq(S)
    BY <1>0
  <2>2. QED
    BY <2>1, ConcatProperties
<1>2. PICK F \in [0 .. n -> Seq(S)] : F[0] = <<>> /\ \A i \in 1 .. n : F[i] = g[<<F[i - 1], i>>]
  <2> HIDE DEF g
  <2>1. <<>> \in Seq(S)
    BY EmptySeq
  <2>2. Iteration(n, Seq(S), <<>>, g)
    BY <1>0, <1>1, <2>1, IterationExists
  <2>3. QED
    BY <2>2 DEF Iteration
<1>3. \A i \in 1 .. n : F[i] = F[i - 1] \o R[i]
  <2> SUFFICES ASSUME NEW i \in 1 .. n PROVE F[i] = F[i - 1] \o R[i]
    OBVIOUS
  <2>1. i - 1 \in 0 .. n
    BY <1>0
  <2>2. <<F[i - 1], i>> \in Seq(S) \X (1 .. n)
    BY <1>2, <2>1
  <2>3. QED
    BY <1>2, <2>2
<1>4. QED
  BY <1>2, <1>3 DEF FlatUpTo, n

\* There is one such F.
SameUpTo(n, R, Q) ==
  /\ n \in Nat /\ n <= Len(R) /\ n <= Len(Q)
  /\ \A k \in 1 .. n : R[k] = Q[k]
Agree(n, F, G) == \A k \in 0 .. n : F[k] = G[k]

\* Rows that begin alike have the same concatenations up to there.
LEMMA PrefixesAgree ==
  ASSUME NEW S, NEW R \in Seq(Seq(S)), NEW Q \in Seq(Seq(S)), NEW F, NEW G,
         FlatUpTo(S, R, F), FlatUpTo(S, Q, G), NEW n, SameUpTo(n, R, Q)
  PROVE  Agree(n, F, G)
<1> DEFINE T == {k \in 0 .. n : F[k] = G[k]}
<1>0. /\ Len(R) \in Nat /\ Len(Q) \in Nat /\ n \in Nat /\ n <= Len(R) /\ n <= Len(Q)
      /\ \A k \in 1 .. n : R[k] = Q[k]
  BY DEF SameUpTo
<1>1. 0 \in T
  BY <1>0 DEF FlatUpTo
<1>2. ASSUME NEW k \in 1 .. n, k - 1 \in T PROVE k \in T
  <2>1. k \in 1 .. Len(R) /\ k \in 1 .. Len(Q) /\ k \in 0 .. n
    BY <1>0
  <2>2. F[k] = F[k - 1] \o R[k] /\ G[k] = G[k - 1] \o Q[k]
    BY <2>1 DEF FlatUpTo
  <2>3. QED
    BY <1>0, <1>2, <2>1, <2>2
<1> HIDE DEF T
<1>3. \A k \in 0 .. n : k \in T
  BY <1>0, <1>1, <1>2, UpTo
<1>4. QED
  BY <1>3 DEF T, Agree

\* FlattenSeq is the last of the concatenations.
LEMMA FlatIs ==
  ASSUME NEW S, NEW R \in Seq(Seq(S)), NEW F, FlatUpTo(S, R, F)
  PROVE  FlattenSeq(R) = F[Len(R)] /\ FlattenSeq(R) \in Seq(S)
<1> DEFINE n == Len(R)
           Is(f) == f = [i \in 1 .. n |-> IF i = 1 THEN R[i] ELSE f[i - 1] \o R[i]]
           u == CHOOSE f : Is(f)
<1>0. n \in Nat /\ \A k \in 1 .. n : R[k] \in Seq(S)
  OBVIOUS
<1>1. /\ F \in [0 .. n -> Seq(S)] /\ F[0] = <<>>
      /\ \A k \in 1 .. n : F[k] = F[k - 1] \o R[k]
  BY DEF FlatUpTo
<1>2. FlattenSeq(R) = IF n = 0 THEN R ELSE u[n]
  BY DEF FlattenSeq
<1>3. n = 0 => R = <<>>
  OBVIOUS
<1> HIDE DEF n
<1>4. CASE n = 0
  BY <1>1, <1>2, <1>3, <1>4, EmptySeq DEF n
<1>5. CASE n # 0
  <2> DEFINE f == [i \in 1 .. n |-> F[i]]
  <2>1. Is(f)
    <3>1. \A i \in 1 .. n : f[i] = IF i = 1 THEN R[i] ELSE f[i - 1] \o R[i]
      <4> SUFFICES ASSUME NEW i \in 1 .. n
                   PROVE  F[i] = IF i = 1 THEN R[i] ELSE f[i - 1] \o R[i]
        OBVIOUS
      <4>1. CASE i = 1
        <5>1. i - 1 = 0 /\ R[i] \in Seq(S)
          BY <1>0, <4>1
        <5>2. F[i] = F[i - 1] \o R[i]
          BY <1>1
        <5>3. F[i] = <<>> \o R[i]
          BY <1>1, <5>1, <5>2
        <5>4. <<>> \o R[i] = R[i]
          BY <5>1, ConcatEmptySeq
        <5>5. QED
          BY <4>1, <5>3, <5>4
      <4>2. CASE i # 1
        <5>1. i - 1 \in 1 .. n
          BY <1>0, <4>2
        <5>2. f[i - 1] = F[i - 1]
          BY <5>1
        <5>3. QED
          BY <1>1, <4>2, <5>2
      <4>3. QED
        BY <4>1, <4>2
    <3>2. QED
      BY <3>1
  <2>2. Is(u)
    <3> HIDE DEF Is, f
    <3>1. QED
      BY <2>1
  <2> HIDE DEF u
  <2>3. \A i \in 1 .. n : u[i] = IF i = 1 THEN R[i] ELSE u[i - 1] \o R[i]
    BY <2>2
  <2> DEFINE T == {k \in 0 .. n : k = 0 \/ u[k] = F[k]}
  <2>4. 0 \in T
    BY <1>0
  <2>5. ASSUME NEW k \in 1 .. n, k - 1 \in T PROVE k \in T
    <3>1. CASE k = 1
      <4>1. k - 1 = 0 /\ R[k] \in Seq(S) /\ k \in 0 .. n
        BY <1>0, <3>1
      <4>2. F[k] = F[k - 1] \o R[k]
        BY <1>1
      <4>3. F[k] = <<>> \o R[k]
        BY <1>1, <4>1, <4>2
      <4>4. u[k] = R[k]
        BY <2>3, <3>1
      <4>5. <<>> \o R[k] = R[k]
        BY <4>1, ConcatEmptySeq
      <4>6. QED
        BY <4>1, <4>3, <4>4, <4>5
    <3>2. CASE k # 1
      <4>1. k - 1 # 0 /\ k \in 0 .. n
        BY <1>0, <3>2
      <4>2. u[k - 1] = F[k - 1]
        BY <2>5, <4>1
      <4>3. u[k] = u[k - 1] \o R[k]
        BY <2>3, <3>2
      <4>4. F[k] = F[k - 1] \o R[k]
        BY <1>1
      <4>5. QED
        BY <4>1, <4>2, <4>3, <4>4
    <3>3. QED
      BY <3>1, <3>2
  <2> HIDE DEF T
  <2>6. \A k \in 0 .. n : k \in T
    BY <1>0, <2>4, <2>5, UpTo
  <2>7. u[n] = F[n] /\ F[n] \in Seq(S)
    BY <1>0, <1>1, <1>5, <2>6 DEF T
  <2>8. QED
    BY <1>2, <1>5, <2>7 DEF n
<1>6. QED
  BY <1>4, <1>5

\* Rows of lines concatenate to lines.
LEMMA FlatType ==
  ASSUME NEW S, NEW R \in Seq(Seq(S))
  PROVE  FlattenSeq(R) \in Seq(S)
BY PrefixesExist, FlatIs

\* One row concatenates to itself.
LEMMA FlatOne ==
  ASSUME NEW S, NEW r \in Seq(S)
  PROVE  FlattenSeq(<<r>>) = r
<1> DEFINE R == <<r>>
           F == [k \in 0 .. 1 |-> IF k = 0 THEN <<>> ELSE r]
<1>1. R \in Seq(Seq(S)) /\ Len(R) = 1 /\ R[1] = r
  OBVIOUS
<1> HIDE DEF R
<1>2. F[0] = <<>> /\ F[1] = r /\ F \in [0 .. 1 -> Seq(S)]
  BY EmptySeq
<1> HIDE DEF F
<1>3. \A k \in 1 .. 1 : F[k] = F[k - 1] \o R[k]
  <2>1. r = <<>> \o r
    BY ConcatEmptySeq
  <2>2. QED
    BY <1>1, <1>2, <2>1
<1>4. FlatUpTo(S, R, F)
  BY <1>1, <1>2, <1>3 DEF FlatUpTo
<1>5. FlattenSeq(R) = F[1]
  BY <1>1, <1>4, FlatIs
<1>6. QED
  BY <1>2, <1>5 DEF R

\* R is A with B behind it.
Joined(R, A, B) ==
  /\ Len(R) = Len(A) + Len(B)
  /\ \A k \in 1 .. Len(A) : R[k] = A[k]
  /\ \A k \in 1 .. Len(B) : R[Len(A) + k] = B[k]

\* The places of a concatenation.
LEMMA JoinedIs ==
  ASSUME NEW S, NEW A \in Seq(S), NEW B \in Seq(S)
  PROVE  A \o B \in Seq(S) /\ Joined(A \o B, A, B)
<1> DEFINE R == A \o B
           a == Len(A)
           b == Len(B)
<1>1. a \in Nat /\ b \in Nat
  OBVIOUS
<1>2. /\ R \in Seq(S) /\ Len(R) = a + b
      /\ \A i \in 1 .. a + b : R[i] = IF i <= a THEN A[i] ELSE B[i - a]
  BY ConcatProperties
<1> HIDE DEF R, a, b
<1>3. \A k \in 1 .. a : R[k] = A[k]
  BY <1>1, <1>2
<1>4. \A k \in 1 .. b : R[a + k] = B[k]
  <2> SUFFICES ASSUME NEW k \in 1 .. b PROVE R[a + k] = B[k]
    OBVIOUS
  <2>1. a + k \in 1 .. a + b /\ ~(a + k <= a) /\ (a + k) - a = k
    BY <1>1
  <2>2. R[a + k] = B[(a + k) - a]
    BY <1>2, <2>1
  <2>3. QED
    BY <2>1, <2>2
<1>5. QED
  BY <1>2, <1>3, <1>4 DEF Joined, R, a, b

\* One step of the sequences put together.
Grouped(g, c, d) == g \o (c \o d) = (g \o c) \o d

\* Concatenation is associative.
LEMMA StepJoined ==
  ASSUME NEW S, NEW g \in Seq(S), NEW c \in Seq(S), NEW d \in Seq(S)
  PROVE  Grouped(g, c, d)
BY ConcatAssociative DEF Grouped

Lengths(A, B, a, b) == a \in Nat /\ a = Len(A) /\ b \in Nat /\ b = Len(B)
Starts(F, a, g) == F[a] = g
Ends(F, H, a, b, g) == F[a + b] = g \o H[b]

\* The concatenations of joined rows go on from those of the first part.
LEMMA PrefixesJoined ==
  ASSUME NEW S, NEW A \in Seq(Seq(S)), NEW B \in Seq(Seq(S)), NEW R \in Seq(Seq(S)),
         Joined(R, A, B), NEW F, FlatUpTo(S, R, F), NEW H, FlatUpTo(S, B, H),
         NEW a, NEW b, Lengths(A, B, a, b), NEW g \in Seq(S), Starts(F, a, g)
  PROVE  Ends(F, H, a, b, g)
<1>0. a \in Nat /\ a = Len(A) /\ b \in Nat /\ b = Len(B) /\ F[a] = g
  BY DEF Lengths, Starts
<1>1. /\ H \in [0 .. b -> Seq(S)] /\ H[0] = <<>>
      /\ \A k \in 1 .. b : H[k] = H[k - 1] \o B[k]
  BY <1>0 DEF FlatUpTo
<1>2. \A k \in 1 .. a + b : F[k] = F[k - 1] \o R[k]
  BY <1>0 DEF FlatUpTo, Joined
<1>3. \A k \in 1 .. b : R[a + k] = B[k]
  BY <1>0 DEF Joined
<1>4. \A k \in 1 .. b : B[k] \in Seq(S)
  BY <1>0
<1> DEFINE T == {k \in 0 .. b : F[a + k] = g \o H[k]}
<1>5. 0 \in T
  <2>1. a + 0 = a /\ 0 \in 0 .. b
    BY <1>0
  <2>2. g \o <<>> = g
    BY ConcatEmptySeq
  <2>3. QED
    BY <1>0, <1>1, <2>1, <2>2
<1>6. ASSUME NEW k \in 1 .. b, k - 1 \in T PROVE k \in T
  <2>1. a + k \in 1 .. a + b /\ (a + k) - 1 = a + (k - 1) /\ k - 1 \in 0 .. b /\ k \in 0 .. b
    BY <1>0
  <2>2. F[a + k] = F[(a + k) - 1] \o R[a + k]
    BY <1>2, <2>1
  <2>3. F[a + k] = F[a + (k - 1)] \o B[k]
    BY <1>3, <2>1, <2>2
  <2>4. F[a + (k - 1)] = g \o H[k - 1]
    BY <1>6
  <2>5. H[k - 1] \in Seq(S) /\ B[k] \in Seq(S)
    BY <1>1, <1>4, <2>1
  <2>6. g \o (H[k - 1] \o B[k]) = (g \o H[k - 1]) \o B[k]
    <3>1. Grouped(g, H[k - 1], B[k])
      <4>1. g \in Seq(S)
        OBVIOUS
      <4>2. QED
        BY <2>5, <4>1, StepJoined
    <3>2. QED
      BY <3>1 DEF Grouped
  <2>7. H[k] = H[k - 1] \o B[k]
    BY <1>1
  <2>8. QED
    BY <2>1, <2>3, <2>4, <2>6, <2>7
<1> HIDE DEF T
<1>7. \A k \in 0 .. b : k \in T
  BY <1>0, <1>5, <1>6, UpTo
<1>8. b \in 0 .. b
  BY <1>0
<1>9. QED
  BY <1>7, <1>8 DEF T, Ends

\* Joined rows concatenate to the two texts joined.
LEMMA FlatJoined ==
  ASSUME NEW S, NEW A \in Seq(Seq(S)), NEW B \in Seq(Seq(S)), NEW R \in Seq(Seq(S)),
         Joined(R, A, B)
  PROVE  FlattenSeq(R) = FlattenSeq(A) \o FlattenSeq(B)
<1>1. PICK F : FlatUpTo(S, R, F)
  BY PrefixesExist
<1>2. PICK G : FlatUpTo(S, A, G)
  BY PrefixesExist
<1>3. PICK H : FlatUpTo(S, B, H)
  BY PrefixesExist
<1>4. PICK a \in Nat : a = Len(A)
  OBVIOUS
<1>5. PICK b \in Nat : b = Len(B)
  OBVIOUS
<1>6. Len(R) = a + b /\ \A k \in 1 .. a : R[k] = A[k]
  BY <1>4, <1>5 DEF Joined
<1>7. F[a] = G[a]
  <2>1. SameUpTo(a, R, A)
    BY <1>4, <1>6 DEF SameUpTo
  <2>2. Agree(a, F, G)
    BY <1>1, <1>2, <2>1, PrefixesAgree
  <2>3. QED
    BY <2>2 DEF Agree
<1>8. FlattenSeq(A) = G[a] /\ FlattenSeq(A) \in Seq(S)
  BY <1>2, <1>4, FlatIs
<1>9. FlattenSeq(B) = H[b]
  BY <1>3, <1>5, FlatIs
<1>10. FlattenSeq(R) = F[a + b]
  BY <1>1, <1>6, FlatIs
<1>11. PICK g \in Seq(S) : g = G[a]
  BY <1>8
<1>12. F[a + b] = g \o H[b]
  <2>1. Lengths(A, B, a, b) /\ Starts(F, a, g)
    BY <1>4, <1>5, <1>7, <1>11 DEF Lengths, Starts
  <2>2. Ends(F, H, a, b, g)
    BY <1>1, <1>3, <2>1, PrefixesJoined
  <2>3. QED
    BY <2>2 DEF Ends
<1>13. QED
  BY <1>8, <1>9, <1>10, <1>11, <1>12

\* FlattenSeq distributes over concatenation.
LEMMA FlatConcat ==
  ASSUME NEW S, NEW A \in Seq(Seq(S)), NEW B \in Seq(Seq(S))
  PROVE  FlattenSeq(A \o B) = FlattenSeq(A) \o FlattenSeq(B)
<1>1. A \o B \in Seq(Seq(S)) /\ Joined(A \o B, A, B)
  BY JoinedIs
<1>2. QED
  BY <1>1, FlatJoined, ZenonT(30)

-----------------------------------------------------------------------------
(* A line comes, goes or changes in a part of a text.                      *)

\* t is p, r and q put together.
Around(t, p, r, q) ==
  /\ Len(t) = Len(p) + Len(r) + Len(q)
  /\ \A k \in 1 .. Len(p) : t[k] = p[k]
  /\ \A k \in 1 .. Len(r) : t[Len(p) + k] = r[k]
  /\ \A k \in 1 .. Len(q) : t[Len(p) + Len(r) + k] = q[k]

Inserted(t, u, n, line) ==
  /\ n \in 0 .. Len(t) /\ Len(u) = Len(t) + 1 /\ u[n + 1] = line
  /\ \A k \in 1 .. n : u[k] = t[k]
  /\ \A k \in (n + 1) .. Len(t) : u[k + 1] = t[k]
Deleted(t, u, n) ==
  /\ n \in 1 .. Len(t) /\ Len(u) = Len(t) - 1
  /\ \A k \in 1 .. (n - 1) : u[k] = t[k]
  /\ \A k \in n .. (Len(t) - 1) : u[k] = t[k + 1]
Replaced(t, u, n) ==
  /\ n \in 1 .. Len(t) /\ Len(u) = Len(t)
  /\ \A k \in 1 .. Len(t) : k # n => u[k] = t[k]

\* Where a place of t is.
LEMMA AroundPlace ==
  ASSUME NEW S, NEW t \in Seq(S), NEW p \in Seq(S), NEW r \in Seq(S), NEW q \in Seq(S),
         Around(t, p, r, q), NEW k \in 1 .. Len(t)
  PROVE  \/ k \in 1 .. Len(p) /\ t[k] = p[k]
         \/ k - Len(p) \in 1 .. Len(r) /\ t[k] = r[k - Len(p)]
         \/ k - Len(p) - Len(r) \in 1 .. Len(q) /\ t[k] = q[k - Len(p) - Len(r)]
<1>0. Len(p) \in Nat /\ Len(r) \in Nat /\ Len(q) \in Nat /\ Len(t) = Len(p) + Len(r) + Len(q)
  BY DEF Around
<1>1. CASE k <= Len(p)
  BY <1>0, <1>1 DEF Around
<1>2. CASE Len(p) < k /\ k <= Len(p) + Len(r)
  <2>1. k - Len(p) \in 1 .. Len(r) /\ Len(p) + (k - Len(p)) = k
    BY <1>0, <1>2
  <2>2. t[Len(p) + (k - Len(p))] = r[k - Len(p)]
    BY <2>1 DEF Around
  <2>3. QED
    BY <2>1, <2>2
<1>3. CASE Len(p) + Len(r) < k
  <2>1. k - Len(p) - Len(r) \in 1 .. Len(q) /\ Len(p) + Len(r) + (k - Len(p) - Len(r)) = k
    BY <1>0, <1>3
  <2>2. t[Len(p) + Len(r) + (k - Len(p) - Len(r))] = q[k - Len(p) - Len(r)]
    BY <2>1 DEF Around
  <2>3. QED
    BY <2>1, <2>2
<1>4. QED
  BY <1>0, <1>1, <1>2, <1>3

\* A line inserted into a row is a line inserted into the text around it.
LEMMA InsertedAround ==
  ASSUME NEW S, NEW t \in Seq(S), NEW p \in Seq(S), NEW r \in Seq(S), NEW q \in Seq(S),
         NEW u \in Seq(S), NEW s \in Seq(S), Around(t, p, r, q), Around(u, p, s, q),
         NEW x, NEW line, Inserted(r, s, x, line), NEW n, n = Len(p) + x
  PROVE  Inserted(t, u, n, line)
<1>0. /\ Len(p) \in Nat /\ Len(r) \in Nat /\ Len(q) \in Nat /\ Len(t) = Len(p) + Len(r) + Len(q)
      /\ Len(u) = Len(p) + Len(s) + Len(q) /\ Len(s) = Len(r) + 1 /\ x \in 0 .. Len(r)
  BY DEF Around, Inserted
<1>1. u[n + 1] = line
  <2>1. x + 1 \in 1 .. Len(s) /\ Len(p) + (x + 1) = n + 1
    BY <1>0
  <2>2. u[Len(p) + (x + 1)] = s[x + 1]
    BY <2>1 DEF Around
  <2>3. QED
    BY <2>1, <2>2 DEF Inserted
<1>2. ASSUME NEW k \in 1 .. n PROVE u[k] = t[k]
  <2>1. CASE k <= Len(p)
    BY <1>0, <2>1 DEF Around
  <2>2. CASE Len(p) < k
    <3>1. k - Len(p) \in 1 .. x /\ Len(p) + (k - Len(p)) = k
          /\ k - Len(p) \in 1 .. Len(r) /\ k - Len(p) \in 1 .. Len(s)
      BY <1>0, <2>2
    <3>2. u[Len(p) + (k - Len(p))] = s[k - Len(p)] /\ t[Len(p) + (k - Len(p))] = r[k - Len(p)]
      BY <3>1 DEF Around
    <3>3. s[k - Len(p)] = r[k - Len(p)]
      BY <3>1 DEF Inserted
    <3>4. QED
      BY <3>1, <3>2, <3>3
  <2>3. QED
    BY <1>0, <2>1, <2>2
<1>3. ASSUME NEW k \in (n + 1) .. Len(t) PROVE u[k + 1] = t[k]
  <2>1. CASE k <= Len(p) + Len(r)
    <3> DEFINE j == k - Len(p)
    <3>1. j \in (x + 1) .. Len(r) /\ j \in 1 .. Len(r) /\ j + 1 \in 1 .. Len(s)
          /\ Len(p) + j = k /\ Len(p) + (j + 1) = k + 1
      BY <1>0, <2>1
    <3> HIDE DEF j
    <3>2. u[Len(p) + (j + 1)] = s[j + 1] /\ t[Len(p) + j] = r[j]
      BY <3>1 DEF Around
    <3>3. s[j + 1] = r[j]
      BY <3>1 DEF Inserted
    <3>4. QED
      BY <3>1, <3>2, <3>3
  <2>2. CASE Len(p) + Len(r) < k
    <3> DEFINE j == k - Len(p) - Len(r)
    <3>1. j \in 1 .. Len(q) /\ Len(p) + Len(r) + j = k /\ Len(p) + Len(s) + j = k + 1
      BY <1>0, <2>2
    <3> HIDE DEF j
    <3>2. u[Len(p) + Len(s) + j] = q[j] /\ t[Len(p) + Len(r) + j] = q[j]
      BY <3>1 DEF Around
    <3>3. QED
      BY <3>1, <3>2
  <2>3. QED
    BY <1>0, <2>1, <2>2
<1>4. n \in 0 .. Len(t) /\ Len(u) = Len(t) + 1
  BY <1>0
<1>5. QED
  BY <1>1, <1>2, <1>3, <1>4 DEF Inserted

\* A line deleted from a row is a line deleted from the text around it.
LEMMA DeletedAround ==
  ASSUME NEW S, NEW t \in Seq(S), NEW p \in Seq(S), NEW r \in Seq(S), NEW q \in Seq(S),
         NEW u \in Seq(S), NEW s \in Seq(S), Around(t, p, r, q), Around(u, p, s, q),
         NEW x, Deleted(r, s, x), NEW n, n = Len(p) + x
  PROVE  Deleted(t, u, n)
<1>0. /\ Len(p) \in Nat /\ Len(r) \in Nat /\ Len(q) \in Nat /\ Len(t) = Len(p) + Len(r) + Len(q)
      /\ Len(u) = Len(p) + Len(s) + Len(q) /\ Len(s) = Len(r) - 1 /\ x \in 1 .. Len(r)
  BY DEF Around, Deleted
<1>2. ASSUME NEW k \in 1 .. (n - 1) PROVE u[k] = t[k]
  <2>1. CASE k <= Len(p)
    BY <1>0, <2>1 DEF Around
  <2>2. CASE Len(p) < k
    <3>1. k - Len(p) \in 1 .. (x - 1) /\ Len(p) + (k - Len(p)) = k
          /\ k - Len(p) \in 1 .. Len(r) /\ k - Len(p) \in 1 .. Len(s)
      BY <1>0, <2>2
    <3>2. u[Len(p) + (k - Len(p))] = s[k - Len(p)] /\ t[Len(p) + (k - Len(p))] = r[k - Len(p)]
      BY <3>1 DEF Around
    <3>3. s[k - Len(p)] = r[k - Len(p)]
      BY <3>1 DEF Deleted
    <3>4. QED
      BY <3>1, <3>2, <3>3
  <2>3. QED
    BY <1>0, <2>1, <2>2
<1>3. ASSUME NEW k \in n .. (Len(t) - 1) PROVE u[k] = t[k + 1]
  <2>1. CASE k <= Len(p) + Len(s)
    <3> DEFINE j == k - Len(p)
    <3>1. j \in x .. (Len(r) - 1) /\ j \in 1 .. Len(s) /\ j + 1 \in 1 .. Len(r)
          /\ Len(p) + j = k /\ Len(p) + (j + 1) = k + 1
      BY <1>0, <2>1
    <3> HIDE DEF j
    <3>2. u[Len(p) + j] = s[j] /\ t[Len(p) + (j + 1)] = r[j + 1]
      BY <3>1 DEF Around
    <3>3. s[j] = r[j + 1]
      BY <3>1 DEF Deleted
    <3>4. QED
      BY <3>1, <3>2, <3>3
  <2>2. CASE Len(p) + Len(s) < k
    <3> DEFINE j == k - Len(p) - Len(s)
    <3>1. j \in 1 .. Len(q) /\ Len(p) + Len(s) + j = k /\ Len(p) + Len(r) + j = k + 1
      BY <1>0, <2>2
    <3> HIDE DEF j
    <3>2. u[Len(p) + Len(s) + j] = q[j] /\ t[Len(p) + Len(r) + j] = q[j]
      BY <3>1 DEF Around
    <3>3. QED
      BY <3>1, <3>2
  <2>3. QED
    BY <1>0, <2>1, <2>2
<1>4. n \in 1 .. Len(t) /\ Len(u) = Len(t) - 1
  BY <1>0
<1>5. QED
  BY <1>2, <1>3, <1>4 DEF Deleted

\* A line replaced in a row is a line replaced in the text around it.
LEMMA ReplacedAround ==
  ASSUME NEW S, NEW t \in Seq(S), NEW p \in Seq(S), NEW r \in Seq(S), NEW q \in Seq(S),
         NEW u \in Seq(S), NEW s \in Seq(S), Around(t, p, r, q), Around(u, p, s, q),
         NEW x, Replaced(r, s, x), NEW n, n = Len(p) + x
  PROVE  Replaced(t, u, n)
<1>0. /\ Len(p) \in Nat /\ Len(r) \in Nat /\ Len(q) \in Nat /\ Len(t) = Len(p) + Len(r) + Len(q)
      /\ Len(u) = Len(p) + Len(s) + Len(q) /\ Len(s) = Len(r) /\ x \in 1 .. Len(r)
  BY DEF Around, Replaced
<1>2. ASSUME NEW k \in 1 .. Len(t), k # n PROVE u[k] = t[k]
  <2>1. CASE k <= Len(p)
    BY <1>0, <2>1 DEF Around
  <2>2. CASE Len(p) < k /\ k <= Len(p) + Len(r)
    <3> DEFINE j == k - Len(p)
    <3>1. j \in 1 .. Len(r) /\ j # x /\ Len(p) + j = k
      BY <1>0, <1>2, <2>2
    <3> HIDE DEF j
    <3>2. u[Len(p) + j] = s[j] /\ t[Len(p) + j] = r[j] /\ s[j] = r[j]
      BY <1>0, <3>1 DEF Around, Replaced
    <3>3. QED
      BY <3>1, <3>2
  <2>3. CASE Len(p) + Len(r) < k
    <3> DEFINE j == k - Len(p) - Len(r)
    <3>1. j \in 1 .. Len(q) /\ Len(p) + Len(r) + j = k /\ Len(s) = Len(r)
      BY <1>0, <2>3
    <3> HIDE DEF j
    <3>2. u[Len(p) + Len(s) + j] = q[j] /\ t[Len(p) + Len(r) + j] = q[j]
      BY <3>1 DEF Around
    <3>3. QED
      BY <3>1, <3>2
  <2>4. QED
    BY <1>0, <2>1, <2>2, <2>3
<1>4. n \in 1 .. Len(t) /\ Len(u) = Len(t)
  BY <1>0
<1>5. QED
  BY <1>2, <1>4 DEF Replaced

-----------------------------------------------------------------------------
(* Rows of lines, the text they make, and a row that other rows replace.   *)

\* A text of three parts has them around each other.
LEMMA AroundIs ==
  ASSUME NEW S, NEW p \in Seq(S), NEW r \in Seq(S), NEW q \in Seq(S), NEW t, t = p \o (r \o q)
  PROVE  Around(t, p, r, q) /\ t \in Seq(S)
<1> DEFINE z == r \o q
<1>1. z \in Seq(S) /\ Joined(z, r, q)
  BY JoinedIs
<1> HIDE DEF z
<1>2. p \o z \in Seq(S) /\ Joined(p \o z, p, z)
  BY <1>1, JoinedIs
<1>3. t \in Seq(S) /\ Joined(t, p, z)
  BY <1>2 DEF z
<1>4. Len(p) \in Nat /\ Len(r) \in Nat /\ Len(q) \in Nat /\ Len(z) = Len(r) + Len(q)
      /\ Len(t) = Len(p) + Len(z)
  BY <1>1, <1>3 DEF Joined
<1>5. ASSUME NEW k \in 1 .. Len(r) PROVE t[Len(p) + k] = r[k]
  <2>1. k \in 1 .. Len(z)
    BY <1>4
  <2>2. QED
    BY <1>1, <1>3, <2>1 DEF Joined
<1>6. ASSUME NEW k \in 1 .. Len(q) PROVE t[Len(p) + Len(r) + k] = q[k]
  <2>1. Len(r) + k \in 1 .. Len(z) /\ Len(p) + (Len(r) + k) = Len(p) + Len(r) + k
    BY <1>4
  <2>2. z[Len(r) + k] = q[k] /\ t[Len(p) + (Len(r) + k)] = z[Len(r) + k]
    BY <1>1, <1>3, <2>1 DEF Joined
  <2>3. QED
    BY <2>1, <2>2
<1>7. QED
  BY <1>3, <1>4, <1>5, <1>6 DEF Around, Joined

\* The rows M are in Q where R has its i-th.
Spliced(R, Q, i, M) ==
  /\ i \in 1 .. Len(R) /\ Len(Q) = Len(R) + Len(M) - 1
  /\ \A k \in 1 .. (i - 1) : Q[k] = R[k]
  /\ \A k \in 1 .. Len(M) : Q[i - 1 + k] = M[k]
  /\ \A k \in 1 .. (Len(R) - i) : Q[i - 1 + Len(M) + k] = R[i + k]

\* The rows in front of the i-th and behind it.
Cut(S, R, i, A, B) ==
  /\ A \in Seq(Seq(S)) /\ B \in Seq(Seq(S))
  /\ Len(A) = i - 1 /\ Len(B) = Len(R) - i
  /\ \A k \in 1 .. (i - 1) : A[k] = R[k]
  /\ \A k \in 1 .. (Len(R) - i) : B[k] = R[i + k]

\* Rows can be cut before and behind one of them.
LEMMA CutExists ==
  ASSUME NEW S, NEW R \in Seq(Seq(S)), NEW i \in 1 .. Len(R)
  PROVE  \E A, B : Cut(S, R, i, A, B)
<1> DEFINE n == Len(R)
           A == [k \in 1 .. (i - 1) |-> R[k]]
           B == [k \in 1 .. (n - i) |-> R[i + k]]
<1>0. n \in Nat /\ i \in 1 .. n /\ \A k \in 1 .. n : R[k] \in Seq(S)
  OBVIOUS
<1> HIDE DEF n
<1>1. A \in Seq(Seq(S)) /\ Len(A) = i - 1
  BY <1>0
<1>2. B \in Seq(Seq(S)) /\ Len(B) = n - i
  <2>1. \A k \in 1 .. (n - i) : i + k \in 1 .. n
    BY <1>0
  <2>2. QED
    BY <1>0, <2>1
<1>3. Cut(S, R, i, A, B)
  BY <1>1, <1>2 DEF Cut, n
<1>4. QED
  BY <1>3

\* The text is that of the rows in front, of rows M, and of the rows behind.
FlatAround(Q, p, M, q) == Around(FlattenSeq(Q), p, FlattenSeq(M), q)

\* Rows put in place of one leave the text before and behind as it is.
LEMMA FlatSplice ==
  ASSUME NEW S, NEW R \in Seq(Seq(S)), NEW Q \in Seq(Seq(S)), NEW M \in Seq(Seq(S)), NEW i,
         Spliced(R, Q, i, M), NEW A, NEW B, Cut(S, R, i, A, B)
  PROVE  FlatAround(Q, FlattenSeq(A), M, FlattenSeq(B))
<1> DEFINE Z == M \o B
<1>0. /\ A \in Seq(Seq(S)) /\ B \in Seq(Seq(S)) /\ Len(M) \in Nat /\ Len(R) \in Nat
      /\ Len(A) = i - 1 /\ Len(B) = Len(R) - i /\ i \in 1 .. Len(R)
  BY DEF Cut, Spliced
<1>1. Z \in Seq(Seq(S)) /\ Joined(Z, M, B)
  BY <1>0, JoinedIs
<1>2. FlattenSeq(Z) = FlattenSeq(M) \o FlattenSeq(B)
  BY <1>0, FlatConcat
<1> HIDE DEF Z
<1>3. Joined(Q, A, Z)
  <2>1. Len(Q) = Len(A) + Len(Z)
    BY <1>0, <1>1 DEF Joined, Spliced
  <2>2. \A k \in 1 .. Len(A) : Q[k] = A[k]
    BY <1>0 DEF Cut, Spliced
  <2>3. ASSUME NEW k \in 1 .. Len(Z) PROVE Q[Len(A) + k] = Z[k]
    <3>1. Len(Z) = Len(M) + Len(B)
      BY <1>1 DEF Joined
    <3>2. CASE k <= Len(M)
      <4>1. k \in 1 .. Len(M)
        BY <1>0, <3>2
      <4>2. Z[k] = M[k] /\ Q[i - 1 + k] = M[k]
        BY <1>1, <4>1 DEF Joined, Spliced
      <4>3. QED
        BY <1>0, <4>2
    <3>3. CASE Len(M) < k
      <4> DEFINE j == k - Len(M)
      <4>1. j \in 1 .. Len(B) /\ j \in 1 .. (Len(R) - i) /\ Len(M) + j = k
            /\ i - 1 + Len(M) + j = Len(A) + k
        BY <1>0, <3>1, <3>3
      <4> HIDE DEF j
      <4>2. Z[Len(M) + j] = B[j]
        BY <1>1, <4>1 DEF Joined
      <4>3. Q[i - 1 + Len(M) + j] = R[i + j] /\ B[j] = R[i + j]
        BY <4>1 DEF Spliced, Cut
      <4>4. QED
        BY <4>1, <4>2, <4>3
    <3>4. QED
      BY <1>0, <3>2, <3>3
  <2>4. QED
    BY <2>1, <2>2, <2>3 DEF Joined
<1>4. FlattenSeq(Q) = FlattenSeq(A) \o FlattenSeq(Z)
  BY <1>0, <1>1, <1>3, FlatJoined
<1>5. FlattenSeq(A) \in Seq(S) /\ FlattenSeq(M) \in Seq(S) /\ FlattenSeq(B) \in Seq(S)
  BY <1>0, FlatType
<1>6. FlattenSeq(Q) = FlattenSeq(A) \o (FlattenSeq(M) \o FlattenSeq(B))
  BY <1>2, <1>4
<1>7. QED
  BY <1>5, <1>6, AroundIs DEF FlatAround

\* A row is the splice of itself.
LEMMA SplicedSelf ==
  ASSUME NEW S, NEW R \in Seq(Seq(S)), NEW i \in 1 .. Len(R), NEW M, M = <<R[i]>>
  PROVE  Spliced(R, R, i, M) /\ M \in Seq(Seq(S)) /\ FlattenSeq(M) = R[i]
<1>1. R[i] \in Seq(S) /\ Len(R) \in Nat
  OBVIOUS
<1>2. Len(M) = 1 /\ M[1] = R[i] /\ M \in Seq(Seq(S))
  BY <1>1
<1>3. FlattenSeq(M) = R[i]
  BY <1>1, FlatOne
<1>4. Spliced(R, R, i, M)
  BY <1>1, <1>2 DEF Spliced
<1>5. QED
  BY <1>2, <1>3, <1>4

\* What the text has in front of row i.
LEMMA FlatBefore ==
  ASSUME NEW S, NEW R \in Seq(Seq(S)), NEW i \in 1 .. Len(R), NEW F, FlatUpTo(S, R, F),
         NEW A, NEW B, Cut(S, R, i, A, B)
  PROVE  FlattenSeq(A) = F[i - 1]
<1>1. A \in Seq(Seq(S)) /\ Len(A) = i - 1 /\ i - 1 \in Nat /\ i - 1 <= Len(R)
      /\ \A k \in 1 .. (i - 1) : R[k] = A[k]
  BY DEF Cut
<1>2. PICK G : FlatUpTo(S, A, G)
  BY <1>1, PrefixesExist
<1> DEFINE n == i - 1
<1>3. n \in Nat /\ n = Len(A) /\ SameUpTo(n, R, A)
  BY <1>1 DEF SameUpTo
<1> HIDE DEF n
<1>4. Agree(n, F, G)
  BY <1>1, <1>2, <1>3, PrefixesAgree
<1>5. F[n] = G[n]
  BY <1>3, <1>4 DEF Agree
<1>6. FlattenSeq(A) = G[n]
  BY <1>1, <1>2, <1>3, FlatIs
<1>7. QED
  BY <1>5, <1>6 DEF n

\* A row is replaced by rows that have a line more, a line less, or another.
LEMMA RowGrows ==
  ASSUME NEW S, NEW R \in Seq(Seq(S)), NEW Q \in Seq(Seq(S)), NEW M \in Seq(Seq(S)), NEW i,
         Spliced(R, Q, i, M), NEW F, FlatUpTo(S, R, F),
         NEW x, NEW line, Inserted(R[i], FlattenSeq(M), x, line), NEW n, n = Len(F[i - 1]) + x
  PROVE  Inserted(FlattenSeq(R), FlattenSeq(Q), n, line)
<1>0. i \in 1 .. Len(R)
  BY DEF Spliced
<1>1. PICK A, B : Cut(S, R, i, A, B)
  BY <1>0, CutExists
<1>2. A \in Seq(Seq(S)) /\ B \in Seq(Seq(S)) /\ R[i] \in Seq(S)
  BY <1>0, <1>1 DEF Cut
<1>3. /\ FlattenSeq(A) \in Seq(S) /\ FlattenSeq(B) \in Seq(S) /\ FlattenSeq(M) \in Seq(S)
      /\ FlattenSeq(R) \in Seq(S) /\ FlattenSeq(Q) \in Seq(S)
  BY <1>2, FlatType
<1>4. Around(FlattenSeq(Q), FlattenSeq(A), FlattenSeq(M), FlattenSeq(B))
  BY <1>1, FlatSplice DEF FlatAround
<1>5. Around(FlattenSeq(R), FlattenSeq(A), R[i], FlattenSeq(B))
  <2>1. PICK N : N = <<R[i]>>
    OBVIOUS
  <2>2. Spliced(R, R, i, N) /\ N \in Seq(Seq(S)) /\ FlattenSeq(N) = R[i]
    BY <1>0, <2>1, SplicedSelf
  <2>3. FlatAround(R, FlattenSeq(A), N, FlattenSeq(B))
    BY <1>1, <2>2, FlatSplice
  <2>4. QED
    BY <2>2, <2>3 DEF FlatAround
<1>6. FlattenSeq(A) = F[i - 1]
  BY <1>0, <1>1, FlatBefore
<1>7. n = Len(FlattenSeq(A)) + x
  BY <1>6
<1>8. QED
  BY <1>2, <1>3, <1>4, <1>5, <1>7, InsertedAround

\* A line deleted from a row, which may leave another row or none, is a line deleted from
\* the text.
LEMMA RowShrinks ==
  ASSUME NEW S, NEW R \in Seq(Seq(S)), NEW Q \in Seq(Seq(S)), NEW M \in Seq(Seq(S)), NEW i,
         Spliced(R, Q, i, M), NEW F, FlatUpTo(S, R, F),
         NEW x, Deleted(R[i], FlattenSeq(M), x), NEW n, n = Len(F[i - 1]) + x
  PROVE  Deleted(FlattenSeq(R), FlattenSeq(Q), n)
<1>0. i \in 1 .. Len(R)
  BY DEF Spliced
<1>1. PICK A, B : Cut(S, R, i, A, B)
  BY <1>0, CutExists
<1>2. A \in Seq(Seq(S)) /\ B \in Seq(Seq(S)) /\ R[i] \in Seq(S)
  BY <1>0, <1>1 DEF Cut
<1>3. /\ FlattenSeq(A) \in Seq(S) /\ FlattenSeq(B) \in Seq(S) /\ FlattenSeq(M) \in Seq(S)
      /\ FlattenSeq(R) \in Seq(S) /\ FlattenSeq(Q) \in Seq(S)
  BY <1>2, FlatType
<1>4. Around(FlattenSeq(Q), FlattenSeq(A), FlattenSeq(M), FlattenSeq(B))
  BY <1>1, FlatSplice DEF FlatAround
<1>5. Around(FlattenSeq(R), FlattenSeq(A), R[i], FlattenSeq(B))
  <2>1. PICK N : N = <<R[i]>>
    OBVIOUS
  <2>2. Spliced(R, R, i, N) /\ N \in Seq(Seq(S)) /\ FlattenSeq(N) = R[i]
    BY <1>0, <2>1, SplicedSelf
  <2>3. FlatAround(R, FlattenSeq(A), N, FlattenSeq(B))
    BY <1>1, <2>2, FlatSplice
  <2>4. QED
    BY <2>2, <2>3 DEF FlatAround
<1>6. FlattenSeq(A) = F[i - 1]
  BY <1>0, <1>1, FlatBefore
<1>7. n = Len(FlattenSeq(A)) + x
  BY <1>6
<1>8. QED
  BY <1>2, <1>3, <1>4, <1>5, <1>7, DeletedAround

\* A line replaced in a row is a line replaced in the text.
LEMMA RowChanges ==
  ASSUME NEW S, NEW R \in Seq(Seq(S)), NEW Q \in Seq(Seq(S)), NEW M \in Seq(Seq(S)), NEW i,
         Spliced(R, Q, i, M), NEW F, FlatUpTo(S, R, F),
         NEW x, Replaced(R[i], FlattenSeq(M), x), NEW n, n = Len(F[i - 1]) + x
  PROVE  Replaced(FlattenSeq(R), FlattenSeq(Q), n)
<1>0. i \in 1 .. Len(R)
  BY DEF Spliced
<1>1. PICK A, B : Cut(S, R, i, A, B)
  BY <1>0, CutExists
<1>2. A \in Seq(Seq(S)) /\ B \in Seq(Seq(S)) /\ R[i] \in Seq(S)
  BY <1>0, <1>1 DEF Cut
<1>3. /\ FlattenSeq(A) \in Seq(S) /\ FlattenSeq(B) \in Seq(S) /\ FlattenSeq(M) \in Seq(S)
      /\ FlattenSeq(R) \in Seq(S) /\ FlattenSeq(Q) \in Seq(S)
  BY <1>2, FlatType
<1>4. Around(FlattenSeq(Q), FlattenSeq(A), FlattenSeq(M), FlattenSeq(B))
  BY <1>1, FlatSplice DEF FlatAround
<1>5. Around(FlattenSeq(R), FlattenSeq(A), R[i], FlattenSeq(B))
  <2>1. PICK N : N = <<R[i]>>
    OBVIOUS
  <2>2. Spliced(R, R, i, N) /\ N \in Seq(Seq(S)) /\ FlattenSeq(N) = R[i]
    BY <1>0, <2>1, SplicedSelf
  <2>3. FlatAround(R, FlattenSeq(A), N, FlattenSeq(B))
    BY <1>1, <2>2, FlatSplice
  <2>4. QED
    BY <2>2, <2>3 DEF FlatAround
<1>6. FlattenSeq(A) = F[i - 1]
  BY <1>0, <1>1, FlatBefore
<1>7. n = Len(FlattenSeq(A)) + x
  BY <1>6
<1>8. QED
  BY <1>2, <1>3, <1>4, <1>5, <1>7, ReplacedAround

-----------------------------------------------------------------------------
(* Counts of lines.                                                        *)

\* The length of a concatenation.
LEMMA Longer ==
  ASSUME NEW S, NEW s \in Seq(S), NEW t \in Seq(S), NEW u, u = s \o t
  PROVE  Len(u) = Len(s) + Len(t) /\ Len(s) \in Nat /\ Len(t) \in Nat
OBVIOUS

\* c counts the lines of the rows, and d more for row i.
CountsAre(R, c, i, d) ==
  /\ c \in Seq(Int) /\ Len(c) = Len(R) /\ i \in Nat /\ d \in Int
  /\ \A k \in 1 .. Len(R) : c[k] = Len(R[k]) + (IF k = i THEN d ELSE 0)
SumsAre(c, F, n, i, d) ==
  \A k \in 0 .. n : Sums(c)[k] = Len(F[k]) + (IF i # 0 /\ i <= k THEN d ELSE 0)

\* Counts that are right sum to the number of lines up to each row.
LEMMA CountedSums ==
  ASSUME NEW S, NEW R \in Seq(Seq(S)), NEW F, FlatUpTo(S, R, F), NEW c, NEW i, NEW d,
         CountsAre(R, c, i, d)
  PROVE  SumsAre(c, F, Len(R), i, d)
<1> DEFINE n == Len(R)
           more(k) == IF i # 0 /\ i <= k THEN d ELSE 0
           T == {k \in 0 .. n : Sums(c)[k] = Len(F[k]) + more(k)}
<1>0. /\ n \in Nat /\ i \in Nat /\ d \in Int /\ c \in Seq(Int) /\ Len(c) = n
      /\ F \in [0 .. n -> Seq(S)] /\ F[0] = <<>>
      /\ \A k \in 1 .. n : /\ F[k] = F[k - 1] \o R[k] /\ R[k] \in Seq(S)
                           /\ c[k] = Len(R[k]) + (IF k = i THEN d ELSE 0)
  BY DEF FlatUpTo, CountsAre
<1>1. /\ Sums(c)[0] = 0
      /\ \A k \in 1 .. n : Sums(c)[k] = Sums(c)[k - 1] + c[k]
      /\ \A k \in 0 .. n : Sums(c)[k] \in Int
  BY <1>0, SumsIs
<1> HIDE DEF n
<1>2. 0 \in T
  BY <1>0, <1>1
<1>3. ASSUME NEW k \in 1 .. n, k - 1 \in T PROVE k \in T
  <2>1. k - 1 \in 0 .. n /\ k \in 0 .. n
    BY <1>0
  <2>2. F[k - 1] \in Seq(S) /\ R[k] \in Seq(S)
    BY <1>0, <2>1
  <2>3. Len(F[k]) = Len(F[k - 1]) + Len(R[k]) /\ Len(F[k - 1]) \in Nat /\ Len(R[k]) \in Nat
    <3>1. F[k] = F[k - 1] \o R[k]
      BY <1>0
    <3>2. QED
      BY <2>2, <3>1, Longer
  <2>4. Sums(c)[k - 1] = Len(F[k - 1]) + more(k - 1)
    BY <1>3
  <2>5. Sums(c)[k] = Sums(c)[k - 1] + c[k] /\ c[k] = Len(R[k]) + (IF k = i THEN d ELSE 0)
    BY <1>0, <1>1
  <2> DEFINE e == IF k = i THEN d ELSE 0
  <2>6. more(k) = more(k - 1) + e /\ more(k - 1) \in Int /\ e \in Int
    <3>1. k \in Int /\ i \in Int /\ d \in Int /\ k >= 1
      BY <1>0
    <3>2. QED
      BY <3>1
  <2>7. c[k] = Len(R[k]) + e
    BY <2>5
  <2> HIDE DEF more, e
  <2>8. Sums(c)[k] = Len(F[k]) + more(k)
    <3>1. Sums(c)[k] = Sums(c)[k - 1] + c[k]
      BY <2>5
    <3>2. PICK p, q, r, a \in Int : p = Len(F[k - 1]) /\ q = Len(R[k]) /\ r = more(k - 1) /\ a = e
      BY <2>3, <2>6
    <3>3. Sums(c)[k - 1] = p + r /\ c[k] = q + a /\ Len(F[k]) = p + q /\ more(k) = r + a
      BY <2>3, <2>4, <2>6, <2>7, <3>2
    <3>4. Sums(c)[k] = (p + r) + (q + a)
      BY <3>1, <3>3
    <3>5. (p + r) + (q + a) = (p + q) + (r + a)
      BY p \in Int, q \in Int, r \in Int, a \in Int
    <3>6. QED
      BY <3>3, <3>4, <3>5
  <2>9. QED
    BY <2>1, <2>8
<1> HIDE DEF T
<1>4. \A k \in 0 .. n : k \in T
  BY <1>0, <1>2, <1>3, UpTo
<1>5. QED
  BY <1>4 DEF T, SumsAre, n

\* Each line is in one of the rows.
Here(c, i, n) == Sums(c)[i - 1] < n /\ n <= Sums(c)[i - 1] + c[i]

\* The block with line n exists: the running totals pass n somewhere.
LEMMA LineIsHere ==
  ASSUME NEW c \in Seq(Int), NEW n \in Nat \ {0}, n <= Sums(c)[Len(c)]
  PROVE  \E i \in DOMAIN c : Here(c, i, n)
<1> DEFINE L == Len(c)
           T == {k \in 0 .. L : n <= Sums(c)[k]}
<1>0. L \in Nat /\ DOMAIN c = 1 .. L
  OBVIOUS
<1>1. /\ Sums(c)[0] = 0
      /\ \A k \in 1 .. L : Sums(c)[k] = Sums(c)[k - 1] + c[k]
      /\ \A k \in 0 .. L : Sums(c)[k] \in Int
  BY SumsIs
<1>2. n <= Sums(c)[L]
  OBVIOUS
<1> HIDE DEF L
<1>3. L \in T /\ T \subseteq Nat /\ 0 \notin T
  BY <1>0, <1>1, <1>2
<1>4. PICK i \in T : \A y \in T : i <= y
  <2> HIDE DEF T
  <2>1. T # {}
    BY <1>3
  <2>2. QED
    BY <1>3, <2>1, Least
<1>5. i \in 1 .. L /\ i - 1 \in 0 .. L
  BY <1>0, <1>3, <1>4
<1>6. i - 1 \notin T
  BY <1>4, <1>5
<1>7. Here(c, i, n)
  BY <1>0, <1>1, <1>4, <1>5, <1>6 DEF Here
<1>8. QED
  BY <1>0, <1>5, <1>7

\* The lengths of the prefixes, and a line of the text in its row.
RowLengths(R, F) ==
  /\ \A k \in 1 .. Len(R) : /\ Len(F[k]) = Len(F[k - 1]) + Len(R[k])
                             /\ Len(F[k - 1]) \in Nat /\ Len(R[k]) \in Nat
  /\ Len(F[0]) = 0 /\ Len(FlattenSeq(R)) = Len(F[Len(R)])

\* The length of the text up to each row is the sum of the rows'.
LEMMA PrefixLengths ==
  ASSUME NEW S, NEW R \in Seq(Seq(S)), NEW F, FlatUpTo(S, R, F)
  PROVE  RowLengths(R, F)
<1>1. /\ F \in [0 .. Len(R) -> Seq(S)] /\ F[0] = <<>>
      /\ \A k \in 1 .. Len(R) : F[k] = F[k - 1] \o R[k] /\ R[k] \in Seq(S)
  BY SMTT(30) DEF FlatUpTo
<1>2. ASSUME NEW k \in 1 .. Len(R)
      PROVE  /\ Len(F[k]) = Len(F[k - 1]) + Len(R[k])
             /\ Len(F[k - 1]) \in Nat /\ Len(R[k]) \in Nat
  <2>1. k - 1 \in 0 .. Len(R)
    OBVIOUS
  <2>2. F[k - 1] \in Seq(S) /\ R[k] \in Seq(S)
    BY <1>1, <2>1
  <2>3. F[k] = F[k - 1] \o R[k]
    BY <1>1
  <2>4. QED
    BY <2>2, <2>3, Longer
<1>3. Len(FlattenSeq(R)) = Len(F[Len(R)])
  BY FlatIs
<1>4. QED
  BY <1>1, <1>2, <1>3 DEF RowLengths

-----------------------------------------------------------------------------
(* Block 1, its entries and the rows of the blocks they point at.          *)

Ptrs(h) == h[1].data.ptrs
Rows(h) == [k \in 1 .. Len(Ptrs(h)) |-> h[Ptrs(h)[k].b].data.lines]

Rooted(h) ==
  /\ 1 \in DOMAIN h /\ h[1].pages = 1 /\ h[1].data \in Blocks /\ Ptrs(h) \in Seq(Entries)
  /\ \A k \in DOMAIN Ptrs(h) :
       /\ Ptrs(h)[k].b \in DOMAIN h /\ Ptrs(h)[k].b # 1
       /\ h[Ptrs(h)[k].b].data.lines \in Seq(LineNumbers)

\* A tree has a root, and a row of lines for each entry.
LEMMA TreeRooted ==
  ASSUME NEW h, h \in Heaps(DOMAIN h), Tree(h)
  PROVE  Rooted(h) /\ Rows(h) \in Seq(Seq(LineNumbers)) /\ Len(Rows(h)) = Len(Ptrs(h))
<1>1. /\ 1 \in DOMAIN h /\ h[1].pages = 1 /\ DOMAIN h = {0, 1} \cup {Ptrs(h)[i].b : i \in DOMAIN Ptrs(h)}
      /\ \A i \in DOMAIN Ptrs(h) : Ptrs(h)[i].b \notin {0, 1}
  BY DEF Tree, Ptrs
<1>2. \A x \in DOMAIN h : h[x].data \in Blocks
  BY DEF Heaps
<1>3. \A x \in DOMAIN h : h[x].data.lines \in Seq(LineNumbers) /\ h[x].data.ptrs \in Seq(Entries)
  BY <1>2 DEF Blocks
<1>4. Ptrs(h) \in Seq(Entries) /\ h[1].data \in Blocks
  BY <1>1, <1>2, <1>3 DEF Ptrs
<1>5. \A k \in DOMAIN Ptrs(h) : Ptrs(h)[k].b \in DOMAIN h
  BY <1>1
<1>6. Rooted(h)
  BY <1>1, <1>3, <1>4, <1>5 DEF Rooted
<1> DEFINE n == Len(Ptrs(h))
<1>7. n \in Nat /\ DOMAIN Ptrs(h) = 1 .. n
  BY <1>4
<1> HIDE DEF n
<1>8. \A k \in 1 .. n : h[Ptrs(h)[k].b].data.lines \in Seq(LineNumbers)
  BY <1>3, <1>5, <1>7
<1>9. Rows(h) = [k \in 1 .. n |-> h[Ptrs(h)[k].b].data.lines]
  BY DEF Rows, n
<1>10. Rows(h) \in Seq(Seq(LineNumbers)) /\ Len(Rows(h)) = n
  BY <1>7, <1>8, <1>9
<1>11. QED
  BY <1>6, <1>10 DEF n

\* Only the counts in block 1 are others.
Recounted(h, g) ==
  /\ DOMAIN g = DOMAIN h /\ Len(Ptrs(g)) = Len(Ptrs(h)) /\ DOMAIN Ptrs(g) = DOMAIN Ptrs(h)
  /\ \A x \in DOMAIN h : g[x].pages = h[x].pages /\ g[x].data.id = h[x].data.id
  /\ \A x \in DOMAIN h : x # 1 => g[x] = h[x]
  /\ \A k \in DOMAIN Ptrs(h) : /\ Ptrs(g)[k].b = Ptrs(h)[k].b
                               /\ Ptrs(g)[k].pages = Ptrs(h)[k].pages

\* New counts in block 1 leave the tree and the rows as they are.
LEMMA RecountedTree ==
  ASSUME NEW h, NEW g, Tree(h), Rooted(h), Rooted(g), Recounted(h, g)
  PROVE  Tree(g) /\ Rows(g) = Rows(h)
<1>0. Ptrs(h) \in Seq(Entries) /\ Ptrs(g) \in Seq(Entries)
  BY DEF Rooted
<1>1. Rows(g) = Rows(h)
  <2>1. ASSUME NEW k \in 1 .. Len(Ptrs(h))
        PROVE  g[Ptrs(g)[k].b].data.lines = h[Ptrs(h)[k].b].data.lines
    <3>1. k \in DOMAIN Ptrs(h)
      BY <1>0
    <3>2. Ptrs(g)[k].b = Ptrs(h)[k].b
      BY <3>1 DEF Recounted
    <3>3. Ptrs(h)[k].b \in DOMAIN h /\ Ptrs(h)[k].b # 1
      BY <3>1 DEF Rooted
    <3>4. QED
      BY <3>2, <3>3 DEF Recounted
  <2>2. Len(Ptrs(g)) = Len(Ptrs(h))
    BY DEF Recounted
  <2>3. QED
    BY <2>1, <2>2 DEF Rows
<1>2. {Ptrs(g)[i].b : i \in DOMAIN Ptrs(g)} = {Ptrs(h)[i].b : i \in DOMAIN Ptrs(h)}
  BY DEF Recounted
<1>3. /\ {0, 1} \subseteq DOMAIN g /\ g[0].pages = 1 /\ g[1].pages = 1
      /\ g[0].data.id = "zero" /\ g[1].data.id = "ptr"
      /\ DOMAIN g = {0, 1} \cup {Ptrs(g)[i].b : i \in DOMAIN Ptrs(g)}
  BY <1>2 DEF Recounted, Tree, Ptrs
<1>4. Ptrs(g) # <<>>
  <2>1. Ptrs(h) # <<>> /\ Len(Ptrs(g)) = Len(Ptrs(h))
    BY DEF Tree, Ptrs, Recounted
  <2>2. QED
    BY <1>0, <2>1
<1>5. ASSUME NEW i \in DOMAIN Ptrs(g)
      PROVE  /\ Ptrs(g)[i].b \notin {0, 1} /\ Ptrs(g)[i].pages = g[Ptrs(g)[i].b].pages
             /\ g[Ptrs(g)[i].b].data.id = "data" /\ g[Ptrs(g)[i].b].data.lines # <<>>
  <2>1. i \in DOMAIN Ptrs(h) /\ Ptrs(g)[i].b = Ptrs(h)[i].b /\ Ptrs(g)[i].pages = Ptrs(h)[i].pages
    BY DEF Recounted
  <2>2. /\ Ptrs(h)[i].b \notin {0, 1} /\ Ptrs(h)[i].pages = h[Ptrs(h)[i].b].pages
        /\ h[Ptrs(h)[i].b].data.id = "data" /\ h[Ptrs(h)[i].b].data.lines # <<>>
        /\ Ptrs(h)[i].b \in DOMAIN h
    BY <2>1 DEF Tree, Ptrs
  <2>3. g[Ptrs(h)[i].b] = h[Ptrs(h)[i].b]
    BY <2>2 DEF Recounted
  <2>4. QED
    BY <2>1, <2>2, <2>3
<1>6. \A i, k \in DOMAIN Ptrs(g) : Ptrs(g)[i].b = Ptrs(g)[k].b => i = k
  BY ZenonT(30) DEF Recounted, Tree, Ptrs
<1>7. QED
  BY <1>1, <1>3, <1>4, <1>5, <1>6 DEF Tree, Ptrs

EntryOf(e, b, pages, count) ==
  e \in Entries /\ e.b = b /\ e.pages = pages /\ e.count = count

\* The fields of an entry.
LEMMA EntryIs ==
  ASSUME NEW b \in Int, NEW pages \in Nat \ {0}, NEW count \in Int, NEW old \in Nat,
         NEW e, e = Entry(b, pages, count, old)
  PROVE  EntryOf(e, b, pages, count)
BY DEF Entry, Entries, EntryOf

\* An entry with another number or count.
Corrects(root, r, i, b, add) ==
  /\ r \in Blocks /\ r.id = root.id /\ Len(r.ptrs) = Len(root.ptrs)
  /\ DOMAIN r.ptrs = DOMAIN root.ptrs
  /\ r.ptrs[i].b = b /\ r.ptrs[i].pages = root.ptrs[i].pages
  /\ r.ptrs[i].count = root.ptrs[i].count + add
  /\ \A k \in DOMAIN root.ptrs : k # i => r.ptrs[k] = root.ptrs[k]

\* CorrectEntry changes the number and the count of one entry only.
LEMMA CorrectIs ==
  ASSUME NEW root \in Blocks, NEW i \in DOMAIN root.ptrs, NEW b \in Int, NEW add \in Int,
         NEW r, r = CorrectEntry(root, i, b, add)
  PROVE  Corrects(root, r, i, b, add)
<1> DEFINE e == Entry(b, root.ptrs[i].pages, root.ptrs[i].count + add, root.ptrs[i].old)
           p == [root.ptrs EXCEPT ![i] = e]
<1>0. root.ptrs \in Seq(Entries) /\ root.ptrs[i] \in Entries
  BY DEF Blocks
<1>1. /\ e \in Entries /\ e.b = b /\ e.pages = root.ptrs[i].pages
      /\ e.count = root.ptrs[i].count + add
  <2>1. /\ root.ptrs[i].pages \in Nat \ {0} /\ root.ptrs[i].count \in Int
        /\ root.ptrs[i].old \in Nat
    BY <1>0 DEF Entries
  <2>2. root.ptrs[i].count + add \in Int
    BY <2>1
  <2>3. EntryOf(e, b, root.ptrs[i].pages, root.ptrs[i].count + add)
    <3> HIDE <1>0
    <3>1. e = Entry(b, root.ptrs[i].pages, root.ptrs[i].count + add, root.ptrs[i].old)
      OBVIOUS
    <3> HIDE DEF e
    <3>2. QED
      BY <2>1, <2>2, <3>1, EntryIs
  <2>4. QED
    BY <2>3 DEF EntryOf
<1>2. r = [root EXCEPT !.ptrs = p]
  BY DEF CorrectEntry, Blocks
<1> HIDE DEF e
<1>3. /\ p \in Seq(Entries) /\ Len(p) = Len(root.ptrs) /\ DOMAIN p = DOMAIN root.ptrs
      /\ p[i] = e /\ \A k \in DOMAIN root.ptrs : k # i => p[k] = root.ptrs[k]
  BY <1>0, <1>1
<1> HIDE DEF p
<1>4. r \in Blocks /\ r.id = root.id /\ r.ptrs = p
  BY <1>2, <1>3 DEF Blocks
<1>5. QED
  BY <1>1, <1>3, <1>4 DEF Corrects

\* mf_put, with what it asks for and what it does under a name.
Settles(X, Y, b, dirty) == \A c \in X : c \in Y \/ (c = b /\ dirty)
PutBackAs(m, n, h, Y, b, infile) == PutBack(m, n, h, Y, b) /\ (~infile => n.trans = m.trans)

\* mf_put, with its hypotheses in one predicate.
LEMMA MfPutAs ==
  ASSUME NEW m, NEW h, NEW X, MemInv(m, h, X), NEW b, InMemory(m, b), NEW dirty \in BOOLEAN,
         NEW Y, Settles(X, Y, b, dirty), NEW infile \in BOOLEAN,
         NEW n, n = mf_put(m, b, dirty, infile)
  PROVE  PutBackAs(m, n, h, Y, b, infile)
<1>1. \A c \in X : c \in Y \/ (c = b /\ dirty)
  BY DEF Settles
<1>2. QED
  BY <1>1, MfPut DEF PutBackAs

\* Block 1 is changed and put back.
Rewrote(m, n, h, X, data) ==
  /\ MemInv(n, With(h, 1, h[1].pages, data), X) /\ n.trans = m.trans
  /\ \A c : Holds(m, c) /\ c # 1 => Holds(n, c)

\* Block 1 put back dirty with new data.
LEMMA RootPut ==
  ASSUME NEW m, NEW h, NEW X, MemInv(m, h, X), 1 \in DOMAIN h, 1 \in DOMAIN m.used,
         m.used[1].b = 1, NEW data \in Blocks, NEW n, n = mf_put(WithData(m, 1, data), 1, TRUE, FALSE)
  PROVE  Rewrote(m, n, h, X, data)
<1> DEFINE o == WithData(m, 1, data)
           g == With(h, 1, h[1].pages, data)
<1>1. 1 \notin DOMAIN m.trans
  BY DEF MemInv, NumbersInv
<1>2. Edited(m, o, h, X, 1, data)
  BY <1>1, DataChanged
<1> HIDE DEF o
<1>3. /\ MemInv(o, g, X \cup {1}) /\ o.trans = m.trans /\ InMemory(o, 1)
      /\ \A c : Holds(m, c) => Holds(o, c)
  BY <1>2 DEF Edited
<1>4. n = mf_put(o, 1, TRUE, FALSE)
  BY DEF o
<1> HIDE DEF g
<1>5. PutBack(o, n, g, X, 1) /\ n.trans = o.trans
  <2>1. Settles(X \cup {1}, X, 1, TRUE)
    BY DEF Settles
  <2>2. PutBackAs(o, n, g, X, 1, FALSE)
    BY <1>3, <1>4, <2>1, MfPutAs
  <2>3. QED
    BY <2>2 DEF PutBackAs
<1>6. QED
  BY <1>3, <1>5 DEF PutBack, Rewrote, g

-----------------------------------------------------------------------------
(* ml_lineadd; the locked block is put back.                               *)

\* Entry i counts more lines.
CountsMore(h, g, i, add) ==
  \A k \in DOMAIN Ptrs(h) :
     Ptrs(g)[k].count = Ptrs(h)[k].count + (IF k = i THEN add ELSE 0)

\* The heap with a count of block 1 corrected.
LEMMA CorrectHeap ==
  ASSUME NEW h, Rooted(h), h \in Heaps(DOMAIN h), NEW i \in DOMAIN Ptrs(h), NEW add \in Int,
         NEW r, Corrects(h[1].data, r, i, Ptrs(h)[i].b, add),
         NEW g, g = With(h, 1, h[1].pages, r)
  PROVE  Rooted(g) /\ Recounted(h, g) /\ CountsMore(h, g, i, add)
<1>0. /\ 1 \in DOMAIN h /\ h[1].pages \in Nat \ {0} /\ r \in Blocks /\ r.id = h[1].data.id
      /\ Len(r.ptrs) = Len(Ptrs(h)) /\ DOMAIN r.ptrs = DOMAIN Ptrs(h)
      /\ r.ptrs[i].b = Ptrs(h)[i].b /\ r.ptrs[i].pages = Ptrs(h)[i].pages
      /\ r.ptrs[i].count = Ptrs(h)[i].count + add
      /\ \A k \in DOMAIN Ptrs(h) : k # i => r.ptrs[k] = Ptrs(h)[k]
  BY DEF Rooted, Corrects, Ptrs, Heaps
<1>1. Widened(h, g, 1, h[1].pages, r)
  BY <1>0, WithIs
<1>2. /\ DOMAIN g = DOMAIN h /\ g[1].pages = h[1].pages /\ g[1].data = r
      /\ \A x \in DOMAIN h : x # 1 => g[x] = h[x]
  BY <1>0, <1>1 DEF Widened
<1>3. Ptrs(g) = r.ptrs
  BY <1>2 DEF Ptrs
<1>4. \A k \in DOMAIN Ptrs(h) : r.ptrs[k].b = Ptrs(h)[k].b /\ r.ptrs[k].pages = Ptrs(h)[k].pages
  BY <1>0
<1>5. Recounted(h, g)
  BY <1>0, <1>2, <1>3, <1>4 DEF Recounted
<1>6. CountsMore(h, g, i, add)
  <2> SUFFICES ASSUME NEW k \in DOMAIN Ptrs(h)
               PROVE  r.ptrs[k].count = Ptrs(h)[k].count + (IF k = i THEN add ELSE 0)
    BY <1>3 DEF CountsMore
  <2>1. Ptrs(h) \in Seq(Entries)
    BY DEF Rooted
  <2>2. Ptrs(h)[k].count \in Int
    <3>1. Ptrs(h)[k] \in Entries
      BY <2>1
    <3>2. QED
      BY <3>1 DEF Entries
  <2>3. CASE k = i
    BY <1>0, <2>3
  <2>4. CASE k # i
    <3>1. r.ptrs[k] = Ptrs(h)[k]
      BY <1>0, <2>4
    <3>2. QED
      BY <2>2, <2>4, <3>1
  <2>5. QED
    BY <2>3, <2>4
<1>7. Rooted(g)
  <2>1. r.ptrs \in Seq(Entries)
    BY <1>0 DEF Blocks
  <2>2. ASSUME NEW k \in DOMAIN r.ptrs
        PROVE  /\ r.ptrs[k].b \in DOMAIN g /\ r.ptrs[k].b # 1
               /\ g[r.ptrs[k].b].data.lines \in Seq(LineNumbers)
    <3>1. k \in DOMAIN Ptrs(h) /\ r.ptrs[k].b = Ptrs(h)[k].b
      BY <1>0, <1>4
    <3>2. /\ Ptrs(h)[k].b \in DOMAIN h /\ Ptrs(h)[k].b # 1
          /\ h[Ptrs(h)[k].b].data.lines \in Seq(LineNumbers)
      BY <3>1 DEF Rooted
    <3>3. QED
      BY <1>2, <3>1, <3>2
  <2>3. 1 \in DOMAIN g /\ g[1].pages = 1 /\ g[1].data \in Blocks
    BY <1>0, <1>2 DEF Rooted
  <2>4. QED
    BY <1>3, <2>1, <2>2, <2>3 DEF Rooted
<1>8. QED
  BY <1>5, <1>6, <1>7

\* Block 1 is got.
RootGot(m, n, h, X) ==
  /\ Follows(m, n, h, X) /\ 1 \in DOMAIN n.used /\ n.used[1].b = 1 /\ Holds(n, 1)
  /\ n.used[1].data = h[1].data

\* mf_get of block 1 finds the root.
LEMMA GetRoot ==
  ASSUME NEW m, NEW h, NEW X, MemInv(m, h, X), Held(m, X), Rooted(h), NEW room,
         NEW r, r = mf_get(m, 1, 1, room)
  PROVE  r.ok /\ RootGot(m, r.m, h, X)
<1>1. 1 \in DOMAIN h /\ h[1].pages = 1 /\ 1 \notin DOMAIN m.trans
  BY DEF Rooted, MemInv, NumbersInv
<1>2. r.ok /\ Got(m, r.m, h, X, 1)
  <2>1. PICK b : b = 1
    OBVIOUS
  <2>2. PICK pages : pages = h[b].pages
    OBVIOUS
  <2>3. r = mf_get(m, b, pages, room)
    BY <1>1, <2>1, <2>2
  <2>4. b \in DOMAIN h /\ b \notin DOMAIN m.trans
    BY <1>1, <2>1
  <2>5. r.ok /\ Got(m, r.m, h, X, b)
    BY <2>2, <2>3, <2>4, MfGet
  <2>6. QED
    BY <2>1, <2>5
<1>3. QED
  BY <1>2 DEF Got, RootGot

\* Nothing is to be held.
LEMMA HeldNone ==
  ASSUME NEW m
  PROVE  Held(m, {})
BY DEF Held

\* In the invariant a block is in memory once.
LEMMA InvOnce ==
  ASSUME NEW m, NEW h, NEW X, MemInv(m, h, X)
  PROVE  MemTypes(m) /\ Once(m)
BY DEF MemInv, UsedInv, Once

\* Getting a block when the file is open and all numbers are positive.
LEMMA GetOpen ==
  ASSUME NEW m, NEW h, NEW X, MemInv(m, h, X), Held(m, X), NEW b, NEW pages, NEW room, Open(m),
         NEW r, r = mf_get(m, b, pages, room)
  PROVE  Open(r.m) /\ StaysClean(m, r.m, FALSE)
<1>1. m.fd
  BY DEF Open
<1>2. Calm(m, r.m)
  BY <1>1, GetCalm
<1>3. QED
  BY <1>2 DEF Calm, Open, StaysClean

\* Entry i of block 1 counts more lines, nothing else of the tree changes.
LineAdded(m, n, h, g, i, add) ==
  /\ MemInv(n, g, {}) /\ Rooted(g) /\ Recounted(h, g) /\ CountsMore(h, g, i, add)

\* ml_lineadd adds to the count of one entry of block 1 and does nothing else.
LEMMA LineAdd ==
  ASSUME NEW m, NEW h, MemInv(m, h, {}), Rooted(h), NEW i \in DOMAIN Ptrs(h), NEW add \in Int,
         NEW room, NEW n, n = ml_lineadd(m, i, add, room)
  PROVE  (\E g : LineAdded(m, n, h, g, i, add)) /\ (Open(m) => Open(n))
<1> DEFINE q == mf_get(m, 1, 1, room)
           root == h[1].data
           b == Ptrs(h)[i].b
           r == CorrectEntry(root, i, b, add)
           g == With(h, 1, h[1].pages, r)
<1>1. n = AddTo(q, i, add)
  BY DEF ml_lineadd
<1>2. q.ok /\ RootGot(m, q.m, h, {})
  BY HeldNone, GetRoot
<1>c. Open(m) => Open(q.m)
  BY HeldNone, GetOpen
<1> HIDE DEF q
<1>3. /\ MemInv(q.m, h, {}) /\ 1 \in DOMAIN q.m.used /\ q.m.used[1].b = 1
      /\ q.m.used[1].data = root
  BY <1>2 DEF RootGot, Follows
<1>4. n = mf_put(WithData(q.m, 1, r), 1, TRUE, FALSE)
  <2>1. n = mf_put([q.m EXCEPT !.used[1].data = CorrectEntry(@, i, @.ptrs[i].b, add)], 1, TRUE, FALSE)
    BY <1>1, <1>2 DEF AddTo
  <2>2. [q.m EXCEPT !.used[1].data = CorrectEntry(@, i, @.ptrs[i].b, add)]
          = [q.m EXCEPT !.used[1].data = CorrectEntry(q.m.used[1].data, i, q.m.used[1].data.ptrs[i].b, add)]
    OBVIOUS
  <2>3. QED
    BY <1>3, <2>1, <2>2 DEF WithData, Ptrs
<1>5. root \in Blocks /\ i \in DOMAIN root.ptrs /\ b \in Int /\ h \in Heaps(DOMAIN h) /\ 1 \in DOMAIN h
  BY DEF Rooted, Ptrs, Entries, MemInv
<1>6. Corrects(root, r, i, b, add)
  <2> HIDE DEF root, b
  <2>1. QED
    BY <1>5, CorrectIs
<1> HIDE DEF r
<1>7. r \in Blocks
  BY <1>6 DEF Corrects
<1>8. Rewrote(q.m, n, h, {}, r)
  BY <1>3, <1>4, <1>5, <1>7, RootPut
<1>9. Rooted(g) /\ Recounted(h, g) /\ CountsMore(h, g, i, add)
  BY <1>5, <1>6, CorrectHeap
<1>10. MemInv(n, g, {})
  BY <1>8 DEF Rewrote
<1> HIDE DEF g
<1>11. LineAdded(m, n, h, g, i, add)
  BY <1>9, <1>10 DEF LineAdded
<1>12. Open(m) => Open(n)
  <2> SUFFICES ASSUME Open(m) PROVE Open(n)
    OBVIOUS
  <2>1. MemTypes(q.m) /\ Once(q.m) /\ Open(q.m)
    BY <1>3, <1>c, InvOnce
  <2> HIDE DEF root
  <2>2. QED
    BY <1>3, <1>4, <1>7, <2>1, DataPutCalm
<1>13. QED
  BY <1>11, <1>12

-----------------------------------------------------------------------------
(* Flush.                                                                  *)

IsState(s) == s = [m |-> s.m, l |-> s.l, ok |-> s.ok] /\ s.ok \in BOOLEAN
\* What holds of a heap that may have a block the tree does not point at.
Half(s, h, i, d) ==
  /\ IsState(s) /\ MemInv(s.m, h, Pending(s.l)) /\ Rooted(h)
  /\ Counted(h, s.l, i, d) /\ LockedInv(s.m, h, s.l)

Flushed(s, f, h, g, i, d) ==
  /\ Half(f, g, i, d) /\ f.l = NotLocked /\ f.ok = s.ok /\ Recounted(h, g)

\* What the invariant says of the locked block: it is a data block, in memory, under its
\* name.
LEMMA LockedFacts ==
  ASSUME NEW s, NEW h, NEW i, NEW d, Half(s, h, i, d)
  PROVE  /\ s.l.at = 0 <=> s.l = NotLocked
         /\ s.l.at # 0 =>
              /\ s.l.at \in DOMAIN Ptrs(h) /\ s.l.b = Ptrs(h)[s.l.at].b /\ s.l.b \in DOMAIN h
              /\ s.l.b # 1 /\ Holds(s.m, s.l.b) /\ InMemory(s.m, s.l.b)
              /\ s.l \in [at : Nat \ {0}, b : Int, dirty : BOOLEAN, pos : BOOLEAN, add : Int]
         /\ Held(s.m, Pending(s.l))
<1>1. NotLocked.at = 0
  BY DEF NotLocked, Lock
<1>2. CASE s.l = NotLocked
  <2>1. Pending(s.l) = {}
    BY <1>1, <1>2 DEF Pending
  <2>2. QED
    BY <1>1, <1>2, <2>1, HeldNone
<1>3. CASE s.l # NotLocked
  <2>1. /\ s.l.at \in DOMAIN Ptrs(h) /\ s.l.b = Ptrs(h)[s.l.at].b
        /\ s.l \in [at : Nat \ {0}, b : Int, dirty : BOOLEAN, pos : BOOLEAN, add : Int]
        /\ s.l.b \notin DOMAIN s.m.trans
        /\ \E k \in DOMAIN s.m.used : s.m.used[k].b = s.l.b /\ s.m.used[k].locked
    BY <1>3 DEF Half, LockedInv, Ptrs
  <2>2. s.l.at # 0
    BY <2>1
  <2>3. s.l.b \in DOMAIN h /\ s.l.b # 1
    BY <2>1 DEF Half, Rooted
  <2>4. Holds(s.m, s.l.b) /\ InMemory(s.m, s.l.b)
    BY <2>1 DEF Holds, InMemory
  <2>5. Held(s.m, Pending(s.l))
    BY <2>4 DEF Held, Pending
  <2>6. QED
    BY <1>3, <2>1, <2>2, <2>3, <2>4, <2>5
<1>4. QED
  BY <1>2, <1>3

\* A heap is a recount of itself.
LEMMA RecountedSelf ==
  ASSUME NEW h
  PROVE  Recounted(h, h)
BY DEF Recounted

\* The facts about NotLocked.
LEMMA NothingLocked ==
  ASSUME NEW m, NEW h
  PROVE  LockedInv(m, h, NotLocked) /\ Pending(NotLocked) = {}
         /\ NotLocked.at = 0 /\ NotLocked.add = 0
BY DEF LockedInv, NotLocked, Lock, Pending

\* ml_find_line with ML_FLUSH gives the locked block back and its lines to block 1: the
\* counts stay right.
LEMMA FlushIs ==
  ASSUME NEW s, NEW h, NEW i, NEW d, Half(s, h, i, d), NEW room, NEW f, f = Flush(s, room)
  PROVE  \E g : Flushed(s, f, h, g, i, d)
<1>1. CASE s.l.at = 0
  <2>1. f = s /\ s.l = NotLocked
    BY <1>1, LockedFacts DEF Flush
  <2>2. Flushed(s, f, h, h, i, d)
    BY <2>1, RecountedSelf DEF Flushed
  <2>3. QED
    BY <2>2
<1>2. CASE s.l.at # 0
  <2> DEFINE l == s.l
             p == mf_put(s.m, l.b, l.dirty, l.pos)
             n == AddLines(p, l, room)
  <2>1. /\ l.at \in DOMAIN Ptrs(h) /\ l.b \in DOMAIN h /\ InMemory(s.m, l.b)
        /\ l.dirty \in BOOLEAN /\ l.pos \in BOOLEAN /\ l.add \in Int /\ l.b # 1
    BY <1>2, LockedFacts
  <2>2. MemInv(s.m, h, Pending(l)) /\ Rooted(h) /\ Counted(h, l, i, d) /\ IsState(s)
    BY DEF Half
  <2>3. Settles(Pending(l), {}, l.b, l.dirty)
    BY DEF Settles, Pending
  <2>4. f.m = n /\ f.l = NotLocked /\ f.ok = s.ok /\ IsState(f)
    BY <1>2, <2>2 DEF Flush, IsState
  <2>5. PutBackAs(s.m, p, h, {}, l.b, l.pos)
    <3> HIDE DEF l
    <3>1. p = mf_put(s.m, l.b, l.dirty, l.pos)
      OBVIOUS
    <3> HIDE DEF p
    <3>2. QED
      BY <2>1, <2>2, <2>3, <3>1, MfPutAs
  <2>6. MemInv(p, h, {})
    BY <2>5 DEF PutBackAs, PutBack
  <2> HIDE DEF p, l
  <2>7. \E g : MemInv(n, g, {}) /\ Rooted(g) /\ Recounted(h, g) /\ CountsMore(h, g, l.at, l.add)
    <3>1. CASE l.add = 0
      <4>1. n = p
        BY <3>1 DEF AddLines
      <4>2. CountsMore(h, h, l.at, l.add)
        <5> SUFFICES ASSUME NEW k \in DOMAIN Ptrs(h)
                     PROVE  Ptrs(h)[k].count = Ptrs(h)[k].count + (IF k = l.at THEN l.add ELSE 0)
          BY DEF CountsMore
        <5>1. Ptrs(h)[k] \in Entries
          BY <2>2 DEF Rooted
        <5>2. Ptrs(h)[k].count \in Int
          BY <5>1 DEF Entries
        <5>3. QED
          BY <3>1, <5>2
      <4>3. QED
        BY <2>2, <2>6, <4>1, <4>2, RecountedSelf
    <3>2. CASE l.add # 0
      <4>1. n = ml_lineadd(p, l.at, l.add, room)
        BY <3>2 DEF AddLines
      <4> HIDE DEF n
      <4>2. \E g : LineAdded(p, n, h, g, l.at, l.add)
        BY <2>1, <2>2, <2>6, <4>1, LineAdd
      <4>3. QED
        BY <4>2 DEF LineAdded
    <3>3. QED
      BY <3>1, <3>2
  <2>8. PICK g : MemInv(n, g, {}) /\ Rooted(g) /\ Recounted(h, g) /\ CountsMore(h, g, l.at, l.add)
    BY <2>7
  <2>9. Counted(g, NotLocked, i, d)
    <3> SUFFICES ASSUME NEW k \in DOMAIN Ptrs(g)
                 PROVE  Ptrs(g)[k].count + 0
                           = Len(g[Ptrs(g)[k].b].data.lines) + (IF k = i THEN d ELSE 0)
      BY NothingLocked DEF Counted, Ptrs
    <3>1. k \in DOMAIN Ptrs(h) /\ Ptrs(g)[k].b = Ptrs(h)[k].b
      BY <2>8 DEF Recounted
    <3>2. Ptrs(h)[k].b \in DOMAIN h /\ Ptrs(h)[k].b # 1
      BY <2>2, <3>1 DEF Rooted
    <3>3. g[Ptrs(h)[k].b] = h[Ptrs(h)[k].b]
      BY <2>8, <3>2 DEF Recounted
    <3>4. Ptrs(g)[k].count = Ptrs(h)[k].count + (IF k = l.at THEN l.add ELSE 0)
      BY <2>8, <3>1 DEF CountsMore
    <3>5. Ptrs(h)[k].count + (IF l.at = k THEN l.add ELSE 0)
            = Len(h[Ptrs(h)[k].b].data.lines) + (IF k = i THEN d ELSE 0)
      BY <2>2, <3>1 DEF Counted, Ptrs
    <3>6. Ptrs(g)[k].count \in Int
      <4>1. Ptrs(g)[k] \in Entries
        BY <2>8 DEF Rooted
      <4>2. QED
        BY <4>1 DEF Entries
    <3>7. Ptrs(g)[k].count = Len(h[Ptrs(h)[k].b].data.lines) + (IF k = i THEN d ELSE 0)
      BY <3>4, <3>5
    <3>8. QED
      BY <3>1, <3>3, <3>6, <3>7
  <2>10. Half(f, g, i, d)
    BY <2>4, <2>8, <2>9, NothingLocked DEF Half
  <2>11. QED
    BY <2>4, <2>8, <2>10 DEF Flushed
<1>3. QED
  BY <1>1, <1>2

\* Nothing is pending: the locked block is as it was and block 1 counts its lines.
Unchanged(l) == ~l.dirty /\ l.add = 0

\* Giving the locked block back when all numbers are positive.
LEMMA FlushCalm ==
  ASSUME NEW s, NEW h, NEW i, NEW d, Half(s, h, i, d), NEW room, Open(s.m),
         NEW f, f = Flush(s, room)
  PROVE  Open(f.m) /\ (NothingDirty(s.m) /\ Unchanged(s.l) => NothingDirty(f.m))
<1>1. CASE s.l.at = 0
  BY <1>1 DEF Flush
<1>2. CASE s.l.at # 0
  <2>1. PICK l : l = s.l
    OBVIOUS
  <2>2. PICK p : p = mf_put(s.m, l.b, l.dirty, l.pos)
    OBVIOUS
  <2>3. /\ l.at \in DOMAIN Ptrs(h) /\ l.b \in DOMAIN h /\ InMemory(s.m, l.b)
        /\ l.dirty \in BOOLEAN /\ l.pos \in BOOLEAN /\ l.add \in Int
    BY <1>2, <2>1, LockedFacts
  <2>4. MemInv(s.m, h, Pending(l)) /\ Rooted(h) /\ IsState(s)
    BY <2>1 DEF Half
  <2>5. f.m = AddLines(p, l, room)
    BY <1>2, <2>1, <2>2, <2>4 DEF Flush, IsState
  <2>6. Open(p) /\ StaysClean(s.m, p, l.dirty)
    BY <2>2, <2>3, <2>4, InvOnce, PutCalm
  <2>7. CASE l.add = 0
    BY <2>1, <2>5, <2>6, <2>7 DEF AddLines, StaysClean, Unchanged
  <2>8. CASE l.add # 0
    <3>1. Settles(Pending(l), {}, l.b, l.dirty)
      BY DEF Settles, Pending
    <3>2. MemInv(p, h, {})
      BY <2>2, <2>3, <2>4, <3>1, MfPutAs DEF PutBackAs, PutBack
    <3>3. f.m = ml_lineadd(p, l.at, l.add, room)
      BY <2>5, <2>8 DEF AddLines
    <3>4. Open(f.m)
      BY <2>3, <2>4, <2>6, <3>2, <3>3, LineAdd
    <3>5. QED
      BY <2>1, <2>8, <3>4 DEF Unchanged
  <2>9. QED
    BY <2>7, <2>8
<1>3. QED
  BY <1>1, <1>2

-----------------------------------------------------------------------------
(* ml_find_line: a pointer is followed, and corrected.                     *)

\* Putting the data a block has is doing nothing.
LEMMA SameData ==
  ASSUME NEW m, MemTypes(m), NEW i \in DOMAIN m.used, NEW data, data = m.used[i].data
  PROVE  WithData(m, i, data) = m
<1>1. m.used \in Seq(Headers) /\ m.used[i] \in Headers
  BY MemFields
<1>2. [m.used[i] EXCEPT !.data = data] = m.used[i]
  BY <1>1 DEF Headers
<1> DEFINE hp == m.used[i]
<1>3. [m.used EXCEPT ![i] = hp] = m.used
  BY <1>1
<1>4. [m EXCEPT !.used = m.used] = m
  BY DEF MemTypes
<1>5. WithData(m, i, data) = [m EXCEPT !.used = [m.used EXCEPT ![i] = [m.used[i] EXCEPT !.data = data]]]
  BY <1>1 DEF WithData, MemTypes
<1>6. QED
  BY <1>2, <1>3, <1>4, <1>5

\* Correcting an entry to what it is does nothing.
LEMMA SameEntry ==
  ASSUME NEW root \in Blocks, NEW i \in DOMAIN root.ptrs, NEW b, b = root.ptrs[i].b
  PROVE  CorrectEntry(root, i, b, 0) = root
<1>1. root.ptrs \in Seq(Entries) /\ root.ptrs[i] \in Entries
  BY DEF Blocks
<1> DEFINE e == root.ptrs[i]
<1>2. Entry(b, e.pages, e.count + 0, e.old) = e
  <2>1. e.count + 0 = e.count
    BY <1>1 DEF Entries
  <2>2. Entry(e.b, e.pages, e.count, e.old) = e
    BY <1>1 DEF Entries, Entry
  <2>3. QED
    BY <2>1, <2>2
<1>3. [root.ptrs EXCEPT ![i] = e] = root.ptrs
  BY <1>1
<1>4. [root EXCEPT !.ptrs = root.ptrs] = root
  BY DEF Blocks
<1>5. CorrectEntry(root, i, b, 0)
        = [root EXCEPT !.ptrs = [root.ptrs EXCEPT ![i] = Entry(b, e.pages, e.count + 0, e.old)]]
  BY DEF CorrectEntry, Blocks
<1>6. QED
  BY <1>2, <1>3, <1>4, <1>5

\* Tree with a name for the entries.
TreeOf(h, p) ==
  /\ {0, 1} \subseteq DOMAIN h /\ h[0].pages = 1 /\ h[1].pages = 1
  /\ h[0].data.id = "zero" /\ h[1].data.id = "ptr" /\ p # <<>>
  /\ DOMAIN h = {0, 1} \cup {p[i].b : i \in DOMAIN p}
  /\ \A i \in DOMAIN p :
        /\ p[i].b \notin {0, 1} /\ p[i].pages = h[p[i].b].pages
        /\ h[p[i].b].data.id = "data" /\ h[p[i].b].data.lines # <<>>
  /\ \A i, k \in DOMAIN p : p[i].b = p[k].b => i = k

\* The tree in terms of the entries of block 1.
LEMMA TreeIs ==
  ASSUME NEW h, NEW p, p = h[1].data.ptrs
  PROVE  Tree(h) = TreeOf(h, p)
BY DEF Tree, TreeOf

\* Entry i has number b for a, and counts more lines.
Renames(h, g, i, a, b, r, add) ==
  /\ DOMAIN g = (DOMAIN h \ {a}) \cup {b} /\ (b = a \/ b \notin DOMAIN h)
  /\ a = Ptrs(h)[i].b /\ i \in DOMAIN Ptrs(h) /\ b \in Int /\ add \in Int
  /\ g[b] = h[a] /\ g[1].pages = h[1].pages /\ g[1].data = r
  /\ \A x \in DOMAIN h : x # 1 /\ x # a => g[x] = h[x]
  /\ Corrects(h[1].data, r, i, b, add)
RenamedTree(h, g, i, b, add) ==
  /\ Tree(g) /\ Rooted(g) /\ Rows(g) = Rows(h) /\ Len(Ptrs(g)) = Len(Ptrs(h))
  /\ i \in DOMAIN Ptrs(g) /\ Ptrs(g)[i].b = b
  /\ \A k \in DOMAIN Ptrs(h) : k # i => Ptrs(g)[k].b = Ptrs(h)[k].b
  /\ \A k \in DOMAIN Ptrs(g) : Ptrs(g)[k].count = Ptrs(h)[k].count + (IF k = i THEN add ELSE 0)

\* Following a translation leaves the tree and its rows as they are.
LEMMA TreeRenamed ==
  ASSUME NEW h, NEW g, NEW i, NEW a, NEW b, NEW r, NEW add, Tree(h), Rooted(h),
         Renames(h, g, i, a, b, r, add)
  PROVE  RenamedTree(h, g, i, b, add)
<1> DEFINE p == Ptrs(h)
           q == r.ptrs
<1>0. /\ p \in Seq(Entries) /\ {0, 1} \subseteq DOMAIN h /\ h[0].pages = 1 /\ h[1].pages = 1
      /\ h[0].data.id = "zero" /\ h[1].data.id = "ptr" /\ p # <<>>
      /\ DOMAIN h = {0, 1} \cup {p[k].b : k \in DOMAIN p}
      /\ \A k \in DOMAIN p :
           /\ p[k].b \notin {0, 1} /\ p[k].b \in DOMAIN h /\ p[k].pages = h[p[k].b].pages
           /\ h[p[k].b].data.id = "data" /\ h[p[k].b].data.lines # <<>>
           /\ h[p[k].b].data.lines \in Seq(LineNumbers)
      /\ \A k, l \in DOMAIN p : p[k].b = p[l].b => k = l
  BY DEF Tree, Rooted, Ptrs
<1>1. /\ DOMAIN g = (DOMAIN h \ {a}) \cup {b} /\ (b = a \/ b \notin DOMAIN h)
      /\ a = p[i].b /\ i \in DOMAIN p /\ b \in Int /\ add \in Int
      /\ g[b] = h[a] /\ g[1].pages = h[1].pages /\ g[1].data = r
      /\ \A x \in DOMAIN h : x # 1 /\ x # a => g[x] = h[x]
  BY DEF Renames
<1>2. /\ r \in Blocks /\ r.id = h[1].data.id /\ Len(q) = Len(p) /\ DOMAIN q = DOMAIN p
      /\ q[i].b = b /\ q[i].pages = p[i].pages /\ q[i].count = p[i].count + add
      /\ \A k \in DOMAIN p : k # i => q[k] = p[k]
  BY DEF Renames, Corrects, Ptrs
<1>3. Ptrs(g) = q /\ q \in Seq(Entries)
  BY <1>1, <1>2 DEF Ptrs, Blocks
<1> HIDE DEF p, q
<1>4. a \notin {0, 1} /\ b \notin {0, 1} /\ a \in DOMAIN h
  BY <1>0, <1>1
<1>5. ASSUME NEW k \in DOMAIN p
      PROVE  /\ g[q[k].b] = h[p[k].b] /\ q[k].pages = p[k].pages /\ q[k].b \in DOMAIN g
             /\ q[k].b \notin {0, 1}
  <2>1. CASE k = i
    BY <1>1, <1>2, <1>4, <2>1
  <2>2. CASE k # i
    <3>1. q[k] = p[k] /\ p[k].b # a /\ p[k].b \in DOMAIN h /\ p[k].b \notin {0, 1}
      BY <1>0, <1>1, <1>2, <2>2
    <3>2. QED
      BY <1>1, <3>1
  <2>3. QED
    BY <2>1, <2>2
<1>6. DOMAIN g = {0, 1} \cup {q[k].b : k \in DOMAIN q}
  <2>1. ASSUME NEW x \in DOMAIN g PROVE x \in {0, 1} \cup {q[k].b : k \in DOMAIN q}
    <3>1. CASE x = b
      BY <1>1, <1>2, <3>1
    <3>2. CASE x # b
      <4>1. x \in DOMAIN h /\ x # a
        BY <1>1, <3>2
      <4>2. CASE x \in {0, 1}
        BY <4>2
      <4>3. CASE x \notin {0, 1}
        <5>1. PICK k \in DOMAIN p : x = p[k].b
          BY <1>0, <4>1, <4>3
        <5>2. k # i
          BY <1>1, <4>1, <5>1
        <5>3. QED
          BY <1>2, <5>1, <5>2
      <4>4. QED
        BY <4>2, <4>3
    <3>3. QED
      BY <3>1, <3>2
  <2>2. 0 \in DOMAIN g /\ 1 \in DOMAIN g
    BY <1>0, <1>1, <1>4
  <2>3. QED
    BY <1>2, <1>5, <2>1, <2>2
<1>7. g[0].pages = 1 /\ g[1].pages = 1 /\ g[0].data.id = "zero" /\ g[1].data.id = "ptr"
  <2>1. g[0] = h[0]
    BY <1>0, <1>1, <1>4
  <2>2. QED
    BY <1>0, <1>1, <1>2, <2>1
<1>8. q # <<>>
  <2>1. Len(p) # 0
    BY <1>0
  <2>2. QED
    BY <1>2, <1>3, <2>1
<1>9. \A k, l \in DOMAIN q : q[k].b = q[l].b => k = l
  <2> SUFFICES ASSUME NEW k \in DOMAIN q, NEW l \in DOMAIN q, q[k].b = q[l].b, k # l PROVE FALSE
    OBVIOUS
  <2>1. k \in DOMAIN p /\ l \in DOMAIN p /\ p[k].b \in DOMAIN h /\ p[l].b \in DOMAIN h
        /\ p[k].b # p[l].b
    BY <1>0, <1>2
  <2>2. CASE k = i
    BY <1>1, <1>2, <2>1, <2>2
  <2>3. CASE l = i
    BY <1>1, <1>2, <2>1, <2>3
  <2>4. CASE k # i /\ l # i
    BY <1>2, <2>1, <2>4
  <2>5. QED
    BY <2>2, <2>3, <2>4
<1>10. ASSUME NEW k \in DOMAIN q
       PROVE  /\ q[k].b \notin {0, 1} /\ q[k].pages = g[q[k].b].pages
              /\ g[q[k].b].data.id = "data" /\ g[q[k].b].data.lines # <<>>
              /\ g[q[k].b].data.lines \in Seq(LineNumbers) /\ q[k].b \in DOMAIN g
  <2>1. k \in DOMAIN p
    BY <1>2
  <2>2. g[q[k].b] = h[p[k].b] /\ q[k].pages = p[k].pages /\ q[k].b \notin {0, 1} /\ q[k].b \in DOMAIN g
    BY <1>5, <2>1
  <2>3. QED
    BY <1>0, <2>1, <2>2
<1>11. Tree(g)
  <2>1. {0, 1} \subseteq DOMAIN g
    BY <1>6
  <2>2. g[1].data.ptrs = q
    BY <1>3 DEF Ptrs
  <2>3. \A k \in DOMAIN q : /\ q[k].b \notin {0, 1} /\ q[k].pages = g[q[k].b].pages
                           /\ g[q[k].b].data.id = "data" /\ g[q[k].b].data.lines # <<>>
    BY <1>10
  <2>4. TreeOf(g, q)
    BY <1>6, <1>7, <1>8, <1>9, <2>1, <2>3 DEF TreeOf
  <2>5. QED
    BY <2>2, <2>4, TreeIs
<1>12. Rooted(g)
  <2>1. 1 \in DOMAIN g /\ g[1].data \in Blocks
    BY <1>1, <1>2, <1>6
  <2>2. \A k \in DOMAIN q : q[k].b \in DOMAIN g /\ q[k].b # 1 /\ g[q[k].b].data.lines \in Seq(LineNumbers)
    BY <1>10
  <2>3. QED
    BY <1>3, <1>7, <2>1, <2>2 DEF Rooted
<1>13. Rows(g) = Rows(h)
  <2>1. DOMAIN p = 1 .. Len(p) /\ Len(q) = Len(p)
    BY <1>0, <1>2
  <2>2. \A k \in 1 .. Len(p) : g[q[k].b].data.lines = h[p[k].b].data.lines
    BY <1>5, <2>1
  <2>3. Rows(h) = [k \in 1 .. Len(p) |-> h[p[k].b].data.lines]
    BY DEF Rows, p
  <2>4. Rows(g) = [k \in 1 .. Len(q) |-> g[q[k].b].data.lines]
    BY <1>3 DEF Rows
  <2>5. QED
    BY <2>1, <2>2, <2>3, <2>4
<1>14. \A k \in DOMAIN q : q[k].count = p[k].count + (IF k = i THEN add ELSE 0)
  <2> SUFFICES ASSUME NEW k \in DOMAIN q PROVE q[k].count = p[k].count + (IF k = i THEN add ELSE 0)
    OBVIOUS
  <2>1. CASE k = i
    BY <1>2, <2>1
  <2>2. CASE k # i
    <3>1. q[k] = p[k] /\ p[k] \in Entries
      BY <1>0, <1>2, <2>2
    <3>2. p[k].count \in Int
      BY <3>1 DEF Entries
    <3>3. QED
      BY <2>2, <3>1, <3>2
  <2>3. QED
    BY <2>1, <2>2
<1>15. QED
  BY <1>1, <1>2, <1>3, <1>11, <1>12, <1>13, <1>14 DEF RenamedTree, p

-----------------------------------------------------------------------------

\* Block a has b for a name in h1.
NameB(h, h1, a, b) ==
  /\ DOMAIN h1 = (DOMAIN h \ {a}) \cup {b} /\ (b = a \/ b \notin DOMAIN h)
  /\ h1[b] = h[a] /\ \A x \in DOMAIN h : x # a => h1[x] = h[x]
Unnamed(m, n, h, h1, a, b) ==
  /\ MemInv(n, h1, {}) /\ n.used = m.used /\ b \notin DOMAIN n.trans /\ b \in Int
  /\ NameB(h, h1, a, b)

\* mf_trans_del, with and without a translation.
LEMMA TransGone ==
  ASSUME NEW m, NEW h, MemInv(m, h, {}), NEW a \in DOMAIN h, NEW b, b = Translated(m, a),
         NEW n, n = mf_trans_del(m, a)
  PROVE  \E h1 : Unnamed(m, n, h, h1, a, b)
<1>0. h \in Heaps(DOMAIN h) /\ a \in Int
  BY DEF MemInv
<1>1. CASE a \in DOMAIN m.trans
  <2>1. b = m.trans[a]
    BY <1>1 DEF Translated
  <2>2. NewName(m, n, h, {}, a, b)
    <3>1. NewName(m, n, h, {}, a, m.trans[a])
      BY <1>1, TransDel
    <3>2. QED
      BY <2>1, <3>1
  <2>3. /\ b \in Nat /\ b \notin DOMAIN h /\ MemInv(n, Named(h, a, b), {}) /\ n.used = m.used
        /\ b \notin DOMAIN n.trans
    BY <2>2 DEF NewName
  <2>4. PICK h1 : h1 = Named(h, a, b)
    OBVIOUS
  <2>5. /\ DOMAIN h1 = (DOMAIN h \ {a}) \cup {b}
        /\ h1[b] = h[a] /\ \A x \in DOMAIN h : x # a => h1[x] = h[x]
    <3> HIDE <2>1
    <3>1. b \notin DOMAIN h
      BY <2>3
    <3>2. QED
      BY <2>4, <3>1 DEF Named
  <2>6. Unnamed(m, n, h, h1, a, b)
    BY <2>3, <2>4, <2>5 DEF Unnamed, NameB
  <2>7. QED
    BY <2>6
<1>2. CASE a \notin DOMAIN m.trans
  <2>1. b = a /\ n = m
    BY <1>2 DEF Translated, mf_trans_del
  <2>2. Unnamed(m, n, h, h, a, b)
    BY <1>0, <1>2, <2>1 DEF Unnamed, NameB
  <2>3. QED
    BY <2>2
<1>3. QED
  BY <1>1, <1>2

\* The pointer is corrected.
RootIn(m, h) ==
  /\ 1 \in DOMAIN m.used /\ m.used[1].b = 1 /\ m.used[1].data = h[1].data
CorrectedAs(n, h, g, i, a, b, r, add) ==
  /\ MemInv(n, g, {}) /\ Renames(h, g, i, a, b, r, add) /\ b \notin DOMAIN n.trans

\* What ml_find_line does to block 1 on its way: the entry has the block's positive
\* number and the count of the line about to be inserted or deleted.
LEMMA CorrectedIs ==
  ASSUME NEW m, NEW h, MemInv(m, h, {}), Rooted(h), NEW i \in DOMAIN Ptrs(h), RootIn(m, h),
         NEW pe, pe = Ptrs(h)[i], NEW b, b = Translated(m, pe.b), NEW add \in Int,
         NEW n, n = Corrected(m, pe, i, b, add)
  PROVE  /\ \E g, r : CorrectedAs(n, h, g, i, pe.b, b, r, add)
         /\ Open(m) => Open(n) /\ StaysClean(m, n, b # pe.b \/ add # 0)
<1> DEFINE a == pe.b
           t == mf_trans_del(m, a)
           root == h[1].data
           r == CorrectEntry(root, i, b, add)
           dirty == b # a \/ add # 0
<1>0. /\ a \in DOMAIN h /\ a # 1 /\ root \in Blocks /\ i \in DOMAIN root.ptrs /\ a = root.ptrs[i].b
      /\ 1 \in DOMAIN h /\ h[1].pages = 1
  BY DEF Rooted, Ptrs
<1>1. PICK h1 : Unnamed(m, t, h, h1, a, b)
  BY <1>0, TransGone
<1>2. /\ MemInv(t, h1, {}) /\ t.used = m.used /\ b \notin DOMAIN t.trans /\ b \in Int
      /\ DOMAIN h1 = (DOMAIN h \ {a}) \cup {b} /\ (b = a \/ b \notin DOMAIN h)
      /\ h1[b] = h[a] /\ \A x \in DOMAIN h : x # a => h1[x] = h[x]
  BY <1>1 DEF Unnamed, NameB
<1> HIDE DEF t
<1>3. 1 \in DOMAIN h1 /\ h1[1] = h[1] /\ b # 1
  BY <1>0, <1>2
<1>4. n = mf_put(WithData(t, 1, r), 1, dirty, FALSE)
  <2>1. n = mf_put([t EXCEPT !.used[1].data = CorrectEntry(@, i, b, add)], 1, dirty, FALSE)
    BY DEF Corrected, t
  <2>2. [t EXCEPT !.used[1].data = CorrectEntry(@, i, b, add)]
          = [t EXCEPT !.used[1].data = CorrectEntry(t.used[1].data, i, b, add)]
    OBVIOUS
  <2>3. t.used[1].data = root
    BY <1>2 DEF RootIn
  <2> HIDE DEF root, dirty
  <2>4. QED
    BY <2>1, <2>2, <2>3 DEF WithData
<1>5. Corrects(root, r, i, b, add)
  <2> HIDE DEF root, a
  <2>1. QED
    BY <1>0, <1>2, CorrectIs
<1>6. r \in Blocks
  BY <1>5 DEF Corrects
<1>7. 1 \in DOMAIN t.used /\ t.used[1].b = 1 /\ t.used[1].data = root
  BY <1>2 DEF RootIn
<1>c. Open(m) => Open(n) /\ StaysClean(m, n, b # pe.b \/ add # 0)
  <2> SUFFICES ASSUME Open(m) PROVE Open(n) /\ StaysClean(m, n, b # pe.b \/ add # 0)
    OBVIOUS
  <2>1. t.fd = m.fd /\ t.used = m.used
    <3>1. MemTypes(m)
      BY DEF MemInv
    <3>2. t.fd = m.fd
      BY <3>1 DEF MemTypes, mf_trans_del, t
    <3>3. QED
      BY <1>2, <3>2
  <2>2. Open(t) /\ (NothingDirty(m) => NothingDirty(t))
    BY <2>1 DEF Open, Numbered, NothingDirty
  <2>3. MemTypes(t) /\ Once(t)
    BY <1>2, InvOnce
  <2>4. dirty \in BOOLEAN
    OBVIOUS
  <2> HIDE DEF dirty, r, root
  <2>5. Open(n) /\ StaysClean(t, n, dirty)
    BY <1>4, <1>6, <1>7, <2>2, <2>3, <2>4, DataPutCalm
  <2>6. QED
    BY <2>2, <2>5 DEF StaysClean, dirty
<1>8. ASSUME dirty
      PROVE  \E g, q : CorrectedAs(n, h, g, i, pe.b, b, q, add)
  <2> HIDE DEF r
  <2>1. n = mf_put(WithData(t, 1, r), 1, TRUE, FALSE)
    <3>1. dirty = TRUE
      BY <1>8
    <3> HIDE DEF dirty
    <3>2. QED
      BY <1>4, <3>1
  <2>2. Rewrote(t, n, h1, {}, r)
    BY <1>2, <1>3, <1>6, <1>7, <2>1, RootPut
  <2>3. PICK g : g = With(h1, 1, h1[1].pages, r)
    OBVIOUS
  <2>4. MemInv(n, g, {}) /\ n.trans = t.trans
    BY <2>2, <2>3 DEF Rewrote
  <2>5. Widened(h1, g, 1, h1[1].pages, r)
    <3>1. h1 \in Heaps(DOMAIN h1) /\ h1[1].pages \in Nat \ {0}
      BY <1>0, <1>2, <1>3, SMTT(30) DEF MemInv
    <3>2. QED
      BY <1>6, <2>3, <3>1, WithIs
  <2>6. /\ DOMAIN g = DOMAIN h1 /\ g[1].pages = h1[1].pages /\ g[1].data = r
        /\ \A x \in DOMAIN h1 : x # 1 => g[x] = h1[x]
    BY <1>3, <2>5 DEF Widened
  <2>7. g[b] = h[a] /\ \A x \in DOMAIN h : x # 1 /\ x # a => g[x] = h[x]
    BY <1>2, <1>3, <2>6
  <2>8. Renames(h, g, i, a, b, r, add)
    BY <1>2, <1>3, <1>5, <2>6, <2>7 DEF Renames
  <2>9. QED
    BY <1>2, <2>4, <2>8 DEF CorrectedAs
<1>9. ASSUME ~dirty
      PROVE  \E g, q : CorrectedAs(n, h, g, i, pe.b, b, q, add)
  <2>1. b = a /\ add = 0
    BY <1>9
  <2>2. r = root
    <3>1. CorrectEntry(root, i, b, 0) = root
      <4> HIDE DEF root, a
      <4>1. QED
        BY <1>0, <2>1, SameEntry
    <3>2. QED
      BY <2>1, <3>1
  <2> HIDE DEF r
  <2>3. WithData(t, 1, r) = t
    BY <1>2, <1>7, <2>2, SameData DEF MemInv
  <2>4. n = mf_put(t, 1, FALSE, FALSE)
    <3>1. dirty = FALSE
      BY <1>9
    <3> HIDE DEF dirty
    <3>2. QED
      BY <1>4, <2>3, <3>1
  <2>5. PutBackAs(t, n, h1, {}, 1, FALSE)
    <3>1. Settles({}, {}, 1, FALSE)
      BY DEF Settles
    <3>2. InMemory(t, 1)
      BY <1>7 DEF InMemory
    <3>3. QED
      BY <1>2, <2>4, <3>1, <3>2, MfPutAs
  <2>6. MemInv(n, h1, {}) /\ n.trans = t.trans
    BY <2>5 DEF PutBackAs, PutBack
  <2>7. Renames(h, h1, i, a, b, r, add)
    BY <1>2, <1>3, <1>5, <2>2 DEF Renames
  <2>8. QED
    BY <1>2, <2>6, <2>7 DEF CorrectedAs
<1>10. QED
  BY <1>c, <1>8, <1>9

-----------------------------------------------------------------------------
Buf(s, h, i, d) == Half(s, h, i, d) /\ Tree(h)
Found(f, h, g, i, add) ==
  /\ Buf(f, g, i, add) /\ f.ok /\ f.l.at = i /\ Rows(g) = Rows(h) /\ Len(Ptrs(g)) = Len(Ptrs(h))
  /\ \A k \in DOMAIN Ptrs(h) : k # i => Ptrs(g)[k].b = Ptrs(h)[k].b

\* The block is locked already.
LEMMA FoundLocked ==
  ASSUME NEW s, NEW h, Buf(s, h, 0, 0), s.ok, NEW i \in DOMAIN Ptrs(h), NEW add \in Int,
         s.l.at = i, NEW f, f = [s EXCEPT !.l.add = @ + add]
  PROVE  Found(f, h, h, i, add)
<1>0. /\ IsState(s) /\ MemInv(s.m, h, Pending(s.l)) /\ Rooted(h) /\ Counted(h, s.l, 0, 0)
      /\ LockedInv(s.m, h, s.l) /\ Tree(h)
  BY DEF Buf, Half
<1>1. Ptrs(h) \in Seq(Entries) /\ i # 0
  BY <1>0 DEF Rooted
<1>2. s.l \in [at : Nat \ {0}, b : Int, dirty : BOOLEAN, pos : BOOLEAN, add : Int]
  BY <1>1, LockedFacts DEF Buf
<1>3. f.m = s.m /\ f.ok = s.ok /\ f.l = [s.l EXCEPT !.add = s.l.add + add] /\ IsState(f)
  BY <1>0 DEF IsState
<1>4. /\ f.l.at = i /\ f.l.b = s.l.b /\ f.l.dirty = s.l.dirty /\ f.l.add = s.l.add + add
      /\ f.l \in [at : Nat \ {0}, b : Int, dirty : BOOLEAN, pos : BOOLEAN, add : Int]
      /\ s.l.add \in Int
  BY <1>2, <1>3
<1>5. Pending(f.l) = Pending(s.l)
  BY <1>4 DEF Pending
<1>6. LockedInv(f.m, h, f.l)
  <2>1. s.l # NotLocked
    BY <1>1, NothingLocked
  <2>2. QED
    BY <1>0, <1>3, <1>4, <2>1 DEF LockedInv
<1>7. Counted(h, f.l, i, add)
  <2> SUFFICES ASSUME NEW k \in DOMAIN Ptrs(h)
               PROVE  Ptrs(h)[k].count + (IF f.l.at = k THEN f.l.add ELSE 0)
                        = Len(h[Ptrs(h)[k].b].data.lines) + (IF k = i THEN add ELSE 0)
    BY DEF Counted, Ptrs
  <2>1. Ptrs(h)[k].count + (IF s.l.at = k THEN s.l.add ELSE 0)
          = Len(h[Ptrs(h)[k].b].data.lines) + (IF k = 0 THEN 0 ELSE 0)
    BY <1>0 DEF Counted, Ptrs
  <2>2. Ptrs(h)[k] \in Entries /\ h[Ptrs(h)[k].b].data.lines \in Seq(LineNumbers)
    BY <1>0 DEF Rooted
  <2>3. Ptrs(h)[k].count \in Int /\ Len(h[Ptrs(h)[k].b].data.lines) \in Nat
    BY <2>2 DEF Entries
  <2>4. QED
    BY <1>4, <2>1, <2>3
<1>8. QED
  BY <1>0, <1>3, <1>4, <1>5, <1>6, <1>7 DEF Found, Buf, Half

\* The block is got, at the end.
LocksAs(t, h, i, add) == Buf(t, h, i, add) /\ t.ok /\ t.l.at = i

\* mf_get of the data block and locking it.
LEMMA LocksIs ==
  ASSUME NEW f, IsState(f), NEW m, NEW h, MemInv(m, h, {}), Rooted(h), Tree(h),
         NEW i \in DOMAIN Ptrs(h), NEW b, b = Ptrs(h)[i].b, b \notin DOMAIN m.trans,
         NEW pages, pages = h[b].pages, NEW add \in Int, NEW room,
         Counted(h, NotLocked, i, add), f.ok,
         NEW t, t = Locks(f, mf_get(m, b, pages, room), i, b, add, room)
  PROVE  /\ LocksAs(t, h, i, add) /\ Unchanged(t.l)
         /\ Open(m) => Open(t.m) /\ StaysClean(m, t.m, FALSE)
<1> DEFINE q == mf_get(m, b, pages, room)
           l == Lock(i, b)
<1>0. b \in DOMAIN h /\ Ptrs(h) \in Seq(Entries) /\ h[b].data.id = "data"
  BY DEF Rooted, Tree, Ptrs
<1>1. q.ok /\ Got(m, q.m, h, {}, b)
  BY <1>0, HeldNone, MfGet
<1>c. Open(m) => Open(q.m) /\ StaysClean(m, q.m, FALSE)
  BY HeldNone, GetOpen
<1> HIDE DEF q
<1>2. MemInv(q.m, h, {}) /\ Holds(q.m, b) /\ q.m.used[1].data = h[b].data
  BY <1>1 DEF Got, Follows
<1>3. t = [f EXCEPT !.m = q.m, !.l = l]
  BY <1>0, <1>1, <1>2 DEF Locks, q
<1>4. t.m = q.m /\ t.l = l /\ t.ok = f.ok /\ IsState(t)
  BY <1>3 DEF IsState
<1>5. /\ l.at = i /\ l.b = b /\ l.dirty = FALSE /\ l.add = 0
      /\ l \in [at : Nat \ {0}, b : Int, dirty : BOOLEAN, pos : BOOLEAN, add : Int]
  <2>1. i \in Nat \ {0} /\ b \in Int
    <3>1. Ptrs(h)[i] \in Entries
      BY <1>0
    <3>2. QED
      BY <1>0, <3>1 DEF Entries
  <2>2. QED
    BY <2>1 DEF Lock
<1> HIDE DEF l
<1>6. Pending(l) = {}
  BY <1>5 DEF Pending
<1>7. LockedInv(q.m, h, l)
  BY <1>2, <1>5 DEF LockedInv, Holds, Ptrs
<1>8. Counted(h, l, i, add)
  <2> SUFFICES ASSUME NEW k \in DOMAIN Ptrs(h)
               PROVE  Ptrs(h)[k].count + (IF l.at = k THEN l.add ELSE 0)
                        = Len(h[Ptrs(h)[k].b].data.lines) + (IF k = i THEN add ELSE 0)
    BY DEF Counted, Ptrs
  <2>1. Ptrs(h)[k].count + (IF NotLocked.at = k THEN NotLocked.add ELSE 0)
          = Len(h[Ptrs(h)[k].b].data.lines) + (IF k = i THEN add ELSE 0)
    BY DEF Counted, Ptrs
  <2>2. (IF NotLocked.at = k THEN NotLocked.add ELSE 0) = 0
    BY NothingLocked
  <2>3. (IF l.at = k THEN l.add ELSE 0) = 0
    BY <1>5
  <2>4. QED
    BY <2>1, <2>2, <2>3
<1>9. LocksAs(t, h, i, add)
  BY <1>2, <1>4, <1>5, <1>6, <1>7, <1>8 DEF Buf, Half, LocksAs
<1>10. Unchanged(t.l)
  BY <1>4, <1>5 DEF Unchanged
<1>11. QED
  BY <1>c, <1>4, <1>9, <1>10

\* What ml_find_line does to a whole swap file: nothing has to be written.
StaysWhole(s, f) ==
  /\ Open(f.m)
  /\ NothingDirty(s.m) /\ s.m.neg_count = 0 /\ Unchanged(s.l) => NothingDirty(f.m) /\ Unchanged(f.l)

\* ml_find_line: the block of the line is locked, and the text is the one it was.
LEMMA FindLine ==
  ASSUME NEW s, NEW h, Buf(s, h, 0, 0), s.ok, NEW i \in DOMAIN Ptrs(h), NEW add \in Int,
         NEW room, NEW f, f = ml_find_line(s, i, add, room)
  PROVE  (\E g : Found(f, h, g, i, add)) /\ (Open(s.m) /\ add = 0 => StaysWhole(s, f))
<1>1. CASE s.l.at = i
  <2>1. f = [s EXCEPT !.l.add = @ + add]
    BY <1>1 DEF ml_find_line
  <2>2. Found(f, h, h, i, add)
    BY <1>1, <2>1, FoundLocked
  <2>3. ASSUME Open(s.m), add = 0
        PROVE  StaysWhole(s, f)
    <3>1. IsState(s) /\ Half(s, h, 0, 0) /\ Rooted(h)
      BY DEF Buf, Half
    <3>2. s.l.at # 0
      BY <1>1, <3>1 DEF Rooted
    <3>3. s.l \in [at : Nat \ {0}, b : Int, dirty : BOOLEAN, pos : BOOLEAN, add : Int]
      BY <3>1, <3>2, LockedFacts
    <3>4. f.m = s.m /\ f.l = [s.l EXCEPT !.add = s.l.add + 0]
      BY <2>1, <2>3, <3>1 DEF IsState
    <3>5. f.l.dirty = s.l.dirty /\ f.l.add = s.l.add
      BY <3>3, <3>4
    <3>6. QED
      BY <2>3, <3>4, <3>5 DEF StaysWhole, Unchanged
  <2>4. QED
    BY <2>2, <2>3
<1>2. CASE s.l.at # i
  <2> DEFINE e == Flush(s, room)
             q == mf_get(e.m, 1, 1, room)
  <2>1. PICK h1 : Flushed(s, e, h, h1, 0, 0)
    <3>1. Half(s, h, 0, 0)
      BY DEF Buf
    <3> HIDE DEF e
    <3>2. e = Flush(s, room)
      BY DEF e
    <3>3. QED
      BY <3>1, <3>2, FlushIs
  <2>2. f = FollowFromRoot(e, i, add, room)
    BY <1>2 DEF ml_find_line
  <2>c. Open(s.m) => Open(e.m) /\ (NothingDirty(s.m) /\ Unchanged(s.l) => NothingDirty(e.m))
    <3>1. Half(s, h, 0, 0)
      BY DEF Buf
    <3> HIDE DEF e
    <3>2. e = Flush(s, room)
      BY DEF e
    <3>3. QED
      BY <3>1, <3>2, FlushCalm
  <2> HIDE DEF e
  <2>3. Half(e, h1, 0, 0) /\ e.l = NotLocked /\ e.ok /\ Recounted(h, h1)
    BY <2>1 DEF Flushed
  <2>4. MemInv(e.m, h1, {}) /\ Rooted(h1) /\ Counted(h1, NotLocked, 0, 0) /\ IsState(e)
    BY <2>3, NothingLocked DEF Half
  <2>5. Tree(h1) /\ Rows(h1) = Rows(h) /\ Len(Ptrs(h1)) = Len(Ptrs(h)) /\ i \in DOMAIN Ptrs(h1)
    <3>1. Tree(h) /\ Rooted(h)
      BY DEF Buf, Half
    <3>2. QED
      BY <2>3, <2>4, <3>1, RecountedTree DEF Recounted
  <2>6. f = Follow(e, q, i, add, room)
    BY <2>2 DEF FollowFromRoot
  <2>7. q.ok /\ RootGot(e.m, q.m, h1, {})
    BY <2>4, HeldNone, GetRoot
  <2>d. Open(e.m) => Open(q.m) /\ StaysClean(e.m, q.m, FALSE)
    BY <2>4, HeldNone, GetOpen
  <2> HIDE DEF q
  <2>8. MemInv(q.m, h1, {}) /\ RootIn(q.m, h1)
    BY <2>7 DEF RootGot, Follows, RootIn
  <2> DEFINE pe == Ptrs(h1)[i]
             b == Translated(q.m, pe.b)
             n == Corrected(q.m, pe, i, b, add)
  <2>9. f = Locks(e, mf_get(n, b, pe.pages, room), i, b, add, room)
    <3>1. q.m.used[1].data.ptrs[i] = pe
      BY <2>8 DEF RootIn, Ptrs
    <3>2. QED
      BY <2>6, <2>7, <3>1 DEF Follow
  <2>e. /\ \E g, r : CorrectedAs(n, h1, g, i, pe.b, b, r, add)
        /\ Open(q.m) => Open(n) /\ StaysClean(q.m, n, b # pe.b \/ add # 0)
    <3> HIDE DEF pe, b, n
    <3>1. pe = Ptrs(h1)[i] /\ b = Translated(q.m, pe.b) /\ n = Corrected(q.m, pe, i, b, add)
      BY DEF pe, b, n
    <3>2. QED
      BY <2>4, <2>5, <2>8, <3>1, CorrectedIs
  <2>10. PICK g, r : CorrectedAs(n, h1, g, i, pe.b, b, r, add)
    <3> HIDE DEF pe, b, n
    <3>1. QED
      BY <2>e
  <2>f. s.m.neg_count = 0 => b = pe.b
    <3> SUFFICES ASSUME s.m.neg_count = 0 PROVE b = pe.b
      OBVIOUS
    <3>1. MemInv(s.m, h, Pending(s.l)) /\ Rooted(h)
      BY DEF Buf, Half
    <3>2. i \in DOMAIN Ptrs(h) /\ Ptrs(h)[i].b \in DOMAIN h /\ pe.b = Ptrs(h)[i].b
      BY <2>3, <3>1 DEF Rooted, Recounted
    <3>3. pe.b >= 0
      BY <3>1, <3>2, NoneNegative
    <3>4. pe.b \in DOMAIN h1
      BY <2>4, <2>5 DEF Rooted
    <3> HIDE DEF pe
    <3>5. QED
      BY <2>8, <3>3, <3>4, NameFacts
  <2> HIDE DEF n, b
  <2>11. MemInv(n, g, {}) /\ Renames(h1, g, i, pe.b, b, r, add) /\ b \notin DOMAIN n.trans
    BY <2>10 DEF CorrectedAs
  <2>12. RenamedTree(h1, g, i, b, add)
    BY <2>4, <2>5, <2>11, TreeRenamed
  <2>13. /\ Tree(g) /\ Rooted(g) /\ Rows(g) = Rows(h) /\ Len(Ptrs(g)) = Len(Ptrs(h))
         /\ i \in DOMAIN Ptrs(g) /\ b = Ptrs(g)[i].b
    BY <2>5, <2>12 DEF RenamedTree
  <2>14. pe.pages = g[b].pages
    <3>1. g[b] = h1[pe.b]
      BY <2>11 DEF Renames
    <3>2. pe.pages = h1[pe.b].pages
      BY <2>5 DEF Tree, Ptrs
    <3>3. QED
      BY <3>1, <3>2
  <2>15. Counted(g, NotLocked, i, add)
    <3> SUFFICES ASSUME NEW k \in DOMAIN Ptrs(g)
                 PROVE  Ptrs(g)[k].count + (IF NotLocked.at = k THEN NotLocked.add ELSE 0)
                          = Len(g[Ptrs(g)[k].b].data.lines) + (IF k = i THEN add ELSE 0)
      BY DEF Counted, Ptrs
    <3>1. Ptrs(g) \in Seq(Entries) /\ Ptrs(h1) \in Seq(Entries) /\ Len(Ptrs(g)) = Len(Ptrs(h1))
      BY <2>4, <2>5, <2>13 DEF Rooted
    <3>2. k \in DOMAIN Ptrs(h1) /\ k \in 1 .. Len(Ptrs(h1)) /\ k \in 1 .. Len(Ptrs(g))
      BY <3>1
    <3>3. Ptrs(h1)[k].count + (IF NotLocked.at = k THEN NotLocked.add ELSE 0)
            = Len(h1[Ptrs(h1)[k].b].data.lines) + (IF k = 0 THEN 0 ELSE 0)
      BY <2>4, <3>2 DEF Counted, Ptrs
    <3>4. Ptrs(g)[k].count = Ptrs(h1)[k].count + (IF k = i THEN add ELSE 0)
      BY <2>12 DEF RenamedTree
    <3>5. Rows(g)[k] = Rows(h1)[k]
      BY <2>5, <2>13
    <3>6. Rows(g)[k] = g[Ptrs(g)[k].b].data.lines /\ Rows(h1)[k] = h1[Ptrs(h1)[k].b].data.lines
      BY <3>2 DEF Rows
    <3>7. Ptrs(h1)[k].count \in Int
      <4>1. Ptrs(h1)[k] \in Entries
        BY <3>1, <3>2
      <4>2. QED
        BY <4>1 DEF Entries
    <3>8. Len(g[Ptrs(g)[k].b].data.lines) = Len(h1[Ptrs(h1)[k].b].data.lines)
      BY <3>5, <3>6
    <3>9. (IF NotLocked.at = k THEN NotLocked.add ELSE 0) = 0
      BY NothingLocked
    <3>10. Ptrs(h1)[k].count = Len(h1[Ptrs(h1)[k].b].data.lines)
      BY <3>3, <3>7, <3>9
    <3>11. Ptrs(g)[k].count = Len(g[Ptrs(g)[k].b].data.lines) + (IF k = i THEN add ELSE 0)
      BY <3>4, <3>8, <3>10
    <3>12. Ptrs(g)[k].count \in Int
      <4>1. Ptrs(g)[k] \in Entries
        BY <3>1, <3>2
      <4>2. QED
        BY <4>1 DEF Entries
    <3>13. Ptrs(g)[k].count + 0 = Ptrs(g)[k].count
      BY <3>12
    <3>14. QED
      BY <3>9, <3>11, <3>13
  <2>16. /\ Buf(f, g, i, add) /\ f.ok /\ f.l.at = i /\ Unchanged(f.l)
         /\ Open(n) => Open(f.m) /\ StaysClean(n, f.m, FALSE)
    <3> DEFINE pages == pe.pages
    <3>1. f = Locks(e, mf_get(n, b, pages, room), i, b, add, room) /\ pages = g[b].pages
      BY <2>9, <2>14
    <3> HIDE DEF pages
    <3>2. b \notin DOMAIN n.trans /\ b = Ptrs(g)[i].b /\ MemInv(n, g, {}) /\ e.ok /\ IsState(e)
      BY <2>3, <2>4, <2>11, <2>13
    <3>3. /\ LocksAs(f, g, i, add) /\ Unchanged(f.l)
          /\ Open(n) => Open(f.m) /\ StaysClean(n, f.m, FALSE)
      BY <2>13, <2>15, <3>1, <3>2, LocksIs
    <3>4. QED
      BY <3>3 DEF LocksAs
  <2>17. \A k \in DOMAIN Ptrs(h) : k # i => Ptrs(g)[k].b = Ptrs(h)[k].b
    BY <2>3, <2>12 DEF Recounted, RenamedTree
  <2>18. Found(f, h, g, i, add)
    BY <2>13, <2>16, <2>17 DEF Found
  <2>19. ASSUME Open(s.m), add = 0
         PROVE  StaysWhole(s, f)
    <3>1. Open(e.m) /\ Open(q.m) /\ Open(n) /\ Open(f.m)
      BY <2>19, <2>c, <2>d, <2>e, <2>16
    <3>2. ASSUME NothingDirty(s.m), s.m.neg_count = 0, Unchanged(s.l)
          PROVE  NothingDirty(f.m)
      <4>1. NothingDirty(e.m) /\ b = pe.b
        BY <2>19, <3>2, <2>c, <2>f
      <4>2. NothingDirty(q.m)
        BY <2>d, <3>1, <4>1 DEF StaysClean
      <4>3. NothingDirty(n)
        BY <2>19, <2>e, <3>1, <4>1, <4>2 DEF StaysClean
      <4>4. QED
        BY <2>16, <3>1, <4>3 DEF StaysClean
    <3>3. QED
      BY <2>16, <3>1, <3>2 DEF StaysWhole
  <2>20. QED
    BY <2>18, <2>19
<1>3. QED
  BY <1>1, <1>2

-----------------------------------------------------------------------------
(* The lines of the locked block.                                          *)

HeldLocks == [at : Nat \ {0}, b : Int, dirty : BOOLEAN, pos : BOOLEAN, add : Int]
LockedAt(f, g, j) ==
  /\ j \in DOMAIN f.m.used /\ f.m.used[j].b = f.l.b
  /\ f.m.used[j].data = g[f.l.b].data /\ f.m.used[j].pages = g[f.l.b].pages

\* The lines of the locked block are the row of its entry.
LEMMA LockedIs ==
  ASSUME NEW f, NEW g, NEW i, NEW d, Half(f, g, i, d), f.l.at # 0
  PROVE  /\ LockedAt(f, g, Position(f.m, f.l.b)) /\ LockedLines(f) = Rows(g)[f.l.at]
         /\ LockedLines(f) = g[f.l.b].data.lines /\ LockedLines(f) \in Seq(LineNumbers)
         /\ g[f.l.b].pages \in Nat \ {0}
<1> DEFINE m == f.m
           b == f.l.b
           j == Position(m, b)
<1>0. MemInv(m, g, Pending(f.l)) /\ Rooted(g)
  BY DEF Half
<1>1. /\ f.l.at \in DOMAIN Ptrs(g) /\ b = Ptrs(g)[f.l.at].b /\ b \in DOMAIN g
      /\ Holds(m, b) /\ InMemory(m, b)
  BY LockedFacts
<1> HIDE DEF m, b
<1>2. j \in DOMAIN m.used /\ m.used[j].b = b
  <2>1. \A k, l \in DOMAIN m.used : m.used[k].b = m.used[l].b => k = l
    BY <1>0 DEF MemInv, UsedInv
  <2>2. QED
    BY <1>1, <2>1, PositionIn
<1>3. Translated(m, b) = b
  BY <1>1 DEF Holds, Translated
<1> HIDE DEF j
<1>4. m.used[j].data = g[b].data /\ m.used[j].pages = g[b].pages
  BY <1>0, <1>1, <1>2, <1>3, NameOf
<1>5. LockedAt(f, g, j)
  BY <1>2, <1>4 DEF LockedAt, m, b
<1>6. LockedLines(f) = g[b].data.lines
  BY <1>4 DEF LockedLines, j, m, b
<1>7. Ptrs(g) \in Seq(Entries)
  BY <1>0 DEF Rooted
<1>8. Rows(g)[f.l.at] = g[b].data.lines
  BY <1>1, <1>7 DEF Rows
<1>9. g[b].data.lines \in Seq(LineNumbers) /\ g[b].pages \in Nat \ {0}
  BY <1>0, <1>1 DEF Rooted, MemInv, Heaps
<1>10. QED
  BY <1>5, <1>6, <1>8, <1>9 DEF j, m, b

\* Block b of the heap has other lines.
Relined(h, g, b, lines) ==
  /\ DOMAIN g = DOMAIN h /\ \A x \in DOMAIN h : g[x].pages = h[x].pages
  /\ \A x \in DOMAIN h : x # b => g[x] = h[x]
  /\ g[b].data.id = h[b].data.id /\ g[b].data.lines = lines
LinesEdited(m, n, h, g, X, b, lines) ==
  /\ MemInv(n, g, X \cup {b}) /\ Relined(h, g, b, lines) /\ n.trans = m.trans
  /\ \A c : Holds(m, c) => Holds(n, c)

\* SetLines changes the lines of the locked block only.
LEMMA LinesSet ==
  ASSUME NEW m, NEW h, NEW X, MemInv(m, h, X), NEW b \in DOMAIN h, Holds(m, b),
         NEW lines \in Seq(LineNumbers), NEW n, n = SetLines(m, b, lines)
  PROVE  \E g : LinesEdited(m, n, h, g, X, b, lines)
<1> DEFINE i == Position(m, b)
           data == [m.used[i].data EXCEPT !.lines = lines]
<1>0. /\ m.used \in Seq(Headers) /\ h \in Heaps(DOMAIN h) /\ b \notin DOMAIN m.trans /\ InMemory(m, b)
      /\ \A k, l \in DOMAIN m.used : m.used[k].b = m.used[l].b => k = l
      /\ \A k \in DOMAIN m.used : m.used[k].b < 0 => m.used[k].dirty
  BY MemFields DEF MemInv, UsedInv, Holds, InMemory
<1>1. i \in DOMAIN m.used /\ m.used[i].b = b
  BY <1>0, PositionIn
<1>2. Translated(m, b) = b
  BY <1>0 DEF Translated
<1>3. n = WithData(m, i, data)
  BY DEF SetLines, WithData
<1> HIDE DEF i
<1>4. m.used[i].data = h[b].data
  BY <1>1, <1>2, NameOf
<1>5. data \in Blocks /\ data.id = h[b].data.id /\ data.lines = lines
  <2>1. m.used[i].data \in Blocks
    BY <1>1, MemFields DEF MemInv
  <2>2. QED
    BY <1>4, <2>1 DEF Blocks
<1> HIDE DEF data
<1>6. Edited(m, n, h, X, b, data)
  BY <1>0, <1>1, <1>3, <1>5, DataChanged
<1>7. PICK g : g = With(h, b, h[b].pages, data)
  OBVIOUS
<1>8. Widened(h, g, b, h[b].pages, data)
  <2>1. h[b].pages \in Nat \ {0}
    BY <1>0 DEF Heaps
  <2>2. QED
    BY <1>0, <1>5, <1>7, <2>1, WithIs
<1>9. Relined(h, g, b, lines)
  BY <1>5, <1>8 DEF Widened, Relined
<1>10. MemInv(n, g, X \cup {b}) /\ n.trans = m.trans /\ \A c : Holds(m, c) => Holds(n, c)
  BY <1>6, <1>7 DEF Edited
<1>11. QED
  BY <1>9, <1>10 DEF LinesEdited

\* A tree with other lines in a data block.
RelinedTree(h, g, i, lines) ==
  /\ Tree(g) /\ Rooted(g) /\ Ptrs(g) = Ptrs(h)
  /\ Rows(g) = [Rows(h) EXCEPT ![i] = lines]

\* New lines for one block, at least one: the tree stands and one row is new.
LEMMA TreeRelined ==
  ASSUME NEW h, NEW g, NEW i \in DOMAIN Ptrs(h), NEW b, b = Ptrs(h)[i].b, Tree(h), Rooted(h),
         NEW lines \in Seq(LineNumbers), lines # <<>>, Relined(h, g, b, lines)
  PROVE  RelinedTree(h, g, i, lines)
<1> DEFINE p == Ptrs(h)
<1>0. /\ p \in Seq(Entries) /\ {0, 1} \subseteq DOMAIN h /\ h[0].pages = 1 /\ h[1].pages = 1
      /\ h[0].data.id = "zero" /\ h[1].data.id = "ptr" /\ p # <<>> /\ h[1].data \in Blocks
      /\ DOMAIN h = {0, 1} \cup {p[k].b : k \in DOMAIN p}
      /\ \A k \in DOMAIN p :
           /\ p[k].b \notin {0, 1} /\ p[k].b \in DOMAIN h /\ p[k].pages = h[p[k].b].pages
           /\ h[p[k].b].data.id = "data" /\ h[p[k].b].data.lines # <<>>
           /\ h[p[k].b].data.lines \in Seq(LineNumbers)
      /\ \A k, l \in DOMAIN p : p[k].b = p[l].b => k = l
  BY DEF Tree, Rooted, Ptrs
<1>1. /\ DOMAIN g = DOMAIN h /\ \A x \in DOMAIN h : g[x].pages = h[x].pages
      /\ \A x \in DOMAIN h : x # b => g[x] = h[x]
      /\ g[b].data.id = h[b].data.id /\ g[b].data.lines = lines
  BY DEF Relined
<1>2. b = p[i].b /\ b \in DOMAIN h /\ b \notin {0, 1}
  BY <1>0
<1>3. g[1] = h[1] /\ g[0] = h[0]
  BY <1>0, <1>1, <1>2
<1>4. Ptrs(g) = p /\ g[1].data.ptrs = p
  BY <1>3 DEF Ptrs
<1> HIDE DEF p
<1>5. ASSUME NEW k \in DOMAIN p
      PROVE  /\ p[k].b \notin {0, 1} /\ p[k].b \in DOMAIN g /\ p[k].pages = g[p[k].b].pages
             /\ g[p[k].b].data.id = "data" /\ g[p[k].b].data.lines # <<>>
             /\ g[p[k].b].data.lines \in Seq(LineNumbers)
             /\ g[p[k].b].data.lines = IF k = i THEN lines ELSE h[p[k].b].data.lines
  <2>1. CASE k = i
    BY <1>0, <1>1, <1>2, <2>1
  <2>2. CASE k # i
    <3>1. p[k].b # b
      BY <1>0, <1>2, <2>2 DEF p
    <3>2. g[p[k].b] = h[p[k].b]
      BY <1>0, <1>1, <3>1
    <3>3. QED
      BY <1>0, <1>1, <2>2, <3>2, SMTT(30)
  <2>3. QED
    BY <2>1, <2>2
<1>6. Tree(g)
  <2>1. {0, 1} \subseteq DOMAIN g
    BY <1>0, <1>1
  <2>2. \A k \in DOMAIN p : /\ p[k].b \notin {0, 1} /\ p[k].pages = g[p[k].b].pages
                            /\ g[p[k].b].data.id = "data" /\ g[p[k].b].data.lines # <<>>
    BY <1>5
  <2>3. TreeOf(g, p)
    BY <1>0, <1>1, <1>3, <2>1, <2>2 DEF TreeOf
  <2>4. QED
    BY <1>4, <2>3, TreeIs
<1>7. Rooted(g)
  BY <1>0, <1>1, <1>3, <1>4, <1>5, SMTT(30) DEF Rooted
<1>8. Rows(g) = [Rows(h) EXCEPT ![i] = lines]
  <2>1. Rows(g) = [k \in 1 .. Len(p) |-> g[p[k].b].data.lines]
    BY <1>4 DEF Rows
  <2>2. Rows(h) = [k \in 1 .. Len(p) |-> h[p[k].b].data.lines]
    BY DEF Rows, p
  <2>3. DOMAIN p = 1 .. Len(p)
    BY <1>0
  <2>4. \A k \in 1 .. Len(p) : g[p[k].b].data.lines = IF k = i THEN lines ELSE h[p[k].b].data.lines
    BY <1>5, <2>3
  <2>5. QED
    BY <2>1, <2>2, <2>4, ZenonT(30)
<1>9. QED
  BY <1>4, <1>6, <1>7, <1>8 DEF RelinedTree, p

-----------------------------------------------------------------------------
(* The locked block is changed and stays locked.                           *)

Touched(f, t, m, add, dirty, pos) ==
  /\ IsState(t) /\ t.m = m /\ t.ok = f.ok /\ t.l.at = f.l.at /\ t.l.b = f.l.b /\ t.l.add = add
  /\ t.l.dirty = dirty /\ t.l.pos = pos /\ t.l \in HeldLocks
StateOf(t, m, l, ok) == t.m = m /\ t.l = l /\ t.ok = ok

\* The fields of a state.
LEMMA StateIs ==
  ASSUME NEW m, NEW l, NEW ok, NEW t, t = [m |-> m, l |-> l, ok |-> ok]
  PROVE  StateOf(t, m, l, ok)
BY DEF StateOf

\* The locked block marked dirty, and its position.
LEMMA TouchIs ==
  ASSUME NEW f, IsState(f), f.l \in HeldLocks, NEW m, NEW pos \in BOOLEAN,
         NEW t, t = [f EXCEPT !.m = m, !.l.dirty = TRUE, !.l.pos = pos]
  PROVE  Touched(f, t, m, f.l.add, TRUE, pos)
<1>1. PICK l : l = f.l
  OBVIOUS
<1>2. f = [m |-> f.m, l |-> l, ok |-> f.ok] /\ f.ok \in BOOLEAN
  BY <1>1 DEF IsState
<1>3. PICK k : k = [[l EXCEPT !.dirty = TRUE] EXCEPT !.pos = pos]
  OBVIOUS
<1>4. l \in [at : Nat \ {0}, b : Int, dirty : BOOLEAN, pos : BOOLEAN, add : Int]
  BY <1>1 DEF HeldLocks
<1>5. /\ k \in [at : Nat \ {0}, b : Int, dirty : BOOLEAN, pos : BOOLEAN, add : Int]
      /\ k.at = l.at /\ k.b = l.b /\ k.add = l.add /\ k.dirty = TRUE /\ k.pos = pos
  BY <1>3, <1>4
<1>6. t = [m |-> m, l |-> k, ok |-> f.ok]
  BY <1>1, <1>2, <1>3
<1>7. t.m = m /\ t.l = k /\ t.ok = f.ok
  <2>1. PICK ok : ok = f.ok
    OBVIOUS
  <2>2. t = [m |-> m, l |-> k, ok |-> ok]
    BY <1>6, <2>1
  <2>3. StateOf(t, m, k, ok)
    BY <2>2, StateIs
  <2>4. QED
    BY <2>1, <2>3 DEF StateOf
<1>8. IsState(t)
  BY <1>2, <1>6, <1>7 DEF IsState
<1>9. QED
  BY <1>1, <1>5, <1>7, <1>8 DEF Touched, HeldLocks

\* The rows are those of before, but for row i.
RowChanged(t, f, h, g, i, lines) ==
  /\ Buf(t, g, 0, 0) /\ t.ok = f.ok /\ Ptrs(g) = Ptrs(h)
  /\ Rows(g) = [Rows(h) EXCEPT ![i] = lines]
\* The locked block, with a line less or more that is counted (d), gets lines.
LinesPut(f, h, i, d, lines, pos, t) ==
  /\ d \in Int /\ Buf(f, h, i, d) /\ f.l.at = i /\ i # 0
  /\ lines \in Seq(LineNumbers) /\ lines # <<>> /\ Len(lines) = Len(Rows(h)[i]) + d
  /\ pos \in BOOLEAN /\ Touched(f, t, SetLines(f.m, f.l.b, lines), f.l.add, TRUE, pos)

\* New lines put into the locked block: one row is new, the counts are right again.
LEMMA LockedChanged ==
  ASSUME NEW f, NEW h, NEW i, NEW d, NEW lines, NEW pos, NEW t, LinesPut(f, h, i, d, lines, pos, t)
  PROVE  \E g : RowChanged(t, f, h, g, i, lines)
<1>p. /\ d \in Int /\ Buf(f, h, i, d) /\ f.l.at = i /\ i # 0
      /\ lines \in Seq(LineNumbers) /\ lines # <<>> /\ Len(lines) = Len(Rows(h)[i]) + d
      /\ pos \in BOOLEAN /\ Touched(f, t, SetLines(f.m, f.l.b, lines), f.l.add, TRUE, pos)
  BY DEF LinesPut
<1> USE <1>p
<1> DEFINE b == f.l.b
           n == SetLines(f.m, f.l.b, lines)
           X == Pending(f.l)
<1>0. /\ Half(f, h, i, d) /\ Tree(h) /\ Rooted(h) /\ MemInv(f.m, h, X) /\ Counted(h, f.l, i, d)
      /\ IsState(f)
  BY DEF Buf, Half
<1>1. /\ i \in DOMAIN Ptrs(h) /\ b = Ptrs(h)[i].b /\ b \in DOMAIN h /\ b # 1 /\ Holds(f.m, b)
      /\ f.l \in HeldLocks
  BY <1>0, LockedFacts DEF HeldLocks
<1>2. PICK g : LinesEdited(f.m, n, h, g, X, b, lines)
  <2> HIDE DEF n, b, X
  <2>1. n = SetLines(f.m, b, lines)
    BY DEF n, b
  <2>2. QED
    BY <1>0, <1>1, <2>1, LinesSet
<1>3. MemInv(n, g, X \cup {b}) /\ Relined(h, g, b, lines) /\ \A c : Holds(f.m, c) => Holds(n, c)
  BY <1>2 DEF LinesEdited
<1>4. RelinedTree(h, g, i, lines)
  <2> HIDE DEF b
  <2>1. QED
    BY <1>0, <1>1, <1>3, TreeRelined
<1>5. /\ Tree(g) /\ Rooted(g) /\ Ptrs(g) = Ptrs(h)
      /\ Rows(g) = [Rows(h) EXCEPT ![i] = lines]
  BY <1>4 DEF RelinedTree
<1>6. /\ IsState(t) /\ t.m = n /\ t.ok = f.ok /\ t.l.at = i /\ t.l.b = b /\ t.l.add = f.l.add
      /\ t.l.dirty = TRUE /\ t.l \in HeldLocks
  BY DEF Touched
<1>7. Pending(t.l) = X \cup {b}
  <2>1. Pending(t.l) = {b}
    BY <1>6 DEF Pending
  <2>2. X \subseteq {b}
    BY DEF Pending
  <2>3. QED
    BY <2>1, <2>2
<1>8. LockedInv(t.m, g, t.l)
  <2>1. Holds(n, b)
    BY <1>1, <1>3
  <2>2. t.l.at \in DOMAIN g[1].data.ptrs /\ t.l.b = g[1].data.ptrs[t.l.at].b
    BY <1>1, <1>5, <1>6 DEF Ptrs
  <2> HIDE DEF n, b
  <2>3. t.l.b \notin DOMAIN t.m.trans /\ \E k \in DOMAIN t.m.used : t.m.used[k].b = t.l.b /\ t.m.used[k].locked
    BY <1>6, <2>1 DEF Holds
  <2>4. QED
    BY <1>6, <2>2, <2>3 DEF LockedInv, HeldLocks
<1>9. Counted(g, t.l, 0, 0)
  <2> SUFFICES ASSUME NEW k \in DOMAIN Ptrs(g)
               PROVE  Ptrs(g)[k].count + (IF t.l.at = k THEN t.l.add ELSE 0)
                        = Len(g[Ptrs(g)[k].b].data.lines) + (IF k = 0 THEN 0 ELSE 0)
    BY DEF Counted, Ptrs
  <2>1. k \in DOMAIN Ptrs(h) /\ Ptrs(g)[k] = Ptrs(h)[k] /\ k \in 1 .. Len(Ptrs(h))
        /\ Ptrs(h)[k] \in Entries /\ g[Ptrs(g)[k].b].data.lines \in Seq(LineNumbers)
        /\ h[Ptrs(h)[k].b].data.lines \in Seq(LineNumbers)
    BY <1>0, <1>5 DEF Rooted
  <2>2. Ptrs(h)[k].count \in Int
    BY <2>1 DEF Entries
  <2>3. Ptrs(h)[k].count + (IF f.l.at = k THEN f.l.add ELSE 0)
          = Len(h[Ptrs(h)[k].b].data.lines) + (IF k = i THEN d ELSE 0)
    BY <1>0, <2>1 DEF Counted, Ptrs
  <2>4. Rows(g)[k] = g[Ptrs(g)[k].b].data.lines /\ Rows(h)[k] = h[Ptrs(h)[k].b].data.lines
    BY <1>5, <2>1 DEF Rows
  <2>5. Rows(g)[k] = IF k = i THEN lines ELSE Rows(h)[k]
    <3>1. DOMAIN Rows(h) = 1 .. Len(Ptrs(h))
      BY DEF Rows
    <3>2. QED
      BY <1>5, <2>1, <3>1
  <2>6. Len(g[Ptrs(g)[k].b].data.lines) = Len(h[Ptrs(h)[k].b].data.lines) + (IF k = i THEN d ELSE 0)
    <3>1. CASE k = i
      BY <2>4, <2>5, <3>1
    <3>2. CASE k # i
      <4>1. Len(h[Ptrs(h)[k].b].data.lines) \in Nat
        BY <2>1, SMTT(30)
      <4>2. QED
        BY <2>4, <2>5, <3>2, <4>1
    <3>3. QED
      BY <3>1, <3>2
  <2>7. (IF t.l.at = k THEN t.l.add ELSE 0) = (IF f.l.at = k THEN f.l.add ELSE 0)
    BY <1>6
  <2>8. Len(g[Ptrs(g)[k].b].data.lines) \in Nat
    BY <2>1, SMTT(30)
  <2>9. d \in Int
    OBVIOUS
  <2>10. PICK a : a = IF f.l.at = k THEN f.l.add ELSE 0
    OBVIOUS
  <2>11. PICK e : e = IF k = i THEN d ELSE 0
    OBVIOUS
  <2>12. PICK c, hn, gn : /\ c = Ptrs(h)[k].count /\ hn = Len(h[Ptrs(h)[k].b].data.lines)
                          /\ gn = Len(g[Ptrs(g)[k].b].data.lines)
    OBVIOUS
  <2>13. c + a = hn + e
    BY <2>3, <2>10, <2>11, <2>12
  <2>14. gn = hn + e
    BY <2>6, <2>11, <2>12
  <2>15. c + a = gn
    BY <2>13, <2>14
  <2>16. gn \in Nat /\ gn + (IF k = 0 THEN 0 ELSE 0) = gn
    BY <2>8, <2>12
  <2>17. Ptrs(g)[k].count = c /\ (IF t.l.at = k THEN t.l.add ELSE 0) = a
    BY <2>1, <2>7, <2>10, <2>12
  <2>18. QED
    BY <2>12, <2>15, <2>16, <2>17
<1>10. Buf(t, g, 0, 0)
  BY <1>3, <1>5, <1>6, <1>7, <1>8, <1>9 DEF Buf, Half
<1>11. QED
  BY <1>5, <1>6, <1>10 DEF RowChanged

-----------------------------------------------------------------------------
(* The lines of a block that is split.                                     *)

\* A line takes space.
LEMMA SizeIs ==
  ASSUME NEW line
  PROVE  Size(line) \in Nat \ {0}
BY SwapAssumption DEF Size

\* Lines take space.
LEMMA SpaceIs ==
  ASSUME NEW lines \in Seq(LineNumbers), lines # <<>>
  PROVE  SpaceFor(lines) \in Nat \ {0}
<1> DEFINE n == Len(lines)
           s == [k \in 1 .. n |-> Size(lines[k])]
           T == {k \in 0 .. n : Sums(s)[k] \in Nat /\ (k # 0 => Sums(s)[k] # 0)}
<1>0. n \in Nat \ {0}
  OBVIOUS
<1> HIDE DEF n
<1>1. s \in Seq(Int) /\ Len(s) = n
  BY <1>0, SizeIs
<1>2. \A k \in 1 .. n : s[k] \in Nat \ {0}
  BY SizeIs
<1>3. SpaceFor(lines) = Sums(s)[n]
  BY DEF SpaceFor, n
<1> HIDE DEF s
<1>4. /\ Sums(s)[0] = 0
      /\ \A k \in 1 .. n : Sums(s)[k] = Sums(s)[k - 1] + s[k]
  BY <1>1, SumsIs
<1>5. 0 \in T
  BY <1>0, <1>4
<1>6. ASSUME NEW k \in 1 .. n, k - 1 \in T PROVE k \in T
  <2>1. Sums(s)[k - 1] \in Nat /\ s[k] \in Nat \ {0} /\ Sums(s)[k] = Sums(s)[k - 1] + s[k]
    BY <1>2, <1>4, <1>6
  <2>2. Sums(s)[k] \in Nat /\ Sums(s)[k] # 0
    BY <2>1
  <2>3. k \in 0 .. n
    BY <1>0
  <2>4. QED
    BY <2>2, <2>3
<1> HIDE DEF T
<1>7. \A k \in 0 .. n : k \in T
  BY <1>0, <1>5, <1>6, UpTo
<1>8. n \in 0 .. n
  BY <1>0
<1>9. QED
  BY <1>0, <1>3, <1>7, <1>8 DEF T

\* Lines take pages.
LEMMA PagesAre ==
  ASSUME NEW lines \in Seq(LineNumbers), lines # <<>>
  PROVE  PagesFor(lines) \in Nat \ {0}
<1>1. PICK a \in Nat \ {0} : a = SpaceFor(lines)
  BY SpaceIs
<1>2. PICK p \in Nat \ {0} : p = PageLines
  BY SwapAssumption
<1>3. (a + p - 1) \div p \in Nat \ {0}
  <2>1. PICK q \in Int : q = (a + p - 1) \div p
    OBVIOUS
  <2>2. a + p - 1 < p * (q + 1)
    BY <2>1
  <2>3. q >= 1
    <3>1. CASE q <= 0
      <4>1. p * (q + 1) <= p
        BY <3>1
      <4>2. QED
        BY <2>2, <4>1
    <3>2. QED
      BY <3>1
  <2>4. QED
    BY <2>1, <2>3
<1>4. QED
  BY <1>1, <1>2, <1>3 DEF PagesFor

\* Two rows concatenate to the one and the other.
LEMMA FlatPair ==
  ASSUME NEW S, NEW a \in Seq(S), NEW b \in Seq(S)
  PROVE  FlattenSeq(<<a, b>>) = a \o b
<1> DEFINE A == <<a>>
           B == <<b>>
           R == <<a, b>>
<1>1. A \in Seq(Seq(S)) /\ B \in Seq(Seq(S)) /\ R \in Seq(Seq(S))
  OBVIOUS
<1>2. /\ Len(A) = 1 /\ Len(B) = 1 /\ Len(R) = 2 /\ A[1] = a /\ B[1] = b
      /\ R[1] = a /\ R[2] = b
  OBVIOUS
<1>3. FlattenSeq(A) = a /\ FlattenSeq(B) = b
  BY FlatOne
<1> HIDE DEF A, B, R
<1>4. Joined(R, A, B)
  BY <1>2 DEF Joined
<1>5. FlattenSeq(R) = FlattenSeq(A) \o FlattenSeq(B)
  BY <1>1, <1>4, FlatJoined
<1>6. QED
  BY <1>3, <1>5 DEF R

\* a is the first x of the lines, or those and the new one; b has the rest.
LEMMA InsertedBetween ==
  ASSUME NEW S, NEW lines \in Seq(S), NEW line \in S, NEW x \in 0 .. Len(lines),
         NEW a \in Seq(S), NEW b \in Seq(S), NEW front \in Seq(S), NEW rest \in Seq(S),
         front = SubSeq(lines, 1, x), rest = SubSeq(lines, x + 1, Len(lines)),
         \/ a = front \o <<line>> /\ b = rest
         \/ a = front /\ b = <<line>> \o rest,
         NEW u, u = a \o b
  PROVE  Inserted(lines, u, x, line)
<1> DEFINE n == Len(lines)
<1>0. n \in Nat /\ x \in 0 .. n
  OBVIOUS
<1>1. Len(front) = x /\ \A k \in 1 .. x : front[k] = lines[k]
  OBVIOUS
<1>2. Len(rest) = n - x /\ \A k \in 1 .. (n - x) : rest[k] = lines[x + k]
  OBVIOUS
<1>3. <<line>> \in Seq(S) /\ Len(<<line>>) = 1 /\ <<line>>[1] = line
  OBVIOUS
<1>4. u = front \o (<<line>> \o rest)
  <2>1. CASE a = front \o <<line>> /\ b = rest
    <3>1. Grouped(front, <<line>>, rest)
      BY <1>3, StepJoined
    <3>2. QED
      BY <2>1, <3>1 DEF Grouped
  <2>2. CASE a = front /\ b = <<line>> \o rest
    BY <2>2
  <2>3. QED
    BY <2>1, <2>2
<1>5. PICK one \in Seq(S) : one = <<line>>
  BY <1>3
<1>6. Around(u, front, one, rest)
  <2>1. u = front \o (one \o rest)
    BY <1>4, <1>5
  <2>2. QED
    BY <2>1, AroundIs
<1>7. /\ Len(u) = x + 1 + (n - x) /\ \A k \in 1 .. x : u[k] = front[k]
      /\ u[x + 1] = line /\ \A k \in 1 .. (n - x) : u[x + 1 + k] = rest[k]
  <2>1. Len(one) = 1 /\ one[1] = line /\ 1 \in 1 .. Len(one)
    BY <1>3, <1>5
  <2>2. QED
    BY <1>1, <1>2, <1>6, <2>1 DEF Around
<1>8. ASSUME NEW k \in (x + 1) .. n PROVE u[k + 1] = lines[k]
  <2>1. k - x \in 1 .. (n - x) /\ x + (k - x) = k /\ x + 1 + (k - x) = k + 1
    BY <1>0
  <2>2. u[x + 1 + (k - x)] = rest[k - x] /\ rest[k - x] = lines[x + (k - x)]
    BY <1>2, <1>7, <2>1
  <2>3. QED
    BY <2>1, <2>2
<1>9. \A k \in 1 .. x : u[k] = lines[k]
  BY <1>1, <1>7
<1>10. Len(u) = n + 1
  BY <1>0, <1>7
<1>11. QED
  BY <1>0, <1>7, <1>8, <1>9, <1>10 DEF Inserted

-----------------------------------------------------------------------------
Halves(sp, x) == IF x = 0 THEN <<sp.new, sp.old>> ELSE <<sp.old, sp.new>>
SplitOf(sp, lines, x, line) ==
  /\ sp.new \in Seq(LineNumbers) /\ sp.new # <<>> /\ sp.old \in Seq(LineNumbers) /\ sp.old # <<>>
  /\ sp.moved \in BOOLEAN /\ sp.inLeft \in BOOLEAN
  /\ ~sp.moved /\ ~sp.inLeft => sp.old = lines
  /\ Inserted(lines, FlattenSeq(Halves(sp, x)), x, line)
Sides(new, old, moved, inLeft) == [new |-> new, old |-> old, moved |-> moved, inLeft |-> inLeft]

\* The fields of a split.
LEMMA SidesAre ==
  ASSUME NEW new, NEW old, NEW moved \in BOOLEAN, NEW inLeft \in BOOLEAN,
         NEW sp, sp = Sides(new, old, moved, inLeft)
  PROVE  sp.new = new /\ sp.old = old /\ sp.moved = moved /\ sp.inLeft = inLeft
BY DEF Sides
Parts(lines, x, front, rest) ==
  /\ front \in Seq(LineNumbers) /\ rest \in Seq(LineNumbers)
  /\ front = SubSeq(lines, 1, x) /\ rest = SubSeq(lines, x + 1, Len(lines))
  /\ (x = 0 => front = <<>> /\ rest = lines) /\ (x # 0 => front # <<>>)
  /\ rest = <<>> => front = lines

\* Lines have a front and a rest.
LEMMA PartsAre ==
  ASSUME NEW lines \in Seq(LineNumbers), lines # <<>>, NEW x \in 0 .. Len(lines)
  PROVE  \E front, rest : Parts(lines, x, front, rest)
<1> DEFINE front == SubSeq(lines, 1, x)
           rest == SubSeq(lines, x + 1, Len(lines))
<1>0. Len(lines) \in Nat /\ x \in Int /\ 0 <= x /\ x <= Len(lines)
  OBVIOUS
<1>1. front \in Seq(LineNumbers) /\ Len(front) = x /\ \A k \in 1 .. x : front[k] = lines[k]
  OBVIOUS
<1>2. /\ rest \in Seq(LineNumbers) /\ Len(rest) = Len(lines) - x
      /\ \A k \in 1 .. (Len(lines) - x) : rest[k] = lines[x + k]
  OBVIOUS
<1> HIDE DEF front, rest
<1>3. x = 0 => front = <<>> /\ rest = lines
  <2> SUFFICES ASSUME x = 0 PROVE front = <<>> /\ rest = lines
    OBVIOUS
  <2>1. front = <<>>
    BY <1>1
  <2>2. \A k \in 1 .. Len(lines) : rest[k] = lines[k]
    <3>1. \A k \in 1 .. Len(lines) : x + k = k
      BY <1>0
    <3>2. Len(lines) - x = Len(lines)
      BY <1>0
    <3>3. QED
      BY <1>2, <3>1, <3>2
  <2>3. Len(rest) = Len(lines)
    BY <1>0, <1>2
  <2>4. QED
    BY <1>2, <2>1, <2>2, <2>3
<1>4. x # 0 => front # <<>>
  BY <1>1
<1>5. rest = <<>> => front = lines
  <2> SUFFICES ASSUME rest = <<>> PROVE front = lines
    OBVIOUS
  <2>1. Len(lines) = x
    BY <1>0, <1>2
  <2>2. QED
    BY <1>1, <2>1
<1>6. Parts(lines, x, front, rest)
  BY <1>1, <1>2, <1>3, <1>4, <1>5 DEF Parts, front, rest
<1>7. QED
  BY <1>6

\* A line put at the end of the front or at the start of the rest is inserted between
\* them.
LEMMA InsertedHalves ==
  ASSUME NEW lines \in Seq(LineNumbers), NEW line \in LineNumbers, NEW x \in 0 .. Len(lines),
         NEW front, NEW rest, Parts(lines, x, front, rest),
         NEW a \in Seq(LineNumbers), NEW b \in Seq(LineNumbers),
         \/ a = front \o <<line>> /\ b = rest
         \/ a = front /\ b = <<line>> \o rest
  PROVE  Inserted(lines, FlattenSeq(<<a, b>>), x, line)
<1>1. FlattenSeq(<<a, b>>) = a \o b
  BY FlatPair
<1>2. /\ front \in Seq(LineNumbers) /\ rest \in Seq(LineNumbers)
      /\ front = SubSeq(lines, 1, x) /\ rest = SubSeq(lines, x + 1, Len(lines))
  BY DEF Parts
<1>3. QED
  BY <1>1, <1>2, InsertedBetween

\* The two rows of a split are the lines of the block with the new one inserted, and
\* neither is empty.
LEMMA SplitIs ==
  ASSUME NEW s, NEW lines \in Seq(LineNumbers), lines = LockedLines(s), lines # <<>>,
         NEW x \in 0 .. Len(lines), NEW line \in LineNumbers,
         NEW sp, sp = SplitLines(s, x, line)
  PROVE  SplitOf(sp, lines, x, line)
<1>1. PICK front, rest : Parts(lines, x, front, rest)
  BY PartsAre
<1>2. /\ front \in Seq(LineNumbers) /\ rest \in Seq(LineNumbers)
      /\ front = SubSeq(lines, 1, x) /\ rest = SubSeq(lines, x + 1, Len(lines))
      /\ (x = 0 => front = <<>> /\ rest = lines) /\ (x # 0 => front # <<>>)
      /\ (rest = <<>> => front = lines)
  BY <1>1 DEF Parts
<1>3. PICK one \in Seq(LineNumbers) : one = <<line>> /\ one # <<>>
  <2>1. <<line>> \in Seq(LineNumbers)
    OBVIOUS
  <2>2. <<line>> # <<>>
    OBVIOUS
  <2>3. QED
    BY <2>1, <2>2
<1>4. CASE x = 0
  <2>1. sp = Sides(one, lines, FALSE, TRUE)
    BY <1>3, <1>4 DEF SplitLines, Sides
  <2>2. sp.new = one /\ sp.old = lines /\ sp.moved = FALSE /\ sp.inLeft = TRUE
    BY <2>1 DEF Sides
  <2>3. Halves(sp, x) = <<one, lines>>
    BY <1>4, <2>2 DEF Halves
  <2>4. one = front \o <<line>> /\ lines = rest
    <3>1. <<>> \o one = one
      BY <1>3
    <3>2. QED
      BY <1>2, <1>3, <1>4, <3>1
  <2>5. Inserted(lines, FlattenSeq(<<one, lines>>), x, line)
    BY <1>1, <1>3, <2>4, InsertedHalves
  <2>6. QED
    BY <1>3, <2>2, <2>3, <2>5 DEF SplitOf
<1>5. CASE x # 0
  <2>1. PICK inLeft \in BOOLEAN :
          inLeft = (rest # <<>> /\ FreeSpace(s) + SpaceFor(rest) >= Size(line))
    OBVIOUS
  <2>2. PICK new : new = IF inLeft THEN rest ELSE <<line>> \o rest
    OBVIOUS
  <2>3. PICK old : old = front \o (IF inLeft THEN <<line>> ELSE <<>>)
    OBVIOUS
  <2>4. PICK moved \in BOOLEAN : moved = (rest # <<>>)
    OBVIOUS
  <2>5. sp.new = new /\ sp.old = old /\ sp.moved = moved /\ sp.inLeft = inLeft
    <3>1. sp = Sides(new, old, moved, inLeft)
      BY <1>2, <1>5, <2>1, <2>2, <2>3, <2>4 DEF SplitLines, Sides
    <3>2. QED
      BY <3>1, SidesAre
  <2>6. Halves(sp, x) = <<old, new>>
    BY <1>5, <2>5 DEF Halves
  <2>7. CASE inLeft
    <3>1. new = rest /\ rest # <<>> /\ old = front \o <<line>>
      BY <2>1, <2>2, <2>3, <2>7
    <3>2. old \in Seq(LineNumbers) /\ old # <<>>
      <4>1. front \o one \in Seq(LineNumbers) /\ Len(front \o one) = Len(front) + Len(one)
        BY <1>2
      <4>2. Len(one) = 1 /\ Len(front) \in Nat
        BY <1>2, <1>3
      <4>3. Len(front \o one) # 0
        BY <4>1, <4>2
      <4>4. QED
        BY <1>3, <3>1, <4>1, <4>3
    <3>3. Inserted(lines, FlattenSeq(<<old, new>>), x, line)
      BY <1>1, <1>2, <3>1, <3>2, InsertedHalves
    <3>4. QED
      BY <1>2, <2>5, <2>6, <2>7, <3>1, <3>2, <3>3 DEF SplitOf
  <2>8. CASE ~inLeft
    <3>1. new = <<line>> \o rest /\ old = front
      <4>1. old = front \o <<>>
        BY <2>3, <2>8
      <4>2. front \o <<>> = front
        BY <1>2
      <4>3. QED
        BY <2>2, <2>8, <4>1, <4>2
    <3>2. new \in Seq(LineNumbers) /\ new # <<>>
      <4>1. one \o rest \in Seq(LineNumbers) /\ Len(one \o rest) = Len(one) + Len(rest)
        BY <1>2
      <4>2. Len(one) = 1 /\ Len(rest) \in Nat
        BY <1>2, <1>3
      <4>3. Len(one \o rest) # 0
        BY <4>1, <4>2
      <4>4. QED
        BY <1>3, <3>1, <4>1, <4>3
    <3>3. Inserted(lines, FlattenSeq(<<old, new>>), x, line)
      BY <1>1, <1>2, <3>1, <3>2, InsertedHalves
    <3>4. ~moved => old = lines
      BY <1>2, <2>4, <3>1
    <3>5. QED
      BY <1>2, <1>5, <2>5, <2>6, <2>8, <3>1, <3>2, <3>3, <3>4 DEF SplitOf
  <2>9. QED
    BY <2>7, <2>8
<1>6. QED
  BY <1>4, <1>5

-----------------------------------------------------------------------------
(* An entry of block 1 becomes two.                                        *)

\* Entry i of p has become left and right in q.
Forked(p, q, i, left, right) ==
  /\ q \in Seq(Entries) /\ Len(q) = Len(p) + 1 /\ q[i] = left /\ q[i + 1] = right
  /\ \A k \in 1 .. (i - 1) : q[k] = p[k]
  /\ \A k \in (i + 1) .. Len(p) : q[k + 1] = p[k]

\* Two entries in place of one.
LEMMA ForkIs ==
  ASSUME NEW p \in Seq(Entries), NEW i \in DOMAIN p, NEW left \in Entries, NEW right \in Entries,
         NEW q, q = SubSeq(p, 1, i - 1) \o <<left, right>> \o SubSeq(p, i + 1, Len(p))
  PROVE  Forked(p, q, i, left, right)
<1> DEFINE A == SubSeq(p, 1, i - 1)
           M == <<left, right>>
           C == SubSeq(p, i + 1, Len(p))
           n == Len(p)
<1>0. n \in Nat /\ i \in 1 .. n
  OBVIOUS
<1>1. A \in Seq(Entries) /\ Len(A) = i - 1 /\ \A k \in 1 .. (i - 1) : A[k] = p[k]
  OBVIOUS
<1>2. C \in Seq(Entries) /\ Len(C) = n - i /\ \A k \in 1 .. (n - i) : C[k] = p[i + k]
  BY <1>0, SubSeqProperties, SMTT(30)
<1>3. M \in Seq(Entries) /\ Len(M) = 2 /\ M[1] = left /\ M[2] = right
  OBVIOUS
<1>4. q = A \o M \o C
  OBVIOUS
<1> HIDE DEF A, M, C, n
<1>5. Grouped(A, M, C)
  BY <1>1, <1>2, <1>3, StepJoined
<1>6. q = A \o (M \o C)
  BY <1>4, <1>5 DEF Grouped
<1>7. Around(q, A, M, C) /\ q \in Seq(Entries)
  BY <1>1, <1>2, <1>3, <1>6, AroundIs
<1>8. Len(q) = n + 1 /\ \A k \in 1 .. (i - 1) : q[k] = p[k]
  <2>1. Len(q) = Len(A) + Len(M) + Len(C) /\ \A k \in 1 .. Len(A) : q[k] = A[k]
    BY <1>7 DEF Around
  <2>2. Len(q) = n + 1
    <3>1. Len(q) = (i - 1) + 2 + (n - i)
      BY <1>1, <1>2, <1>3, <2>1
    <3>2. i \in Int /\ n \in Int
      BY <1>0
    <3>3. (i - 1) + 2 + (n - i) = n + 1
      BY <3>2
    <3>4. QED
      BY <3>1, <3>3
  <2>3. \A k \in 1 .. (i - 1) : q[k] = p[k]
    BY <1>1, <2>1
  <2>4. QED
    BY <2>2, <2>3
<1>9. q[i] = left /\ q[i + 1] = right
  <2>1. q[Len(A) + 1] = M[1] /\ q[Len(A) + 2] = M[2]
    <3>1. \A k \in 1 .. Len(M) : q[Len(A) + k] = M[k]
      BY <1>7 DEF Around
    <3>2. 1 \in 1 .. Len(M) /\ 2 \in 1 .. Len(M)
      BY <1>3
    <3>3. QED
      BY <3>1, <3>2
  <2>2. Len(A) + 1 = i /\ Len(A) + 2 = i + 1
    BY <1>0, <1>1
  <2>3. QED
    BY <1>3, <2>1, <2>2
<1>10. ASSUME NEW k \in (i + 1) .. n PROVE q[k + 1] = p[k]
  <2>1. k - i \in 1 .. (n - i) /\ i + (k - i) = k /\ Len(A) + Len(M) + (k - i) = k + 1
        /\ k - i \in 1 .. Len(C)
    <3>1. Len(A) = i - 1 /\ Len(M) = 2 /\ Len(C) = n - i
      BY <1>1, <1>2, <1>3
    <3>2. i \in Int /\ n \in Int /\ k \in Int /\ i + 1 <= k /\ k <= n
      BY <1>0
    <3>3. k - i \in 1 .. (n - i) /\ i + (k - i) = k /\ (i - 1) + 2 + (k - i) = k + 1
      BY <3>2
    <3>4. QED
      BY <3>1, <3>3
  <2>2. q[Len(A) + Len(M) + (k - i)] = C[k - i]
    BY <1>7, <2>1 DEF Around
  <2>3. C[k - i] = p[i + (k - i)]
    BY <1>2, <2>1
  <2>4. QED
    BY <2>1, <2>2, <2>3
<1>11. QED
  BY <1>7, <1>8, <1>9, <1>10 DEF Forked, n

Splits(root, r, i, left, right) ==
  /\ r \in Blocks /\ r.id = root.id /\ Forked(root.ptrs, r.ptrs, i, left, right)

\* SplitEntry puts two entries in place of one in block 1.
LEMMA SplitEntryIs ==
  ASSUME NEW root \in Blocks, NEW i \in DOMAIN root.ptrs, NEW left \in Entries,
         NEW right \in Entries, NEW r, r = SplitEntry(root, i, left, right)
  PROVE  Splits(root, r, i, left, right)
<1>1. root.ptrs \in Seq(Entries) /\ root.behind \in Seq(Nat)
  BY DEF Blocks
<1>2. PICK q : q = SubSeq(root.ptrs, 1, i - 1) \o <<left, right>>
                     \o SubSeq(root.ptrs, i + 1, Len(root.ptrs))
  OBVIOUS
<1>3. PICK z : z = IF root.behind = <<>> THEN root.behind ELSE Tail(root.behind)
  OBVIOUS
<1>4. z \in Seq(Nat)
  BY <1>1, <1>3
<1>5. Forked(root.ptrs, q, i, left, right)
  BY <1>1, <1>2, ForkIs
<1>6. r = [[root EXCEPT !.ptrs = q] EXCEPT !.behind = z]
  BY <1>2, <1>3 DEF SplitEntry, Blocks
<1>7. q \in Seq(Entries)
  BY <1>5 DEF Forked
<1>8. r \in Blocks /\ r.id = root.id /\ r.ptrs = q
  BY <1>4, <1>6, <1>7 DEF Blocks
<1>9. QED
  BY <1>5, <1>8 DEF Splits

\* What was in the slot behind the entries, of which ml_append_int reads a number.
LEMMA OldIs ==
  ASSUME NEW root \in Blocks, NEW i \in Nat
  PROVE  OldInSlot(root, i + 1) \in Nat
<1>1. root.ptrs \in Seq(Entries) /\ root.behind \in Seq(Nat)
  BY DEF Blocks
<1>2. CASE i + 1 <= Len(root.ptrs)
  <2>1. root.ptrs[i + 1] \in Entries
    BY <1>1, <1>2
  <2>2. root.ptrs[i + 1].old \in Nat
    BY <2>1 DEF Entries
  <2>3. QED
    BY <1>2, <2>2 DEF OldInSlot
<1>3. CASE ~(i + 1 <= Len(root.ptrs))
  <2>1. CASE root.behind = <<>>
    BY <1>3, <2>1 DEF OldInSlot
  <2>2. CASE root.behind # <<>>
    <3>1. Head(root.behind) \in Nat
      BY <1>1, <2>2
    <3>2. QED
      BY <1>3, <2>2, <3>1 DEF OldInSlot
  <2>3. QED
    BY <2>1, <2>2
<1>4. QED
  BY <1>2, <1>3

\* A tree, and a data block it does not point at yet.
TreeAnd(h, nb, p) ==
  /\ {0, 1} \subseteq DOMAIN h /\ h[0].pages = 1 /\ h[1].pages = 1
  /\ h[0].data.id = "zero" /\ h[1].data.id = "ptr" /\ p # <<>>
  /\ DOMAIN h = {0, 1} \cup {p[i].b : i \in DOMAIN p} \cup {nb}
  /\ \A i \in DOMAIN p :
        /\ p[i].b \notin {0, 1, nb} /\ p[i].pages = h[p[i].b].pages
        /\ h[p[i].b].data.id = "data" /\ h[p[i].b].data.lines # <<>>
  /\ \A i, k \in DOMAIN p : p[i].b = p[k].b => i = k
  /\ nb \notin {0, 1} /\ h[nb].data.id = "data" /\ h[nb].data.lines # <<>>
  /\ h[nb].data.lines \in Seq(LineNumbers)

-----------------------------------------------------------------------------
(* The tree after a split.                                                 *)

\* Where the entries of q come from.
LEMMA ForkedPlaces ==
  ASSUME NEW p \in Seq(Entries), NEW q, NEW i \in DOMAIN p, NEW left, NEW right,
         Forked(p, q, i, left, right)
  PROVE  /\ \A k \in DOMAIN q :
              \/ k = i /\ q[k] = left
              \/ k = i + 1 /\ q[k] = right
              \/ \E a \in DOMAIN p \ {i} : q[k] = p[a] /\ ((k = a /\ a < i) \/ (k = a + 1 /\ a > i))
         /\ \A a \in DOMAIN p \ {i} : \E k \in DOMAIN q : q[k] = p[a]
         /\ i \in DOMAIN q /\ i + 1 \in DOMAIN q
<1> DEFINE n == Len(p)
<1>0. n \in Nat /\ i \in 1 .. n /\ DOMAIN p = 1 .. n
  OBVIOUS
<1> HIDE DEF n
<1>1. /\ q \in Seq(Entries) /\ Len(q) = n + 1 /\ q[i] = left /\ q[i + 1] = right
      /\ \A k \in 1 .. (i - 1) : q[k] = p[k]
      /\ \A k \in (i + 1) .. n : q[k + 1] = p[k]
  BY DEF Forked, n
<1>2. DOMAIN q = 1 .. (n + 1)
  BY <1>1
<1>3. ASSUME NEW k \in DOMAIN q, k # i, k # i + 1
      PROVE  \E a \in DOMAIN p \ {i} : q[k] = p[a] /\ ((k = a /\ a < i) \/ (k = a + 1 /\ a > i))
  <2>1. CASE k < i
    <3>1. k \in 1 .. (i - 1) /\ k \in DOMAIN p \ {i}
      BY <1>0, <1>2, <2>1
    <3>2. QED
      BY <1>0, <1>1, <1>2, <2>1, <3>1
  <2>2. CASE k > i + 1
    <3>1. k - 1 \in (i + 1) .. n /\ k - 1 \in DOMAIN p \ {i} /\ (k - 1) + 1 = k /\ ~(k < i)
      BY <1>0, <1>2, <2>2
    <3>2. q[(k - 1) + 1] = p[k - 1]
      BY <1>1, <3>1
    <3>3. QED
      BY <3>1, <3>2
  <2>3. QED
    BY <1>0, <1>2, <1>3, <2>1, <2>2
<1>4. ASSUME NEW a \in DOMAIN p \ {i} PROVE \E k \in DOMAIN q : q[k] = p[a]
  <2>1. CASE a < i
    <3>1. a \in 1 .. (i - 1) /\ a \in DOMAIN q
      BY <1>0, <1>2, <2>1
    <3>2. QED
      BY <1>1, <3>1
  <2>2. CASE a > i
    <3>1. a \in (i + 1) .. n /\ a + 1 \in DOMAIN q
      BY <1>0, <1>2, <2>2
    <3>2. QED
      BY <1>1, <3>1
  <2>3. QED
    BY <1>0, <2>1, <2>2
<1>5. i \in DOMAIN q /\ i + 1 \in DOMAIN q
  BY <1>0, <1>2
<1>6. QED
  BY <1>1, <1>3, <1>4, <1>5

\* An entry for a data block with these lines.
Points(h, e) ==
  /\ e.b \notin {0, 1} /\ e.b \in DOMAIN h /\ e.pages = h[e.b].pages
  /\ h[e.b].data.id = "data" /\ h[e.b].data.lines # <<>>
  /\ h[e.b].data.lines \in Seq(LineNumbers)
CountsIts(h, e) == e.count = Len(h[e.b].data.lines)
Fork(h, b, nb, left, right) ==
  /\ \/ left.b = b /\ right.b = nb
     \/ left.b = nb /\ right.b = b
  /\ Points(h, left) /\ Points(h, right) /\ CountsIts(h, left) /\ CountsIts(h, right)
ForkedTree(h, g, i, left, right) ==
  /\ Tree(g) /\ Rooted(g) /\ Counted(g, NotLocked, 0, 0)
  /\ Len(Rows(g)) = Len(Rows(h)) + 1
  /\ Rows(g)[i] = h[left.b].data.lines /\ Rows(g)[i + 1] = h[right.b].data.lines
  /\ \A k \in 1 .. (i - 1) : Rows(g)[k] = Rows(h)[k]
  /\ \A k \in (i + 1) .. Len(Rows(h)) : Rows(g)[k + 1] = Rows(h)[k]

\* A tree whose block 1 points at the new block and the old one in place of the old one
\* is a tree, with right counts.
LEMMA TreeForked ==
  ASSUME NEW h, NEW g, NEW nb, TreeAnd(h, nb, Ptrs(h)), Rooted(h), NEW i \in DOMAIN Ptrs(h),
         NEW left, NEW right, Fork(h, Ptrs(h)[i].b, nb, left, right),
         NEW r, Splits(h[1].data, r, i, left, right), Widened(h, g, 1, 1, r),
         NEW d, Counted(h, NotLocked, i, d)
  PROVE  ForkedTree(h, g, i, left, right)
<1> DEFINE p == Ptrs(h)
           q == r.ptrs
<1>0. /\ p \in Seq(Entries) /\ {0, 1} \subseteq DOMAIN h /\ h[0].pages = 1 /\ h[1].pages = 1
      /\ h[0].data.id = "zero" /\ h[1].data.id = "ptr" /\ p # <<>>
      /\ DOMAIN h = {0, 1} \cup {p[k].b : k \in DOMAIN p} \cup {nb}
      /\ nb \notin {0, 1}
      /\ \A k, l \in DOMAIN p : p[k].b = p[l].b => k = l
      /\ \A k \in DOMAIN p : p[k].b # nb
  BY DEF TreeAnd, Rooted, Ptrs
<1>1. \A k \in DOMAIN p : Points(h, p[k])
  BY DEF TreeAnd, Rooted, Points
<1>2. /\ DOMAIN g = DOMAIN h /\ g[1].pages = 1 /\ g[1].data = r
      /\ \A x \in DOMAIN h : x # 1 => g[x] = h[x]
  BY <1>0 DEF Widened
<1>3. r \in Blocks /\ r.id = "ptr" /\ Forked(p, q, i, left, right)
  BY <1>0 DEF Splits, Ptrs
<1>4. Ptrs(g) = q /\ q \in Seq(Entries) /\ Len(q) = Len(p) + 1
  BY <1>2, <1>3 DEF Ptrs, Forked
<1> HIDE DEF p, q
<1>5. /\ \A k \in DOMAIN q :
              \/ k = i /\ q[k] = left
              \/ k = i + 1 /\ q[k] = right
              \/ \E a \in DOMAIN p \ {i} : q[k] = p[a] /\ ((k = a /\ a < i) \/ (k = a + 1 /\ a > i))
      /\ \A a \in DOMAIN p \ {i} : \E k \in DOMAIN q : q[k] = p[a]
      /\ i \in DOMAIN q /\ i + 1 \in DOMAIN q
  <2>1. i \in DOMAIN p
    BY DEF p
  <2>2. QED
    BY <1>0, <1>3, <2>1, ForkedPlaces
<1>6. /\ \/ left.b = p[i].b /\ right.b = nb
         \/ left.b = nb /\ right.b = p[i].b
      /\ Points(h, left) /\ Points(h, right) /\ CountsIts(h, left) /\ CountsIts(h, right)
      /\ i \in DOMAIN p
  BY DEF Fork, p
<1>7. q[i] = left /\ q[i + 1] = right
  BY <1>3 DEF Forked
<1>8. ASSUME NEW k \in DOMAIN q PROVE Points(h, q[k])
  BY <1>1, <1>5, <1>6
<1>9. ASSUME NEW k \in DOMAIN q PROVE Points(g, q[k])
  <2>1. g[q[k].b] = h[q[k].b] /\ q[k].b \in DOMAIN g
    BY <1>2, <1>8 DEF Points
  <2>2. QED
    BY <1>8, <2>1 DEF Points
<1>10. DOMAIN g = {0, 1} \cup {q[k].b : k \in DOMAIN q}
  <2>1. ASSUME NEW x \in DOMAIN g PROVE x \in {0, 1} \cup {q[k].b : k \in DOMAIN q}
    <3>1. CASE x \in {0, 1}
      BY <3>1
    <3>2. CASE x = nb
      BY <1>5, <1>6, <1>7, <3>2
    <3>3. CASE \E a \in DOMAIN p : x = p[a].b
      <4>1. PICK a \in DOMAIN p : x = p[a].b
        BY <3>3
      <4>2. CASE a = i
        BY <1>5, <1>6, <1>7, <4>1, <4>2
      <4>3. CASE a # i
        <5>1. PICK k \in DOMAIN q : q[k] = p[a]
          BY <1>5, <4>3
        <5>2. QED
          BY <4>1, <5>1
      <4>4. QED
        BY <4>2, <4>3
    <3>4. QED
      BY <1>0, <1>2, <3>1, <3>2, <3>3
  <2>2. ASSUME NEW k \in DOMAIN q PROVE q[k].b \in DOMAIN g
    BY <1>9 DEF Points
  <2>3. {0, 1} \subseteq DOMAIN g
    BY <1>0, <1>2
  <2>4. QED
    BY <2>1, <2>2, <2>3
<1>11. ASSUME NEW k \in DOMAIN q, NEW l \in DOMAIN q, q[k].b = q[l].b PROVE k = l
  <2>1. left.b # right.b
    BY <1>0, <1>6
  <2>2. ASSUME NEW a \in DOMAIN p \ {i} PROVE p[a].b # left.b /\ p[a].b # right.b
    BY <1>0, <1>6
  <2>3. CASE k = i /\ q[k] = left
    BY <1>5, <1>7, <1>11, <2>1, <2>2, <2>3
  <2>4. CASE k = i + 1 /\ q[k] = right
    BY <1>5, <1>7, <1>11, <2>1, <2>2, <2>4
  <2>5. CASE \E a \in DOMAIN p \ {i} : q[k] = p[a] /\ ((k = a /\ a < i) \/ (k = a + 1 /\ a > i))
    <3>1. PICK a \in DOMAIN p \ {i} : q[k] = p[a] /\ ((k = a /\ a < i) \/ (k = a + 1 /\ a > i))
      BY <2>5
    <3>2. PICK c \in DOMAIN p \ {i} : q[l] = p[c] /\ ((l = c /\ c < i) \/ (l = c + 1 /\ c > i))
      BY <1>5, <1>11, <2>2, <3>1
    <3>3. a = c
      BY <1>0, <1>11, <3>1, <3>2
    <3>4. k \in Int /\ l \in Int /\ i \in Int /\ a \in Int
      <4>1. DOMAIN p = 1 .. Len(p) /\ DOMAIN q = 1 .. Len(q)
        BY <1>0, <1>4
      <4>2. QED
        BY <1>6, <4>1
    <3>5. QED
      BY <3>1, <3>2, <3>3, <3>4
  <2>6. QED
    BY <1>5, <2>3, <2>4, <2>5
<1>12. Tree(g)
  <2>1. g[0] = h[0] /\ 0 \in DOMAIN g /\ 1 \in DOMAIN g
    BY <1>0, <1>2
  <2>2. q # <<>>
    BY <1>5
  <2>3. \A k \in DOMAIN q : /\ q[k].b \notin {0, 1} /\ q[k].pages = g[q[k].b].pages
                           /\ g[q[k].b].data.id = "data" /\ g[q[k].b].data.lines # <<>>
    BY <1>9 DEF Points
  <2>4. g[1].pages = 1 /\ g[1].data.id = "ptr" /\ g[0].pages = 1 /\ g[0].data.id = "zero"
        /\ {0, 1} \subseteq DOMAIN g
    BY <1>0, <1>2, <1>3, <2>1
  <2>5. TreeOf(g, q)
    BY <1>10, <1>11, <2>2, <2>3, <2>4 DEF TreeOf
  <2>6. g[1].data.ptrs = q
    BY <1>2 DEF q
  <2>7. QED
    BY <2>5, <2>6, TreeIs
<1>13. Rooted(g)
  <2>1. \A k \in DOMAIN q : q[k].b \in DOMAIN g /\ q[k].b # 1 /\ g[q[k].b].data.lines \in Seq(LineNumbers)
    BY <1>9 DEF Points
  <2>2. 1 \in DOMAIN g /\ g[1].data \in Blocks /\ g[1].pages = 1
    BY <1>0, <1>2, <1>3
  <2>3. QED
    BY <1>4, <2>1, <2>2 DEF Rooted
<1>14. \A k \in DOMAIN q : g[q[k].b].data.lines = h[q[k].b].data.lines
  BY <1>2, <1>8 DEF Points
<1>15. Counted(g, NotLocked, 0, 0)
  <2>0. NotLocked.at = 0 /\ NotLocked.add = 0
    BY NothingLocked
  <2> SUFFICES ASSUME NEW k \in DOMAIN q
               PROVE  q[k].count + (IF NotLocked.at = k THEN NotLocked.add ELSE 0)
                        = Len(g[q[k].b].data.lines) + (IF k = 0 THEN 0 ELSE 0)
    BY <1>4 DEF Counted, Ptrs
  <2>1. CountsIts(h, q[k])
    <3>1. ASSUME NEW a \in DOMAIN p \ {i} PROVE CountsIts(h, p[a])
      <4>1. p[a].count + (IF NotLocked.at = a THEN NotLocked.add ELSE 0)
              = Len(h[p[a].b].data.lines) + (IF a = i THEN d ELSE 0)
        BY DEF Counted, p, Ptrs
      <4>2. h[p[a].b].data.lines \in Seq(LineNumbers)
        BY <1>1 DEF Points
      <4>3. Len(h[p[a].b].data.lines) \in Nat
        BY <4>2
      <4>4. p[a] \in Entries
        BY <1>0
      <4>5. p[a].count \in Int
        BY <4>4 DEF Entries
      <4>6. p[a].count + 0 = Len(h[p[a].b].data.lines) + 0
        BY <2>0, <4>1
      <4>7. QED
        BY <4>3, <4>5, <4>6 DEF CountsIts
    <3>2. QED
      BY <1>5, <1>6, <3>1
  <2>2. q[k].count = Len(g[q[k].b].data.lines)
    BY <1>14, <2>1 DEF CountsIts
  <2>3. q[k].count \in Int
    <3>1. q[k] \in Entries
      BY <1>4
    <3>2. QED
      BY <3>1 DEF Entries
  <2>4. QED
    BY <2>0, <2>2, <2>3
<1>16. /\ Len(Rows(g)) = Len(q) /\ Len(Rows(h)) = Len(p)
       /\ \A k \in DOMAIN q : Rows(g)[k] = h[q[k].b].data.lines
       /\ \A k \in DOMAIN p : Rows(h)[k] = h[p[k].b].data.lines
  <2>1. Rows(g) = [k \in 1 .. Len(q) |-> g[q[k].b].data.lines] /\ DOMAIN q = 1 .. Len(q)
        /\ Len(q) \in Nat
    BY <1>4 DEF Rows
  <2>2. Rows(h) = [k \in 1 .. Len(p) |-> h[p[k].b].data.lines] /\ DOMAIN p = 1 .. Len(p)
        /\ Len(p) \in Nat
    BY <1>0 DEF Rows, p
  <2>3. Len(Rows(g)) = Len(q) /\ \A k \in DOMAIN q : Rows(g)[k] = g[q[k].b].data.lines
    BY <2>1
  <2>4. Len(Rows(h)) = Len(p) /\ \A k \in DOMAIN p : Rows(h)[k] = h[p[k].b].data.lines
    BY <2>2
  <2>5. QED
    BY <1>14, <2>3, <2>4
<1>17. /\ \A k \in 1 .. (i - 1) : Rows(g)[k] = Rows(h)[k]
       /\ \A k \in (i + 1) .. Len(p) : Rows(g)[k + 1] = Rows(h)[k]
  <2>0. Len(p) \in Nat /\ i \in 1 .. Len(p) /\ DOMAIN p = 1 .. Len(p) /\ DOMAIN q = 1 .. (Len(p) + 1)
    BY <1>0, <1>4, <1>6
  <2>1. ASSUME NEW k \in 1 .. (i - 1) PROVE Rows(g)[k] = Rows(h)[k]
    <3>1. k \in DOMAIN p /\ k \in DOMAIN q
      BY <2>0
    <3>2. q[k] = p[k]
      BY <1>3 DEF Forked
    <3>3. QED
      BY <1>16, <3>1, <3>2
  <2>2. ASSUME NEW k \in (i + 1) .. Len(p) PROVE Rows(g)[k + 1] = Rows(h)[k]
    <3>1. k \in DOMAIN p /\ k + 1 \in DOMAIN q
      BY <2>0
    <3>2. q[k + 1] = p[k]
      BY <1>3 DEF Forked
    <3>3. QED
      BY <1>16, <3>1, <3>2
  <2>3. QED
    BY <2>1, <2>2
<1>18. QED
  BY <1>4, <1>5, <1>7, <1>12, <1>13, <1>15, <1>16, <1>17 DEF ForkedTree

-----------------------------------------------------------------------------
(* The heap while a block is split: there is a block the tree does not     *)
(* point at.                                                               *)

Ready(h, g, i, nb, pages, new, old) ==
  /\ TreeAnd(g, nb, Ptrs(g)) /\ Rooted(g)
  /\ Len(Ptrs(g)) = Len(Ptrs(h)) /\ Ptrs(g)[i].b = Ptrs(h)[i].b
  /\ g[Ptrs(h)[i].b].pages = h[Ptrs(h)[i].b].pages /\ g[Ptrs(h)[i].b].data.lines = old
  /\ g[nb].pages = pages /\ g[nb].data.lines = new
  /\ \A k \in DOMAIN Ptrs(h) \ {i} : Rows(g)[k] = Rows(h)[k]

\* The fields of a new data block.
LEMMA DataBlockIs ==
  ASSUME NEW lines \in Seq(LineNumbers), NEW data, data = DataBlock(lines)
  PROVE  data \in Blocks /\ data.id = "data" /\ data.lines = lines
<1>1. <<>> \in Seq(Entries) /\ <<>> \in Seq(Nat)
  OBVIOUS
<1>2. data = [id |-> "data", lines |-> lines, ptrs |-> <<>>, behind |-> <<>>]
  BY DEF DataBlock, NoBlock
<1>3. QED
  BY <1>1, <1>2 DEF Blocks

\* Rows are by the blocks the entries point at.
LEMMA RowIs ==
  ASSUME NEW h, Rooted(h), NEW k \in DOMAIN Ptrs(h)
  PROVE  /\ Rows(h)[k] = h[Ptrs(h)[k].b].data.lines /\ Ptrs(h)[k] \in Entries
         /\ Ptrs(h)[k].b \in DOMAIN h /\ Ptrs(h)[k].b # 1 /\ Rows(h)[k] \in Seq(LineNumbers)
         /\ DOMAIN Ptrs(h) = 1 .. Len(Ptrs(h)) /\ Len(Ptrs(h)) \in Nat
<1>1. Ptrs(h) \in Seq(Entries)
  BY DEF Rooted
<1>2. DOMAIN Ptrs(h) = 1 .. Len(Ptrs(h)) /\ Len(Ptrs(h)) \in Nat /\ Ptrs(h)[k] \in Entries
  BY <1>1
<1>3. Rows(h)[k] = h[Ptrs(h)[k].b].data.lines
  BY <1>2 DEF Rows
<1>4. QED
  BY <1>2, <1>3 DEF Rooted

\* After mf_new there is one block that block 1 does not point at yet.
LEMMA MadeReady ==
  ASSUME NEW h, Tree(h), Rooted(h), NEW i \in DOMAIN Ptrs(h), NEW nb, nb \notin DOMAIN h,
         NEW pages, NEW new \in Seq(LineNumbers), new # <<>>,
         NEW g, Widened(h, g, nb, pages, DataBlock(new))
  PROVE  Ready(h, g, i, nb, pages, new, Rows(h)[i])
<1> DEFINE p == Ptrs(h)
<1>0. /\ p \in Seq(Entries) /\ {0, 1} \subseteq DOMAIN h /\ h[0].pages = 1 /\ h[1].pages = 1
      /\ h[0].data.id = "zero" /\ h[1].data.id = "ptr" /\ p # <<>> /\ h[1].data \in Blocks
      /\ DOMAIN h = {0, 1} \cup {p[k].b : k \in DOMAIN p}
      /\ \A k \in DOMAIN p :
           /\ p[k].b \notin {0, 1} /\ p[k].b \in DOMAIN h /\ p[k].pages = h[p[k].b].pages
           /\ h[p[k].b].data.id = "data" /\ h[p[k].b].data.lines # <<>>
           /\ h[p[k].b].data.lines \in Seq(LineNumbers)
      /\ \A k, l \in DOMAIN p : p[k].b = p[l].b => k = l
  BY DEF Tree, Rooted, Ptrs
<1>1. /\ DOMAIN g = DOMAIN h \cup {nb} /\ g[nb].pages = pages
      /\ g[nb].data.id = "data" /\ g[nb].data.lines = new
      /\ \A x \in DOMAIN h : g[x] = h[x]
  BY DataBlockIs DEF Widened
<1>2. Ptrs(g) = p /\ g[1].data.ptrs = p /\ g[1] = h[1] /\ g[0] = h[0] /\ 0 \in DOMAIN h /\ 1 \in DOMAIN h
  BY <1>0, <1>1 DEF Ptrs
<1>3. i \in DOMAIN p
  OBVIOUS
<1> HIDE DEF p
<1>4. \A k \in DOMAIN p : g[p[k].b] = h[p[k].b] /\ p[k].b \in DOMAIN g /\ p[k].b # nb
  BY <1>0, <1>1
<1>5. TreeAnd(g, nb, p)
  <2>1. \A k \in DOMAIN p :
          /\ p[k].b \notin {0, 1, nb} /\ p[k].pages = g[p[k].b].pages
          /\ g[p[k].b].data.id = "data" /\ g[p[k].b].data.lines # <<>>
    BY <1>0, <1>4
  <2>2. DOMAIN g = {0, 1} \cup {p[k].b : k \in DOMAIN p} \cup {nb} /\ {0, 1} \subseteq DOMAIN g
    BY <1>0, <1>1
  <2>3. nb \notin {0, 1} /\ g[nb].data.lines # <<>> /\ g[nb].data.lines \in Seq(LineNumbers)
    BY <1>1, <1>2
  <2>4. QED
    BY <1>0, <1>1, <1>2, <2>1, <2>2, <2>3 DEF TreeAnd
<1>6. Rooted(g)
  <2>1. \A k \in DOMAIN p : p[k].b \in DOMAIN g /\ p[k].b # 1 /\ g[p[k].b].data.lines \in Seq(LineNumbers)
    BY <1>0, <1>4
  <2>2. QED
    BY <1>0, <1>1, <1>2, <2>1 DEF Rooted
<1>7. \A k \in DOMAIN p : Rows(g)[k] = Rows(h)[k]
  <2>1. \A k \in DOMAIN p : Rows(g)[k] = g[p[k].b].data.lines
    BY <1>2, <1>6, RowIs
  <2>2. \A k \in DOMAIN p : Rows(h)[k] = h[p[k].b].data.lines
    BY RowIs DEF p
  <2>3. QED
    BY <1>4, <2>1, <2>2
<1>8. g[p[i].b].pages = h[p[i].b].pages /\ g[p[i].b].data.lines = Rows(h)[i]
  <2>1. Rows(h)[i] = h[p[i].b].data.lines
    BY RowIs DEF p
  <2>2. QED
    BY <1>3, <1>4, <2>1
<1>9. QED
  BY <1>1, <1>2, <1>5, <1>6, <1>7, <1>8 DEF Ready, p

\* Taking lines out of the old block leaves that so.
LEMMA RelinedReady ==
  ASSUME NEW h, NEW i \in DOMAIN Ptrs(h), Rooted(h), NEW nb, NEW pages, NEW new, NEW was,
         NEW g, Ready(h, g, i, nb, pages, new, was),
         NEW old \in Seq(LineNumbers), old # <<>>,
         NEW o, Relined(g, o, Ptrs(h)[i].b, old)
  PROVE  Ready(h, o, i, nb, pages, new, old)
<1> DEFINE p == Ptrs(g)
           b == Ptrs(h)[i].b
<1>0. /\ p \in Seq(Entries) /\ {0, 1} \subseteq DOMAIN g /\ g[0].pages = 1 /\ g[1].pages = 1
      /\ g[0].data.id = "zero" /\ g[1].data.id = "ptr" /\ p # <<>> /\ g[1].data \in Blocks
      /\ DOMAIN g = {0, 1} \cup {p[k].b : k \in DOMAIN p} \cup {nb}
      /\ \A k \in DOMAIN p :
           /\ p[k].b \notin {0, 1, nb} /\ p[k].b \in DOMAIN g /\ p[k].pages = g[p[k].b].pages
           /\ g[p[k].b].data.id = "data" /\ g[p[k].b].data.lines # <<>>
           /\ g[p[k].b].data.lines \in Seq(LineNumbers)
      /\ \A k, l \in DOMAIN p : p[k].b = p[l].b => k = l
      /\ nb \notin {0, 1} /\ nb \in DOMAIN g /\ g[nb].data.id = "data" /\ g[nb].data.lines # <<>>
      /\ g[nb].data.lines \in Seq(LineNumbers)
  BY DEF TreeAnd, Rooted, Ptrs, Ready
<1>1. /\ DOMAIN o = DOMAIN g /\ \A x \in DOMAIN g : o[x].pages = g[x].pages
      /\ \A x \in DOMAIN g : x # b => o[x] = g[x]
      /\ o[b].data.id = g[b].data.id /\ o[b].data.lines = old
  BY DEF Relined
<1>2. /\ Len(p) = Len(Ptrs(h)) /\ p[i].b = b /\ DOMAIN p = DOMAIN Ptrs(h) /\ i \in DOMAIN p
      /\ g[b].pages = h[b].pages /\ g[nb].pages = pages /\ g[nb].data.lines = new
      /\ \A k \in DOMAIN p \ {i} : Rows(g)[k] = Rows(h)[k]
  <2>1. Len(p) = Len(Ptrs(h)) /\ Ptrs(h) \in Seq(Entries)
    BY DEF Ready, Rooted
  <2>2. DOMAIN p = DOMAIN Ptrs(h)
    BY <1>0, <2>1
  <2>3. QED
    BY <2>1, <2>2 DEF Ready
<1>3. b \notin {0, 1, nb} /\ b \in DOMAIN g
  BY <1>0, <1>2
<1>4. o[1] = g[1] /\ o[0] = g[0] /\ o[nb] = g[nb]
  BY <1>0, <1>1, <1>3
<1>5. Ptrs(o) = p /\ o[1].data.ptrs = p
  BY <1>4 DEF Ptrs
<1> HIDE DEF p, b
<1>6. ASSUME NEW k \in DOMAIN p
      PROVE  /\ o[p[k].b].data.id = "data" /\ p[k].pages = o[p[k].b].pages
             /\ o[p[k].b].data.lines = (IF k = i THEN old ELSE g[p[k].b].data.lines)
  <2>1. CASE k = i
    BY <1>0, <1>1, <1>2, <2>1, SMTT(30)
  <2>2. CASE k # i
    <3>1. p[k].b # b /\ p[k].b \in DOMAIN g
      BY <1>0, <1>2, <2>2
    <3>2. o[p[k].b] = g[p[k].b]
      BY <1>1, <3>1
    <3>3. QED
      BY <1>0, <2>2, <3>2
  <2>3. QED
    BY <2>1, <2>2
<1>7. TreeAnd(o, nb, p)
  <2>1. \A k \in DOMAIN p :
          /\ p[k].b \notin {0, 1, nb} /\ p[k].pages = o[p[k].b].pages
          /\ o[p[k].b].data.id = "data" /\ o[p[k].b].data.lines # <<>>
    BY <1>0, <1>6
  <2>2. QED
    BY <1>0, <1>1, <1>4, <2>1 DEF TreeAnd
<1>8. Rooted(o)
  <2>1. \A k \in DOMAIN p : p[k].b \in DOMAIN o /\ p[k].b # 1 /\ o[p[k].b].data.lines \in Seq(LineNumbers)
    BY <1>0, <1>1, <1>6
  <2>2. 1 \in DOMAIN o /\ o[1].pages = 1 /\ o[1].data \in Blocks
    BY <1>0, <1>1, <1>4
  <2>3. QED
    BY <1>0, <1>5, <2>1, <2>2 DEF Rooted
<1>9. \A k \in DOMAIN p \ {i} : Rows(o)[k] = Rows(h)[k]
  <2>1. \A k \in DOMAIN p : Rows(o)[k] = o[p[k].b].data.lines
    BY <1>5, <1>8, RowIs
  <2>2. Rooted(g)
    BY DEF Ready
  <2>3. \A k \in DOMAIN p : Rows(g)[k] = g[p[k].b].data.lines
    BY <2>2, RowIs DEF p
  <2>4. QED
    BY <1>2, <1>6, <2>1, <2>3
<1>10. o[b].pages = h[b].pages
  BY <1>1, <1>2, <1>3
<1>11. QED
  BY <1>1, <1>2, <1>4, <1>5, <1>7, <1>8, <1>9, <1>10 DEF Ready, b

\* A recount of block 1 leaves that so.
LEMMA RecountedReady ==
  ASSUME NEW h, NEW i \in DOMAIN Ptrs(h), Rooted(h), NEW nb, NEW pages, NEW new, NEW old,
         NEW g, Ready(h, g, i, nb, pages, new, old),
         NEW o, Recounted(g, o), Rooted(o)
  PROVE  Ready(h, o, i, nb, pages, new, old)
<1> DEFINE p == Ptrs(g)
           q == Ptrs(o)
           b == Ptrs(h)[i].b
<1>0. /\ p \in Seq(Entries) /\ {0, 1} \subseteq DOMAIN g /\ g[0].pages = 1 /\ g[1].pages = 1
      /\ g[0].data.id = "zero" /\ g[1].data.id = "ptr" /\ p # <<>> /\ g[1].data \in Blocks
      /\ DOMAIN g = {0, 1} \cup {p[k].b : k \in DOMAIN p} \cup {nb}
      /\ \A k \in DOMAIN p :
           /\ p[k].b \notin {0, 1, nb} /\ p[k].b \in DOMAIN g /\ p[k].pages = g[p[k].b].pages
           /\ g[p[k].b].data.id = "data" /\ g[p[k].b].data.lines # <<>>
           /\ g[p[k].b].data.lines \in Seq(LineNumbers)
      /\ \A k, l \in DOMAIN p : p[k].b = p[l].b => k = l
      /\ nb \notin {0, 1} /\ nb \in DOMAIN g /\ g[nb].data.id = "data" /\ g[nb].data.lines # <<>>
      /\ g[nb].data.lines \in Seq(LineNumbers)
  BY DEF TreeAnd, Rooted, Ptrs, Ready
<1>1. /\ DOMAIN o = DOMAIN g /\ Len(q) = Len(p) /\ DOMAIN q = DOMAIN p
      /\ \A x \in DOMAIN g : o[x].pages = g[x].pages /\ o[x].data.id = g[x].data.id
      /\ \A x \in DOMAIN g : x # 1 => o[x] = g[x]
      /\ \A k \in DOMAIN p : q[k].b = p[k].b /\ q[k].pages = p[k].pages
  BY DEF Recounted
<1>2. /\ Len(p) = Len(Ptrs(h)) /\ p[i].b = b /\ DOMAIN p = DOMAIN Ptrs(h) /\ i \in DOMAIN p
      /\ g[b].pages = h[b].pages /\ g[nb].pages = pages /\ g[nb].data.lines = new
      /\ g[b].data.lines = old
      /\ \A k \in DOMAIN p \ {i} : Rows(g)[k] = Rows(h)[k]
  <2>1. Len(p) = Len(Ptrs(h)) /\ Ptrs(h) \in Seq(Entries)
    BY DEF Ready, Rooted
  <2>2. DOMAIN p = DOMAIN Ptrs(h)
    BY <1>0, <2>1
  <2>3. QED
    BY <2>1, <2>2 DEF Ready
<1>3. q \in Seq(Entries) /\ o[1].data.ptrs = q
  BY DEF Rooted, Ptrs
<1> HIDE DEF p, b, q
<1>4. o[0] = g[0] /\ o[nb] = g[nb] /\ o[b] = g[b] /\ \A k \in DOMAIN p : o[p[k].b] = g[p[k].b]
  <2>1. 0 \in DOMAIN g /\ 0 # 1 /\ nb # 1
    BY <1>0
  <2>2. \A k \in DOMAIN p : p[k].b # 1
    BY <1>0
  <2>3. QED
    BY <1>0, <1>1, <1>2, <2>1, <2>2
<1>5. TreeAnd(o, nb, q)
  <2>1. \A k \in DOMAIN q :
          /\ q[k].b \notin {0, 1, nb} /\ q[k].pages = o[q[k].b].pages
          /\ o[q[k].b].data.id = "data" /\ o[q[k].b].data.lines # <<>>
    BY <1>0, <1>1, <1>4, SMTT(30)
  <2>2. {q[k].b : k \in DOMAIN q} = {p[k].b : k \in DOMAIN p}
    BY <1>1
  <2>3. DOMAIN o = {0, 1} \cup {q[k].b : k \in DOMAIN q} \cup {nb}
    BY <1>0, <1>1, <2>2
  <2>4. q # <<>>
    BY <1>1, <1>2
  <2>5. \A k, l \in DOMAIN q : q[k].b = q[l].b => k = l
    BY <1>0, <1>1
  <2>6. {0, 1} \subseteq DOMAIN o /\ o[0].pages = 1 /\ o[1].pages = 1
        /\ o[0].data.id = "zero" /\ o[1].data.id = "ptr"
    BY <1>0, <1>1
  <2>7. QED
    BY <1>0, <1>4, <2>1, <2>3, <2>4, <2>5, <2>6 DEF TreeAnd
<1>6. \A k \in DOMAIN p \ {i} : Rows(o)[k] = Rows(h)[k]
  <2>1. \A k \in DOMAIN q : Rows(o)[k] = o[q[k].b].data.lines
    BY RowIs DEF q
  <2>2. Rooted(g)
    BY DEF Ready
  <2>3. \A k \in DOMAIN p : Rows(g)[k] = g[p[k].b].data.lines
    BY <2>2, RowIs DEF p
  <2>4. QED
    BY <1>1, <1>2, <1>4, <2>1, <2>3
<1>7. q[i].b = b
  BY <1>1, <1>2
<1>8. o[b].pages = h[b].pages /\ o[b].data.lines = old
  BY <1>2, <1>4
<1>9. o[nb].pages = pages /\ o[nb].data.lines = new
  BY <1>2, <1>4
<1>10. Len(q) = Len(Ptrs(h))
  BY <1>1, <1>2
<1>11. QED
  BY <1>2, <1>5, <1>6, <1>7, <1>8, <1>9, <1>10 DEF Ready, b, q

-----------------------------------------------------------------------------
(* A block is split, up to the flush of the locked block.                  *)

\* A new block leaves block 1 alone.
LEMMA SamePtrsMade ==
  ASSUME NEW h, NEW g, NEW nb, NEW pages, NEW data, Rooted(h), nb \notin DOMAIN h,
         Widened(h, g, nb, pages, data)
  PROVE  Ptrs(g) = Ptrs(h)
<1>1. 1 \in DOMAIN h /\ 1 # nb
  BY DEF Rooted
<1>2. g[1] = h[1]
  BY <1>1 DEF Widened
<1>3. QED
  BY <1>2 DEF Ptrs

\* New lines for a data block leave block 1 alone.
LEMMA SamePtrsRelined ==
  ASSUME NEW h, NEW g, NEW b, NEW lines, Rooted(h), b # 1, Relined(h, g, b, lines)
  PROVE  Ptrs(g) = Ptrs(h)
<1>1. 1 \in DOMAIN h
  BY DEF Rooted
<1>2. g[1] = h[1]
  BY <1>1 DEF Relined
<1>3. QED
  BY <1>2 DEF Ptrs

\* Which blocks are to become dirty, before and after the lines are set.
Dirties(dirty, X, Y, b, old, row) ==
  /\ dirty \in BOOLEAN /\ X \subseteq {b} /\ (~dirty => old = row /\ X = {})
  /\ Y = IF dirty THEN {b} ELSE {}
OtherRows(h, g, i) == \A k \in DOMAIN Ptrs(h) \ {i} : Rows(g)[k] = Rows(h)[k]

\* The old block has the lines that stay.
OldLined(m, n, h, g, Y, i, nb, pages, new, old) ==
  /\ MemInv(n, g, Y) /\ Ready(h, g, i, nb, pages, new, old) /\ Ptrs(g) = Ptrs(h)
  /\ \A c : Holds(m, c) => Holds(n, c)

\* The lines that stay in the old block, which is about to be dirty unless they are all
\* it had.
LEMMA LinesStay ==
  ASSUME NEW h, Rooted(h), NEW i \in DOMAIN Ptrs(h), NEW b, b = Ptrs(h)[i].b,
         NEW nb, NEW pages, NEW new, NEW h1, Ready(h, h1, i, nb, pages, new, Rows(h)[i]),
         Ptrs(h1) = Ptrs(h),
         NEW m, NEW X, MemInv(m, h1, X), Holds(m, b),
         NEW old \in Seq(LineNumbers), old # <<>>, NEW dirty, NEW Y,
         Dirties(dirty, X, Y, b, old, Rows(h)[i]), NEW n, n = SetLines(m, b, old)
  PROVE  \E g : OldLined(m, n, h, g, Y, i, nb, pages, new, old)
<1> USE DEF Dirties
<1>0. b \in DOMAIN h1 /\ b # 1 /\ Rooted(h1) /\ h1[b].data.lines = Rows(h)[i]
  <2>1. Rooted(h1) /\ h1[b].data.lines = Rows(h)[i]
    BY DEF Ready
  <2>2. i \in DOMAIN Ptrs(h1) /\ Ptrs(h1)[i].b = b
    OBVIOUS
  <2>3. b \in DOMAIN h1 /\ b # 1
    BY <2>1, <2>2, RowIs
  <2>4. QED
    BY <2>1, <2>3
<1>1. CASE dirty
  <2>1. PICK g : LinesEdited(m, n, h1, g, X, b, old)
    BY <1>0, LinesSet
  <2>2. /\ MemInv(n, g, X \cup {b}) /\ Relined(h1, g, b, old)
        /\ \A c : Holds(m, c) => Holds(n, c)
    BY <2>1 DEF LinesEdited
  <2>3. X \cup {b} = Y
    BY <1>1
  <2>4. Ready(h, g, i, nb, pages, new, old)
    <3>1. Relined(h1, g, Ptrs(h)[i].b, old)
      BY <2>2
    <3>2. QED
      BY <3>1, RelinedReady
  <2>5. Ptrs(g) = Ptrs(h1)
    BY <1>0, <2>2, SamePtrsRelined
  <2>6. MemInv(n, g, Y)
    BY <2>2, <2>3
  <2>7. QED
    BY <2>2, <2>4, <2>5, <2>6 DEF OldLined
<1>2. CASE ~dirty
  <2>1. old = Rows(h)[i] /\ X = Y
    BY <1>2
  <2>2. n = m
    <3> DEFINE k == Position(m, b)
               data == m.used[k].data
    <3>1. MemTypes(m) /\ k \in DOMAIN m.used /\ m.used[k].b = b
      <4>1. \A a, c \in DOMAIN m.used : m.used[a].b = m.used[c].b => a = c
        BY DEF MemInv, UsedInv
      <4>2. InMemory(m, b)
        BY DEF Holds, InMemory
      <4>3. QED
        BY <4>1, <4>2, PositionIn DEF MemInv
    <3> HIDE DEF k
    <3>2. Translated(m, b) = b
      BY DEF Holds, Translated
    <3>3. data = h1[b].data
      BY <1>0, <3>1, <3>2, NameOf
    <3>4. data \in Blocks /\ data.lines = old
      BY <1>0, <2>1, <3>1, <3>3, MemFields
    <3>5. [data EXCEPT !.lines = old] = data
      <4> HIDE DEF data
      <4>1. QED
        BY <3>4 DEF Blocks
    <3>6. n = WithData(m, k, [data EXCEPT !.lines = old])
      BY DEF SetLines, WithData, k
    <3>7. WithData(m, k, data) = m
      BY <3>1, SameData
    <3>8. QED
      BY <3>5, <3>6, <3>7
  <2>3. OldLined(m, n, h, h1, Y, i, nb, pages, new, old)
    BY <2>1, <2>2 DEF OldLined
  <2>4. QED
    BY <2>3
<1>3. QED
  BY <1>1, <1>2

\* The counts, when the locked block has nothing to add.
LEMMA CountedStaying ==
  ASSUME NEW h, NEW l, NEW i \in DOMAIN Ptrs(h), Rooted(h), Counted(h, l, i, 1), l.at = i,
         NEW g, Rooted(g), Ptrs(g) = Ptrs(h), NEW old \in Seq(LineNumbers),
         g[Ptrs(h)[i].b].data.lines = old, OtherRows(h, g, i),
         NEW k0, k0.add = 0
  PROVE  \E d : Counted(g, k0, i, d)
<1> DEFINE p == Ptrs(h)
           d == p[i].count - Len(old)
<1>1. p[i].count \in Int /\ Len(old) \in Nat
  <2>1. p[i] \in Entries
    BY RowIs
  <2>2. QED
    BY <2>1 DEF Entries
<1>2. ASSUME NEW k \in DOMAIN p
      PROVE  p[k].count + (IF k0.at = k THEN k0.add ELSE 0)
               = Len(g[p[k].b].data.lines) + (IF k = i THEN d ELSE 0)
  <2>0. (IF k0.at = k THEN k0.add ELSE 0) = 0
    OBVIOUS
  <2>1. CASE k = i
    <3>1. g[p[k].b].data.lines = old
      BY <2>1
    <3>2. p[i].count + 0 = Len(old) + d
      BY <1>1
    <3>3. QED
      BY <2>0, <2>1, <3>1, <3>2
  <2>2. CASE k # i
    <3>1. g[p[k].b].data.lines = h[p[k].b].data.lines
      <4>1. Rows(g)[k] = Rows(h)[k]
        BY <2>2 DEF OtherRows
      <4>2. Rows(h)[k] = h[p[k].b].data.lines
        BY RowIs
      <4>3. Rows(g)[k] = g[p[k].b].data.lines
        BY RowIs
      <4>4. QED
        BY <4>1, <4>2, <4>3
    <3>2. p[k].count + (IF l.at = k THEN l.add ELSE 0)
            = Len(h[p[k].b].data.lines) + (IF k = i THEN 1 ELSE 0)
      BY DEF Counted, Ptrs
    <3>3. (IF l.at = k THEN l.add ELSE 0) = 0 /\ (IF k = i THEN 1 ELSE 0) = 0
      BY <2>2
    <3>4. p[k].count + 0 = Len(h[p[k].b].data.lines) + 0
      BY <3>2, <3>3
    <3>5. QED
      BY <2>0, <2>2, <3>1, <3>4
  <2>3. QED
    BY <2>1, <2>2
<1> HIDE DEF d
<1>3. Counted(g, k0, i, d)
  BY <1>2, SMTT(30) DEF Counted, Ptrs
<1>4. QED
  BY <1>3

Prepared(t, h, g, i, d, nb, pages, new, old) ==
  Half(t, g, i, d) /\ Ready(h, g, i, nb, pages, new, old)
\* The locked block is dirty when it was or when its lines are not what they were.
DirtyIf(dirty, was, old, row) == (was => dirty) /\ (~dirty => old = row)

\* The new block is made and put back, the locked one has got its lines.
PutNew(m, p, b, nb, newfile, pages, new, old, room) ==
  \E made : /\ made = mf_new(m, newfile, pages, DataBlock(new), room)
            /\ nb = made.used[1].b
            /\ p = mf_put(SetLines(made, b, old), nb, TRUE, FALSE)

\* What Split does before the flush: the state is t, the memory file p.
Parting(f, h, i, new, old, pages, newfile, room, nb, p, dirty, pos, t) ==
  /\ Buf(f, h, i, 1) /\ f.l.at = i /\ i # 0
  /\ new \in Seq(LineNumbers) /\ new # <<>> /\ old \in Seq(LineNumbers) /\ old # <<>>
  /\ pages \in Nat \ {0} /\ newfile \in BOOLEAN
  /\ PutNew(f.m, p, f.l.b, nb, newfile, pages, new, old, room)
  /\ dirty \in BOOLEAN /\ DirtyIf(dirty, f.l.dirty, old, Rows(h)[i])
  /\ Touched(f, t, p, 0, dirty, pos)

\* ml_append_int up to where both halves are in their blocks and block 1 is to be
\* changed.
LEMMA SplitPrepared ==
  ASSUME NEW f, NEW h, NEW i, NEW new, NEW old, NEW pages, NEW newfile, NEW room, NEW nb, NEW p,
         NEW dirty, NEW pos, NEW t,
         Parting(f, h, i, new, old, pages, newfile, room, nb, p, dirty, pos, t)
  PROVE  \E g, d : Prepared(t, h, g, i, d, nb, pages, new, old)
<1> USE DEF Parting
<1> PICK made : /\ made = mf_new(f.m, newfile, pages, DataBlock(new), room)
                /\ nb = made.used[1].b
                /\ p = mf_put(SetLines(made, f.l.b, old), nb, TRUE, FALSE)
  BY DEF PutNew
<1>p. /\ Buf(f, h, i, 1) /\ f.l.at = i /\ i # 0
      /\ new \in Seq(LineNumbers) /\ new # <<>> /\ old \in Seq(LineNumbers) /\ old # <<>>
      /\ pages \in Nat \ {0} /\ newfile \in BOOLEAN
      /\ dirty \in BOOLEAN /\ DirtyIf(dirty, f.l.dirty, old, Rows(h)[i])
      /\ Touched(f, t, p, 0, dirty, pos)
  OBVIOUS
<1> USE <1>p
<1> HIDE DEF Parting
<1> DEFINE b == f.l.b
           X == Pending(f.l)
           Y == Pending(t.l)
           data == DataBlock(new)
           e == SetLines(made, b, old)
<1>a. (f.l.dirty => dirty) /\ (~dirty => old = Rows(h)[i])
  BY DEF DirtyIf
<1>0. /\ Half(f, h, i, 1) /\ Tree(h) /\ Rooted(h) /\ MemInv(f.m, h, X) /\ Counted(h, f.l, i, 1)
      /\ IsState(f)
  BY DEF Buf, Half
<1>1. /\ i \in DOMAIN Ptrs(h) /\ b = Ptrs(h)[i].b /\ b \in DOMAIN h /\ b # 1 /\ Holds(f.m, b)
      /\ f.l \in HeldLocks /\ Held(f.m, X)
  BY <1>0, LockedFacts DEF HeldLocks
<1>2. data \in Blocks
  BY DataBlockIs
<1>3. Made(f.m, made, h, X, nb, pages, data)
  <2> HIDE DEF X, data
  <2>1. made = mf_new(f.m, newfile, pages, data, room)
    BY DEF data
  <2>2. QED
    BY <1>0, <1>1, <1>2, <2>1, MfNew
<1>4. PICK h1 : h1 = With(h, nb, pages, data)
  OBVIOUS
<1>5. /\ nb \notin DOMAIN h /\ MemInv(made, h1, X) /\ Holds(made, nb)
      /\ \A c : Holds(f.m, c) => Holds(made, c)
  BY <1>3, <1>4 DEF Made
<1>6. Widened(h, h1, nb, pages, data)
  <2>1. h \in Heaps(DOMAIN h)
    BY <1>0 DEF MemInv
  <2>2. QED
    BY <1>2, <1>4, <2>1, WithIs
<1>7. Ready(h, h1, i, nb, pages, new, Rows(h)[i])
  BY <1>0, <1>1, <1>5, <1>6, MadeReady
<1>8. Ptrs(h1) = Ptrs(h)
  BY <1>0, <1>5, <1>6, SamePtrsMade
<1>9. Holds(made, b) /\ X \subseteq {b} /\ (~dirty => X = {})
  BY <1>a, <1>1, <1>5 DEF Pending
<1>10. /\ IsState(t) /\ t.m = p /\ t.ok = f.ok /\ t.l.at = i /\ t.l.b = b /\ t.l.add = 0
       /\ t.l.dirty = dirty /\ t.l \in HeldLocks
  BY DEF Touched
<1>11. Y = IF dirty THEN {b} ELSE {}
  BY <1>10 DEF Pending
<1> HIDE DEF b, X, Y, data
<1>12. PICK g : OldLined(made, e, h, g, Y, i, nb, pages, new, old)
  <2> HIDE DEF e
  <2>1. e = SetLines(made, b, old)
    BY DEF e
  <2>2. Dirties(dirty, X, Y, b, old, Rows(h)[i])
    BY <1>a, <1>9, <1>11 DEF Dirties
  <2>3. /\ Rooted(h) /\ i \in DOMAIN Ptrs(h) /\ b = Ptrs(h)[i].b
        /\ MemInv(made, h1, X) /\ Holds(made, b)
    BY <1>0, <1>1, <1>5, <1>9
  <2> DEFINE row == Rows(h)[i]
  <2>4. Ready(h, h1, i, nb, pages, new, Rows(h)[i]) /\ Dirties(dirty, X, Y, b, old, Rows(h)[i])
    BY <1>7, <2>2
  <2>5. QED
    BY <1>8, <2>1, <2>3, <2>4, LinesStay, ZenonT(30)
<1> HIDE DEF e
<1>13. /\ MemInv(e, g, Y) /\ Ready(h, g, i, nb, pages, new, old) /\ Ptrs(g) = Ptrs(h)
       /\ Holds(e, nb) /\ Holds(e, b)
  BY <1>5, <1>9, <1>12 DEF OldLined
<1>14. PutBackAs(e, p, g, Y, nb, FALSE)
  <2>1. Settles(Y, Y, nb, TRUE)
    BY DEF Settles
  <2>2. InMemory(e, nb)
    BY <1>13 DEF Holds, InMemory
  <2>3. p = mf_put(e, nb, TRUE, FALSE)
    BY DEF e, b
  <2>4. QED
    BY <1>13, <2>1, <2>2, <2>3, MfPutAs
<1>15. MemInv(p, g, Y) /\ Holds(p, b)
  <2>1. b # nb
    BY <1>1, <1>5
  <2>2. QED
    BY <1>13, <1>14, <2>1 DEF PutBackAs, PutBack
<1>16. LockedInv(t.m, g, t.l)
  <2>1. t.l.at \in DOMAIN g[1].data.ptrs /\ t.l.b = g[1].data.ptrs[t.l.at].b
    BY <1>1, <1>10, <1>13 DEF Ptrs
  <2>2. t.l.b \notin DOMAIN t.m.trans /\ \E k \in DOMAIN t.m.used : t.m.used[k].b = t.l.b /\ t.m.used[k].locked
    BY <1>10, <1>15 DEF Holds
  <2>3. QED
    BY <1>10, <2>1, <2>2 DEF LockedInv, HeldLocks
<1>17. PICK d : Counted(g, t.l, i, d)
  <2>1. g[Ptrs(h)[i].b].data.lines = old /\ Rooted(g)
        /\ OtherRows(h, g, i)
    BY <1>13 DEF Ready, OtherRows
  <2>2. QED
    BY <1>0, <1>1, <1>10, <1>13, <2>1, CountedStaying
<1>18. Half(t, g, i, d)
  <2>1. Rooted(g)
    BY <1>13 DEF Ready
  <2>2. QED
    BY <1>10, <1>15, <1>16, <1>17, <2>1 DEF Half, Y
<1>19. Prepared(t, h, g, i, d, nb, pages, new, old)
  BY <1>13, <1>18 DEF Prepared
<1>20. QED
  BY <1>19

-----------------------------------------------------------------------------
(* A block is split.                                                       *)

SplitTypes(sp) ==
  /\ sp.new \in Seq(LineNumbers) /\ sp.new # <<>> /\ sp.old \in Seq(LineNumbers) /\ sp.old # <<>>
  /\ sp.moved \in BOOLEAN /\ sp.inLeft \in BOOLEAN
SplitRootAs(root, r, i, x, sp, b, nb, oldPages, left, right) ==
  /\ Splits(root, r, i, left, right)
  /\ \/ /\ x = 0 /\ EntryOf(left, nb, PagesFor(sp.new), Len(sp.new))
        /\ EntryOf(right, b, oldPages, Len(sp.old))
     \/ /\ x # 0 /\ EntryOf(left, b, oldPages, Len(sp.old))
        /\ EntryOf(right, nb, PagesFor(sp.new), Len(sp.new))

\* The two entries that ml_append_int puts into block 1 count the lines of the halves.
LEMMA SplitRootIs ==
  ASSUME NEW root \in Blocks, NEW l, NEW i, i = l.at, i \in DOMAIN root.ptrs, NEW b, b = l.b,
         b \in Int, NEW x, NEW n \in Nat, NEW sp, SplitTypes(sp), NEW nb \in Int,
         NEW oldPages \in Nat \ {0}, NEW r, r = SplitRoot(root, l, x, n, sp, nb, oldPages)
  PROVE  \E left, right : SplitRootAs(root, r, i, x, sp, b, nb, oldPages, left, right)
<1>0. root.ptrs \in Seq(Entries) /\ root.ptrs[i] \in Entries /\ i \in Nat
  BY DEF Blocks
<1>1. PICK pages \in Nat \ {0} : pages = PagesFor(sp.new)
  BY PagesAre DEF SplitTypes
<1>2. PICK new \in Int : new = Len(sp.new)
  BY DEF SplitTypes
<1>3. PICK old \in Int : old = Len(sp.old)
  BY DEF SplitTypes
<1>4. CASE x = 0
  <2>1. PICK at \in Nat : at = n + 1
    OBVIOUS
  <2>2. PICK was \in Nat : was = OldInSlot(root, i + 1)
    BY <1>0, OldIs
  <2>3. PICK left : left = Entry(nb, pages, new, at)
    OBVIOUS
  <2>4. PICK right : right = Entry(b, oldPages, old, was)
    OBVIOUS
  <2>5. r = SplitEntry(root, i, left, right)
    BY <1>1, <1>2, <1>3, <1>4, <2>1, <2>2, <2>3, <2>4 DEF SplitRoot
  <2>6. EntryOf(left, nb, pages, new)
    BY <2>3, EntryIs
  <2>7. EntryOf(right, b, oldPages, old)
    BY <2>4, EntryIs
  <2>8. Splits(root, r, i, left, right)
    BY <2>5, <2>6, <2>7, SplitEntryIs DEF EntryOf
  <2>9. SplitRootAs(root, r, i, x, sp, b, nb, oldPages, left, right)
    BY <1>1, <1>2, <1>3, <1>4, <2>6, <2>7, <2>8 DEF SplitRootAs
  <2>10. QED
    BY <2>9
<1>5. CASE x # 0
  <2>1. PICK at \in Nat : at = IF sp.inLeft THEN n + 2 ELSE n + 1
    <3>1. n + 2 \in Nat /\ n + 1 \in Nat
      OBVIOUS
    <3>2. QED
      BY <3>1
  <2>2. PICK was \in Nat : was = root.ptrs[i].old
    BY <1>0 DEF Entries
  <2>3. PICK left : left = Entry(b, oldPages, old, was)
    OBVIOUS
  <2>4. PICK right : right = Entry(nb, pages, new, at)
    OBVIOUS
  <2>5. r = SplitEntry(root, i, left, right)
    BY <1>1, <1>2, <1>3, <1>5, <2>1, <2>2, <2>3, <2>4 DEF SplitRoot
  <2>6. EntryOf(left, b, oldPages, old)
    BY <2>3, EntryIs
  <2>7. EntryOf(right, nb, pages, new)
    BY <2>4, EntryIs
  <2>8. Splits(root, r, i, left, right)
    BY <2>5, <2>6, <2>7, SplitEntryIs DEF EntryOf
  <2>9. SplitRootAs(root, r, i, x, sp, b, nb, oldPages, left, right)
    BY <1>1, <1>2, <1>3, <1>5, <2>6, <2>7, <2>8 DEF SplitRootAs
  <2>10. QED
    BY <2>9
<1>6. QED
  BY <1>4, <1>5

\* The tree after the split has the halves where it had the lines.
SplitTree(h, g, i, M) ==
  /\ Tree(g) /\ Rooted(g) /\ Counted(g, NotLocked, 0, 0) /\ Spliced(Rows(h), Rows(g), i, M)
  /\ M \in Seq(Seq(LineNumbers))

\* With them block 1 is the root of a tree whose rows have the halves in place of the
\* row.
LEMMA SplitTreeIs ==
  ASSUME NEW h, Rooted(h), NEW i \in DOMAIN Ptrs(h), NEW b, b = Ptrs(h)[i].b, NEW nb, NEW sp,
         SplitTypes(sp), NEW h3, Ready(h, h3, i, nb, PagesFor(sp.new), sp.new, sp.old),
         NEW d, Counted(h3, NotLocked, i, d), NEW x, NEW oldPages, oldPages = h[b].pages,
         NEW r, NEW left, NEW right,
         SplitRootAs(h3[1].data, r, i, x, sp, b, nb, oldPages, left, right),
         NEW g, Widened(h3, g, 1, 1, r), NEW M, M = Halves(sp, x)
  PROVE  SplitTree(h, g, i, M)
<1>0. /\ TreeAnd(h3, nb, Ptrs(h3)) /\ Rooted(h3) /\ Len(Ptrs(h3)) = Len(Ptrs(h))
      /\ Ptrs(h3)[i].b = b /\ h3[b].pages = oldPages /\ h3[b].data.lines = sp.old
      /\ h3[nb].pages = PagesFor(sp.new) /\ h3[nb].data.lines = sp.new
      /\ \A k \in DOMAIN Ptrs(h) \ {i} : Rows(h3)[k] = Rows(h)[k]
  BY DEF Ready
<1>1. DOMAIN Ptrs(h) = 1 .. Len(Ptrs(h)) /\ DOMAIN Ptrs(h3) = DOMAIN Ptrs(h) /\ Len(Ptrs(h)) \in Nat
  <2>1. Ptrs(h) \in Seq(Entries) /\ Ptrs(h3) \in Seq(Entries)
    BY <1>0 DEF Rooted
  <2>2. QED
    BY <1>0, <2>1
<1>2. /\ b \in DOMAIN h3 /\ b \notin {0, 1} /\ h3[b].data.id = "data"
      /\ nb \in DOMAIN h3 /\ nb \notin {0, 1} /\ h3[nb].data.id = "data"
  <2>1. i \in DOMAIN Ptrs(h3) /\ Ptrs(h3)[i].b = b
    BY <1>0, <1>1
  <2>2. QED
    BY <1>0, <2>1, SMTT(30) DEF TreeAnd
<1>3. Splits(h3[1].data, r, i, left, right)
  BY DEF SplitRootAs
<1>4. ASSUME NEW e, EntryOf(e, b, oldPages, Len(sp.old))
      PROVE  Points(h3, e) /\ CountsIts(h3, e) /\ e.b = b /\ h3[e.b].data.lines = sp.old
  BY <1>0, <1>2, <1>4 DEF EntryOf, Points, CountsIts, SplitTypes
<1>5. ASSUME NEW e, EntryOf(e, nb, PagesFor(sp.new), Len(sp.new))
      PROVE  Points(h3, e) /\ CountsIts(h3, e) /\ e.b = nb /\ h3[e.b].data.lines = sp.new
  BY <1>0, <1>2, <1>5 DEF EntryOf, Points, CountsIts, SplitTypes
<1>6. /\ Fork(h3, b, nb, left, right)
      /\ M = <<h3[left.b].data.lines, h3[right.b].data.lines>>
  <2>1. CASE x = 0
    <3>1. EntryOf(left, nb, PagesFor(sp.new), Len(sp.new)) /\ EntryOf(right, b, oldPages, Len(sp.old))
      BY <2>1 DEF SplitRootAs
    <3>2. M = <<sp.new, sp.old>>
      BY <2>1 DEF Halves
    <3>3. QED
      BY <1>4, <1>5, <3>1, <3>2 DEF Fork
  <2>2. CASE x # 0
    <3>1. EntryOf(right, nb, PagesFor(sp.new), Len(sp.new)) /\ EntryOf(left, b, oldPages, Len(sp.old))
      BY <2>2 DEF SplitRootAs
    <3>2. M = <<sp.old, sp.new>>
      BY <2>2 DEF Halves
    <3>3. QED
      BY <1>4, <1>5, <3>1, <3>2 DEF Fork
  <2>3. QED
    BY <2>1, <2>2
<1>7. ForkedTree(h3, g, i, left, right)
  <2>1. i \in DOMAIN Ptrs(h3) /\ Ptrs(h3)[i].b = b
    BY <1>0, <1>1
  <2>2. Fork(h3, Ptrs(h3)[i].b, nb, left, right)
    BY <1>6, <2>1
  <2>3. QED
    BY <1>0, <1>3, <2>1, <2>2, TreeForked
<1>8. PICK a, c : a = h3[left.b].data.lines /\ c = h3[right.b].data.lines
  OBVIOUS
<1>9. a \in Seq(LineNumbers) /\ c \in Seq(LineNumbers)
  BY <1>6, <1>8 DEF Fork, Points
<1>10. M = <<a, c>> /\ Len(M) = 2 /\ M[1] = a /\ M[2] = c /\ M \in Seq(Seq(LineNumbers))
  <2>1. M = <<a, c>>
    BY <1>6, <1>8
  <2>2. <<a, c>> \in Seq(Seq(LineNumbers))
    BY <1>9
  <2>3. QED
    BY <2>1, <2>2
<1>11. /\ Len(Rows(g)) = Len(Rows(h3)) + 1
       /\ Rows(g)[i] = a /\ Rows(g)[i + 1] = c
       /\ \A k \in 1 .. (i - 1) : Rows(g)[k] = Rows(h3)[k]
       /\ \A k \in (i + 1) .. Len(Rows(h3)) : Rows(g)[k + 1] = Rows(h3)[k]
  BY <1>7, <1>8 DEF ForkedTree
<1>12. Len(Rows(h3)) = Len(Ptrs(h)) /\ Len(Rows(h)) = Len(Ptrs(h))
  BY <1>0, <1>1, SMTT(30) DEF Rows
<1> DEFINE n == Len(Ptrs(h))
<1>13. n \in Nat /\ i \in 1 .. n
  BY <1>1
<1> HIDE DEF n
<1>14. Spliced(Rows(h), Rows(g), i, M)
  <2>1. \A k \in 1 .. n : k # i => Rows(h3)[k] = Rows(h)[k]
    BY <1>0, <1>1 DEF n
  <2>2. \A k \in 1 .. (i - 1) : Rows(g)[k] = Rows(h)[k]
    <3>1. \A k \in 1 .. (i - 1) : k \in 1 .. n /\ k # i
      BY <1>13
    <3>2. QED
      BY <1>11, <2>1, <3>1
  <2>3. \A k \in 1 .. Len(M) : Rows(g)[i - 1 + k] = M[k]
    <3>1. i - 1 + 1 = i /\ i - 1 + 2 = i + 1
      BY <1>13
    <3>2. \A k \in 1 .. Len(M) : k = 1 \/ k = 2
      BY <1>10
    <3>3. QED
      BY <1>10, <1>11, <3>1, <3>2
  <2>4. ASSUME NEW k \in 1 .. (n - i) PROVE Rows(g)[i - 1 + Len(M) + k] = Rows(h)[i + k]
    <3>1. i + k \in (i + 1) .. n /\ i + k \in 1 .. n /\ i + k # i /\ i - 1 + 2 + k = (i + k) + 1
      BY <1>13
    <3>2. Rows(g)[(i + k) + 1] = Rows(h3)[i + k]
      BY <1>11, <1>12, <3>1 DEF n
    <3>3. Rows(h3)[i + k] = Rows(h)[i + k]
      BY <2>1, <3>1
    <3>4. QED
      BY <1>10, <3>1, <3>2, <3>3
  <2>5. Len(Rows(g)) = n + 2 - 1
    BY <1>11, <1>12, <1>13 DEF n
  <2>6. Len(Rows(h)) = n
    BY <1>12 DEF n
  <2>7. QED
    BY <1>10, <1>13, <2>2, <2>3, <2>4, <2>5, <2>6 DEF Spliced
<1>15. QED
  BY <1>7, <1>10, <1>14 DEF ForkedTree, SplitTree

-----------------------------------------------------------------------------
(* The steps of Split together.                                            *)

\* The locked block after a split: nothing is to be added to its count.
LEMMA TouchedIs ==
  ASSUME NEW f, IsState(f), f.l \in HeldLocks, NEW m, NEW dirty \in BOOLEAN, NEW pos \in BOOLEAN,
         NEW t, t = [f EXCEPT !.m = m, !.l.add = 0, !.l.dirty = dirty, !.l.pos = pos]
  PROVE  Touched(f, t, m, 0, dirty, pos)
<1>1. PICK l : l = f.l
  OBVIOUS
<1>2. f = [m |-> f.m, l |-> l, ok |-> f.ok] /\ f.ok \in BOOLEAN
  BY <1>1 DEF IsState
<1>3. PICK k : k = [[[l EXCEPT !.add = 0] EXCEPT !.dirty = dirty] EXCEPT !.pos = pos]
  OBVIOUS
<1>4. l \in [at : Nat \ {0}, b : Int, dirty : BOOLEAN, pos : BOOLEAN, add : Int]
  BY <1>1 DEF HeldLocks
<1>5. /\ k \in [at : Nat \ {0}, b : Int, dirty : BOOLEAN, pos : BOOLEAN, add : Int]
      /\ k.at = l.at /\ k.b = l.b /\ k.add = 0 /\ k.dirty = dirty /\ k.pos = pos
  <2>1. PICK k1 : k1 = [l EXCEPT !.add = 0]
    OBVIOUS
  <2>2. /\ k1 \in [at : Nat \ {0}, b : Int, dirty : BOOLEAN, pos : BOOLEAN, add : Int]
        /\ k1.at = l.at /\ k1.b = l.b /\ k1.add = 0
    BY <1>4, <2>1
  <2>3. PICK k2 : k2 = [k1 EXCEPT !.dirty = dirty]
    OBVIOUS
  <2>4. /\ k2 \in [at : Nat \ {0}, b : Int, dirty : BOOLEAN, pos : BOOLEAN, add : Int]
        /\ k2.at = k1.at /\ k2.b = k1.b /\ k2.add = k1.add /\ k2.dirty = dirty
    BY <2>2, <2>3
  <2>5. k = [k2 EXCEPT !.pos = pos]
    BY <1>3, <2>1, <2>3
  <2>6. /\ k \in [at : Nat \ {0}, b : Int, dirty : BOOLEAN, pos : BOOLEAN, add : Int]
        /\ k.at = k2.at /\ k.b = k2.b /\ k.add = k2.add /\ k.dirty = k2.dirty /\ k.pos = pos
    BY <2>4, <2>5
  <2>7. QED
    BY <2>2, <2>4, <2>6
<1>6. t = [m |-> m, l |-> k, ok |-> f.ok]
  BY <1>1, <1>2, <1>3
<1>7. t.m = m /\ t.l = k /\ t.ok = f.ok
  <2>1. PICK ok : ok = f.ok
    OBVIOUS
  <2>2. t = [m |-> m, l |-> k, ok |-> ok]
    BY <1>6, <2>1
  <2>3. StateOf(t, m, k, ok)
    BY <2>2, StateIs
  <2>4. QED
    BY <2>1, <2>3 DEF StateOf
<1>8. IsState(t)
  BY <1>2, <1>6, <1>7 DEF IsState
<1>9. QED
  BY <1>1, <1>5, <1>7, <1>8 DEF Touched, HeldLocks

\* Row i has become the rows M, with a line more.
RowPut(u, h, g, i, x, line, M) ==
  /\ Buf(u, g, 0, 0) /\ u.ok /\ M \in Seq(Seq(LineNumbers))
  /\ Spliced(Rows(h), Rows(g), i, M) /\ Inserted(Rows(h)[i], FlattenSeq(M), x, line)

\* What follows the flush: block 1 gets the two entries.
LEMMA SplitEnters ==
  ASSUME NEW h, Rooted(h), NEW i \in DOMAIN Ptrs(h), NEW l, i = l.at, l.b = Ptrs(h)[i].b,
         NEW nb \in Int, NEW sp, SplitTypes(sp), NEW n \in Nat, NEW x,
         NEW oldPages \in Nat \ {0}, oldPages = h[l.b].pages,
         NEW e, NEW h3, NEW d, Half(e, h3, i, d), e.l = NotLocked, e.ok,
         Ready(h, h3, i, nb, PagesFor(sp.new), sp.new, sp.old), NEW room,
         NEW u, u = SplitFlushed(e, l, x, n, sp, nb, oldPages, room)
  PROVE  \E g : Buf(u, g, 0, 0) /\ u.ok /\ SplitTree(h, g, i, Halves(sp, x))
<1> DEFINE q == mf_get(e.m, 1, 1, room)
           root == h3[1].data
           b == l.b
           r == SplitRoot(root, l, x, n, sp, nb, oldPages)
           o == mf_put(WithData(q.m, 1, r), 1, TRUE, FALSE)
<1>0. /\ MemInv(e.m, h3, {}) /\ Rooted(h3) /\ Counted(h3, NotLocked, i, d) /\ IsState(e)
  BY NothingLocked DEF Half
<1>1. q.ok /\ RootGot(e.m, q.m, h3, {})
  BY <1>0, HeldNone, GetRoot
<1>2. u = EnterSplit(e, q, l, x, n, sp, nb, oldPages)
  BY DEF SplitFlushed
<1> HIDE DEF q
<1>3. /\ MemInv(q.m, h3, {}) /\ 1 \in DOMAIN q.m.used /\ q.m.used[1].b = 1
      /\ q.m.used[1].data = root
  BY <1>1 DEF RootGot, Follows
<1>4. u = [e EXCEPT !.m = o]
  <2>1. u = [e EXCEPT !.m =
            mf_put([q.m EXCEPT !.used[1].data = SplitRoot(@, l, x, n, sp, nb, oldPages)],
                   1, TRUE, FALSE)]
    BY <1>1, <1>2 DEF EnterSplit
  <2>2. [q.m EXCEPT !.used[1].data = SplitRoot(@, l, x, n, sp, nb, oldPages)]
          = [q.m EXCEPT !.used[1].data = SplitRoot(q.m.used[1].data, l, x, n, sp, nb, oldPages)]
    OBVIOUS
  <2> HIDE DEF root
  <2>3. QED
    BY <1>3, <2>1, <2>2 DEF WithData
<1>5. /\ root \in Blocks /\ i \in DOMAIN root.ptrs /\ b \in Int /\ h3 \in Heaps(DOMAIN h3)
      /\ 1 \in DOMAIN h3 /\ h3[1].pages = 1
  <2>1. Ptrs(h)[i] \in Entries /\ DOMAIN Ptrs(h) = 1 .. Len(Ptrs(h))
    BY RowIs
  <2>2. b \in Int
    BY <2>1 DEF Entries
  <2>3. Ptrs(h3) \in Seq(Entries) /\ Len(Ptrs(h3)) = Len(Ptrs(h))
    BY <1>0 DEF Rooted, Ready
  <2>4. i \in DOMAIN Ptrs(h3)
    BY <2>1, <2>3, SMTT(30)
  <2>5. QED
    BY <1>0, <2>2, <2>4 DEF Rooted, MemInv, Ptrs
<1>6. PICK left, right : SplitRootAs(root, r, i, x, sp, b, nb, oldPages, left, right)
  <2> HIDE DEF root, r, b
  <2>1. b = l.b /\ r = SplitRoot(root, l, x, n, sp, nb, oldPages)
    BY DEF b, r
  <2>2. QED
    BY <1>5, <2>1, SplitRootIs, SMTT(30)
<1> HIDE DEF r
<1>7. r \in Blocks
  BY <1>6 DEF SplitRootAs, Splits
<1>8. Rewrote(q.m, o, h3, {}, r)
  BY <1>3, <1>5, <1>7, RootPut
<1>9. PICK g : g = With(h3, 1, h3[1].pages, r)
  OBVIOUS
<1>10. MemInv(o, g, {})
  BY <1>8, <1>9 DEF Rewrote
<1>11. Widened(h3, g, 1, 1, r)
  BY <1>5, <1>7, <1>9, WithIs
<1>12. PICK M : M = Halves(sp, x)
  OBVIOUS
<1>13. SplitTree(h, g, i, M)
  <2> HIDE DEF b
  <2>1. b = Ptrs(h)[i].b /\ oldPages = h[b].pages
    BY DEF b
  <2>2. SplitRootAs(h3[1].data, r, i, x, sp, b, nb, oldPages, left, right)
    BY <1>6
  <2>3. QED
    BY <1>0, <1>11, <1>12, <2>1, <2>2, SplitTreeIs
<1> HIDE DEF o
<1>14. u.m = o /\ u.l = NotLocked /\ u.ok = e.ok /\ IsState(u)
  BY <1>0, <1>4 DEF IsState
<1>15. Buf(u, g, 0, 0)
  BY <1>10, <1>13, <1>14, NothingLocked DEF Buf, Half, SplitTree
<1>16. QED
  BY <1>12, <1>13, <1>14, <1>15

\* The whole branch of ml_append_int that makes a block: a line is inserted into the row.
LEMMA SplitPuts ==
  ASSUME NEW f, NEW h, NEW i, Buf(f, h, i, 1), f.l.at = i, i # 0, f.ok,
         NEW x \in 0 .. Len(Rows(h)[i]), NEW line \in LineNumbers, NEW n \in Nat,
         NEW newfile \in BOOLEAN, NEW room, NEW u, u = Split(f, x, line, n, newfile, room)
  PROVE  \E g, M : RowPut(u, h, g, i, x, line, M)
<1> DEFINE lines == Rows(h)[i]
           sp == SplitLines(f, x, line)
           b == f.l.b
           pages == PagesFor(sp.new)
           made == mf_new(f.m, newfile, pages, DataBlock(sp.new), room)
           nb == made.used[1].b
           oldPages == made.used[Position(made, b)].pages
           dirty == f.l.dirty \/ sp.moved \/ sp.inLeft
           pos == f.l.pos \/ (~newfile /\ x # 0 /\ sp.inLeft)
           p == mf_put(SetLines(made, b, sp.old), nb, TRUE, FALSE)
           t == [f EXCEPT !.m = p, !.l.add = 0, !.l.dirty = dirty, !.l.pos = pos]
           e == Flush(t, room)
<1>0. /\ Half(f, h, i, 1) /\ Tree(h) /\ Rooted(h) /\ MemInv(f.m, h, Pending(f.l))
      /\ IsState(f)
  BY DEF Buf, Half
<1>1. /\ i \in DOMAIN Ptrs(h) /\ b = Ptrs(h)[i].b /\ b \in DOMAIN h /\ b # 1 /\ Holds(f.m, b)
      /\ f.l \in HeldLocks /\ Held(f.m, Pending(f.l))
  BY <1>0, LockedFacts DEF HeldLocks
<1>2. lines = LockedLines(f) /\ lines \in Seq(LineNumbers) /\ h[b].pages \in Nat \ {0} /\ lines # <<>>
  <2>1. lines = LockedLines(f) /\ LockedLines(f) \in Seq(LineNumbers) /\ h[b].pages \in Nat \ {0}
    BY <1>0, LockedIs
  <2>2. h[b].data.lines # <<>>
    BY <1>0, <1>1, ZenonT(30) DEF Tree, Ptrs
  <2>3. lines = h[b].data.lines
    BY <1>0, <1>1, RowIs
  <2>4. QED
    BY <2>1, <2>2, <2>3
<1>3. SplitOf(sp, lines, x, line)
  <2> HIDE DEF lines, sp
  <2>1. sp = SplitLines(f, x, line)
    BY DEF sp
  <2>2. x \in 0 .. Len(lines)
    BY DEF lines
  <2>3. QED
    BY <1>2, <2>1, <2>2, SplitIs
<1> HIDE DEF sp
<1>4. SplitTypes(sp) /\ (~sp.moved /\ ~sp.inLeft => sp.old = lines)
  BY <1>3 DEF SplitOf, SplitTypes
<1>5. pages \in Nat \ {0}
  BY <1>4, PagesAre DEF SplitTypes
<1>6. u = SplitFlushed(e, f.l, x, n, sp, nb, oldPages, room)
  <2>1. u = SplitAs(f, x, n, sp, newfile, room)
    BY DEF Split, sp
  <2>2. u = SplitMade(f, made, x, n, sp, newfile, room)
    BY <2>1 DEF SplitAs
  <2> HIDE DEF made, pages
  <2>3. QED
    BY <2>2 DEF SplitMade
<1> HIDE DEF pages
<1>7. Made(f.m, made, h, Pending(f.l), nb, pages, DataBlock(sp.new)) /\ DataBlock(sp.new) \in Blocks
  <2>1. PICK data : data = DataBlock(sp.new)
    OBVIOUS
  <2>2. data \in Blocks
    BY <1>4, <2>1, DataBlockIs DEF SplitTypes
  <2>3. made = mf_new(f.m, newfile, pages, data, room)
    BY <2>1
  <2> HIDE DEF made
  <2>4. Made(f.m, made, h, Pending(f.l), nb, pages, data)
    BY <1>0, <1>1, <1>5, <2>2, <2>3, MfNew
  <2>5. QED
    BY <2>1, <2>2, <2>4
<1>8. nb \in Int
  BY <1>7 DEF Made
<1>9. oldPages = h[b].pages
  <2>1. PICK h1 : h1 = With(h, nb, pages, DataBlock(sp.new))
    OBVIOUS
  <2>2. MemInv(made, h1, Pending(f.l)) /\ Holds(made, b) /\ nb \notin DOMAIN h
    BY <1>1, <1>7, <2>1 DEF Made
  <2>3. Widened(h, h1, nb, pages, DataBlock(sp.new))
    <3>1. h \in Heaps(DOMAIN h)
      BY <1>0 DEF MemInv
    <3>2. QED
      BY <1>5, <1>7, <2>1, <3>1, WithIs
  <2>4. b \in DOMAIN h1 /\ h1[b] = h[b]
    BY <1>1, <2>2, <2>3 DEF Widened
  <2> DEFINE k == Position(made, b)
  <2> HIDE DEF made, b
  <2>5. k \in DOMAIN made.used /\ made.used[k].b = b
    <3>1. \A a, c \in DOMAIN made.used : made.used[a].b = made.used[c].b => a = c
      BY <2>2 DEF MemInv, UsedInv
    <3>2. InMemory(made, b)
      BY <2>2 DEF Holds, InMemory
    <3>3. QED
      BY <3>1, <3>2, PositionIn
  <2> HIDE DEF k
  <2>6. Translated(made, b) = b
    BY <2>2 DEF Holds, Translated
  <2>7. made.used[k].pages = h1[b].pages
    BY <2>2, <2>4, <2>5, <2>6, NameOf
  <2>8. QED
    BY <2>4, <2>7 DEF k
<1> HIDE DEF made
<1>10. dirty \in BOOLEAN /\ pos \in BOOLEAN /\ (f.l.dirty => dirty) /\ (~dirty => sp.old = lines)
  BY <1>1, <1>4 DEF SplitTypes, HeldLocks
<1>11. Touched(f, t, p, 0, dirty, pos)
  <2> HIDE DEF dirty, pos, p
  <2>1. QED
    BY <1>0, <1>1, <1>10, TouchedIs
<1>12. t.ok = f.ok
  BY <1>11 DEF Touched
<1> HIDE DEF t, dirty, pos
<1>13. PICK h2, d : Prepared(t, h, h2, i, d, nb, pages, sp.new, sp.old)
  <2>1. PICK new, old : new = sp.new /\ old = sp.old
    OBVIOUS
  <2>2. /\ new \in Seq(LineNumbers) /\ new # <<>> /\ old \in Seq(LineNumbers) /\ old # <<>>
        /\ DirtyIf(dirty, f.l.dirty, old, Rows(h)[i])
    BY <1>4, <1>10, <2>1 DEF SplitTypes, DirtyIf
  <2>3. made = mf_new(f.m, newfile, pages, DataBlock(new), room)
    BY <2>1 DEF made
  <2>4. p = mf_put(SetLines(made, f.l.b, old), nb, TRUE, FALSE)
    BY <2>1
  <2> HIDE DEF p, nb
  <2>5. nb = made.used[1].b
    BY DEF nb
  <2>6. \E g, d : Prepared(t, h, g, i, d, nb, pages, new, old)
    <3>1. dirty \in BOOLEAN
      BY <1>10
    <3>2. PutNew(f.m, p, f.l.b, nb, newfile, pages, new, old, room)
      BY <2>3, <2>4, <2>5 DEF PutNew
    <3> HIDE DEF made, lines
    <3>3. PICK dty \in BOOLEAN : dty = dirty
      BY <3>1
    <3>4. PICK po : po = pos
      OBVIOUS
    <3>5. Touched(f, t, p, 0, dty, po)
      BY <1>11, <3>3, <3>4
    <3>6. DirtyIf(dty, f.l.dirty, old, Rows(h)[i])
      BY <2>2, <3>3
    <3>7. PICK pg \in Nat \ {0} : pg = pages
      BY <1>5
    <3>8. PutNew(f.m, p, f.l.b, nb, newfile, pg, new, old, room)
      BY <3>2, <3>7
    <3>9. PICK tt, pp : tt = t /\ pp = p
      OBVIOUS
    <3>10. Touched(f, tt, pp, 0, dty, po) /\ PutNew(f.m, pp, f.l.b, nb, newfile, pg, new, old, room)
      BY <3>5, <3>8, <3>9
    <3>11. new \in Seq(LineNumbers) /\ new # <<>> /\ old \in Seq(LineNumbers) /\ old # <<>>
      BY <2>2
    <3>12. Parting(f, h, i, new, old, pg, newfile, room, nb, pp, dty, po, tt)
      BY <1>1, <3>6, <3>10, <3>11 DEF Parting
    <3>13. \E g, d : Prepared(tt, h, g, i, d, nb, pg, new, old)
      BY <3>12, SplitPrepared
    <3>14. QED
      BY <3>7, <3>9, <3>13
  <2>7. QED
    BY <2>1, <2>6
<1>14. Half(t, h2, i, d) /\ Ready(h, h2, i, nb, pages, sp.new, sp.old)
  BY <1>13 DEF Prepared
<1>15. PICK h3 : Flushed(t, e, h2, h3, i, d)
  <2> HIDE DEF e
  <2>1. e = Flush(t, room)
    BY DEF e
  <2>2. QED
    BY <1>14, <2>1, FlushIs
<1>16. Half(e, h3, i, d) /\ e.l = NotLocked /\ e.ok /\ Recounted(h2, h3)
  BY <1>12, <1>15 DEF Flushed
<1>17. Ready(h, h3, i, nb, pages, sp.new, sp.old)
  <2>1. Rooted(h3)
    BY <1>16 DEF Half
  <2> HIDE DEF nb
  <2>2. QED
    BY <1>0, <1>1, <1>14, <1>16, <2>1, RecountedReady
<1> HIDE DEF e, nb, oldPages
<1>18. PICK g : Buf(u, g, 0, 0) /\ u.ok /\ SplitTree(h, g, i, Halves(sp, x))
  <2>1. Ready(h, h3, i, nb, PagesFor(sp.new), sp.new, sp.old)
    BY <1>17 DEF pages
  <2>2. oldPages \in Nat \ {0} /\ oldPages = h[f.l.b].pages /\ f.l.b = Ptrs(h)[i].b
    BY <1>1, <1>2, <1>9
  <2>3. QED
    BY <1>0, <1>1, <1>4, <1>6, <1>8, <1>16, <2>1, <2>2, SplitEnters, ZenonT(30)
<1>19. RowPut(u, h, g, i, x, line, Halves(sp, x))
  BY <1>3, <1>18 DEF SplitTree, SplitOf, RowPut
<1>20. QED
  BY <1>19
=============================================================================
