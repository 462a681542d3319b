--------------------------- MODULE VimSwap_proofs ---------------------------
(*****************************************************************************)
(* The buffer of VimSwap: ml_append_int, ml_delete_int and ml_flush_line     *)
(* change the one line they are about, everything else keeps the text, and   *)
(* SwapInv is an inductive invariant, for all files, all sizes of pages and  *)
(* memory, all changes and every place at which a write may fail. The types, *)
(* the numbers of the blocks, that a clean block is in the file, and the     *)
(* refinement of VimText follow.                                             *)
(*****************************************************************************)
EXTENDS VimSwap_lines_proofs, FunctionTheorems

-----------------------------------------------------------------------------
(* The new line in the locked block, or next to it.                        *)

\* InsertAt inserts a line.
LEMMA InsertAtIs ==
  ASSUME NEW S, NEW s \in Seq(S), NEW x \in 0 .. Len(s), NEW e \in S,
         NEW r, r = InsertAt(s, x + 1, e)
  PROVE  r \in Seq(S) /\ Inserted(s, r, x, e)
<1>1. PICK a, b : a = SubSeq(s, 1, x) /\ b = SubSeq(s, x + 1, Len(s))
  OBVIOUS
<1>2. /\ a \in Seq(S) /\ Len(a) = x /\ \A k \in 1 .. x : a[k] = s[k]
      /\ b \in Seq(S) /\ Len(b) = Len(s) - x /\ \A k \in 1 .. (Len(s) - x) : b[k] = s[x + k]
  BY <1>1
<1>3. r = (a \o <<e>>) \o b
  <2>1. PICK y : y = x + 1
    OBVIOUS
  <2>2. y - 1 = x
    BY <2>1
  <2>3. r = InsertAt(s, y, e)
    BY <2>1
  <2>4. r = SubSeq(s, 1, y - 1) \o <<e>> \o SubSeq(s, y, Len(s))
    BY <2>3, Zenon DEF InsertAt
  <2>5. QED
    BY <1>1, <2>1, <2>2, <2>4
<1>4. PICK c : c = a \o <<e>>
  OBVIOUS
<1>5. c \in Seq(S) /\ r = c \o b
  BY <1>2, <1>3, <1>4
<1>6. r \in Seq(S)
  BY <1>2, <1>5, JoinedIs
<1>7. Inserted(s, r, x, e)
  BY <1>1, <1>2, <1>4, <1>5, InsertedBetween
<1>8. QED
  BY <1>6, <1>7

\* A new row in place of one.
LEMMA RowSpliced ==
  ASSUME NEW S, NEW R \in Seq(Seq(S)), NEW i \in 1 .. Len(R), NEW r \in Seq(S),
         NEW Q, Q = [R EXCEPT ![i] = r]
  PROVE  Spliced(R, Q, i, <<r>>) /\ <<r>> \in Seq(Seq(S)) /\ FlattenSeq(<<r>>) = r
<1>1. FlattenSeq(<<r>>) = r
  BY FlatOne
<1>2. PICK M : M = <<r>>
  OBVIOUS
<1>3. M \in Seq(Seq(S)) /\ Len(M) = 1 /\ M[1] = r
  BY <1>2
<1>4. Len(Q) = Len(R) /\ Q[i] = r /\ \A k \in 1 .. Len(R) : k # i => Q[k] = R[k]
  OBVIOUS
<1>5. Spliced(R, Q, i, M)
  BY <1>3, <1>4 DEF Spliced
<1>6. QED
  BY <1>1, <1>2, <1>3, <1>5

\* ml_append_int once the block is found, whether the line fits in it or not.
LEMMA LinePut ==
  ASSUME NEW f, NEW h, NEW i, Buf(f, h, i, 1), f.l.at = i, i # 0, f.ok,
         NEW x \in 0 .. Len(Rows(h)[i]), NEW line \in LineNumbers, NEW n \in Nat,
         NEW newfile \in BOOLEAN, NEW room, NEW u, u = PutLine(f, x, line, n, newfile, room)
  PROVE  \E g, M : RowPut(u, h, g, i, x, line, M)
<1>1. CASE FreeSpace(f) < Size(line)
  <2>1. u = Split(f, x, line, n, newfile, room)
    BY <1>1 DEF PutLine
  <2>2. QED
    BY <2>1, SplitPuts
<1>2. CASE ~(FreeSpace(f) < Size(line))
  <2>0. /\ Half(f, h, i, 1) /\ Tree(h) /\ Rooted(h) /\ IsState(f) /\ MemInv(f.m, h, Pending(f.l))
    BY DEF Buf, Half
  <2>1. /\ i \in DOMAIN Ptrs(h) /\ f.l \in HeldLocks
    BY <2>0, LockedFacts DEF HeldLocks
  <2>2. /\ Rows(h) \in Seq(Seq(LineNumbers)) /\ Len(Rows(h)) = Len(Ptrs(h))
    <3>1. h \in Heaps(DOMAIN h)
      BY <2>0 DEF MemInv
    <3>2. QED
      BY <2>0, <3>1, TreeRooted
  <2>3. PICK row : row = Rows(h)[i]
    OBVIOUS
  <2>4. row = LockedLines(f) /\ row \in Seq(LineNumbers)
    BY <2>0, <2>3, LockedIs
  <2>5. PICK lines : lines = InsertAt(LockedLines(f), x + 1, line)
    OBVIOUS
  <2>6. lines \in Seq(LineNumbers) /\ Inserted(row, lines, x, line)
    <3>1. x \in 0 .. Len(row)
      BY <2>3
    <3>2. lines = InsertAt(row, x + 1, line)
      BY <2>4, <2>5
    <3>3. QED
      BY <2>4, <3>1, <3>2, InsertAtIs
  <2>7. lines # <<>> /\ Len(lines) = Len(Rows(h)[i]) + 1
    <3>1. Len(lines) = Len(row) + 1 /\ Len(row) \in Nat
      BY <2>4, <2>6 DEF Inserted
    <3>2. QED
      BY <2>3, <3>1
  <2>8. PICK p \in BOOLEAN : p = (f.l.pos \/ ~newfile)
    OBVIOUS
  <2>9. u = [f EXCEPT !.m = SetLines(f.m, f.l.b, lines), !.l.dirty = TRUE, !.l.pos = p]
    <3>1. u = [f EXCEPT !.m = SetLines(@, f.l.b, lines), !.l.dirty = TRUE,
                        !.l.pos = @ \/ ~newfile]
      BY <1>2, <2>5 DEF PutLine
    <3>2. QED
      BY <2>8, <3>1
  <2>10. Touched(f, u, SetLines(f.m, f.l.b, lines), f.l.add, TRUE, p)
    BY <2>0, <2>1, <2>9, TouchIs
  <2>11. PICK g : RowChanged(u, f, h, g, i, lines)
    <3>1. LinesPut(f, h, i, 1, lines, p, u)
      <4>1. 1 \in Int
        OBVIOUS
      <4>2. QED
        BY <2>6, <2>7, <2>10, <4>1, Zenon DEF LinesPut
    <3>2. QED
      BY <3>1, LockedChanged
  <2>12. /\ Buf(u, g, 0, 0) /\ u.ok = f.ok /\ Rows(g) = [Rows(h) EXCEPT ![i] = lines]
    BY <2>11 DEF RowChanged
  <2>13. /\ Spliced(Rows(h), Rows(g), i, <<lines>>) /\ <<lines>> \in Seq(Seq(LineNumbers))
         /\ FlattenSeq(<<lines>>) = lines
    <3>1. i \in 1 .. Len(Rows(h))
      <4>1. DOMAIN Ptrs(h) = 1 .. Len(Ptrs(h))
        BY <2>0, <2>1, RowIs
      <4>2. QED
        BY <2>1, <2>2, <4>1
    <3>2. QED
      BY <2>2, <2>6, <2>12, <3>1, RowSpliced
  <2>14. RowPut(u, h, g, i, x, line, <<lines>>)
    BY <2>3, <2>6, <2>12, <2>13 DEF RowPut
  <2>15. QED
    BY <2>14
<1>3. QED
  BY <1>1, <1>2

-----------------------------------------------------------------------------
(* The lines as block 1 counts them.                                       *)

\* The entries of block 1 in the memory file are those of the heap.
LEMMA PointersAre ==
  ASSUME NEW m, NEW h, NEW X, MemInv(m, h, X), Rooted(h)
  PROVE  Pointers(m) = Ptrs(h)
<1>1. 1 \in DOMAIN h /\ h[1].pages = 1
  BY DEF Rooted
<1>2. Translated(m, 1) = 1
  BY <1>1, NameFacts
<1>3. Look(m, Translated(m, 1), h[1].pages) = h[1].data
  BY <1>1, LookIs
<1>4. QED
  BY <1>1, <1>2, <1>3 DEF Pointers, Ptrs

\* The counts of block 1 and of the locked block are the lengths of the rows.
LEMMA CountsOfRows ==
  ASSUME NEW s, NEW h, NEW i \in Nat, NEW d \in Int, Buf(s, h, i, d)
  PROVE  CountsAre(Rows(h), Counts(s), i, d)
<1>0. /\ Half(s, h, i, d) /\ Tree(h) /\ Rooted(h) /\ MemInv(s.m, h, Pending(s.l))
      /\ Counted(h, s.l, i, d)
  BY DEF Buf, Half
<1>1. Pointers(s.m) = Ptrs(h)
  BY <1>0, PointersAre
<1> DEFINE c == [k \in 1 .. Len(Ptrs(h)) |-> Ptrs(h)[k].count + (IF s.l.at = k THEN s.l.add ELSE 0)]
<1>2. Counts(s) = c
  BY <1>1 DEF Counts
<1>3. /\ Rows(h) \in Seq(Seq(LineNumbers)) /\ Len(Rows(h)) = Len(Ptrs(h))
      /\ Ptrs(h) \in Seq(Entries) /\ Len(Ptrs(h)) \in Nat /\ DOMAIN Ptrs(h) = 1 .. Len(Ptrs(h))
  <2>1. h \in Heaps(DOMAIN h)
    BY <1>0 DEF MemInv
  <2>2. Rows(h) \in Seq(Seq(LineNumbers)) /\ Len(Rows(h)) = Len(Ptrs(h))
    BY <1>0, <2>1, TreeRooted
  <2>3. Ptrs(h) \in Seq(Entries)
    BY <1>0 DEF Rooted
  <2>4. QED
    BY <2>2, <2>3
<1>4. ASSUME NEW k \in 1 .. Len(Ptrs(h))
      PROVE  c[k] = Len(Rows(h)[k]) + (IF k = i THEN d ELSE 0) /\ c[k] \in Int
  <2>1. k \in DOMAIN Ptrs(h)
    BY <1>3
  <2>2. Rows(h)[k] = h[Ptrs(h)[k].b].data.lines /\ Rows(h)[k] \in Seq(LineNumbers)
    BY <1>0, <2>1, RowIs
  <2>3. c[k] = Ptrs(h)[k].count + (IF s.l.at = k THEN s.l.add ELSE 0)
    OBVIOUS
  <2>4. Ptrs(h)[k].count + (IF s.l.at = k THEN s.l.add ELSE 0)
          = Len(h[Ptrs(h)[k].b].data.lines) + (IF k = i THEN d ELSE 0)
    BY <1>0, <2>1 DEF Counted, Ptrs
  <2>5. c[k] = Len(Rows(h)[k]) + (IF k = i THEN d ELSE 0)
    BY <2>2, <2>3, <2>4
  <2>6. PICK n : n = Len(Rows(h)[k])
    OBVIOUS
  <2>7. n \in Nat
    BY <2>2, <2>6
  <2>8. n + (IF k = i THEN d ELSE 0) \in Int
    BY <2>7
  <2>9. QED
    BY <2>5, <2>6, <2>8
<1> HIDE DEF c
<1>5. c \in Seq(Int) /\ Len(c) = Len(Ptrs(h))
  <2>1. c = [k \in 1 .. Len(Ptrs(h)) |-> c[k]]
    BY DEF c
  <2>2. QED
    BY <1>3, <1>4, <2>1
<1>6. QED
  BY <1>2, <1>3, <1>4, <1>5 DEF CountsAre

\* The text the blocks hold, and where the rows begin in it.
Flat(h) == FlattenSeq(Rows(h))
Sectioned(h, F) ==
  /\ Rows(h) \in Seq(Seq(LineNumbers)) /\ FlatUpTo(LineNumbers, Rows(h), F)
  /\ Len(Rows(h)) = Len(Ptrs(h)) /\ DOMAIN Ptrs(h) = 1 .. Len(Ptrs(h)) /\ Len(Ptrs(h)) \in Nat
  /\ Flat(h) \in Seq(LineNumbers) /\ Flat(h) = F[Len(Rows(h))]

\* The text of a buffer in sections.
LEMMA SectionsExist ==
  ASSUME NEW s, NEW h, NEW i, NEW d, Buf(s, h, i, d)
  PROVE  \E F : Sectioned(h, F)
<1>1. Tree(h) /\ h \in Heaps(DOMAIN h) /\ Rooted(h)
  BY DEF Buf, Half, MemInv
<1>2. Rows(h) \in Seq(Seq(LineNumbers)) /\ Len(Rows(h)) = Len(Ptrs(h))
  BY <1>1, TreeRooted
<1>3. PICK F : FlatUpTo(LineNumbers, Rows(h), F)
  BY <1>2, PrefixesExist
<1>4. Flat(h) = F[Len(Rows(h))] /\ Flat(h) \in Seq(LineNumbers)
  BY <1>2, <1>3, FlatIs DEF Flat
<1>5. Ptrs(h) \in Seq(Entries)
  BY <1>1 DEF Rooted
<1>6. DOMAIN Ptrs(h) = 1 .. Len(Ptrs(h)) /\ Len(Ptrs(h)) \in Nat
  BY <1>5
<1>7. QED
  BY <1>2, <1>3, <1>4, <1>6 DEF Sectioned

\* The lines counted are those of the text, but for one that comes or goes.
LEMMA LinesCounted ==
  ASSUME NEW s, NEW h, NEW i \in Nat, NEW d \in Int, Buf(s, h, i, d), NEW F, Sectioned(h, F)
  PROVE  SumsAre(Counts(s), F, Len(Rows(h)), i, d) /\ CountsAre(Rows(h), Counts(s), i, d)
<1>1. CountsAre(Rows(h), Counts(s), i, d)
  BY CountsOfRows
<1>2. Rows(h) \in Seq(Seq(LineNumbers)) /\ FlatUpTo(LineNumbers, Rows(h), F)
  BY DEF Sectioned
<1>3. QED
  BY <1>1, <1>2, CountedSums

-----------------------------------------------------------------------------
(* ml_append_int.                                                          *)

\* The line that is counted in the locked block is not to come there.
LEMMA Uncounting ==
  ASSUME NEW s, NEW h, NEW i, Buf(s, h, i, 1), s.l.at = i, i # 0,
         NEW f, f = [s EXCEPT !.l.add = @ - 1]
  PROVE  Buf(f, h, 0, 0) /\ f.ok = s.ok
<1>0. /\ IsState(s) /\ MemInv(s.m, h, Pending(s.l)) /\ Rooted(h) /\ Counted(h, s.l, i, 1)
      /\ LockedInv(s.m, h, s.l) /\ Tree(h)
  BY DEF Buf, Half
<1>1. Ptrs(h) \in Seq(Entries)
  BY <1>0 DEF Rooted
<1>2. s.l \in [at : Nat \ {0}, b : Int, dirty : BOOLEAN, pos : BOOLEAN, add : Int]
  BY <1>1, LockedFacts DEF Buf
<1>3. f.m = s.m /\ f.ok = s.ok /\ f.l = [s.l EXCEPT !.add = s.l.add - 1] /\ IsState(f)
  BY <1>0 DEF IsState
<1>4. /\ f.l.at = i /\ f.l.b = s.l.b /\ f.l.dirty = s.l.dirty /\ f.l.add = s.l.add - 1
      /\ f.l \in [at : Nat \ {0}, b : Int, dirty : BOOLEAN, pos : BOOLEAN, add : Int]
      /\ s.l.add \in Int
  BY <1>2, <1>3
<1>5. Pending(f.l) = Pending(s.l)
  BY <1>4 DEF Pending
<1>6. LockedInv(f.m, h, f.l)
  <2>1. s.l # NotLocked
    BY <1>1, NothingLocked
  <2>2. QED
    BY <1>0, <1>3, <1>4, <2>1 DEF LockedInv
<1>7. Counted(h, f.l, 0, 0)
  <2> SUFFICES ASSUME NEW k \in DOMAIN Ptrs(h)
               PROVE  Ptrs(h)[k].count + (IF f.l.at = k THEN f.l.add ELSE 0)
                        = Len(h[Ptrs(h)[k].b].data.lines) + (IF k = 0 THEN 0 ELSE 0)
    BY DEF Counted, Ptrs
  <2>1. Ptrs(h)[k].count + (IF s.l.at = k THEN s.l.add ELSE 0)
          = Len(h[Ptrs(h)[k].b].data.lines) + (IF k = i THEN 1 ELSE 0)
    BY <1>0 DEF Counted, Ptrs
  <2>2. Ptrs(h)[k] \in Entries /\ h[Ptrs(h)[k].b].data.lines \in Seq(LineNumbers)
    BY <1>0 DEF Rooted
  <2>3. Ptrs(h)[k].count \in Int /\ Len(h[Ptrs(h)[k].b].data.lines) \in Nat
    BY <2>2 DEF Entries
  <2>4. PICK c, n, a : c = Ptrs(h)[k].count /\ n = Len(h[Ptrs(h)[k].b].data.lines) /\ a = s.l.add
    OBVIOUS
  <2>5. c \in Int /\ n \in Nat /\ a \in Int
    BY <1>4, <2>3, <2>4
  <2>6. s.l.at = i /\ f.l.at = i /\ f.l.add = a - 1
    BY <1>4, <2>4
  <2>7. c + (IF i = k THEN a ELSE 0) = n + (IF k = i THEN 1 ELSE 0)
    BY <2>1, <2>4, <2>6
  <2>8. c + (IF i = k THEN a - 1 ELSE 0) = n + (IF k = 0 THEN 0 ELSE 0)
    BY <2>5, <2>7
  <2>9. QED
    BY <2>4, <2>6, <2>8
<1>8. QED
  BY <1>0, <1>3, <1>4, <1>5, <1>6, <1>7 DEF Buf, Half

\* Below line n of the text is below line x of the block at place i.
Place(h, F, i, x, n) ==
  /\ Sectioned(h, F) /\ i \in 1 .. Len(Rows(h)) /\ x \in 0 .. Len(Rows(h)[i])
  /\ n = Len(F[i - 1]) + x /\ n \in Nat

Appended(u, h, g, n, line) == Buf(u, g, 0, 0) /\ u.ok /\ Inserted(Flat(h), Flat(g), n, line)

\* A line inserted into a row is a line inserted into the text below line n.
LEMMA RowAppends ==
  ASSUME NEW u, NEW h, NEW g, NEW i, NEW x, NEW line, NEW M, RowPut(u, h, g, i, x, line, M),
         NEW F, NEW n, Place(h, F, i, x, n)
  PROVE  Appended(u, h, g, n, line)
<1>1. PICK R, Q : R = Rows(h) /\ Q = Rows(g)
  OBVIOUS
<1>2. /\ Buf(u, g, 0, 0) /\ u.ok /\ M \in Seq(Seq(LineNumbers)) /\ Spliced(R, Q, i, M)
      /\ Inserted(R[i], FlattenSeq(M), x, line)
  BY <1>1 DEF RowPut
<1>3. /\ R \in Seq(Seq(LineNumbers)) /\ FlatUpTo(LineNumbers, R, F) /\ n = Len(F[i - 1]) + x
  BY <1>1 DEF Place, Sectioned
<1>4. Q \in Seq(Seq(LineNumbers))
  BY <1>1, <1>2, SectionsExist DEF Sectioned
<1>5. Inserted(FlattenSeq(R), FlattenSeq(Q), n, line)
  BY <1>2, <1>3, <1>4, RowGrows
<1>6. QED
  BY <1>1, <1>2, <1>5 DEF Appended, Flat

\* LineCount is the number of lines, and of one more or less while one is counted in
\* advance.
LEMMA CountOfLines ==
  ASSUME NEW s, NEW h, NEW i \in Nat, NEW d \in Int, Buf(s, h, i, d), i <= Len(Ptrs(h)),
         NEW F, Sectioned(h, F)
  PROVE  /\ LineCount(s) = Len(Flat(h)) + (IF i # 0 THEN d ELSE 0)
         /\ Len(Counts(s)) = Len(Rows(h)) /\ Counts(s) \in Seq(Int)
<1>1. SumsAre(Counts(s), F, Len(Rows(h)), i, d) /\ CountsAre(Rows(h), Counts(s), i, d)
  BY LinesCounted
<1>2. PICK L : L = Len(Rows(h))
  OBVIOUS
<1>3. L \in Nat /\ L = Len(Ptrs(h)) /\ Flat(h) = F[L]
  BY <1>2 DEF Sectioned
<1>4. Len(Counts(s)) = L /\ Counts(s) \in Seq(Int)
  BY <1>1, <1>2 DEF CountsAre
<1>5. Sums(Counts(s))[L] = Len(F[L]) + (IF i # 0 /\ i <= L THEN d ELSE 0)
  <2>1. L \in 0 .. L
    BY <1>3
  <2>2. QED
    BY <1>1, <1>2, <2>1 DEF SumsAre
<1>6. QED
  BY <1>2, <1>3, <1>4, <1>5 DEF LineCount

\* There is a next block when the text goes on.
LEMMA NextBlock ==
  ASSUME NEW h, NEW F, NEW i, NEW x, NEW n, Place(h, F, i, x, n), x = Len(Rows(h)[i]),
         n < Len(Flat(h))
  PROVE  i + 1 \in DOMAIN Ptrs(h) /\ Place(h, F, i + 1, 0, n) /\ i # 0
<1>1. PICK R : R = Rows(h)
  OBVIOUS
<1>2. /\ R \in Seq(Seq(LineNumbers)) /\ FlatUpTo(LineNumbers, R, F) /\ Flat(h) = F[Len(R)]
      /\ i \in 1 .. Len(R) /\ n = Len(F[i - 1]) + x /\ n \in Nat /\ x = Len(R[i])
      /\ DOMAIN Ptrs(h) = 1 .. Len(R) /\ Len(R) \in Nat
  BY <1>1 DEF Place, Sectioned
<1>3. Len(F[i]) = Len(F[i - 1]) + Len(R[i])
  <2>1. R \in Seq(Seq(LineNumbers)) /\ FlatUpTo(LineNumbers, R, F)
    BY <1>2
  <2>2. \A k \in 1 .. Len(R) : Len(F[k]) = Len(F[k - 1]) + Len(R[k])
    <3>1. RowLengths(R, F)
      BY <2>1, PrefixLengths
    <3>2. QED
      BY <3>1 DEF RowLengths
  <2>3. QED
    BY <1>2, <2>2
<1>4. n = Len(F[i])
  BY <1>2, <1>3
<1>5. i # Len(R)
  <2>1. Flat(h) = F[Len(R)] /\ n < Len(Flat(h)) /\ n \in Nat
    BY <1>2
  <2>2. CASE i = Len(R)
    <3>1. n < n
      BY <1>4, <2>1, <2>2
    <3>2. QED
      BY <2>1, <3>1
  <2>3. QED
    BY <2>2
<1>6. i + 1 \in 1 .. Len(R) /\ i + 1 - 1 = i /\ i # 0
  BY <1>2, <1>5
<1>7. R[i + 1] \in Seq(LineNumbers)
  BY <1>2, <1>6
<1>8. 0 \in 0 .. Len(R[i + 1])
  BY <1>7
<1>9. ASSUME NEW j, j = i + 1, NEW z, z = 0 PROVE n = Len(F[j - 1]) + z
  <2>1. j - 1 = i
    BY <1>2, <1>9
  <2>2. PICK a : a = Len(F[j - 1])
    OBVIOUS
  <2>3. a = n /\ n \in Nat
    BY <1>2, <1>4, <2>1, <2>2
  <2>4. a + z = n
    BY <1>9, <2>3
  <2>5. QED
    BY <2>2, <2>4
<1>10. Sectioned(h, F)
  BY DEF Place
<1>11. n \in Nat /\ i + 1 \in DOMAIN Ptrs(h) /\ i # 0
  BY <1>2, <1>6
<1>12. Place(h, F, i + 1, 0, n)
  <2>1. PICK j, z : j = i + 1 /\ z = 0
    OBVIOUS
  <2>2. j \in 1 .. Len(Rows(h)) /\ z \in 0 .. Len(Rows(h)[j]) /\ n = Len(F[j - 1]) + z
    <3>1. n = Len(F[j - 1]) + z
      BY <1>9, <2>1
    <3>2. z \in 0 .. Len(R[j])
      BY <1>8, <2>1
    <3>3. j \in 1 .. Len(R)
      BY <1>6, <2>1
    <3>4. QED
      BY <1>1, <3>1, <3>2, <3>3
  <2>3. Place(h, F, j, z, n)
    BY <1>10, <1>11, <2>2 DEF Place
  <2>4. QED
    BY <2>1, <2>3
<1>13. QED
  BY <1>11, <1>12

-----------------------------------------------------------------------------

\* Finding a block leaves the text alone.
SameText(h, g) == Rows(g) = Rows(h) /\ Len(Ptrs(g)) = Len(Ptrs(h))

\* A place in the text is the same place when the rows are the same.
LEMMA PlaceKept ==
  ASSUME NEW h, NEW g, SameText(h, g), Rooted(g), NEW F, NEW i, NEW x, NEW n, Place(h, F, i, x, n)
  PROVE  Place(g, F, i, x, n) /\ Flat(g) = Flat(h)
<1>1. Rows(g) = Rows(h) /\ Len(Ptrs(g)) = Len(Ptrs(h))
  BY DEF SameText
<1>2. Flat(g) = Flat(h)
  BY <1>1 DEF Flat
<1>3. Ptrs(g) \in Seq(Entries)
  BY DEF Rooted
<1>4. DOMAIN Ptrs(g) = 1 .. Len(Ptrs(g)) /\ Len(Ptrs(g)) \in Nat
  BY <1>3
<1>5. Sectioned(h, F)
  BY DEF Place
<1>6. Sectioned(g, F)
  BY <1>1, <1>2, <1>4, <1>5 DEF Sectioned
<1>7. Place(g, F, i, x, n)
  BY <1>1, <1>6 DEF Place
<1>8. QED
  BY <1>2, <1>7

\* The block for the new line is locked.
Finding(f, h, F, i, x, n) == Buf(f, h, i, 1) /\ f.l.at = i /\ f.ok /\ Place(h, F, i, x, n)

\* PutLine at a place inserts a line into the text there.
LEMMA PutAppends ==
  ASSUME NEW f, NEW h, NEW F, NEW i, NEW x, NEW n, Finding(f, h, F, i, x, n),
         NEW line \in LineNumbers, NEW newfile \in BOOLEAN, NEW room,
         NEW u, u = PutLine(f, x, line, n, newfile, room)
  PROVE  \E g : Appended(u, h, g, n, line)
<1>1. Buf(f, h, i, 1) /\ f.l.at = i /\ f.ok /\ Place(h, F, i, x, n)
  BY DEF Finding
<1>2. i # 0 /\ x \in 0 .. Len(Rows(h)[i]) /\ n \in Nat
  BY <1>1 DEF Place
<1>3. PICK g, M : RowPut(u, h, g, i, x, line, M)
  BY <1>1, <1>2, LinePut
<1>4. QED
  BY <1>1, <1>3, RowAppends

\* ml_append_int in the block found, or in the one behind it when the line fits there.
LEMMA InAppends ==
  ASSUME NEW f, NEW h, NEW F, NEW i, NEW x, NEW n, Finding(f, h, F, i, x, n),
         NEW line \in LineNumbers, NEW newfile \in BOOLEAN, NEW room,
         NEW u, u = AppendIn(f, i, x, line, n, newfile, room)
  PROVE  \E g : Appended(u, h, g, n, line)
<1>1. Buf(f, h, i, 1) /\ f.l.at = i /\ f.ok /\ Place(h, F, i, x, n) /\ Sectioned(h, F)
  BY DEF Finding, Place
<1>2. i # 0 /\ i \in Nat /\ i <= Len(Ptrs(h)) /\ Len(Flat(h)) \in Nat
  BY <1>1 DEF Place, Sectioned
<1> DEFINE onward == /\ FreeSpace(f) < Size(line) /\ n < LineCount(f) - 1
                     /\ n # 0 /\ x = Len(LockedLines(f))
<1>3. CASE ~onward
  <2>1. u = PutLine(f, x, line, n, newfile, room)
    BY <1>1, <1>3 DEF AppendIn
  <2>2. QED
    BY <2>1, PutAppends
<1>4. CASE onward
  <2>1. PICK f1 : f1 = [f EXCEPT !.l.add = @ - 1]
    OBVIOUS
  <2>2. PICK j : j = i + 1
    OBVIOUS
  <2>3. PICK f2 : f2 = ml_find_line(f1, j, 1, room)
    OBVIOUS
  <2>4. u = PutLine(f2, 0, line, n, newfile, room)
    <3>1. u = PutLine(ml_find_line([f EXCEPT !.l.add = @ - 1], i + 1, 1, room),
                      0, line, n, newfile, room)
      BY <1>1, <1>4 DEF AppendIn
    <3>2. QED
      BY <2>1, <2>2, <2>3, <3>1
  <2>5. n < Len(Flat(h))
    <3>1. LineCount(f) = Len(Flat(h)) + (IF i # 0 THEN 1 ELSE 0)
      <4>1. 1 \in Int
        OBVIOUS
      <4>2. QED
        BY <1>1, <1>2, <4>1, CountOfLines
    <3>2. n < LineCount(f) - 1 /\ n \in Nat
      BY <1>1, <1>4 DEF Place
    <3> HIDE DEF onward
    <3>3. QED
      BY <1>2, <3>1, <3>2
  <2>6. x = Len(Rows(h)[i])
    <3>1. LockedLines(f) = Rows(h)[i]
      BY <1>1, <1>2, LockedIs DEF Buf
    <3>2. QED
      BY <1>4, <3>1
  <2> HIDE DEF onward
  <2>7. j \in DOMAIN Ptrs(h) /\ Place(h, F, j, 0, n)
    BY <1>1, <2>2, <2>5, <2>6, NextBlock
  <2>8. Buf(f1, h, 0, 0) /\ f1.ok
    BY <1>1, <1>2, <2>1, Uncounting
  <2>9. PICK g : Found(f2, h, g, j, 1)
    <3>1. 1 \in Int
      OBVIOUS
    <3>2. QED
      BY <2>3, <2>7, <2>8, <3>1, FindLine
  <2>10. Buf(f2, g, j, 1) /\ f2.ok /\ f2.l.at = j /\ SameText(h, g)
    BY <2>9 DEF Found, SameText
  <2>11. Place(g, F, j, 0, n) /\ Flat(g) = Flat(h)
    <3>1. Rooted(g)
      BY <2>10 DEF Buf, Half
    <3>2. QED
      BY <2>7, <2>10, <3>1, PlaceKept
  <2>12. Finding(f2, g, F, j, 0, n)
    BY <2>10, <2>11 DEF Finding
  <2>13. PICK o : Appended(u, g, o, n, line)
    BY <2>4, <2>12, PutAppends
  <2>14. Appended(u, h, o, n, line)
    BY <2>11, <2>13 DEF Appended
  <2>15. QED
    BY <2>14
<1>5. QED
  BY <1>3, <1>4

\* BlockWith finds the block of a line.
LEMMA LinePlace ==
  ASSUME NEW s, NEW h, Buf(s, h, 0, 0), NEW F, Sectioned(h, F), NEW n \in 1 .. Len(Flat(h)),
         NEW i, i = BlockWith(s, n), NEW x, x = n - Before(s, i)
  PROVE  Place(h, F, i, x, n) /\ x # 0
<1> DEFINE c == Counts(s)
           R == Rows(h)
<1>1. SumsAre(c, F, Len(R), 0, 0) /\ CountsAre(R, c, 0, 0)
  BY LinesCounted
<1>2. LineCount(s) = Len(Flat(h)) /\ Len(c) = Len(R) /\ c \in Seq(Int)
  <2>1. 0 \in Nat /\ 0 \in Int /\ 0 <= Len(Ptrs(h))
    BY DEF Sectioned
  <2>2. LineCount(s) = Len(Flat(h)) + (IF 0 # 0 THEN 0 ELSE 0)
        /\ Len(c) = Len(R) /\ c \in Seq(Int)
    BY <2>1, CountOfLines
  <2>3. Len(Flat(h)) \in Nat
    BY DEF Sectioned
  <2>4. QED
    BY <2>2, <2>3
<1>3. /\ R \in Seq(Seq(LineNumbers)) /\ FlatUpTo(LineNumbers, R, F)
  BY DEF Sectioned
<1>4. n \in Nat \ {0} /\ n <= Sums(c)[Len(c)]
  <2>1. Len(Flat(h)) \in Nat
    BY DEF Sectioned
  <2>2. Sums(c)[Len(c)] = Len(Flat(h))
    BY <1>2 DEF LineCount
  <2> HIDE DEF c
  <2>3. QED
    BY <2>1, <2>2
<1> HIDE DEF c
<1>5. \E k \in DOMAIN c : Here(c, k, n)
  BY <1>2, <1>4, LineIsHere
<1>6. i \in DOMAIN c /\ Here(c, i, n)
  <2>1. i = CHOOSE k \in DOMAIN c : Here(c, k, n)
    BY DEF BlockWith, Before, Here, c
  <2>2. QED
    BY <1>5, <2>1
<1>7. i \in 1 .. Len(R) /\ Len(R) \in Nat
  BY <1>2, <1>3, <1>6
<1> DEFINE a == Len(F[i - 1])
           r == Len(R[i])
<1>8. a \in Nat /\ r \in Nat
  <2>1. RowLengths(R, F)
    BY <1>3, PrefixLengths
  <2>2. QED
    BY <1>7, <2>1 DEF RowLengths
<1>9. Sums(c)[i - 1] = a /\ c[i] = r
  <2>1. i - 1 \in 0 .. Len(R) /\ i # 0
    BY <1>7
  <2>2. Sums(c)[i - 1] = Len(F[i - 1]) + (IF 0 # 0 /\ 0 <= i - 1 THEN 0 ELSE 0)
    BY <1>1, <2>1 DEF SumsAre
  <2>3. c[i] = Len(R[i]) + (IF i = 0 THEN 0 ELSE 0)
    BY <1>1, <1>7 DEF CountsAre
  <2>4. a + 0 = a /\ r + 0 = r
    BY <1>8
  <2>5. QED
    BY <2>1, <2>2, <2>3, <2>4
<1>10. x = n - a
  BY <1>9 DEF Before, c
<1>11. a < n /\ n <= a + r
  BY <1>6, <1>9 DEF Here
<1> HIDE DEF a, r
<1>12. x \in 0 .. r /\ x # 0 /\ n = a + x /\ n \in Nat
  BY <1>4, <1>8, <1>10, <1>11
<1>13. QED
  BY <1>7, <1>12 DEF Place, a, r

-----------------------------------------------------------------------------
\* ml_append_int inserts the line below line n, and only that.
LEMMA MlAppend ==
  ASSUME NEW s, NEW h, Buf(s, h, 0, 0), s.ok, NEW n \in 0 .. Len(Flat(h)),
         NEW line \in LineNumbers, NEW newfile \in BOOLEAN, NEW room,
         NEW u, u = ml_append_int(s, n, line, newfile, room)
  PROVE  \E g : Appended(u, h, g, n, line)
<1>1. PICK F : Sectioned(h, F)
  BY SectionsExist
<1>2. PICK i, x : i = (IF n = 0 THEN 1 ELSE BlockWith(s, n)) /\ x = IF n = 0 THEN 0 ELSE n - Before(s, i)
  OBVIOUS
<1>3. u = AppendIn(ml_find_line(s, i, 1, room), i, x, line, n, newfile, room)
  BY <1>2 DEF ml_append_int
<1>4. Len(Flat(h)) \in Nat /\ n \in Nat
  BY <1>1 DEF Sectioned
<1>5. Place(h, F, i, x, n)
  <2>1. CASE n = 0
    <3>1. i = 1 /\ x = 0
      BY <1>2, <2>1
    <3>2. Ptrs(h) # <<>> /\ Rooted(h)
      BY DEF Buf, Half, Tree, Ptrs
    <3>3. Ptrs(h) \in Seq(Entries)
      BY <3>2 DEF Rooted
    <3>4. 1 \in 1 .. Len(Ptrs(h))
      BY <3>2, <3>3
    <3>5. PICK R : R = Rows(h)
      OBVIOUS
    <3>6. /\ R \in Seq(Seq(LineNumbers)) /\ FlatUpTo(LineNumbers, R, F) /\ 1 \in 1 .. Len(R)
      BY <1>1, <3>4, <3>5 DEF Sectioned
    <3>7. Len(F[0]) = 0
      <4>1. RowLengths(R, F)
        BY <3>6, PrefixLengths
      <4>2. QED
        BY <4>1 DEF RowLengths
    <3>8. 0 \in 0 .. Len(R[1])
      <4>1. R[1] \in Seq(LineNumbers)
        BY <3>6
      <4>2. QED
        BY <4>1
    <3>9. 1 - 1 = 0 /\ n = Len(F[0]) + 0
      BY <2>1, <3>7
    <3>10. n = Len(F[1 - 1]) + 0
      BY <3>9
    <3>11. QED
      BY <1>1, <1>4, <3>1, <3>5, <3>6, <3>8, <3>10 DEF Place
  <2>2. CASE n # 0
    <3>1. i = BlockWith(s, n) /\ x = n - Before(s, i) /\ n \in 1 .. Len(Flat(h))
      BY <1>2, <1>4, <2>2
    <3>2. QED
      BY <1>1, <3>1, LinePlace
  <2>3. QED
    BY <2>1, <2>2
<1>6. PICK f : f = ml_find_line(s, i, 1, room)
  OBVIOUS
<1>7. PICK g : Found(f, h, g, i, 1)
  <2>1. 1 \in Int /\ i \in DOMAIN Ptrs(h)
    BY <1>5 DEF Place, Sectioned
  <2>2. QED
    BY <1>6, <2>1, FindLine
<1>8. Buf(f, g, i, 1) /\ f.ok /\ f.l.at = i /\ SameText(h, g) /\ Rooted(g)
  BY <1>7 DEF Found, SameText, Buf, Half
<1>9. Place(g, F, i, x, n) /\ Flat(g) = Flat(h)
  BY <1>5, <1>8, PlaceKept
<1>10. Finding(f, g, F, i, x, n)
  BY <1>8, <1>9 DEF Finding
<1>11. u = AppendIn(f, i, x, line, n, newfile, room)
  BY <1>3, <1>6
<1>12. PICK o : Appended(u, g, o, n, line)
  BY <1>10, <1>11, InAppends
<1>13. Appended(u, h, o, n, line)
  BY <1>9, <1>12 DEF Appended
<1>14. QED
  BY <1>13

-----------------------------------------------------------------------------
(* ml_delete_int, when the block goes too.                                 *)

Cuts(root, r, i) == r \in Blocks /\ r.id = root.id /\ r.ptrs = RemoveAt(root.ptrs, i)

\* RemoveEntry takes one entry out of block 1.
LEMMA RemoveEntryIs ==
  ASSUME NEW root \in Blocks, NEW i \in DOMAIN root.ptrs, NEW r, r = RemoveEntry(root, i)
  PROVE  Cuts(root, r, i)
<1>1. root.ptrs \in Seq(Entries) /\ root.behind \in Seq(Nat)
  BY DEF Blocks
<1>2. PICK q : q = RemoveAt(root.ptrs, i)
  OBVIOUS
<1>3. q \in Seq(Entries)
  BY <1>1, <1>2, Removed
<1>4. Last(root.ptrs) \in Entries
  <2>1. Len(root.ptrs) \in DOMAIN root.ptrs
    BY <1>1
  <2>2. QED
    BY <1>1, <2>1 DEF Last
<1>5. PICK o : o = Last(root.ptrs).old
  OBVIOUS
<1>6. o \in Nat
  BY <1>4, <1>5 DEF Entries
<1>7. PICK w : w = <<o>> \o root.behind
  OBVIOUS
<1>8. w \in Seq(Nat)
  BY <1>1, <1>6, <1>7
<1>9. r = [root EXCEPT !.ptrs = q, !.behind = w]
  BY <1>2, <1>5, <1>7 DEF RemoveEntry
<1>10. r \in Blocks /\ r.id = root.id /\ r.ptrs = q
  BY <1>3, <1>8, <1>9 DEF Blocks
<1>11. QED
  BY <1>2, <1>10 DEF Cuts

\* The places of the entries that stay.
LEMMA CutPlaces ==
  ASSUME NEW p \in Seq(Entries), NEW i \in DOMAIN p, NEW q, q = RemoveAt(p, i)
  PROVE  /\ \A k \in DOMAIN q : \E a \in DOMAIN p \ {i} :
              q[k] = p[a] /\ ((k = a /\ a < i) \/ (a = k + 1 /\ a > i))
         /\ \A a \in DOMAIN p \ {i} : \E k \in DOMAIN q : q[k] = p[a]
         /\ q \in Seq(Entries) /\ Len(q) = Len(p) - 1
<1>1. /\ q \in Seq(Entries) /\ Len(q) = Len(p) - 1 /\ DOMAIN q = 1 .. Len(p) - 1
      /\ \A k \in DOMAIN q : q[k] = IF k < i THEN p[k] ELSE p[k + 1]
  BY Removed
<1>2. Len(p) \in Nat /\ DOMAIN p = 1 .. Len(p)
  OBVIOUS
<1>3. ASSUME NEW k \in DOMAIN q
      PROVE  \E a \in DOMAIN p \ {i} : q[k] = p[a] /\ ((k = a /\ a < i) \/ (a = k + 1 /\ a > i))
  <2>1. CASE k < i
    <3>1. k \in DOMAIN p \ {i} /\ q[k] = p[k]
      BY <1>1, <1>2, <2>1
    <3>2. QED
      BY <2>1, <3>1
  <2>2. CASE ~(k < i)
    <3>1. k + 1 \in DOMAIN p \ {i} /\ q[k] = p[k + 1] /\ k + 1 > i
      BY <1>1, <1>2, <2>2
    <3>2. QED
      BY <3>1
  <2>3. QED
    BY <2>1, <2>2
<1>4. \A a \in DOMAIN p \ {i} : \E k \in DOMAIN q : q[k] = p[a]
  BY RemovedPlaces
<1>5. QED
  BY <1>1, <1>3, <1>4

CutTree(h, g, i) ==
  /\ Tree(g) /\ Rooted(g) /\ Counted(g, NotLocked, 0, 0) /\ Spliced(Rows(h), Rows(g), i, <<>>)

\* A tree without one of its blocks is a tree, with right counts.
LEMMA TreeCut ==
  ASSUME NEW h, NEW g, Tree(h), Rooted(h), NEW i \in DOMAIN Ptrs(h), NEW b, b = Ptrs(h)[i].b,
         NEW r, Cuts(h[1].data, r, i), Widened(WithoutName(h, b), g, 1, 1, r),
         Len(Ptrs(h)) > 1, NEW l, NEW d, Counted(h, l, i, d), l.at = i
  PROVE  CutTree(h, g, i)
<1> DEFINE p == Ptrs(h)
           q == r.ptrs
<1>0. /\ p \in Seq(Entries) /\ {0, 1} \subseteq DOMAIN h /\ h[0].pages = 1 /\ h[1].pages = 1
      /\ h[0].data.id = "zero" /\ h[1].data.id = "ptr" /\ p # <<>>
      /\ DOMAIN h = {0, 1} \cup {p[k].b : k \in DOMAIN p}
      /\ \A k, m \in DOMAIN p : p[k].b = p[m].b => k = m
      /\ i \in DOMAIN p /\ b = p[i].b /\ Len(p) > 1
  BY DEF Tree, Rooted, Ptrs
<1>1. \A k \in DOMAIN p : Points(h, p[k])
  <2>1. ASSUME NEW k \in DOMAIN p PROVE Points(h, p[k])
    <3>1. /\ p[k].b \notin {0, 1} /\ p[k].pages = h[p[k].b].pages
          /\ h[p[k].b].data.id = "data" /\ h[p[k].b].data.lines # <<>>
      BY DEF Tree, Ptrs
    <3>2. p[k].b \in DOMAIN h /\ h[p[k].b].data.lines \in Seq(LineNumbers)
      BY DEF Rooted
    <3>3. QED
      BY <3>1, <3>2 DEF Points
  <2>2. QED
    BY <2>1
<1>2. b \notin {0, 1} /\ b \in DOMAIN h
  BY <1>0, <1>1 DEF Points
<1>3. /\ DOMAIN g = DOMAIN h \ {b} /\ g[1].pages = 1 /\ g[1].data = r
      /\ \A x \in DOMAIN h : x # 1 /\ x # b => g[x] = h[x]
  <2>1. DOMAIN WithoutName(h, b) = DOMAIN h \ {b}
        /\ \A x \in DOMAIN h \ {b} : WithoutName(h, b)[x] = h[x]
    BY DEF WithoutName
  <2>2. /\ DOMAIN g = DOMAIN WithoutName(h, b) \cup {1} /\ g[1].pages = 1 /\ g[1].data = r
        /\ \A x \in DOMAIN WithoutName(h, b) : x # 1 => g[x] = WithoutName(h, b)[x]
    BY DEF Widened
  <2>3. QED
    BY <1>0, <1>2, <2>1, <2>2
<1>4. r \in Blocks /\ r.id = "ptr" /\ q = RemoveAt(p, i)
  BY <1>0 DEF Cuts, Ptrs
<1> HIDE DEF p, q
<1>5. /\ \A k \in DOMAIN q : \E a \in DOMAIN p \ {i} :
              q[k] = p[a] /\ ((k = a /\ a < i) \/ (a = k + 1 /\ a > i))
      /\ \A a \in DOMAIN p \ {i} : \E k \in DOMAIN q : q[k] = p[a]
      /\ q \in Seq(Entries) /\ Len(q) = Len(p) - 1
  BY <1>0, <1>4, CutPlaces
<1>6. Ptrs(g) = q
  BY <1>3 DEF Ptrs, q
<1>7. /\ DOMAIN p = 1 .. Len(p) /\ Len(p) \in Nat /\ DOMAIN q = 1 .. (Len(p) - 1)
  BY <1>0, <1>5
<1>8. ASSUME NEW k \in DOMAIN q
      PROVE  Points(h, q[k]) /\ Points(g, q[k]) /\ g[q[k].b] = h[q[k].b]
  <2>1. PICK a \in DOMAIN p \ {i} : q[k] = p[a]
    BY <1>5
  <2>2. Points(h, q[k]) /\ q[k].b # b
    BY <1>0, <1>1, <2>1
  <2>3. g[q[k].b] = h[q[k].b] /\ q[k].b \in DOMAIN g
    BY <1>3, <2>2 DEF Points
  <2>4. QED
    BY <2>2, <2>3 DEF Points
<1>9. DOMAIN g = {0, 1} \cup {q[k].b : k \in DOMAIN q}
  <2>1. ASSUME NEW x \in DOMAIN g PROVE x \in {0, 1} \cup {q[k].b : k \in DOMAIN q}
    <3>1. CASE x \in {0, 1}
      BY <3>1
    <3>2. CASE \E a \in DOMAIN p : x = p[a].b
      <4>1. PICK a \in DOMAIN p : x = p[a].b
        BY <3>2
      <4>2. a # i
        BY <1>0, <1>3, <4>1
      <4>3. PICK k \in DOMAIN q : q[k] = p[a]
        BY <1>5, <4>2
      <4>4. QED
        BY <4>1, <4>3
    <3>3. QED
      BY <1>0, <1>3, <3>1, <3>2
  <2>2. ASSUME NEW k \in DOMAIN q PROVE q[k].b \in DOMAIN g
    BY <1>8 DEF Points
  <2>3. {0, 1} \subseteq DOMAIN g
    BY <1>0, <1>2, <1>3
  <2>4. QED
    BY <2>1, <2>2, <2>3
<1>10. ASSUME NEW k \in DOMAIN q, NEW m \in DOMAIN q, q[k].b = q[m].b PROVE k = m
  <2>1. PICK a \in DOMAIN p \ {i} : q[k] = p[a] /\ ((k = a /\ a < i) \/ (a = k + 1 /\ a > i))
    BY <1>5
  <2>2. PICK c \in DOMAIN p \ {i} : q[m] = p[c] /\ ((m = c /\ c < i) \/ (c = m + 1 /\ c > i))
    BY <1>5
  <2>3. a = c
    BY <1>0, <1>10, <2>1, <2>2
  <2>4. k \in Int /\ m \in Int /\ i \in Int /\ a \in Int
    BY <1>0, <1>7
  <2>5. QED
    BY <2>1, <2>2, <2>3, <2>4
<1>11. Tree(g)
  <2>1. g[0] = h[0] /\ 0 \in DOMAIN g /\ 1 \in DOMAIN g
    BY <1>0, <1>2, <1>3
  <2>2. q # <<>>
    BY <1>0, <1>5, <1>7
  <2>3. \A k \in DOMAIN q : /\ q[k].b \notin {0, 1} /\ q[k].pages = g[q[k].b].pages
                           /\ g[q[k].b].data.id = "data" /\ g[q[k].b].data.lines # <<>>
    BY <1>8 DEF Points
  <2>4. g[1].pages = 1 /\ g[1].data.id = "ptr" /\ g[0].pages = 1 /\ g[0].data.id = "zero"
        /\ {0, 1} \subseteq DOMAIN g
    BY <1>0, <1>3, <1>4, <2>1
  <2>5. TreeOf(g, q)
    BY <1>9, <1>10, <2>2, <2>3, <2>4 DEF TreeOf
  <2>6. g[1].data.ptrs = q
    BY <1>3 DEF q
  <2>7. QED
    BY <2>5, <2>6, TreeIs
<1>12. Rooted(g)
  <2>1. \A k \in DOMAIN q : q[k].b \in DOMAIN g /\ q[k].b # 1 /\ g[q[k].b].data.lines \in Seq(LineNumbers)
    BY <1>8 DEF Points
  <2>2. 1 \in DOMAIN g /\ g[1].data \in Blocks /\ g[1].pages = 1
    BY <1>3, <1>4, <1>9
  <2>3. QED
    BY <1>5, <1>6, <2>1, <2>2 DEF Rooted
<1>13. Counted(g, NotLocked, 0, 0)
  <2>0. NotLocked.at = 0 /\ NotLocked.add = 0
    BY NothingLocked
  <2> SUFFICES ASSUME NEW k \in DOMAIN q
               PROVE  q[k].count + (IF NotLocked.at = k THEN NotLocked.add ELSE 0)
                        = Len(g[q[k].b].data.lines) + (IF k = 0 THEN 0 ELSE 0)
    BY <1>6 DEF Counted, Ptrs
  <2>1. PICK a \in DOMAIN p \ {i} : q[k] = p[a]
    BY <1>5
  <2>2. p[a].count + (IF l.at = a THEN l.add ELSE 0)
          = Len(h[p[a].b].data.lines) + (IF a = i THEN d ELSE 0)
    BY DEF Counted, p, Ptrs
  <2>3. p[a].count + 0 = Len(h[p[a].b].data.lines) + 0
    BY <2>1, <2>2
  <2>4. q[k].count \in Int
    <3>1. q[k] \in Entries
      BY <1>5
    <3>2. QED
      BY <3>1 DEF Entries
  <2>5. Len(g[q[k].b].data.lines) \in Nat
    <3>1. g[q[k].b].data.lines \in Seq(LineNumbers)
      BY <1>8 DEF Points
    <3>2. QED
      BY <3>1
  <2>6. q[k].count + 0 = Len(g[q[k].b].data.lines) + 0
    BY <1>8, <2>1, <2>3
  <2>7. QED
    BY <2>0, <2>4, <2>5, <2>6
<1>14. /\ Len(Rows(g)) = Len(q) /\ Len(Rows(h)) = Len(p)
       /\ \A k \in DOMAIN q : Rows(g)[k] = h[q[k].b].data.lines
       /\ \A k \in DOMAIN p : Rows(h)[k] = h[p[k].b].data.lines
  <2>1. Rows(g) = [k \in 1 .. Len(q) |-> g[q[k].b].data.lines] /\ DOMAIN q = 1 .. Len(q)
        /\ Len(q) \in Nat
    BY <1>5, <1>6 DEF Rows
  <2>2. Rows(h) = [k \in 1 .. Len(p) |-> h[p[k].b].data.lines]
    BY DEF Rows, p
  <2>3. Len(Rows(g)) = Len(q) /\ \A k \in DOMAIN q : Rows(g)[k] = g[q[k].b].data.lines
    BY <2>1
  <2>4. Len(Rows(h)) = Len(p) /\ \A k \in DOMAIN p : Rows(h)[k] = h[p[k].b].data.lines
    BY <1>7, <2>2
  <2>5. QED
    BY <1>8, <2>3, <2>4
<1>15. \A k \in DOMAIN q : q[k] = IF k < i THEN p[k] ELSE p[k + 1]
  BY <1>0, <1>4, Removed
<1>16. i \in 1 .. Len(p)
  BY <1>0, <1>7
<1>17. ASSUME NEW k \in 1 .. (i - 1) PROVE Rows(g)[k] = Rows(h)[k]
  <2>1. k \in DOMAIN p /\ k \in DOMAIN q /\ k < i
    BY <1>7, <1>16
  <2>2. q[k] = p[k]
    BY <1>15, <2>1
  <2>3. QED
    BY <1>14, <2>1, <2>2
<1>18. ASSUME NEW k \in 1 .. (Len(p) - i), NEW j, j = i - 1 + k, NEW z, z = i + k
       PROVE  Rows(g)[j] = Rows(h)[z]
  <2>1. z \in DOMAIN p /\ j \in DOMAIN q /\ ~(j < i) /\ j + 1 = z
    BY <1>7, <1>16, <1>18, SMTT(30)
  <2>2. q[j] = p[z]
    BY <1>15, <2>1
  <2>3. QED
    BY <1>14, <2>1, <2>2
<1>19. PICK M : M = <<>>
  OBVIOUS
<1>20. Len(M) = 0
  BY <1>19
<1>21. Spliced(Rows(h), Rows(g), i, M)
  <2>1. PICK R, Q : R = Rows(h) /\ Q = Rows(g)
    OBVIOUS
  <2>2. PICK n : n = Len(p)
    OBVIOUS
  <2>3. /\ n \in Nat /\ Len(R) = n /\ Len(Q) = n - 1 /\ i \in 1 .. n
    BY <1>5, <1>7, <1>14, <1>16, <2>1, <2>2
  <2>4. Len(Q) = Len(R) + Len(M) - 1
    BY <1>20, <2>3
  <2>5. \A k \in 1 .. (i - 1) : Q[k] = R[k]
    BY <1>17, <2>1
  <2>6. ASSUME NEW k \in 1 .. (Len(R) - i) PROVE Q[i - 1 + Len(M) + k] = R[i + k]
    <3>1. PICK j, z : j = i - 1 + k /\ z = i + k
      OBVIOUS
    <3>2. i - 1 + Len(M) + k = j /\ i + k = z /\ k \in 1 .. (Len(p) - i)
      BY <1>20, <2>2, <2>3, <3>1
    <3>3. Q[j] = R[z]
      BY <1>18, <2>1, <3>1, <3>2
    <3>4. QED
      BY <3>2, <3>3
  <2>7. \A k \in 1 .. Len(M) : Q[i - 1 + k] = M[k]
    BY <1>20
  <2>8. QED
    BY <2>1, <2>3, <2>4, <2>5, <2>6, <2>7 DEF Spliced
<1>22. QED
  BY <1>11, <1>12, <1>13, <1>19, <1>21 DEF CutTree

-----------------------------------------------------------------------------
(* ml_delete_int.                                                          *)

BlockCut(u, h, g, i) == Buf(u, g, 0, 0) /\ u.ok /\ Spliced(Rows(h), Rows(g), i, <<>>)

\* The branch of ml_delete_int that frees a block that has become empty.
LEMMA BlockDeleted ==
  ASSUME NEW f, NEW h, NEW i, Buf(f, h, i, -1), f.l.at = i, i # 0, Len(Ptrs(h)) > 1, NEW room,
         NEW u, u = BlockGone(f, i, mf_get(mf_free(f.m, f.l.b), 1, 1, room))
  PROVE  \E g : BlockCut(u, h, g, i)
<1> DEFINE b == f.l.b
           m == mf_free(f.m, b)
           q == mf_get(m, 1, 1, room)
           root == h[1].data
           r == RemoveEntry(root, i)
           o == mf_put(WithData(q.m, 1, r), 1, TRUE, FALSE)
           h1 == WithoutName(h, b)
<1>0. /\ Half(f, h, i, -1) /\ Tree(h) /\ Rooted(h) /\ MemInv(f.m, h, Pending(f.l))
      /\ IsState(f) /\ Counted(h, f.l, i, -1)
  BY DEF Buf, Half
<1>1. /\ i \in DOMAIN Ptrs(h) /\ b = Ptrs(h)[i].b /\ b \in DOMAIN h /\ b # 1 /\ Holds(f.m, b)
  BY <1>0, LockedFacts
<1>2. Freed(f.m, m, h, {}, b)
  <2>1. PICK X : X = Pending(f.l)
    OBVIOUS
  <2>2. X \subseteq {} \cup {b} /\ MemInv(f.m, h, X)
    BY <1>0, <2>1 DEF Pending
  <2> HIDE DEF b, m
  <2>3. m = mf_free(f.m, b)
    BY DEF m
  <2>4. QED
    BY <1>1, <2>2, <2>3, MfFree
<1> HIDE DEF m
<1>3. MemInv(m, h1, {})
  BY <1>2 DEF Freed
<1>4. 1 \in DOMAIN h1 /\ h1[1] = h[1] /\ h1[1].pages = 1 /\ h[1].data \in Blocks
  BY <1>0, <1>1 DEF WithoutName, Rooted
<1> HIDE DEF h1
<1>5. 1 \notin DOMAIN m.trans
  BY <1>3, <1>4, NameFacts
<1>6. q.ok /\ Got(m, q.m, h1, {}, 1)
  <2>1. Held(m, {})
    BY HeldNone
  <2>2. q = mf_get(m, 1, h1[1].pages, room)
    BY <1>4
  <2> HIDE DEF q
  <2>3. QED
    BY <1>3, <1>4, <1>5, <2>1, <2>2, MfGet
<1>7. u = [f EXCEPT !.m = o, !.l = NotLocked, !.ok = TRUE]
  <2>1. u = BlockGone(f, i, q)
    BY DEF q, m
  <2> HIDE DEF q
  <2>2. q.m.used[1].data = root
    BY <1>4, <1>6 DEF Got
  <2>3. u = [f EXCEPT !.l = NotLocked, !.ok = q.ok,
                      !.m = mf_put([q.m EXCEPT !.used[1].data = RemoveEntry(@, i)], 1, TRUE, FALSE)]
    BY <1>6, <2>1 DEF BlockGone
  <2>4. [q.m EXCEPT !.used[1].data = RemoveEntry(@, i)]
          = [q.m EXCEPT !.used[1].data = RemoveEntry(q.m.used[1].data, i)]
    OBVIOUS
  <2>5. [q.m EXCEPT !.used[1].data = RemoveEntry(@, i)] = WithData(q.m, 1, r)
    BY <2>2, <2>4 DEF WithData
  <2>6. q.ok = TRUE
    BY <1>6
  <2> HIDE DEF r
  <2>7. QED
    BY <2>3, <2>5, <2>6
<1> HIDE DEF q
<1>8. Cuts(root, r, i)
  <2>1. i \in DOMAIN root.ptrs /\ root \in Blocks
    BY <1>1, <1>4 DEF Ptrs
  <2> HIDE DEF root
  <2>2. QED
    BY <2>1, RemoveEntryIs
<1> HIDE DEF r
<1>9. r \in Blocks
  BY <1>8 DEF Cuts
<1>10. Rewrote(q.m, o, h1, {}, r)
  <2>1. MemInv(q.m, h1, {}) /\ 1 \in DOMAIN q.m.used /\ q.m.used[1].b = 1
    BY <1>6 DEF Got, Follows
  <2>2. QED
    BY <1>4, <1>9, <2>1, RootPut
<1>11. PICK g : g = With(h1, 1, h1[1].pages, r)
  OBVIOUS
<1>12. MemInv(o, g, {})
  BY <1>10, <1>11 DEF Rewrote
<1>13. Widened(h1, g, 1, 1, r)
  <2>1. h1 \in Heaps(DOMAIN h1)
    BY <1>3 DEF MemInv
  <2>2. QED
    BY <1>4, <1>9, <1>11, <2>1, WithIs
<1>14. CutTree(h, g, i)
  <2>1. Cuts(h[1].data, r, i)
    BY <1>8
  <2>2. Widened(WithoutName(h, b), g, 1, 1, r)
    BY <1>13 DEF h1
  <2> HIDE DEF root, b
  <2>3. QED
    BY <1>0, <1>1, <2>1, <2>2, TreeCut
<1> HIDE DEF o
<1>15. u.m = o /\ u.l = NotLocked /\ u.ok /\ IsState(u)
  BY <1>0, <1>7 DEF IsState
<1>16. Buf(u, g, 0, 0)
  BY <1>12, <1>14, <1>15, NothingLocked DEF Buf, Half, CutTree
<1>17. QED
  BY <1>14, <1>15, <1>16 DEF BlockCut, CutTree

\* RemoveAt deletes a line.
LEMMA RemoveAtIs ==
  ASSUME NEW S, NEW s \in Seq(S), NEW x \in 1 .. Len(s), NEW r, r = RemoveAt(s, x)
  PROVE  r \in Seq(S) /\ Deleted(s, r, x)
<1>1. /\ r \in Seq(S) /\ Len(r) = Len(s) - 1 /\ DOMAIN r = 1 .. Len(s) - 1
      /\ \A k \in DOMAIN r : r[k] = IF k < x THEN s[k] ELSE s[k + 1]
  <2>1. x \in DOMAIN s
    OBVIOUS
  <2>2. QED
    BY <2>1, Removed
<1>2. PICK n : n = Len(s)
  OBVIOUS
<1>3. n \in Nat /\ x \in 1 .. n
  BY <1>2
<1>4. ASSUME NEW k \in 1 .. (x - 1) PROVE r[k] = s[k]
  <2>1. k \in 1 .. n - 1 /\ k < x
    BY <1>3
  <2>2. QED
    BY <1>1, <1>2, <2>1
<1>5. ASSUME NEW k \in x .. (n - 1) PROVE r[k] = s[k + 1]
  <2>1. k \in 1 .. n - 1 /\ ~(k < x)
    BY <1>3
  <2>2. QED
    BY <1>1, <1>2, <2>1
<1>6. QED
  BY <1>1, <1>2, <1>4, <1>5 DEF Deleted

\* No rows, no lines.
LEMMA FlatNone == FlattenSeq(<<>>) = <<>>
<1>1. <<>> \in Seq(Seq({}))
  OBVIOUS
<1>2. FlattenSeq(<<>>) \in Seq({})
  BY <1>1, FlatType
<1>3. QED
  BY <1>2

Shrunk(u, h, g, n) == Buf(u, g, 0, 0) /\ u.ok /\ Deleted(Flat(h), Flat(g), n)

\* A line deleted from a row is line n deleted from the text.
LEMMA RowShrinksText ==
  ASSUME NEW u, NEW h, NEW g, NEW i, NEW x, NEW M \in Seq(Seq(LineNumbers)), Buf(u, g, 0, 0), u.ok,
         Spliced(Rows(h), Rows(g), i, M), Deleted(Rows(h)[i], FlattenSeq(M), x),
         NEW F, NEW n, Place(h, F, i, x, n)
  PROVE  Shrunk(u, h, g, n)
<1>1. PICK R, Q : R = Rows(h) /\ Q = Rows(g)
  OBVIOUS
<1>2. Spliced(R, Q, i, M) /\ Deleted(R[i], FlattenSeq(M), x)
  BY <1>1
<1>3. /\ R \in Seq(Seq(LineNumbers)) /\ FlatUpTo(LineNumbers, R, F) /\ n = Len(F[i - 1]) + x
  BY <1>1 DEF Place, Sectioned
<1>4. Q \in Seq(Seq(LineNumbers))
  BY <1>1, SectionsExist DEF Sectioned
<1>5. Deleted(FlattenSeq(R), FlattenSeq(Q), n)
  BY <1>2, <1>3, <1>4, RowShrinks
<1>6. QED
  BY <1>1, <1>5 DEF Shrunk, Flat

\* A text of more lines than one, with a block of one line, has another block.
LEMMA OtherBlock ==
  ASSUME NEW h, NEW F, NEW i, NEW x, NEW n, Place(h, F, i, x, n), Len(Rows(h)[i]) = 1,
         Len(Flat(h)) > 1
  PROVE  Len(Ptrs(h)) > 1
<1>1. PICK R : R = Rows(h)
  OBVIOUS
<1>2. /\ R \in Seq(Seq(LineNumbers)) /\ FlatUpTo(LineNumbers, R, F) /\ Flat(h) = F[Len(R)]
      /\ i \in 1 .. Len(R) /\ Len(Ptrs(h)) = Len(R) /\ Len(R) \in Nat
  BY <1>1 DEF Place, Sectioned
<1>3. CASE Len(R) = 1
  <2>1. i = 1 /\ Flat(h) = F[1]
    BY <1>2, <1>3
  <2>2. RowLengths(R, F)
    BY <1>2, PrefixLengths
  <2>3. PICK k : k = 1
    OBVIOUS
  <2>4. k \in 1 .. Len(R) /\ k - 1 = 0
    BY <1>3, <2>3
  <2>5. Len(F[k]) = Len(F[k - 1]) + Len(R[k]) /\ Len(F[0]) = 0
    BY <2>2, <2>4 DEF RowLengths
  <2>6. Len(F[k - 1]) = 0 /\ Len(R[k]) = 1
    BY <1>1, <2>1, <2>3, <2>4, <2>5
  <2>7. Len(F[1]) = 1
    BY <2>3, <2>5, <2>6
  <2>8. QED
    BY <2>1, <2>7
<1>4. QED
  BY <1>2, <1>3

\* ml_delete_int in the block found.
LEMMA InDeletes ==
  ASSUME NEW f, NEW h, NEW F, NEW i, NEW x, NEW n, Buf(f, h, i, -1), f.l.at = i, f.ok,
         Place(h, F, i, x, n), x # 0, Len(Flat(h)) > 1, NEW room,
         NEW u, u = DeleteIn(f, i, x, room)
  PROVE  \E g : Shrunk(u, h, g, n)
<1>0. i # 0 /\ x \in 1 .. Len(Rows(h)[i]) /\ Rows(h)[i] = LockedLines(f)
      /\ Rows(h)[i] \in Seq(LineNumbers) /\ f.l \in HeldLocks /\ IsState(f)
  <2>1. i # 0 /\ x \in 0 .. Len(Rows(h)[i])
    BY DEF Place
  <2>2. Half(f, h, i, -1)
    BY DEF Buf
  <2>3. Rows(h)[i] = LockedLines(f) /\ LockedLines(f) \in Seq(LineNumbers)
    BY <2>1, <2>2, LockedIs
  <2>4. f.l \in HeldLocks
    BY <2>1, <2>2, LockedFacts DEF HeldLocks
  <2>5. x \in 1 .. Len(Rows(h)[i])
    BY <2>1, <2>3
  <2>6. QED
    BY <2>1, <2>2, <2>3, <2>4, <2>5 DEF Half
<1>1. PICK row : row = Rows(h)[i]
  OBVIOUS
<1>2. row \in Seq(LineNumbers) /\ Len(row) \in Nat /\ x \in 1 .. Len(row)
  BY <1>0, <1>1
<1>3. CASE Len(row) > 1
  <2>1. PICK lines : lines = RemoveAt(row, x)
    OBVIOUS
  <2>2. lines \in Seq(LineNumbers) /\ Deleted(row, lines, x)
    BY <1>2, <2>1, RemoveAtIs
  <2>3. Len(lines) = Len(row) - 1
    BY <2>2 DEF Deleted
  <2>4. lines # <<>> /\ Len(lines) = Len(Rows(h)[i]) + -1
    <3>1. Len(lines) > 0
      BY <1>2, <1>3, <2>3
    <3>2. QED
      BY <1>1, <1>2, <2>3, <3>1
  <2>5. u = [f EXCEPT !.m = SetLines(f.m, f.l.b, lines), !.l.dirty = TRUE, !.l.pos = TRUE]
    BY <1>0, <1>1, <1>3, <2>1 DEF DeleteIn
  <2>6. Touched(f, u, SetLines(f.m, f.l.b, lines), f.l.add, TRUE, TRUE)
    <3>1. TRUE \in BOOLEAN
      OBVIOUS
    <3>2. QED
      BY <1>0, <2>5, <3>1, TouchIs
  <2>7. LinesPut(f, h, i, -1, lines, TRUE, u)
    <3>1. -1 \in Int /\ TRUE \in BOOLEAN
      OBVIOUS
    <3>2. QED
      BY <1>0, <2>2, <2>4, <2>6, <3>1, Zenon DEF LinesPut
  <2>8. PICK g : RowChanged(u, f, h, g, i, lines)
    BY <2>7, LockedChanged
  <2>9. /\ Buf(u, g, 0, 0) /\ u.ok /\ Rows(g) = [Rows(h) EXCEPT ![i] = lines]
    BY <2>8 DEF RowChanged
  <2>10. /\ Spliced(Rows(h), Rows(g), i, <<lines>>) /\ <<lines>> \in Seq(Seq(LineNumbers))
         /\ FlattenSeq(<<lines>>) = lines
    <3>1. i \in 1 .. Len(Rows(h)) /\ Rows(h) \in Seq(Seq(LineNumbers))
      BY DEF Place, Sectioned
    <3>2. QED
      BY <2>2, <2>9, <3>1, RowSpliced
  <2>11. Deleted(Rows(h)[i], FlattenSeq(<<lines>>), x)
    BY <1>1, <2>2, <2>10
  <2>12. Shrunk(u, h, g, n)
    BY <2>9, <2>10, <2>11, RowShrinksText
  <2>13. QED
    BY <2>12
<1>4. CASE ~(Len(row) > 1)
  <2>1. Len(row) = 1 /\ x = 1
    <3>1. PICK L : L = Len(row)
      OBVIOUS
    <3>2. L \in Nat /\ x \in 1 .. L /\ ~(L > 1)
      BY <1>2, <1>4, <3>1
    <3>3. L = 1 /\ x = 1
      BY <3>2
    <3>4. QED
      BY <3>1, <3>3
  <2>2. u = BlockGone(f, i, mf_get(mf_free(f.m, f.l.b), 1, 1, room))
    BY <1>0, <1>1, <1>4 DEF DeleteIn
  <2>3. Len(Ptrs(h)) > 1
    BY <1>1, <2>1, OtherBlock
  <2>4. PICK g : BlockCut(u, h, g, i)
    BY <1>0, <2>2, <2>3, BlockDeleted
  <2>5. PICK M : M = <<>>
    OBVIOUS
  <2>6. M \in Seq(Seq(LineNumbers)) /\ FlattenSeq(M) = <<>>
    BY <2>5, FlatNone
  <2>7. Deleted(row, FlattenSeq(M), x)
    BY <2>1, <2>6 DEF Deleted
  <2>8. Buf(u, g, 0, 0) /\ u.ok /\ Spliced(Rows(h), Rows(g), i, M)
    BY <2>4, <2>5 DEF BlockCut
  <2>9. Shrunk(u, h, g, n)
    BY <1>1, <2>6, <2>7, <2>8, RowShrinksText
  <2>10. QED
    BY <2>9
<1>5. QED
  BY <1>3, <1>4

\* ml_delete_int deletes line n, and only that.
LEMMA MlDelete ==
  ASSUME NEW s, NEW h, Buf(s, h, 0, 0), s.ok, NEW n \in 1 .. Len(Flat(h)), Len(Flat(h)) > 1,
         NEW room, NEW u, u = ml_delete_int(s, n, room)
  PROVE  \E g : Shrunk(u, h, g, n)
<1>1. PICK F : Sectioned(h, F)
  BY SectionsExist
<1>2. PICK i, x : i = BlockWith(s, n) /\ x = n - Before(s, i)
  OBVIOUS
<1>3. Place(h, F, i, x, n) /\ x # 0
  BY <1>1, <1>2, LinePlace
<1>4. PICK f : f = ml_find_line(s, i, -1, room)
  OBVIOUS
<1>5. PICK g : Found(f, h, g, i, -1)
  <2>1. -1 \in Int /\ i \in DOMAIN Ptrs(h)
    BY <1>3 DEF Place, Sectioned
  <2>2. QED
    BY <1>4, <2>1, FindLine
<1>6. Buf(f, g, i, -1) /\ f.ok /\ f.l.at = i /\ SameText(h, g) /\ Rooted(g)
  BY <1>5 DEF Found, SameText, Buf, Half
<1>7. Place(g, F, i, x, n) /\ Flat(g) = Flat(h)
  BY <1>3, <1>6, PlaceKept
<1>8. u = DeleteIn(f, i, x, room)
  BY <1>2, <1>4 DEF ml_delete_int
<1>9. PICK o : Shrunk(u, g, o, n)
  BY <1>3, <1>6, <1>7, <1>8, InDeletes
<1>10. Shrunk(u, h, o, n)
  BY <1>7, <1>9 DEF Shrunk
<1>11. QED
  BY <1>10

-----------------------------------------------------------------------------
(* ml_flush_line.                                                          *)

Altered(u, h, g, n) == Buf(u, g, 0, 0) /\ u.ok /\ Replaced(Flat(h), Flat(g), n)

LineExcept(s, x, e, r) == r = [s EXCEPT ![x] = e]

\* EXCEPT replaces a line.
LEMMA LineExceptIs ==
  ASSUME NEW S, NEW s \in Seq(S), NEW x \in 1 .. Len(s), NEW e \in S, NEW r, LineExcept(s, x, e, r)
  PROVE  r \in Seq(S) /\ Replaced(s, r, x) /\ Len(r) = Len(s)
<1>0. r = [s EXCEPT ![x] = e]
  BY DEF LineExcept
<1>1. r \in Seq(S) /\ Len(r) = Len(s) /\ \A k \in 1 .. Len(s) : k # x => r[k] = s[k]
  BY <1>0
<1>2. QED
  BY <1>1 DEF Replaced

\* A line inserted below line n, and line n deleted: line n is replaced.
LEMMA InsertedDeleted ==
  ASSUME NEW S, NEW t \in Seq(S), NEW v \in Seq(S), NEW w \in Seq(S), NEW n \in 1 .. Len(t),
         NEW line, Inserted(t, v, n, line), Deleted(v, w, n)
  PROVE  Replaced(t, w, n)
<1>1. PICK a : a = Len(t)
  OBVIOUS
<1>2. a \in Nat /\ n \in 1 .. a
  BY <1>1
<1>3. Len(v) = a + 1 /\ Len(w) = a
  BY <1>1, <1>2 DEF Inserted, Deleted
<1>4. ASSUME NEW k \in 1 .. a, k # n PROVE w[k] = t[k]
  <2>1. CASE k < n
    <3>1. k \in 1 .. n /\ k \in 1 .. (n - 1)
      BY <1>2, <2>1
    <3>2. QED
      BY <3>1 DEF Inserted, Deleted
  <2>2. CASE k > n
    <3>1. k \in (n + 1) .. Len(t) /\ k \in n .. (Len(v) - 1)
      BY <1>1, <1>2, <1>3, <2>2
    <3>2. v[k + 1] = t[k]
      BY <3>1 DEF Inserted
    <3>3. w[k] = v[k + 1]
      BY <3>1 DEF Deleted
    <3>4. QED
      BY <3>2, <3>3
  <2>3. QED
    BY <1>2, <1>4, <2>1, <2>2
<1>5. QED
  BY <1>1, <1>3, <1>4 DEF Replaced

\* A line replaced in a row is line n replaced in the text.
LEMMA RowAltersText ==
  ASSUME NEW u, NEW h, NEW g, NEW i, NEW x, NEW M \in Seq(Seq(LineNumbers)), Buf(u, g, 0, 0), u.ok,
         Spliced(Rows(h), Rows(g), i, M), Replaced(Rows(h)[i], FlattenSeq(M), x),
         NEW F, NEW n, Place(h, F, i, x, n)
  PROVE  Altered(u, h, g, n)
<1>1. PICK R, Q : R = Rows(h) /\ Q = Rows(g)
  OBVIOUS
<1>2. Spliced(R, Q, i, M) /\ Replaced(R[i], FlattenSeq(M), x)
  BY <1>1
<1>3. /\ R \in Seq(Seq(LineNumbers)) /\ FlatUpTo(LineNumbers, R, F) /\ n = Len(F[i - 1]) + x
  BY <1>1 DEF Place, Sectioned
<1>4. Q \in Seq(Seq(LineNumbers))
  BY <1>1, SectionsExist DEF Sectioned
<1>5. Replaced(FlattenSeq(R), FlattenSeq(Q), n)
  BY <1>2, <1>3, <1>4, RowChanges
<1>6. QED
  BY <1>1, <1>5 DEF Altered, Flat

\* Nothing is counted that is not there.
LEMMA NoneCounted ==
  ASSUME NEW f, NEW h, NEW i, Buf(f, h, i, 0)
  PROVE  Buf(f, h, 0, 0)
<1>1. Counted(h, f.l, i, 0)
  BY DEF Buf, Half
<1>2. Counted(h, f.l, 0, 0)
  BY <1>1 DEF Counted
<1>3. QED
  BY <1>2 DEF Buf, Half

\* ml_flush_line by way of ml_append_int and ml_delete_int.
LEMMA DropsOld ==
  ASSUME NEW f, NEW h, Buf(f, h, 0, 0), f.ok, NEW n \in 1 .. Len(Flat(h)), NEW line \in LineNumbers,
         NEW room, NEW u, u = DropOld(ml_append_int(f, n, line, FALSE, room), n, room)
  PROVE  \E g : Altered(u, h, g, n)
<1>1. Flat(h) \in Seq(LineNumbers)
  BY SectionsExist DEF Sectioned
<1>2. n \in 0 .. Len(Flat(h)) /\ n \in 1 .. Len(Flat(h)) /\ Len(Flat(h)) \in Nat
  BY <1>1
<1>3. PICK a : a = ml_append_int(f, n, line, FALSE, room)
  OBVIOUS
<1>4. PICK o : Appended(a, h, o, n, line)
  <2>1. FALSE \in BOOLEAN
    OBVIOUS
  <2>2. QED
    BY <1>2, <1>3, <2>1, MlAppend
<1>5. Buf(a, o, 0, 0) /\ a.ok /\ Inserted(Flat(h), Flat(o), n, line)
  BY <1>4 DEF Appended
<1>6. [a EXCEPT !.ok = TRUE] = a
  <2>1. a = [m |-> a.m, l |-> a.l, ok |-> a.ok] /\ a.ok \in BOOLEAN
    BY <1>5 DEF Buf, Half, IsState
  <2>2. a.ok = TRUE
    BY <1>5, <2>1
  <2>3. QED
    BY <2>1, <2>2
<1>7. u = ml_delete_int(a, n, room)
  BY <1>3, <1>6 DEF DropOld
<1>8. Flat(o) \in Seq(LineNumbers)
  BY <1>5, SectionsExist DEF Sectioned
<1>9. n \in 1 .. Len(Flat(o)) /\ Len(Flat(o)) > 1
  <2>1. Len(Flat(o)) = Len(Flat(h)) + 1
    BY <1>5 DEF Inserted
  <2>2. QED
    BY <1>2, <2>1
<1>10. PICK q : Shrunk(u, o, q, n)
  BY <1>5, <1>7, <1>9, MlDelete
<1>11. Buf(u, q, 0, 0) /\ u.ok /\ Deleted(Flat(o), Flat(q), n)
  BY <1>10 DEF Shrunk
<1>12. Flat(q) \in Seq(LineNumbers)
  BY <1>11, SectionsExist DEF Sectioned
<1>13. Replaced(Flat(h), Flat(q), n)
  BY <1>1, <1>2, <1>5, <1>8, <1>11, <1>12, InsertedDeleted
<1>14. QED
  BY <1>11, <1>13 DEF Altered

\* ml_flush_line in the block found.
LEMMA InAlters ==
  ASSUME NEW f, NEW h, NEW F, NEW i, NEW x, NEW n, Buf(f, h, i, 0), f.l.at = i, f.ok,
         Place(h, F, i, x, n), x # 0, n \in 1 .. Len(Flat(h)), NEW line \in LineNumbers, NEW room,
         NEW u, u = ReplaceIn(f, x, n, line, room)
  PROVE  \E g : Altered(u, h, g, n)
<1>0. i # 0 /\ x \in 1 .. Len(Rows(h)[i]) /\ Rows(h)[i] = LockedLines(f)
      /\ Rows(h)[i] \in Seq(LineNumbers) /\ f.l \in HeldLocks /\ IsState(f)
  <2>1. i # 0 /\ x \in 0 .. Len(Rows(h)[i])
    BY DEF Place
  <2>2. Half(f, h, i, 0)
    BY DEF Buf
  <2>3. Rows(h)[i] = LockedLines(f) /\ LockedLines(f) \in Seq(LineNumbers)
    BY <2>1, <2>2, LockedIs
  <2>4. f.l \in HeldLocks
    BY <2>1, <2>2, LockedFacts DEF HeldLocks
  <2>5. x \in 1 .. Len(Rows(h)[i])
    BY <2>1, <2>3
  <2>6. QED
    BY <2>1, <2>2, <2>3, <2>4, <2>5 DEF Half
<1>1. PICK row : row = Rows(h)[i]
  OBVIOUS
<1>2. row \in Seq(LineNumbers) /\ Len(row) \in Nat /\ x \in 1 .. Len(row)
  BY <1>0, <1>1
<1> DEFINE fits == FreeSpace(f) >= Size(line) - Size(LockedLines(f)[x])
<1>3. CASE fits
  <2>1. PICK lines : lines = [row EXCEPT ![x] = line]
    OBVIOUS
  <2>2. lines \in Seq(LineNumbers) /\ Replaced(row, lines, x) /\ Len(lines) = Len(row)
    <3>1. LineExcept(row, x, line, lines)
      BY <2>1 DEF LineExcept
    <3>2. QED
      BY <1>2, <3>1, LineExceptIs
  <2>4. lines # <<>> /\ Len(lines) = Len(Rows(h)[i]) + 0
    <3>1. Len(lines) > 0
      BY <1>2, <2>2
    <3>2. QED
      BY <1>1, <1>2, <2>2, <3>1
  <2>5. u = [f EXCEPT !.m = SetLines(f.m, f.l.b, lines), !.l.dirty = TRUE, !.l.pos = TRUE]
    BY <1>0, <1>1, <1>3, <2>1 DEF ReplaceIn
  <2> HIDE DEF fits
  <2>6. Touched(f, u, SetLines(f.m, f.l.b, lines), f.l.add, TRUE, TRUE)
    <3>1. TRUE \in BOOLEAN
      OBVIOUS
    <3>2. QED
      BY <1>0, <2>5, <3>1, TouchIs
  <2>7. LinesPut(f, h, i, 0, lines, TRUE, u)
    <3>1. 0 \in Int /\ TRUE \in BOOLEAN
      OBVIOUS
    <3>2. QED
      BY <1>0, <2>2, <2>4, <2>6, <3>1, Zenon DEF LinesPut
  <2>8. PICK g : RowChanged(u, f, h, g, i, lines)
    BY <2>7, LockedChanged
  <2>9. /\ Buf(u, g, 0, 0) /\ u.ok /\ Rows(g) = [Rows(h) EXCEPT ![i] = lines]
    BY <2>8 DEF RowChanged
  <2>10. /\ Spliced(Rows(h), Rows(g), i, <<lines>>) /\ <<lines>> \in Seq(Seq(LineNumbers))
         /\ FlattenSeq(<<lines>>) = lines
    <3>1. i \in 1 .. Len(Rows(h)) /\ Rows(h) \in Seq(Seq(LineNumbers))
      BY DEF Place, Sectioned
    <3>2. QED
      BY <2>2, <2>9, <3>1, RowSpliced
  <2>11. Replaced(Rows(h)[i], FlattenSeq(<<lines>>), x)
    BY <1>1, <2>2, <2>10
  <2>12. Altered(u, h, g, n)
    BY <2>9, <2>10, <2>11, RowAltersText
  <2>13. QED
    BY <2>12
<1>4. CASE ~fits
  <2>1. u = DropOld(ml_append_int(f, n, line, FALSE, room), n, room)
    BY <1>4 DEF ReplaceIn
  <2>2. Buf(f, h, 0, 0)
    BY NoneCounted
  <2>3. QED
    BY <2>1, <2>2, DropsOld
<1>5. QED
  BY <1>3, <1>4

\* ml_flush_line replaces line n, and only that.
LEMMA MlFlushLine ==
  ASSUME NEW s, NEW h, Buf(s, h, 0, 0), s.ok, NEW n \in 1 .. Len(Flat(h)), NEW line \in LineNumbers,
         NEW room, NEW u, u = ml_flush_line(s, n, line, room)
  PROVE  \E g : Altered(u, h, g, n)
<1>1. PICK F : Sectioned(h, F)
  BY SectionsExist
<1>2. PICK i, x : i = BlockWith(s, n) /\ x = n - Before(s, i)
  OBVIOUS
<1>3. Place(h, F, i, x, n) /\ x # 0
  BY <1>1, <1>2, LinePlace
<1>4. PICK f : f = ml_find_line(s, i, 0, room)
  OBVIOUS
<1>5. PICK g : Found(f, h, g, i, 0)
  <2>1. 0 \in Int /\ i \in DOMAIN Ptrs(h)
    BY <1>3 DEF Place, Sectioned
  <2>2. QED
    BY <1>4, <2>1, FindLine
<1>6. Buf(f, g, i, 0) /\ f.ok /\ f.l.at = i /\ SameText(h, g) /\ Rooted(g)
  BY <1>5 DEF Found, SameText, Buf, Half
<1>7. Place(g, F, i, x, n) /\ Flat(g) = Flat(h)
  BY <1>3, <1>6, PlaceKept
<1>8. u = ReplaceIn(f, x, n, line, room)
  BY <1>2, <1>4 DEF ml_flush_line
<1>9. n \in 1 .. Len(Flat(g))
  BY <1>7
<1>10. PICK o : Altered(u, g, o, n)
  BY <1>3, <1>6, <1>7, <1>8, <1>9, InAlters
<1>11. Altered(u, h, o, n)
  BY <1>7, <1>10 DEF Altered
<1>12. QED
  BY <1>11

-----------------------------------------------------------------------------
(* What does not change the text.                                          *)

\* A steady step of the memory file leaves the buffer as it is.
LEMMA SteadyBuf ==
  ASSUME NEW s, NEW h, Buf(s, h, 0, 0), NEW n, Steady(s.m, n, h, Pending(s.l)),
         NEW ok \in BOOLEAN, NEW t, t = [m |-> n, l |-> s.l, ok |-> ok]
  PROVE  Buf(t, h, 0, 0)
<1>1. StateOf(t, n, s.l, ok)
  BY StateIs
<1>2. t.m = n /\ t.l = s.l /\ t.ok = ok
  BY <1>1 DEF StateOf
<1>3. IsState(t)
  BY <1>2 DEF IsState
<1>4. /\ MemInv(n, h, Pending(s.l)) /\ \A b : Holds(s.m, b) => Holds(n, b)
  BY DEF Steady, Quiet
<1>5. /\ Rooted(h) /\ Counted(h, s.l, 0, 0) /\ LockedInv(s.m, h, s.l) /\ Tree(h)
  BY DEF Buf, Half
<1>6. LockedInv(n, h, s.l)
  <2>1. CASE s.l = NotLocked
    BY <2>1 DEF LockedInv
  <2>2. CASE s.l # NotLocked
    <3>1. Holds(s.m, s.l.b)
      BY <1>5, <2>2 DEF LockedInv, Holds
    <3>2. Holds(n, s.l.b)
      BY <1>4, <3>1
    <3>3. QED
      BY <1>5, <2>2, <3>2 DEF LockedInv, Holds
  <2>3. QED
    BY <2>1, <2>2
<1>7. QED
  BY <1>2, <1>3, <1>4, <1>5, <1>6 DEF Buf, Half

\* When no block is locked, a quiet step does so too.
LEMMA QuietBuf ==
  ASSUME NEW s, NEW h, Buf(s, h, 0, 0), s.l = NotLocked, NEW n, MemInv(n, h, {}),
         NEW ok \in BOOLEAN, NEW t, t = [m |-> n, l |-> s.l, ok |-> ok]
  PROVE  Buf(t, h, 0, 0)
<1>1. StateOf(t, n, s.l, ok)
  BY StateIs
<1>2. t.m = n /\ t.l = s.l /\ t.ok = ok
  BY <1>1 DEF StateOf
<1>3. IsState(t)
  BY <1>2 DEF IsState
<1>4. LockedInv(n, h, NotLocked) /\ Pending(NotLocked) = {}
  BY NothingLocked
<1>5. /\ Rooted(h) /\ Counted(h, s.l, 0, 0) /\ Tree(h)
  BY DEF Buf, Half
<1>6. QED
  BY <1>2, <1>3, <1>4, <1>5 DEF Buf, Half

\* The state u has the text that h has.
Kept(u, h, g) == Buf(u, g, 0, 0) /\ SameText(h, g)

\* Keeping the text twice is keeping it.
LEMMA KeptOn ==
  ASSUME NEW u, NEW w, NEW h, NEW g, NEW o, Kept(u, h, g), Kept(w, g, o)
  PROVE  Kept(w, h, o)
BY DEF Kept, SameText

\* A buffer keeps its own text.
LEMMA KeptSelf ==
  ASSUME NEW u, NEW h, Buf(u, h, 0, 0)
  PROVE  Kept(u, h, h)
BY DEF Kept, SameText

\* The swap file is to hold the whole text: every block has its positive number and
\* nothing is to be written or counted.
Entire(m, l) == Clean(m) /\ Unchanged(l)
Whole(s) == Entire(s.m, s.l)

\* In a whole buffer all numbers are positive.
LEMMA WholeOpen ==
  ASSUME NEW s, NEW h, NEW i, NEW d, Buf(s, h, i, d)
  PROVE  /\ Whole(s) <=> /\ s.m.fd /\ s.m.neg_count = 0
                         /\ NothingDirty(s.m) /\ Unchanged(s.l)
         /\ s.m.fd /\ NothingDirty(s.m) => Open(s.m)
<1>1. MemInv(s.m, h, Pending(s.l))
  BY DEF Buf, Half
<1>2. NothingDirty(s.m) => Numbered(s.m)
  BY <1>1, CleanNumbered
<1>3. QED
  BY <1>2 DEF Whole, Entire, Clean, NothingDirty, Open

\* When the entries of block 1 have positive numbers no negative number is counted.
LEMMA NamesPositive ==
  ASSUME NEW s, NEW h, NEW i, NEW d, Buf(s, h, i, d),
         \A k \in DOMAIN Ptrs(h) : Ptrs(h)[k].b >= 0
  PROVE  s.m.neg_count = 0
<1>1. MemInv(s.m, h, Pending(s.l)) /\ Tree(h)
  BY DEF Buf, Half
<1>2. DOMAIN h = {0, 1} \cup {Ptrs(h)[k].b : k \in DOMAIN Ptrs(h)}
  BY <1>1 DEF Tree, Ptrs
<1>3. 0 >= 0 /\ 1 >= 0
  OBVIOUS
<1>4. \A x \in DOMAIN h : x >= 0
  BY <1>2, <1>3
<1>5. QED
  BY <1>1, <1>4, NoneNegative

\* When no negative number is counted no name is one, and no block in memory has one.
LEMMA PositiveNames ==
  ASSUME NEW s, NEW h, NEW i, NEW d, Buf(s, h, i, d), s.m.neg_count = 0
  PROVE  Numbered(s.m) /\ \A k \in DOMAIN Ptrs(h) : Ptrs(h)[k].b >= 0
<1>1. MemInv(s.m, h, Pending(s.l)) /\ Rooted(h)
  BY DEF Buf, Half
<1>2. \A x \in DOMAIN h : x >= 0
  BY <1>1, NoneNegative
<1>3. \A k \in DOMAIN Ptrs(h) : Ptrs(h)[k].b >= 0
  BY <1>1, <1>2 DEF Rooted
<1>4. ASSUME NEW k \in DOMAIN s.m.used
      PROVE  s.m.used[k].b >= 0
  <2>1. PICK x \in DOMAIN h : s.m.used[k].b = Translated(s.m, x)
    BY <1>1, <1>4, NameOf
  <2>2. Translated(s.m, x) = x
    BY <1>1, <1>2, NameFacts
  <2>3. QED
    BY <1>2, <2>1, <2>2
<1>5. QED
  BY <1>3, <1>4 DEF Numbered

\* New counts in block 1 keep the text.
LEMMA RecountedText ==
  ASSUME NEW h, NEW g, Tree(h), Rooted(h), Rooted(g), Recounted(h, g)
  PROVE  Tree(g) /\ SameText(h, g)
BY RecountedTree DEF SameText, Recounted

\* Giving the locked block back keeps the text.
LEMMA FlushKeeps ==
  ASSUME NEW s, NEW h, Buf(s, h, 0, 0), NEW room, NEW f, f = Flush(s, room)
  PROVE  \E g : Kept(f, h, g) /\ f.l = NotLocked /\ f.ok = s.ok
<1>1. Half(s, h, 0, 0) /\ Tree(h) /\ Rooted(h)
  BY DEF Buf, Half
<1>2. PICK g : Flushed(s, f, h, g, 0, 0)
  BY <1>1, FlushIs
<1>3. Half(f, g, 0, 0) /\ f.l = NotLocked /\ f.ok = s.ok /\ Recounted(h, g) /\ Rooted(g)
  BY <1>2 DEF Flushed, Half
<1>4. Tree(g) /\ SameText(h, g)
  BY <1>1, <1>3, RecountedText
<1>5. Kept(f, h, g)
  BY <1>3, <1>4 DEF Kept, Buf
<1>6. QED
  BY <1>3, <1>5

\* Giving the locked block back gives out no negative number, and nothing is to be
\* written after it when the swap file is whole.
LEMMA FlushWhole ==
  ASSUME NEW s, NEW h, Buf(s, h, 0, 0), NEW room, NEW f, f = Flush(s, room)
  PROVE  /\ Open(s.m) => Open(f.m)
         /\ s.m.neg_count = 0 => f.m.neg_count = 0
         /\ Whole(s) => Whole(f)
<1>1. Half(s, h, 0, 0) /\ MemInv(s.m, h, Pending(s.l))
  BY DEF Buf, Half
<1>2. PICK g : Flushed(s, f, h, g, 0, 0)
  BY <1>1, FlushIs
<1>3. MemInv(f.m, g, Pending(f.l)) /\ f.l = NotLocked /\ DOMAIN g = DOMAIN h
  BY <1>2 DEF Flushed, Half, Recounted
<1>4. s.m.neg_count = 0 => f.m.neg_count = 0
  BY <1>1, <1>3, NoneNegative
<1>5. Open(s.m) => Open(f.m) /\ (NothingDirty(s.m) /\ Unchanged(s.l) => NothingDirty(f.m))
  BY <1>1, FlushCalm
<1>6. ASSUME Whole(s) PROVE Whole(f)
  <2>1. s.m.fd /\ s.m.neg_count = 0 /\ NothingDirty(s.m) /\ Unchanged(s.l) /\ Open(s.m)
    BY <1>6, WholeOpen
  <2>2. f.m.fd /\ NothingDirty(f.m) /\ f.m.neg_count = 0
    BY <1>4, <1>5, <2>1 DEF Open
  <2>3. Unchanged(f.l)
    BY <1>3 DEF Unchanged, NotLocked, Lock
  <2>4. QED
    BY <2>2, <2>3 DEF Whole, Entire, Clean, NothingDirty
<1>7. QED
  BY <1>4, <1>5, <1>6

\* After a line has been found in block i the entry of that block has a positive number,
\* and the other entries are as they were.
FindLeaves(s, f, h, g, i) ==
  /\ \A k \in DOMAIN Ptrs(h) : k # i => Ptrs(g)[k].b = Ptrs(h)[k].b
  /\ Open(s.m) => Open(f.m) /\ Ptrs(g)[i].b >= 0
  /\ Whole(s) => Whole(f)

\* Finding a line keeps the text.
LEMMA FindKeeps ==
  ASSUME NEW s, NEW h, Buf(s, h, 0, 0), s.ok, NEW i \in DOMAIN Ptrs(h), NEW room,
         NEW f, f = ml_find_line(s, i, 0, room)
  PROVE  \E g : Kept(f, h, g) /\ f.ok /\ FindLeaves(s, f, h, g, i)
<1>1. 0 \in Int
  OBVIOUS
<1>2. PICK g : Found(f, h, g, i, 0)
  BY <1>1, FindLine
<1>3. Buf(f, g, i, 0) /\ f.ok /\ SameText(h, g)
  BY <1>2 DEF Found, SameText
<1>4. Buf(f, g, 0, 0)
  BY <1>3, NoneCounted
<1>5. f.l.at = i /\ \A k \in DOMAIN Ptrs(h) : k # i => Ptrs(g)[k].b = Ptrs(h)[k].b
  BY <1>2 DEF Found
<1>6. Open(s.m) => StaysWhole(s, f)
  BY <1>1, FindLine
<1>7. Rooted(h) /\ Rooted(g) /\ Half(f, g, i, 0)
  BY <1>3 DEF Buf, Half
<1>8. i # 0 /\ DOMAIN Ptrs(g) = DOMAIN Ptrs(h)
  BY <1>3, <1>7 DEF Rooted, SameText
<1>9. ASSUME Open(s.m)
      PROVE  Open(f.m) /\ Ptrs(g)[i].b >= 0
  <2>1. Open(f.m)
    BY <1>6, <1>9 DEF StaysWhole
  <2>2. f.l.b = Ptrs(g)[i].b /\ InMemory(f.m, f.l.b)
    BY <1>5, <1>7, <1>8, LockedFacts
  <2>3. QED
    BY <2>1, <2>2 DEF Open, Numbered, InMemory
<1>10. ASSUME Whole(s) PROVE Whole(f)
  <2>1. s.m.fd /\ s.m.neg_count = 0 /\ NothingDirty(s.m) /\ Unchanged(s.l) /\ Open(s.m)
    BY <1>10, WholeOpen
  <2>2. f.m.fd /\ NothingDirty(f.m) /\ Unchanged(f.l)
    BY <1>6, <2>1 DEF StaysWhole, Open
  <2>3. \A k \in DOMAIN Ptrs(h) : Ptrs(h)[k].b >= 0
    BY <2>1, PositiveNames
  <2>4. \A k \in DOMAIN Ptrs(g) : Ptrs(g)[k].b >= 0
    BY <1>5, <1>8, <1>9, <2>1, <2>3
  <2>5. f.m.neg_count = 0
    BY <1>4, <2>4, NamesPositive
  <2>6. QED
    BY <2>2, <2>5 DEF Whole, Entire, Clean, NothingDirty
<1>11. FindLeaves(s, f, h, g, i)
  BY <1>5, <1>9, <1>10 DEF FindLeaves
<1>12. QED
  BY <1>3, <1>4, <1>11 DEF Kept

-----------------------------------------------------------------------------
(* ml_preserve.                                                            *)

\* Following all entries of block 1, as ml_preserve does, keeps the text, and no number
\* is negative any more.
LEMMA VisitKeeps ==
  ASSUME NEW s, NEW h, Buf(s, h, 0, 0), s.ok, NEW room, NEW v, v = VisitAll(s, room)
  PROVE  \E g : /\ Kept(v, h, g) /\ v.ok
                /\ Open(s.m) => Open(v.m) /\ v.m.neg_count = 0
<1> DEFINE L == Len(Pointers(s.m))
           Loop(N, f) == f = [n \in 0 .. N |-> IF n = 0 THEN s
                                               ELSE VisitOne(f[n - 1], n, room)]
<1>3. Pointers(s.m) = Ptrs(h) /\ Rooted(h)
  <2>1. MemInv(s.m, h, Pending(s.l)) /\ Rooted(h)
    BY DEF Buf, Half
  <2>2. QED
    BY <2>1, PointersAre
<1>4. L \in Nat /\ L = Len(Ptrs(h)) /\ DOMAIN Ptrs(h) = 1 .. L
  BY <1>3 DEF Rooted
<1> HIDE DEF L
<1>5. \A N \in 0 .. L : \E f : Loop(N, f)
  <2> DEFINE T == {N \in 0 .. L : \E f : Loop(N, f)}
  <2>1. 0 \in T
    <3>1. Loop(0, [n \in 0 .. 0 |-> s])
      OBVIOUS
    <3> HIDE DEF Loop
    <3>2. QED
      BY <1>4, <3>1
  <2>2. ASSUME NEW N \in 1 .. L, N - 1 \in T
        PROVE  N \in T
    <3>1. PICK f : Loop(N - 1, f)
      BY <2>2
    <3> DEFINE g == [n \in 0 .. N |-> IF n < N THEN f[n] ELSE VisitOne(f[N - 1], N, room)]
    <3>2. Loop(N, g)
      <4>1. \A n \in 0 .. N : n # 0 => n - 1 \in 0 .. (N - 1) /\ g[n - 1] = f[n - 1]
        BY <2>2
      <4>2. \A n \in 0 .. N : g[n] = IF n = 0 THEN s ELSE VisitOne(g[n - 1], n, room)
        <5> SUFFICES ASSUME NEW n \in 0 .. N
                     PROVE  g[n] = IF n = 0 THEN s ELSE VisitOne(g[n - 1], n, room)
          OBVIOUS
        <5>1. CASE n = N
          <6>1. g[n] = VisitOne(f[n - 1], n, room) /\ n # 0
            BY <2>2, <5>1
          <6> HIDE DEF g
          <6>2. QED
            BY <4>1, <6>1
        <5>2. CASE n # N
          <6>1. g[n] = f[n] /\ n \in 0 .. (N - 1)
            BY <2>2, <5>2
          <6>2. f[n] = IF n = 0 THEN s ELSE VisitOne(f[n - 1], n, room)
            BY <3>1, <6>1
          <6> HIDE DEF g
          <6>3. QED
            BY <4>1, <6>1, <6>2
        <5>3. QED
          BY <5>1, <5>2
      <4>3. g = [n \in 0 .. N |-> g[n]]
        OBVIOUS
      <4> HIDE DEF g
      <4>4. QED
        BY <4>2, <4>3
    <3> HIDE DEF Loop, g
    <3>3. QED
      BY <2>2, <3>2
  <2> HIDE DEF T
  <2>3. \A N \in 0 .. L : N \in T
    BY <1>4, <2>1, <2>2, UpTo
  <2>4. QED
    BY <2>3 DEF T
<1> DEFINE Visit == CHOOSE f : Loop(L, f)
<1>6. VisitAll(s, room) = Visit[L]
  BY DEF VisitAll, L
<1>7. Loop(L, Visit)
  <2>1. \E f : Loop(L, f)
    <3> HIDE DEF Loop
    <3>1. QED
      BY <1>4, <1>5
  <2> HIDE DEF Loop
  <2>2. QED
    BY <2>1
<1>8. Visit[0] = s /\ \A n \in 1 .. L : Visit[n] = VisitOne(Visit[n - 1], n, room)
  <2> HIDE DEF Visit
  <2>1. \A n \in 0 .. L : Visit[n] = IF n = 0 THEN s ELSE VisitOne(Visit[n - 1], n, room)
    BY <1>7
  <2>2. 0 \in 0 .. L /\ \A n \in 1 .. L : n \in 0 .. L /\ n # 0
    BY <1>4
  <2>3. QED
    BY <2>1, <2>2
<1> HIDE DEF Visit, Loop
<1> DEFINE Good(n, r) == \E g : /\ Kept(r, h, g) /\ r.ok
                                /\ Open(s.m) => /\ Open(r.m)
                                                /\ \A k \in 1 .. n : Ptrs(g)[k].b >= 0
<1>9. Good(L, Visit[L])
  <2> DEFINE T == {n \in 0 .. L : Good(n, Visit[n])}
  <2>1. 0 \in T
    <3>1. Good(0, s)
      BY KeptSelf
    <3> HIDE DEF Good
    <3>2. QED
      BY <1>4, <1>8, <3>1
  <2>2. ASSUME NEW n \in 1 .. L, n - 1 \in T PROVE n \in T
    <3>1. PICK r : r = Visit[n - 1]
      OBVIOUS
    <3>2. PICK u : u = Visit[n]
      OBVIOUS
    <3>g. Good(n - 1, r)
      <4> HIDE DEF Good
      <4>1. QED
        BY <2>2, <3>1
    <3>3. PICK g : /\ Kept(r, h, g) /\ r.ok
                   /\ Open(s.m) => Open(r.m) /\ \A k \in 1 .. (n - 1) : Ptrs(g)[k].b >= 0
      BY <3>g
    <3>4. u = VisitOne(r, n, room)
      BY <1>8, <3>1, <3>2
    <3>e. Buf(r, g, 0, 0) /\ DOMAIN Ptrs(g) = 1 .. L
      <4>1. SameText(h, g) /\ Buf(r, g, 0, 0) /\ Rooted(g)
        BY <3>3 DEF Kept, Buf, Half
      <4>2. DOMAIN Ptrs(g) = 1 .. Len(Ptrs(g))
        BY <4>1 DEF Rooted
      <4>3. QED
        BY <1>4, <4>1, <4>2 DEF SameText
    <3>5. Good(n, u)
      <4>1. CASE ~mf_need_trans(r.m)
        <5>1. u = r
          BY <3>4, <4>1 DEF VisitOne
        <5>2. ASSUME Open(s.m) PROVE \A k \in 1 .. n : Ptrs(g)[k].b >= 0
          <6>1. MemInv(r.m, g, Pending(r.l)) /\ r.m.fd
            BY <3>3, <3>e, <5>2 DEF Buf, Half, Open
          <6>2. r.m.neg_count >= 0 /\ r.m.neg_count \in Int
            BY <6>1, NoneNegative DEF MemInv, MemTypes
          <6>3. r.m.neg_count = 0
            BY <4>1, <6>1, <6>2 DEF mf_need_trans
          <6>4. \A k \in DOMAIN Ptrs(g) : Ptrs(g)[k].b >= 0
            BY <3>e, <6>3, PositiveNames
          <6>5. \A k \in 1 .. n : k \in 1 .. L
            BY <1>4
          <6>6. QED
            BY <3>e, <6>4, <6>5
        <5>3. QED
          BY <3>3, <5>1, <5>2
      <4>2. CASE mf_need_trans(r.m)
        <5>1. u = ml_find_line(r, n, 0, room)
          BY <3>3, <3>4, <4>2 DEF VisitOne
        <5>2. n \in DOMAIN Ptrs(g)
          BY <3>e
        <5>3. PICK o : Kept(u, g, o) /\ u.ok /\ FindLeaves(r, u, g, o, n)
          BY <3>3, <3>e, <5>1, <5>2, FindKeeps
        <5>4. Kept(u, h, o)
          BY <3>3, <5>3, KeptOn
        <5>5. ASSUME Open(s.m)
              PROVE  Open(u.m) /\ \A k \in 1 .. n : Ptrs(o)[k].b >= 0
          <6>1. Open(u.m) /\ Ptrs(o)[n].b >= 0
            BY <3>3, <5>3, <5>5 DEF FindLeaves
          <6>2. ASSUME NEW k \in 1 .. n, k # n PROVE Ptrs(o)[k].b >= 0
            <7>1. k \in 1 .. (n - 1) /\ k \in 1 .. L
              BY <1>4, <6>2
            <7>2. Ptrs(o)[k].b = Ptrs(g)[k].b
              BY <3>e, <5>3, <6>2, <7>1 DEF FindLeaves
            <7>3. QED
              BY <3>3, <5>5, <7>1, <7>2
          <6>3. QED
            BY <6>1, <6>2
        <5>6. QED
          BY <5>3, <5>4, <5>5
      <4>3. QED
        BY <4>1, <4>2
    <3> HIDE DEF Good
    <3>6. QED
      BY <3>2, <3>5
  <2> HIDE DEF T
  <2>3. \A n \in 0 .. L : n \in T
    BY <1>4, <2>1, <2>2, UpTo
  <2>4. L \in T
    BY <1>4, <2>3
  <2>5. QED
    BY <2>4 DEF T
<1>10. PICK g : /\ Kept(v, h, g) /\ v.ok
                /\ Open(s.m) => Open(v.m) /\ \A k \in 1 .. L : Ptrs(g)[k].b >= 0
  <2>1. Good(L, v)
    <3> HIDE DEF Good
    <3>1. QED
      BY <1>6, <1>9
  <2>2. QED
    BY <2>1
<1>11. ASSUME Open(s.m) PROVE v.m.neg_count = 0
  <2>1. Buf(v, g, 0, 0) /\ SameText(h, g) /\ Rooted(g)
    BY <1>10 DEF Kept, Buf, Half
  <2>2. DOMAIN Ptrs(g) = 1 .. L
    BY <1>4, <2>1 DEF SameText, Rooted
  <2>3. QED
    BY <1>10, <1>11, <2>1, <2>2, NamesPositive
<1>12. QED
  BY <1>10, <1>11

\* The block memline.c left locked has been put back, and the file is written.
Syncs(f, all, stop, room, s, ok, t) ==
  /\ f.l = NotLocked /\ all \in BOOLEAN /\ s = mf_sync(f.m, all, FALSE, stop, room)
  /\ ok \in BOOLEAN /\ t = [m |-> s.m, l |-> f.l, ok |-> ok]

\* What a sync may have left to be written.
SyncLeaves(f, s, all, stop) ==
  /\ SyncEnds(f.m, s, all, FALSE, stop)
  /\ s.m.fd = f.m.fd /\ (s.ok => f.m.fd)
  /\ s.m.neg_count = 0 <=> f.m.neg_count = 0

\* mf_sync keeps the text.
LEMMA SyncKeeps ==
  ASSUME NEW f, NEW h, Buf(f, h, 0, 0), NEW all, NEW stop, NEW room, NEW s, NEW ok, NEW t,
         Syncs(f, all, stop, room, s, ok, t)
  PROVE  Kept(t, h, h) /\ s.ok \in BOOLEAN /\ SyncLeaves(f, s, all, stop)
<1>0. /\ f.l = NotLocked /\ all \in BOOLEAN /\ s = mf_sync(f.m, all, FALSE, stop, room)
      /\ ok \in BOOLEAN /\ t = [m |-> s.m, l |-> f.l, ok |-> ok]
  BY DEF Syncs
<1> USE <1>0
<1>1. MemInv(f.m, h, {})
  <2>1. MemInv(f.m, h, Pending(f.l)) /\ Pending(NotLocked) = {}
    BY NothingLocked DEF Buf, Half
  <2>2. QED
    BY <2>1
<1>2. FALSE \in BOOLEAN
  OBVIOUS
<1>3. SyncDone(f.m, s, h, {}, all, FALSE) /\ SyncEnds(f.m, s, all, FALSE, stop)
  BY <1>1, <1>2, MfSync
<1>4. MemInv(s.m, h, {}) /\ s.ok \in BOOLEAN /\ s.m.fd = f.m.fd
  BY <1>3 DEF SyncDone, Quiet
<1>5. Buf(t, h, 0, 0)
  BY <1>4, QuietBuf
<1>6. s.m.neg_count = 0 <=> f.m.neg_count = 0
  BY <1>1, <1>4, NoneNegative
<1>7. s.ok => f.m.fd
  <2>1. PICK n : n = [f.m EXCEPT !.dirty = FALSE]
    OBVIOUS
  <2>2. ~f.m.fd => s = [m |-> n, ok |-> FALSE, end |-> FALSE, got_int |-> FALSE]
    BY <2>1, Zenon DEF mf_sync
  <2>3. [m |-> n, ok |-> FALSE, end |-> FALSE, got_int |-> FALSE].ok = FALSE
    OBVIOUS
  <2>4. QED
    BY <2>2, <2>3
<1>8. QED
  BY <1>3, <1>4, <1>5, <1>6, <1>7, KeptSelf DEF SyncLeaves

\* A state with a new memory file.
LEMMA WithMem ==
  ASSUME NEW f, IsState(f), NEW m
  PROVE  [f EXCEPT !.m = m] = [m |-> m, l |-> f.l, ok |-> f.ok] /\ f.ok \in BOOLEAN
BY DEF IsState

\* A state with a new memory file and a result.
LEMMA WithMemOk ==
  ASSUME NEW f, IsState(f), NEW m, NEW ok
  PROVE  [f EXCEPT !.m = m, !.ok = ok] = [m |-> m, l |-> f.l, ok |-> ok]
<1>1. PICK g : g = [f EXCEPT !.m = m]
  OBVIOUS
<1>2. [f EXCEPT !.m = m, !.ok = ok] = [g EXCEPT !.ok = ok]
  BY <1>1
<1>3. g = [m |-> m, l |-> f.l, ok |-> f.ok]
  BY <1>1, WithMem
<1>4. [g EXCEPT !.ok = ok] = [m |-> m, l |-> f.l, ok |-> ok]
  BY <1>3
<1>5. QED
  BY <1>2, <1>4

\* When ml_preserve succeeds and is not broken off the swap file is whole; broken off or
\* not, it leaves a swap file that was whole as it was.
Preserves(s, p, stops) ==
  (p.ok /\ Uninterrupted(stops) => Whole(p)) /\ (Whole(s) => Whole(p))

\* What a sync leaves, in terms of the two states.
SyncedTo(f, h, s, ok, t, all, stop) ==
  /\ Kept(t, h, h) /\ s.ok \in BOOLEAN /\ t.m = s.m /\ t.l = NotLocked /\ t.ok = ok
  /\ s.m.fd = f.m.fd /\ (s.m.neg_count = 0 <=> f.m.neg_count = 0)
  /\ s.ok => f.m.fd
  /\ s.ok /\ (s.end \/ stop = 0) /\ (all \/ f.m.neg_count = 0) => NothingDirty(s.m)
  /\ stop = 0 => ~s.got_int
  /\ Whole(f) => s.ok /\ s.end /\ Whole(t)

LEMMA SyncWhole ==
  ASSUME NEW f, NEW h, Buf(f, h, 0, 0), NEW all, NEW stop, NEW room, NEW s, NEW ok, NEW t,
         Syncs(f, all, stop, room, s, ok, t)
  PROVE  SyncedTo(f, h, s, ok, t, all, stop)
<1>1. f.l = NotLocked /\ t = [m |-> s.m, l |-> f.l, ok |-> ok]
  BY DEF Syncs
<1>2. Kept(t, h, h) /\ s.ok \in BOOLEAN /\ SyncLeaves(f, s, all, stop)
  BY SyncKeeps
<1>3. /\ SyncEnds(f.m, s, all, FALSE, stop)
      /\ s.m.fd = f.m.fd /\ (s.ok => f.m.fd)
      /\ s.m.neg_count = 0 <=> f.m.neg_count = 0
  BY <1>2 DEF SyncLeaves
<1>4. t.m = s.m /\ t.l = NotLocked /\ t.ok = ok
  BY <1>1, StateIs DEF StateOf
<1>5. s.ok /\ (s.end \/ stop = 0) /\ (all \/ f.m.neg_count = 0) => NothingDirty(s.m)
  BY <1>3, PositiveNames DEF SyncEnds
<1>i. stop = 0 => ~s.got_int
  BY <1>3 DEF SyncEnds
<1>6. ASSUME Whole(f) PROVE s.ok /\ s.end /\ Whole(t)
  <2>1. f.m.fd /\ f.m.neg_count = 0 /\ NothingDirty(f.m) /\ Unchanged(f.l)
    BY <1>6, WholeOpen
  <2>2. s.ok /\ s.end /\ NothingDirty(s.m)
    BY <1>3, <2>1 DEF SyncEnds
  <2>3. Unchanged(t.l)
    BY <1>4 DEF Unchanged, NotLocked, Lock
  <2>4. QED
    BY <1>3, <1>4, <2>1, <2>2, <2>3 DEF Whole, Entire, Clean, NothingDirty
<1>7. QED
  BY <1>2, <1>3, <1>4, <1>5, <1>6, <1>i DEF SyncedTo

\* ml_preserve keeps the text, whether it succeeds or not, and wherever it is broken off.
LEMMA PreserveKeeps ==
  ASSUME NEW s, NEW h, Buf(s, h, 0, 0), s.ok, NEW stops, NEW room,
         NEW p, p = ml_preserve(s, stops, room)
  PROVE  /\ \E g : Kept(p, h, g) /\ p.ok \in BOOLEAN /\ (s.l = NotLocked => p.l = NotLocked)
         /\ Preserves(s, p, stops)
<1>1. CASE ~s.m.fd
  <2>1. p = [s EXCEPT !.ok = FALSE] /\ IsState(s)
    BY <1>1 DEF ml_preserve, Buf, Half
  <2>2. p = [m |-> s.m, l |-> s.l, ok |-> FALSE]
    BY <2>1 DEF IsState
  <2>3. Steady(s.m, s.m, h, Pending(s.l))
    BY SteadyNothing DEF Buf, Half
  <2>4. StateOf(p, s.m, s.l, FALSE)
    BY <2>2, StateIs
  <2>5. FALSE \in BOOLEAN
    OBVIOUS
  <2>6. Buf(p, h, 0, 0)
    BY <2>2, <2>3, <2>5, SteadyBuf
  <2>7. Kept(p, h, h)
    BY <2>6, KeptSelf
  <2>8. Preserves(s, p, stops)
    BY <1>1, <2>4 DEF Preserves, StateOf, Whole, Entire, Clean
  <2>9. QED
    BY <2>4, <2>7, <2>8 DEF StateOf
<1>2. CASE s.m.fd
  <2>1. PICK f : f = Flush(s, room)
    OBVIOUS
  <2>2. PICK g : Kept(f, h, g) /\ f.l = NotLocked /\ f.ok = s.ok
    BY <2>1, FlushKeeps
  <2>3. PICK first : first = mf_sync(f.m, TRUE, FALSE, stops[1], room)
    OBVIOUS
  <2>4. p = PreserveWritten(f, first, stops[2], room)
    BY <1>2, <2>1, <2>3 DEF ml_preserve, PreserveFlushed
  <2>5. Buf(f, g, 0, 0) /\ IsState(f) /\ TRUE \in BOOLEAN /\ f.ok \in BOOLEAN
    BY <2>2 DEF Kept, Buf, Half, IsState
  <2>6. Whole(s) => Whole(f)
    BY <2>1, FlushWhole
  <2>t. PICK t : t = [f EXCEPT !.m = first.m]
    OBVIOUS
  <2>u. t = [m |-> first.m, l |-> f.l, ok |-> f.ok]
    BY <2>5, <2>t, WithMem
  <2>f. /\ Kept(t, g, g) /\ first.ok \in BOOLEAN /\ t.m = first.m /\ t.l = NotLocked /\ t.ok = f.ok
        /\ first.m.fd = f.m.fd /\ (first.m.neg_count = 0 <=> f.m.neg_count = 0)
        /\ first.ok => f.m.fd
        /\ first.ok /\ stops[1] = 0 => NothingDirty(first.m)
        /\ stops[1] = 0 => ~first.got_int
        /\ Whole(f) => first.ok /\ Whole(t)
    <3>1. Syncs(f, TRUE, stops[1], room, first, f.ok, t)
      BY <2>2, <2>3, <2>5, <2>u, Zenon DEF Syncs
    <3>2. SyncedTo(f, g, first, f.ok, t, TRUE, stops[1])
      BY <2>5, <3>1, SyncWhole
    <3>3. QED
      BY <3>2 DEF SyncedTo
  <2>7. CASE ~(mf_need_trans(first.m) /\ ~first.got_int)
    <3>1. p = [m |-> first.m, l |-> f.l, ok |-> first.ok]
      BY <2>4, <2>5, <2>7, WithMemOk DEF PreserveWritten
    <3>2. /\ Kept(p, g, g) /\ p.m = first.m /\ p.l = NotLocked /\ p.ok = first.ok
          /\ Whole(f) => Whole(p)
      <4>1. Syncs(f, TRUE, stops[1], room, first, first.ok, p)
        BY <2>2, <2>3, <2>5, <2>f, <3>1, Zenon DEF Syncs
      <4>2. SyncedTo(f, g, first, first.ok, p, TRUE, stops[1])
        BY <2>5, <4>1, SyncWhole
      <4>3. QED
        BY <4>2 DEF SyncedTo
    <3>3. Kept(p, h, g)
      BY <2>2, <3>2, KeptOn
    <3>4. ASSUME p.ok, Uninterrupted(stops) PROVE Whole(p)
      <4>0. stops[1] = 0
        BY <3>4 DEF Uninterrupted
      <4>1. first.m.fd /\ NothingDirty(first.m) /\ ~first.got_int
        BY <2>f, <3>2, <3>4, <4>0
      <4>2. MemInv(p.m, g, Pending(p.l))
        BY <3>2 DEF Kept, Buf, Half
      <4>3. p.m.neg_count >= 0 /\ p.m.neg_count \in Int
        BY <4>2, NoneNegative DEF MemInv, MemTypes
      <4>4. p.m.neg_count = 0
        BY <2>7, <3>2, <4>1, <4>3 DEF mf_need_trans
      <4>5. QED
        BY <3>2, <4>1, <4>4 DEF Whole, Entire, Clean, NothingDirty, Unchanged, NotLocked, Lock
    <3>5. Preserves(s, p, stops)
      BY <2>6, <3>2, <3>4 DEF Preserves
    <3>6. QED
      BY <2>2, <2>f, <3>2, <3>3, <3>5
  <2>8. CASE mf_need_trans(first.m) /\ ~first.got_int
    <3>3. Buf(t, g, 0, 0) /\ t.ok
      BY <2>2, <2>f DEF Kept
    <3>4. PICK v : v = VisitAll(t, room)
      OBVIOUS
    <3>5. PICK o : /\ Kept(v, g, o) /\ v.ok
                   /\ Open(t.m) => Open(v.m) /\ v.m.neg_count = 0
      BY <3>3, <3>4, VisitKeeps
    <3>6. PICK w : w = Flush(v, room)
      OBVIOUS
    <3>v. Buf(v, o, 0, 0)
      BY <3>5 DEF Kept
    <3>7. PICK q : Kept(w, o, q) /\ w.l = NotLocked /\ w.ok = v.ok
      BY <3>6, <3>v, FlushKeeps
    <3>w. v.m.neg_count = 0 => w.m.neg_count = 0
      BY <3>6, <3>v, FlushWhole
    <3>8. PICK second : second = mf_sync(w.m, TRUE, FALSE, stops[2], room)
      OBVIOUS
    <3>9. p = Rewritten(w, first, second)
      BY <2>4, <2>8, <2>t, <3>4, <3>5, <3>6, <3>8 DEF PreserveWritten, PreserveVisited, WriteAgain
    <3>10. Buf(w, q, 0, 0) /\ IsState(w)
      BY <3>7 DEF Kept, Buf, Half
    <3>11. PICK ok : ok = (first.ok /\ second.ok)
      OBVIOUS
    <3>12. ok \in BOOLEAN
      BY <3>11
    <3>13. p = [m |-> second.m, l |-> w.l, ok |-> ok]
      BY <3>9, <3>10, <3>11, WithMemOk DEF Rewritten
    <3>14. /\ Kept(p, q, q) /\ p.m = second.m /\ p.l = NotLocked /\ p.ok = ok
           /\ second.m.fd = w.m.fd /\ (second.m.neg_count = 0 <=> w.m.neg_count = 0)
           /\ second.ok => w.m.fd
           /\ second.ok /\ stops[2] = 0 => NothingDirty(second.m)
      <4>1. Syncs(w, TRUE, stops[2], room, second, ok, p)
        BY <2>5, <3>7, <3>8, <3>12, <3>13, Zenon DEF Syncs
      <4>2. SyncedTo(w, q, second, ok, p, TRUE, stops[2])
        BY <3>10, <4>1, SyncWhole
      <4>3. QED
        BY <4>2 DEF SyncedTo
    <3>15. Kept(p, h, q)
      BY <2>2, <3>5, <3>7, <3>14, KeptOn
    <3>16. ASSUME p.ok, Uninterrupted(stops) PROVE Whole(p)
      <4>1. first.ok /\ second.ok /\ stops[1] = 0 /\ stops[2] = 0
        BY <3>11, <3>14, <3>16 DEF Uninterrupted
      <4>2. Open(t.m)
        BY <2>f, <3>3, <4>1, WholeOpen
      <4>3. w.m.neg_count = 0
        BY <3>5, <3>w, <4>2
      <4>4. QED
        BY <3>14, <4>1, <4>3 DEF Whole, Entire, Clean, NothingDirty, Unchanged, NotLocked, Lock
    <3>17. ~Whole(s)
      <4>1. f.m.neg_count # 0
        BY <2>8, <2>f DEF mf_need_trans
      <4>2. QED
        BY <2>6, <4>1 DEF Whole, Entire, Clean
    <3>18. Preserves(s, p, stops)
      BY <3>16, <3>17 DEF Preserves
    <3>19. QED
      BY <3>12, <3>14, <3>15, <3>18
  <2>9. QED
    BY <2>7, <2>8
<1>3. QED
  BY <1>1, <1>2

-----------------------------------------------------------------------------
(* changed, after the first change.                                        *)

\* Marking a header dirty changes nothing else of it.
LEMMA Dirtied ==
  ASSUME NEW hp \in Headers, NEW n, n = [hp EXCEPT !.dirty = TRUE]
  PROVE  /\ n \in Headers /\ n.b = hp.b /\ n.pages = hp.pages /\ n.data = hp.data
         /\ n.locked = hp.locked /\ n.dirty
BY DEF Headers

DirtyAt(m, n, i) == n = [m EXCEPT !.used[i].dirty = TRUE]

\* Marking a block dirty is steady.
LEMMA MadeDirty ==
  ASSUME NEW m, NEW h, NEW X, MemInv(m, h, X), NEW i \in DOMAIN m.used, NEW n, DirtyAt(m, n, i)
  PROVE  Steady(m, n, h, X)
<1>1. MemTypes(m) /\ m.used[i] \in Headers
  BY MemFields DEF MemInv
<1>2. PICK hp : hp = [m.used[i] EXCEPT !.dirty = TRUE] /\ n = [m EXCEPT !.used[i] = hp]
  BY DEF DirtyAt
<1>3. /\ hp \in Headers /\ hp.b = m.used[i].b /\ hp.pages = m.used[i].pages
      /\ hp.data = m.used[i].data /\ hp.locked = m.used[i].locked /\ hp.dirty
  BY <1>1, <1>2, Dirtied
<1>4. hp \in Headers
  BY <1>3
<1>5. n = [m EXCEPT !.used[i] = hp]
  BY <1>2
<1>6. /\ MemTypes(n) /\ SameRest(m, n)
      /\ Len(n.used) = Len(m.used) /\ DOMAIN n.used = DOMAIN m.used
      /\ n.used[i] = hp /\ \A k \in DOMAIN m.used : k # i => n.used[k] = m.used[k]
  BY <1>1, <1>4, <1>5, NewHeader
<1>7. SameNumbers(m, n) /\ SameFile(m, n)
  BY <1>6 DEF SameRest
<1>8. SameBlocks(m, n)
  BY <1>3, <1>6 DEF SameBlocks
<1>9. UsedInv(m, h, X) /\ SavedInv(m, h) /\ m.infile_count <= m.blocknr_max
      /\ (~m.fd => m.infile_count = 0)
  BY DEF MemInv
<1>10. \A k \in DOMAIN m.used : m.used[k].b < 0 => n.used[k].dirty
  BY <1>3, <1>6, <1>9 DEF UsedInv
<1>11. \A k \in DOMAIN m.used : \/ n.used[k].dirty \/ m.used[k].b \in X
                                \/ OnDisk(n, m.used[k].b, m.used[k].pages, m.used[k].data)
  BY <1>3, <1>6, <1>7, <1>9, FileKept DEF UsedInv
<1>12. \A x \in DOMAIN h : \/ InMemory(m, Translated(m, x))
                           \/ OnDisk(n, Translated(m, x), h[x].pages, h[x].data)
  BY <1>7, <1>9, FileKept DEF SavedInv
<1>13. n.infile_count <= n.blocknr_max /\ (~n.fd => n.infile_count = 0)
  BY <1>7, <1>9 DEF SameNumbers, SameFile
<1>14. /\ MemInv(n, h, X) /\ \A x \in DOMAIN h : Translated(n, x) = Translated(m, x)
       /\ \A b : InMemory(n, b) = InMemory(m, b)
  <2>1. MemTypes(n) /\ SameNumbers(m, n) /\ SameBlocks(m, n) /\ n.infile_count <= n.blocknr_max
        /\ (~n.fd => n.infile_count = 0)
    BY <1>6, <1>7, <1>8, <1>13
  <2>2. QED
    BY <2>1, <1>10, <1>11, <1>12, Retouched
<1>15. Quiet(m, n, h, X)
  BY <1>7, <1>14 DEF Quiet, SameNumbers
<1>16. \A b : Holds(m, b) => Holds(n, b)
  <2> SUFFICES ASSUME NEW b, Holds(m, b) PROVE Holds(n, b)
    OBVIOUS
  <2>1. PICK k \in DOMAIN m.used : m.used[k].b = b /\ m.used[k].locked
    BY DEF Holds
  <2>2. k \in DOMAIN n.used /\ n.used[k].b = b /\ n.used[k].locked
    BY <1>3, <1>6, <2>1
  <2>3. b \notin DOMAIN n.trans
    BY <1>7 DEF Holds, SameNumbers
  <2>4. QED
    BY <2>2, <2>3 DEF Holds
<1>17. QED
  BY <1>15, <1>16 DEF Steady

\* ml_setflags, which marks block 0 dirty, is steady.
LEMMA SetDirtySteady ==
  ASSUME NEW m, NEW h, NEW X, MemInv(m, h, X), NEW room
  PROVE  Steady(m, SetDirty(m, room), h, X)
<1>1. PICK i : i = Position(m, 0)
  OBVIOUS
<1>2. CASE i = 0
  BY <1>1, <1>2, SteadyNothing DEF SetDirty
<1>3. CASE i # 0
  <2>1. i \in DOMAIN m.used
    <3>1. \A k, l \in DOMAIN m.used : m.used[k].b = m.used[l].b => k = l
      BY DEF MemInv, UsedInv
    <3>2. QED
      BY <1>1, <1>3, <3>1, PositionIn
  <2>2. PICK n : n = [m EXCEPT !.used[i].dirty = TRUE]
    OBVIOUS
  <2>3. Steady(m, n, h, X)
    <3>1. DirtyAt(m, n, i)
      BY <2>2 DEF DirtyAt
    <3>2. QED
      BY <2>1, <3>1, MadeDirty
  <2>4. MemInv(n, h, X)
    BY <2>3 DEF Steady, Quiet
  <2>5. PICK s : s = mf_sync(n, FALSE, TRUE, 0, room)
    OBVIOUS
  <2>6. SyncDone(n, s, h, X, FALSE, TRUE)
    <3>1. FALSE \in BOOLEAN /\ TRUE \in BOOLEAN
      OBVIOUS
    <3>2. QED
      BY <2>4, <2>5, <3>1, MfSync
  <2>7. Steady(n, s.m, h, X)
    BY <2>6, Zenon DEF SyncDone, Steady
  <2>8. Steady(m, s.m, h, X)
    BY <2>3, <2>7, SteadyOn
  <2>9. SetDirty(m, room) = s.m
    BY <1>1, <1>3, <2>2, <2>5 DEF SetDirty
  <2>10. QED
    BY <2>8, <2>9
<1>4. QED
  BY <1>2, <1>3

\* What the first change to a buffer does to its swap file is steady.
LEMMA FirstChangeSteady ==
  ASSUME NEW m, NEW h, NEW X, MemInv(m, h, X), NEW room
  PROVE  Steady(m, FirstChange(m, room), h, X)
<1>1. PICK n : n = IF m.may_swap THEN ml_open_file(m, room) ELSE m
  OBVIOUS
<1>2. Steady(m, n, h, X)
  BY <1>1, MlOpenFile, SteadyNothing
<1>3. MemInv(n, h, X)
  BY <1>2 DEF Steady, Quiet
<1>4. Steady(n, SetDirty(n, room), h, X)
  BY <1>3, SetDirtySteady
<1>5. FirstChange(m, room) = SetDirty(n, room)
  BY <1>1 DEF FirstChange
<1>6. QED
  BY <1>2, <1>4, <1>5, SteadyOn

\* The memory file of a state is replaced by one that is steady.
Steadied(s, h, n, t) ==
  Buf(s, h, 0, 0) /\ Steady(s.m, n, h, Pending(s.l)) /\ t = [s EXCEPT !.m = n]

\* A steady step of the memory file keeps the text.
LEMMA SteadyKeeps ==
  ASSUME NEW s, NEW h, NEW n, NEW t, Steadied(s, h, n, t)
  PROVE  Kept(t, h, h) /\ t.ok = s.ok
<1>1. Buf(s, h, 0, 0) /\ Steady(s.m, n, h, Pending(s.l)) /\ IsState(s)
  BY DEF Steadied, Buf, Half
<1>2. t = [m |-> n, l |-> s.l, ok |-> s.ok] /\ s.ok \in BOOLEAN
  BY <1>1, WithMem DEF Steadied
<1>3. Buf(t, h, 0, 0)
  BY <1>1, <1>2, SteadyBuf
<1>4. StateOf(t, n, s.l, s.ok)
  BY <1>2, StateIs
<1>5. QED
  BY <1>3, <1>4, KeptSelf DEF StateOf

\* What a step of the memory file needs to know of the buffer.
LEMMA BufHeld ==
  ASSUME NEW s, NEW h, Buf(s, h, 0, 0)
  PROVE  MemInv(s.m, h, Pending(s.l)) /\ Held(s.m, Pending(s.l)) /\ Rooted(h) /\ Tree(h)
<1>1. Half(s, h, 0, 0) /\ Tree(h)
  BY DEF Buf
<1>2. Held(s.m, Pending(s.l))
  BY <1>1, LockedFacts
<1>3. QED
  BY <1>1, <1>2 DEF Half

-----------------------------------------------------------------------------
(* The heap and the text of a memory file.                                 *)

\* The heap of the invariant is the one Heap reads off the memory file.
LEMMA HeapIs ==
  ASSUME NEW m, NEW h, NEW X, MemInv(m, h, X), Rooted(h), Tree(h)
  PROVE  Heap(m) = h
<1>1. PICK p : p = Pointers(m)
  OBVIOUS
<1>2. p = Ptrs(h)
  BY <1>1, PointersAre
<1>3. TreeOf(h, p)
  BY <1>2, TreeIs DEF Ptrs
<1>4. Names(m) = DOMAIN h
  BY <1>1, <1>3 DEF Names, TreeOf
<1>5. \A x \in DOMAIN h : PagesOf(m, x) = h[x].pages
  <2> SUFFICES ASSUME NEW x \in DOMAIN h PROVE PagesOf(m, x) = h[x].pages
    OBVIOUS
  <2>1. CASE x \in {0, 1}
    BY <1>3, <2>1 DEF PagesOf, TreeOf
  <2>2. CASE x \notin {0, 1}
    <3>1. \E i \in DOMAIN p : p[i].b = x
      BY <1>3, <2>2 DEF TreeOf
    <3>2. PICK i : i = CHOOSE k \in DOMAIN p : p[k].b = x
      OBVIOUS
    <3>3. i \in DOMAIN p /\ p[i].b = x
      BY <3>1, <3>2
    <3>4. PagesOf(m, x) = p[i].pages
      BY <1>1, <2>2, <3>2 DEF PagesOf
    <3>5. QED
      BY <1>3, <3>3, <3>4 DEF TreeOf
  <2>3. QED
    BY <2>1, <2>2
<1>6. \A x \in DOMAIN h : Look(m, Translated(m, x), h[x].pages) = h[x].data
  BY LookIs
<1>7. h \in Heaps(DOMAIN h)
  BY DEF MemInv
<1>8. \A x \in DOMAIN h : h[x] = [pages |-> h[x].pages, data |-> h[x].data]
  BY <1>7 DEF Heaps
<1>9. h = [x \in DOMAIN h |-> [pages |-> h[x].pages, data |-> h[x].data]]
  BY <1>7, <1>8 DEF Heaps
<1>10. Heap(m) = [x \in DOMAIN h |-> [pages |-> h[x].pages, data |-> h[x].data]]
  BY <1>4, <1>5, <1>6 DEF Heap
<1>11. QED
  BY <1>9, <1>10

\* The text the editor would find is that of the heap.
LEMMA TextIs ==
  ASSUME NEW m, NEW h, NEW X, MemInv(m, h, X), Rooted(h), Tree(h)
  PROVE  Text(m) = Flat(h)
<1>1. PICK p : p = Pointers(m)
  OBVIOUS
<1>2. p = Ptrs(h)
  BY <1>1, PointersAre
<1>3. TreeOf(h, p)
  BY <1>2, TreeIs DEF Ptrs
<1>4. DOMAIN p = 1 .. Len(p)
  BY <1>2 DEF Rooted
<1>5. \A i \in 1 .. Len(p) : LinesOf(m, p[i]) = h[p[i].b].data.lines
  <2> SUFFICES ASSUME NEW i \in 1 .. Len(p)
               PROVE  LinesOf(m, p[i]) = h[p[i].b].data.lines
    OBVIOUS
  <2>1. PICK x : x = p[i].b
    OBVIOUS
  <2>2. x \in DOMAIN h /\ p[i].pages = h[x].pages /\ h[x].data.id = "data"
    BY <1>3, <1>4, <2>1 DEF TreeOf
  <2>3. Look(m, Translated(m, x), p[i].pages) = h[x].data
    BY <2>2, LookIs
  <2>4. QED
    BY <2>1, <2>2, <2>3 DEF LinesOf
<1>6. PICK R : R = [i \in 1 .. Len(p) |-> LinesOf(m, p[i])]
  OBVIOUS
<1>7. R = Rows(h)
  BY <1>2, <1>5, <1>6 DEF Rows
<1>8. Text(m) = FlattenSeq(R)
  BY <1>1, <1>6 DEF Text
<1>9. QED
  BY <1>7, <1>8 DEF Flat

\* What a state of the editor is.
Stands(m, l, t) ==
  /\ BufferInv([m |-> m, l |-> l, ok |-> TRUE], Heap(m), 0, 0)
  /\ t = Text(m) /\ LineCount([m |-> m, l |-> l, ok |-> TRUE]) = Len(t)
  /\ t \in Seq(LineNumbers)

\* A buffer in terms of the invariant.
LEMMA BufStands ==
  ASSUME NEW u, NEW g, Buf(u, g, 0, 0), NEW t, t = Text(u.m)
  PROVE  Stands(u.m, u.l, t) /\ t = Flat(g)
<1>1. MemInv(u.m, g, Pending(u.l)) /\ Rooted(g) /\ Tree(g)
  BY BufHeld
<1>2. Heap(u.m) = g /\ t = Flat(g)
  BY <1>1, HeapIs, TextIs
<1>3. PICK n : n = [m |-> u.m, l |-> u.l, ok |-> TRUE]
  OBVIOUS
<1>4. n.m = u.m /\ n.l = u.l
  BY <1>3
<1>5. BufferInv(n, g, 0, 0)
  BY <1>1, <1>4 DEF BufferInv, Buf, Half
<1>6. LineCount(n) = LineCount(u)
  BY <1>4 DEF LineCount, Counts
<1>7. PICK F : Sectioned(g, F)
  <2>1. PICK i, d : i = 0 /\ d = 0
    OBVIOUS
  <2>2. Buf(u, g, i, d)
    BY <2>1
  <2>3. QED
    BY <2>2, SectionsExist
<1>8. LineCount(u) = Len(Flat(g))
  <2>1. PICK i, d : i = 0 /\ d = 0
    OBVIOUS
  <2>2. Buf(u, g, i, d) /\ i \in Nat /\ d \in Int /\ i <= Len(Ptrs(g))
    BY <1>7, <2>1 DEF Sectioned
  <2>3. LineCount(u) = Len(Flat(g)) + (IF i # 0 THEN d ELSE 0)
    BY <1>7, <2>2, CountOfLines
  <2>4. Len(Flat(g)) \in Nat
    BY <1>7 DEF Sectioned
  <2>5. QED
    BY <2>1, <2>3, <2>4
<1>9. t \in Seq(LineNumbers)
  BY <1>2, <1>7 DEF Sectioned
<1>10. QED
  BY <1>2, <1>3, <1>5, <1>6, <1>8, <1>9 DEF Stands

\* The invariant in terms of a buffer.
LEMMA InvBuf ==
  ASSUME SwapInv
  PROVE  /\ Buf(Now, Heap(mf), 0, 0) /\ Now.ok /\ Now.m = mf /\ Now.l = locked
         /\ text = Flat(Heap(mf)) /\ LineCount(Now) = Len(text) /\ text \in Seq(LineNumbers)
<1>1. Now.m = mf /\ Now.l = locked /\ Now.ok = TRUE /\ IsState(Now)
  BY DEF Now, IsState
<1>2. MemInv(mf, Heap(mf), Pending(locked)) /\ Tree(Heap(mf))
      /\ Counted(Heap(mf), locked, 0, 0) /\ LockedInv(mf, Heap(mf), locked)
  BY <1>1 DEF SwapInv, BufferInv
<1>3. Rooted(Heap(mf))
  BY <1>2, TreeRooted DEF MemInv
<1>4. Buf(Now, Heap(mf), 0, 0)
  BY <1>1, <1>2, <1>3 DEF Buf, Half
<1>5. text = Text(Now.m)
  BY <1>1 DEF SwapInv, ReadInv
<1>6. Stands(Now.m, Now.l, text) /\ text = Flat(Heap(mf))
  BY <1>4, <1>5, BufStands
<1>7. LineCount(Now) = Len(text) /\ text \in Seq(LineNumbers)
  BY <1>1, <1>6 DEF Stands, Now
<1>8. QED
  BY <1>1, <1>4, <1>6, <1>7

\* After an action the lines are those of g, and the invariant holds but for
\* where the reading of the file is.
LEMMA BecomesBuf ==
  ASSUME NEW u, NEW g, Buf(u, g, 0, 0), Becomes(u)
  PROVE  /\ BufferInv(Now, Heap(mf), 0, 0)' /\ text' = Text(mf)' /\ text' = Flat(g)
         /\ LineCount(Now)' = Len(text') /\ text' \in Seq(LineNumbers)
<1>1. mf' = u.m /\ locked' = u.l /\ text' = Text(u.m)
  BY DEF Becomes
<1>2. Stands(u.m, u.l, text') /\ text' = Flat(g)
  BY <1>1, BufStands
<1>3. Stands(mf', locked', text')
  BY <1>1, <1>2
<1>4. QED
  BY <1>2, <1>3 DEF Stands, Now

-----------------------------------------------------------------------------
(* The actions.                                                            *)

\* What an action may do to the lines.
Edits(t, u) ==
  \/ \E n, line : Inserted(t, u, n, line)
  \/ Len(t) > 1 /\ \E n : Deleted(t, u, n)
  \/ \E n : Replaced(t, u, n)
  \/ u = t

\* The invariant but for ReadInv, in the next state, and the edit.
Steps ==
  /\ BufferInv(Now, Heap(mf), 0, 0)' /\ text' = Text(mf)'
  /\ LineCount(Now)' = Len(text') /\ text' \in Seq(LineNumbers)

\* A swap file that is to hold the whole text is whole, if it was when it already was to.
StaysEntire == kept' = "whole" /\ (kept = "whole" => Entire(mf, locked)) => Entire(mf', locked')

\* An action that leaves the state u, whole if the swap file was.
LEMMA BecomesWhole ==
  ASSUME NEW u, Becomes(u), kept' = "whole" /\ (kept = "whole" => Whole(Now)) => Whole(u)
  PROVE  StaysEntire
<1>1. mf' = u.m /\ locked' = u.l
  BY DEF Becomes
<1>2. Whole(Now) <=> Entire(mf, locked)
  BY DEF Whole, Now
<1>3. Whole(u) <=> Entire(mf', locked')
  BY <1>1 DEF Whole
<1>4. QED
  BY <1>2, <1>3 DEF StaysEntire

\* The next state after a line has been inserted.
LEMMA StepAppends ==
  ASSUME NEW u, NEW h, NEW g, NEW n, NEW line, Appended(u, h, g, n, line), Becomes(u)
  PROVE  Steps /\ Inserted(Flat(h), text', n, line)
<1>1. Buf(u, g, 0, 0) /\ Inserted(Flat(h), Flat(g), n, line)
  BY DEF Appended
<1>2. Steps /\ text' = Flat(g)
  BY <1>1, BecomesBuf DEF Steps
<1>3. QED
  BY <1>1, <1>2

\* The next state after a line has been deleted.
LEMMA StepShrinks ==
  ASSUME NEW u, NEW h, NEW g, NEW n, Shrunk(u, h, g, n), Becomes(u)
  PROVE  Steps /\ Deleted(Flat(h), text', n)
<1>1. Buf(u, g, 0, 0) /\ Deleted(Flat(h), Flat(g), n)
  BY DEF Shrunk
<1>2. Steps /\ text' = Flat(g)
  BY <1>1, BecomesBuf DEF Steps
<1>3. QED
  BY <1>1, <1>2

\* The next state after a line has been replaced.
LEMMA StepAlters ==
  ASSUME NEW u, NEW h, NEW g, NEW n, Altered(u, h, g, n), Becomes(u)
  PROVE  Steps /\ Replaced(Flat(h), text', n)
<1>1. Buf(u, g, 0, 0) /\ Replaced(Flat(h), Flat(g), n)
  BY DEF Altered
<1>2. Steps /\ text' = Flat(g)
  BY <1>1, BecomesBuf DEF Steps
<1>3. QED
  BY <1>1, <1>2

\* The next state after a step that keeps the text.
LEMMA StepKeeps ==
  ASSUME NEW u, NEW h, NEW g, Kept(u, h, g), Becomes(u)
  PROVE  Steps /\ text' = Flat(h)
<1>1. Buf(u, g, 0, 0) /\ Flat(g) = Flat(h)
  BY DEF Kept, SameText, Flat
<1>2. Steps /\ text' = Flat(g)
  BY <1>1, BecomesBuf DEF Steps
<1>3. QED
  BY <1>1, <1>2

\* A change in memory, then what changed does with the first.
LEMMA StepFirst ==
  ASSUME NEW s, NEW g, Buf(s, g, 0, 0), NEW room, Changed(s, room)
  PROVE  Steps /\ text' = Flat(g)
<1>1. PICK u : u = IF changes = 0 THEN [s EXCEPT !.m = FirstChange(s.m, room)] ELSE s
  OBVIOUS
<1>2. Becomes(u)
  BY <1>1 DEF Changed
<1>3. Kept(u, g, g)
  <2>1. CASE changes # 0
    BY <1>1, <2>1, KeptSelf
  <2>2. CASE changes = 0
    <3>1. PICK n : n = FirstChange(s.m, room)
      OBVIOUS
    <3>2. MemInv(s.m, g, Pending(s.l))
      BY BufHeld
    <3>3. Steady(s.m, n, g, Pending(s.l))
      BY <3>1, <3>2, FirstChangeSteady
    <3>4. Steadied(s, g, n, u)
      BY <1>1, <2>2, <3>1, <3>3 DEF Steadied
    <3>5. QED
      BY <3>4, SteadyKeeps
  <2>3. QED
    BY <2>1, <2>2
<1>4. QED
  BY <1>2, <1>3, StepKeeps

\* The buffer of this state and its lines.
LEMMA StateLines ==
  ASSUME SwapInv
  PROVE  \E h : /\ Buf(Now, h, 0, 0) /\ Now.ok /\ text = Flat(h) /\ Len(text) \in Nat
                /\ LineCount(Now) = Len(text) /\ DOMAIN Ptrs(h) = 1 .. Len(Pointers(mf))
<1>1. PICK h : h = Heap(mf)
  OBVIOUS
<1>2. /\ Buf(Now, h, 0, 0) /\ Now.ok /\ text = Flat(h) /\ LineCount(Now) = Len(text)
      /\ text \in Seq(LineNumbers) /\ Now.m = mf
  BY <1>1, InvBuf
<1>3. MemInv(mf, h, Pending(Now.l)) /\ Rooted(h)
  BY <1>2, BufHeld
<1>4. Pointers(mf) = Ptrs(h) /\ DOMAIN Ptrs(h) = 1 .. Len(Ptrs(h))
  BY <1>3, PointersAre DEF Rooted
<1>5. QED
  BY <1>2, <1>4

-----------------------------------------------------------------------------
\* Insert keeps the invariant and inserts a line.
LEMMA InsertStep ==
  ASSUME SwapInv, Insert
  PROVE  Steps /\ Edits(text, text')
<1>1. PICK h : Buf(Now, h, 0, 0) /\ Now.ok /\ text = Flat(h) /\ LineCount(Now) = Len(text)
  BY StateLines
<1>2. PICK n, room : n \in 0 .. LineCount(Now)
                     /\ Changed(ml_append_int(Now, n, NewLine, FALSE, room), room)
  BY DEF Insert
<1>3. NewLine \in LineNumbers
  BY SwapAssumption DEF SwapInv, ReadInv, Insert, MayChange, NewLine, LineNumbers
<1>4. PICK u : u = ml_append_int(Now, n, NewLine, FALSE, room)
  OBVIOUS
<1>5. n \in 0 .. Len(Flat(h)) /\ FALSE \in BOOLEAN
  BY <1>1, <1>2
<1>6. PICK g : Appended(u, h, g, n, NewLine)
  BY <1>1, <1>3, <1>4, <1>5, MlAppend
<1>7. Buf(u, g, 0, 0) /\ Inserted(text, Flat(g), n, NewLine)
  BY <1>1, <1>6 DEF Appended
<1>8. Changed(u, room)
  BY <1>2, <1>4
<1>9. Steps /\ text' = Flat(g)
  BY <1>7, <1>8, StepFirst
<1>10. QED
  BY <1>7, <1>9 DEF Edits

\* Replace keeps the invariant and replaces a line.
LEMMA ReplaceStep ==
  ASSUME SwapInv, Replace
  PROVE  Steps /\ Edits(text, text')
<1>1. PICK h : Buf(Now, h, 0, 0) /\ Now.ok /\ text = Flat(h) /\ LineCount(Now) = Len(text)
  BY StateLines
<1>2. PICK n, room : n \in 1 .. LineCount(Now)
                     /\ Changed(ml_flush_line(Now, n, NewLine, room), room)
  BY DEF Replace
<1>3. NewLine \in LineNumbers
  BY SwapAssumption DEF SwapInv, ReadInv, Replace, MayChange, NewLine, LineNumbers
<1>4. PICK u : u = ml_flush_line(Now, n, NewLine, room)
  OBVIOUS
<1>5. n \in 1 .. Len(Flat(h))
  BY <1>1, <1>2
<1>6. PICK g : Altered(u, h, g, n)
  BY <1>1, <1>3, <1>4, <1>5, MlFlushLine
<1>7. Buf(u, g, 0, 0) /\ Replaced(text, Flat(g), n)
  BY <1>1, <1>6 DEF Altered
<1>8. Changed(u, room)
  BY <1>2, <1>4
<1>9. Steps /\ text' = Flat(g)
  BY <1>7, <1>8, StepFirst
<1>10. QED
  BY <1>7, <1>9 DEF Edits

\* Delete keeps the invariant and deletes a line.
LEMMA DeleteStep ==
  ASSUME SwapInv, Delete
  PROVE  Steps /\ Edits(text, text')
<1>1. PICK h : Buf(Now, h, 0, 0) /\ Now.ok /\ text = Flat(h) /\ LineCount(Now) = Len(text)
  BY StateLines
<1>2. PICK n, room : n \in 1 .. LineCount(Now) /\ Changed(ml_delete_int(Now, n, room), room)
  BY DEF Delete
<1>3. LineCount(Now) > 1
  BY DEF Delete
<1>4. PICK u : u = ml_delete_int(Now, n, room)
  OBVIOUS
<1>5. n \in 1 .. Len(Flat(h)) /\ Len(Flat(h)) > 1
  BY <1>1, <1>2, <1>3
<1>6. PICK g : Shrunk(u, h, g, n)
  BY <1>1, <1>4, <1>5, MlDelete
<1>7. Buf(u, g, 0, 0) /\ Deleted(text, Flat(g), n)
  BY <1>1, <1>6 DEF Shrunk
<1>8. Changed(u, room)
  BY <1>2, <1>4
<1>9. Steps /\ text' = Flat(g)
  BY <1>7, <1>8, StepFirst
<1>10. QED
  BY <1>1, <1>5, <1>7, <1>9 DEF Edits

\* Get keeps the invariant and the text.
LEMMA GetStep ==
  ASSUME SwapInv, Get
  PROVE  Steps /\ text' = text /\ StaysEntire
<1>1. PICK h : /\ Buf(Now, h, 0, 0) /\ Now.ok /\ text = Flat(h)
               /\ DOMAIN Ptrs(h) = 1 .. Len(Pointers(mf))
  BY StateLines
<1>2. PICK i, room : i \in 1 .. Len(Pointers(mf)) /\ Becomes(ml_find_line(Now, i, 0, room))
  BY DEF Get
<1>3. PICK u : u = ml_find_line(Now, i, 0, room)
  OBVIOUS
<1>4. i \in DOMAIN Ptrs(h)
  BY <1>1, <1>2
<1>5. PICK g : Kept(u, h, g) /\ FindLeaves(Now, u, h, g, i)
  BY <1>1, <1>3, <1>4, FindKeeps
<1>6. Becomes(u)
  BY <1>2, <1>3
<1>7. StaysEntire
  <2>1. kept' = kept
    BY DEF Get
  <2>2. Whole(Now) => Whole(u)
    BY <1>5 DEF FindLeaves
  <2>3. QED
    BY <1>6, <2>1, <2>2, BecomesWhole
<1>8. QED
  BY <1>1, <1>5, <1>6, <1>7, StepKeeps

\* OutOfMemory keeps the invariant and the text.
LEMMA OutOfMemoryStep ==
  ASSUME SwapInv, OutOfMemory
  PROVE  Steps /\ text' = text /\ StaysEntire
<1>1. PICK h : Buf(Now, h, 0, 0) /\ text = Flat(h)
  BY StateLines
<1>2. PICK room : Becomes([Now EXCEPT !.m = mf_release_all(mf, room)])
  BY DEF OutOfMemory
<1>3. PICK n : n = mf_release_all(mf, room)
  OBVIOUS
<1>4. PICK u : u = [Now EXCEPT !.m = n]
  OBVIOUS
<1>5. Now.m = mf
  BY DEF Now
<1>6. MemInv(mf, h, Pending(Now.l)) /\ Held(mf, Pending(Now.l))
  BY <1>1, <1>5, BufHeld
<1>7. Steady(mf, n, h, Pending(Now.l))
  BY <1>3, <1>6, MfReleaseAll
<1>8. Steadied(Now, h, n, u)
  BY <1>1, <1>4, <1>5, <1>7 DEF Steadied
<1>9. Kept(u, h, h)
  BY <1>8, SteadyKeeps
<1>10. Becomes(u)
  BY <1>2, <1>3, <1>4
<1>11. ASSUME Whole(Now) PROVE Whole(u)
  <2>1. mf.fd /\ mf.neg_count = 0 /\ NothingDirty(mf) /\ Unchanged(Now.l)
    BY <1>1, <1>5, <1>11, WholeOpen
  <2>2. n.fd /\ NothingDirty(n)
    BY <1>3, <1>6, <2>1, MfReleaseAll DEF Calm
  <2>3. MemInv(n, h, Pending(Now.l))
    BY <1>7 DEF Steady, Quiet
  <2>4. n.neg_count = 0
    BY <1>6, <2>1, <2>3, NoneNegative
  <2>5. u.m = n /\ u.l = Now.l
    BY <1>4 DEF Now
  <2>6. QED
    BY <2>1, <2>2, <2>4, <2>5 DEF Whole, Entire, Clean, NothingDirty
<1>12. StaysEntire
  <2>1. kept' = kept
    BY DEF OutOfMemory
  <2>2. QED
    BY <1>10, <1>11, <2>1, BecomesWhole
<1>13. QED
  BY <1>1, <1>9, <1>10, <1>12, StepKeeps

\* Preserve keeps the invariant and the text.
LEMMA PreserveStep ==
  ASSUME SwapInv, Preserve
  PROVE  Steps /\ text' = text /\ kept' \in {"whole", kept} /\ StaysEntire
<1>1. PICK h : Buf(Now, h, 0, 0) /\ Now.ok /\ text = Flat(h)
  BY StateLines
<1>2. PICK room, stops : \E s \in {ml_preserve(Now, stops, room)} :
             Becomes(s) /\ kept' = IF s.ok /\ Uninterrupted(stops) THEN "whole" ELSE kept
  BY DEF Preserve
<1>3. PICK u : u = ml_preserve(Now, stops, room)
  OBVIOUS
<1>4. Becomes(u) /\ kept' = (IF u.ok /\ Uninterrupted(stops) THEN "whole" ELSE kept)
  BY <1>2, <1>3
<1>5. PICK g : Kept(u, h, g) /\ u.ok \in BOOLEAN
  BY <1>1, <1>3, PreserveKeeps
<1>6. Preserves(Now, u, stops)
  BY <1>1, <1>3, PreserveKeeps
<1>7. kept' = "whole" /\ (kept = "whole" => Whole(Now)) => Whole(u)
  BY <1>4, <1>6 DEF Preserves
<1>8. StaysEntire
  BY <1>4, <1>7, BecomesWhole
<1>9. Steps /\ text' = text
  BY <1>1, <1>4, <1>5, StepKeeps
<1>10. QED
  BY <1>4, <1>8, <1>9

\* SyncAll keeps the invariant and the text.
LEMMA SyncAllStep ==
  ASSUME SwapInv, SyncAll
  PROVE  Steps /\ text' = text /\ kept' \in {"whole", "synced", kept} /\ StaysEntire
<1>1. PICK h : Buf(Now, h, 0, 0) /\ Now.ok /\ text = Flat(h)
  BY StateLines
<1>2. PICK room : \E f \in {Flush(Now, room)} :
        IF ~Overtaken(f) THEN \E stop : SyncDirty(f, FALSE, stop, room)
        ELSE \E stops : \E p \in {ml_preserve(f, stops, room)} : \E stop :
                SyncDirty(p, p.ok /\ Uninterrupted(stops), stop, room)
  BY DEF SyncAll
<1>3. PICK f : f = Flush(Now, room)
  OBVIOUS
<1>4. PICK p, stops, c, stop :
        /\ SyncDirty(p, c, stop, room)
        /\ IF ~Overtaken(f) THEN p = f /\ c = FALSE
           ELSE p = ml_preserve(f, stops, room) /\ c = (p.ok /\ Uninterrupted(stops))
  <2>1. CASE ~Overtaken(f)
    BY <1>2, <1>3, <2>1
  <2>2. CASE Overtaken(f)
    <3>1. PICK stops : \E p \in {ml_preserve(f, stops, room)} : \E stop :
             SyncDirty(p, p.ok /\ Uninterrupted(stops), stop, room)
      BY <1>2, <1>3, <2>2
    <3>2. PICK p : p = ml_preserve(f, stops, room)
      OBVIOUS
    <3>3. PICK c : c = (p.ok /\ Uninterrupted(stops))
      OBVIOUS
    <3>4. PICK stop : SyncDirty(p, c, stop, room)
      BY <3>1, <3>2, <3>3
    <3>5. QED
      BY <2>2, <3>2, <3>3, <3>4
  <2>3. QED
    BY <2>1, <2>2
<1>6. PICK s : s = mf_sync(p.m, FALSE, FALSE, stop, room)
  OBVIOUS
<1>7. PICK u : u = IF p.m.dirty THEN [p EXCEPT !.m = s.m] ELSE p
  OBVIOUS
<1>8. /\ Becomes(u) /\ kept' \in {"whole", "synced", kept}
      /\ kept' = "whole" /\ kept # "whole" =>
           c \/ (p.m.dirty /\ s.ok /\ s.end /\ p.m.neg_count = 0)
  <2>1. \A b : Keeps(b) \in {"whole", "synced"} /\ (Keeps(b) = "whole" => b \/ kept = "whole")
    BY DEF Keeps
  <2>2. IF ~p.m.dirty THEN Becomes(p) /\ kept' = Keeps(c)
        ELSE /\ Becomes([p EXCEPT !.m = s.m])
             /\ kept' = IF (s.ok /\ s.end) \/ c THEN Keeps(p.m.neg_count = 0) ELSE kept
    BY <1>4, <1>6 DEF SyncDirty
  <2>3. CASE p.m.dirty
    <3>1. PICK b : b = (p.m.neg_count = 0)
      OBVIOUS
    <3>2. PICK d : d = ((s.ok /\ s.end) \/ c)
      OBVIOUS
    <3>3. Becomes([p EXCEPT !.m = s.m]) /\ kept' = IF d THEN Keeps(b) ELSE kept
      BY <2>2, <2>3, <3>1, <3>2
    <3>4. kept' \in {"whole", "synced", kept} /\ (kept' = "whole" /\ kept # "whole" => b /\ d)
      BY <2>1, <3>1, <3>2, <3>3
    <3>5. QED
      BY <1>7, <2>3, <3>1, <3>2, <3>3, <3>4
  <2>4. CASE ~p.m.dirty
    BY <1>7, <2>1, <2>2, <2>4
  <2>5. QED
    BY <2>3, <2>4
<1>9. PICK g : Kept(f, h, g) /\ f.l = NotLocked /\ f.ok
  BY <1>1, <1>3, FlushKeeps
<1>w. Whole(Now) => Whole(f)
  BY <1>1, <1>3, FlushWhole
<1>10. PICK o : /\ Kept(p, h, o) /\ p.l = NotLocked
                /\ c => Whole(p)
                /\ Whole(f) => Whole(p)
  <2>1. CASE Overtaken(f)
    <3>1. Buf(f, g, 0, 0)
      BY <1>9 DEF Kept
    <3>2. p = ml_preserve(f, stops, room) /\ c = (p.ok /\ Uninterrupted(stops))
      BY <1>4, <2>1
    <3>3. PICK o : Kept(p, g, o) /\ p.l = NotLocked
      BY <1>9, <3>1, <3>2, PreserveKeeps
    <3>4. Preserves(f, p, stops)
      BY <1>9, <3>1, <3>2, PreserveKeeps
    <3>5. QED
      BY <1>9, <3>2, <3>3, <3>4, KeptOn DEF Preserves
  <2>2. CASE ~Overtaken(f)
    BY <1>4, <1>9, <2>2
  <2>3. QED
    BY <2>1, <2>2
<1>11. /\ Kept(u, o, o) /\ (Whole(p) => Whole(u))
       /\ p.m.dirty /\ s.ok /\ s.end /\ p.m.neg_count = 0 => Whole(u)
  <2>1. Buf(p, o, 0, 0) /\ IsState(p)
    BY <1>10 DEF Kept, Buf, Half
  <2>2. CASE p.m.dirty
    <3>1. u = [m |-> s.m, l |-> p.l, ok |-> p.ok] /\ p.ok \in BOOLEAN
      BY <1>7, <2>1, <2>2, WithMem
    <3>2. FALSE \in BOOLEAN
      OBVIOUS
    <3>3. Syncs(p, FALSE, stop, room, s, p.ok, u)
      BY <1>6, <1>10, <3>1, <3>2, Zenon DEF Syncs
    <3>4. SyncedTo(p, o, s, p.ok, u, FALSE, stop)
      BY <2>1, <3>3, SyncWhole
    <3>5. /\ Kept(u, o, o) /\ u.m = s.m /\ u.l = NotLocked /\ (Whole(p) => Whole(u))
          /\ s.m.fd = p.m.fd /\ (s.m.neg_count = 0 <=> p.m.neg_count = 0) /\ (s.ok => p.m.fd)
          /\ s.ok /\ s.end /\ p.m.neg_count = 0 => NothingDirty(s.m)
      BY <3>4 DEF SyncedTo
    <3>6. ASSUME s.ok, s.end, p.m.neg_count = 0
          PROVE  Whole(u)
      BY <3>5, <3>6 DEF Whole, Entire, Clean, NothingDirty, Unchanged, NotLocked, Lock
    <3>7. QED
      BY <3>5, <3>6
  <2>3. CASE ~p.m.dirty
    BY <1>7, <2>1, <2>3, KeptSelf
  <2>4. QED
    BY <2>2, <2>3
<1>12. Kept(u, h, o)
  BY <1>10, <1>11, KeptOn
<1>13. StaysEntire
  <2>1. kept' = "whole" /\ (kept = "whole" => Whole(Now)) => Whole(u)
    BY <1>8, <1>10, <1>11, <1>w
  <2>2. QED
    BY <1>8, <2>1, BecomesWhole
<1>14. Steps /\ text' = text
  BY <1>1, <1>8, <1>12, StepKeeps
<1>15. QED
  BY <1>8, <1>13, <1>14

-----------------------------------------------------------------------------
\* ReadFirst keeps the invariant and inserts the first line of the file.
LEMMA ReadFirstStep ==
  ASSUME SwapInv, ReadFirst
  PROVE  Steps /\ Edits(text, text') /\ Len(text') = Len(text) + 1
<1>1. PICK h : Buf(Now, h, 0, 0) /\ Now.ok /\ text = Flat(h) /\ Len(text) \in Nat
  BY StateLines
<1>2. PICK room, m : /\ m = mf \/ m = ml_open_file(mf, room)
                     /\ Becomes(ml_append_int([Now EXCEPT !.m = m], 0, 1, TRUE, room))
  BY DEF ReadFirst
<1>3. PICK s : s = [Now EXCEPT !.m = m]
  OBVIOUS
<1>4. Now.m = mf
  BY DEF Now
<1>5. MemInv(mf, h, Pending(Now.l))
  BY <1>1, <1>4, BufHeld
<1>6. Steady(mf, m, h, Pending(Now.l))
  BY <1>2, <1>5, MlOpenFile, SteadyNothing
<1>7. Steadied(Now, h, m, s)
  BY <1>1, <1>3, <1>4, <1>6 DEF Steadied
<1>8. Buf(s, h, 0, 0) /\ s.ok
  BY <1>1, <1>7, SteadyKeeps DEF Kept
<1>9. PICK u : u = ml_append_int(s, 0, 1, TRUE, room)
  OBVIOUS
<1>10. 0 \in 0 .. Len(Flat(h)) /\ 1 \in LineNumbers /\ TRUE \in BOOLEAN
  BY <1>1, SwapAssumption DEF LineNumbers
<1>11. PICK g : Appended(u, h, g, 0, 1)
  BY <1>8, <1>9, <1>10, MlAppend
<1>12. Becomes(u)
  BY <1>2, <1>3, <1>9
<1>13. Steps /\ Inserted(text, text', 0, 1)
  BY <1>1, <1>11, <1>12, StepAppends
<1>14. QED
  BY <1>13 DEF Edits, Inserted

\* ReadLine keeps the invariant and inserts a line of the file.
LEMMA ReadLineStep ==
  ASSUME SwapInv, ReadLine
  PROVE  Steps /\ Edits(text, text') /\ Len(text') = Len(text) + 1
<1>1. PICK h : /\ Buf(Now, h, 0, 0) /\ Now.ok /\ text = Flat(h) /\ Len(text) \in Nat
               /\ LineCount(Now) = Len(text)
  BY StateLines
<1>2. PICK room : Becomes(ml_append_int(Now, next - 1, next, TRUE, room))
  BY DEF ReadLine
<1>3. next \in 2 .. FileLines /\ LineCount(Now) = next
  BY DEF ReadLine, SwapInv, ReadInv
<1>4. PICK n : n = next - 1
  OBVIOUS
<1>5. PICK u : u = ml_append_int(Now, n, next, TRUE, room)
  OBVIOUS
<1>6. n \in 0 .. Len(Flat(h)) /\ next \in LineNumbers
  BY <1>1, <1>3, <1>4, SwapAssumption DEF LineNumbers
<1>7. TRUE \in BOOLEAN
  OBVIOUS
<1>8. PICK g : Appended(u, h, g, n, next)
  BY <1>1, <1>5, <1>6, <1>7, MlAppend
<1>9. Becomes(u)
  BY <1>2, <1>4, <1>5
<1>10. Steps /\ Inserted(text, text', n, next)
  BY <1>1, <1>8, <1>9, StepAppends
<1>11. QED
  BY <1>10 DEF Edits, Inserted

\* ReadEnd keeps the invariant and deletes the empty line behind the file.
LEMMA ReadEndStep ==
  ASSUME SwapInv, ReadEnd
  PROVE  Steps /\ Edits(text, text')
<1>1. PICK h : /\ Buf(Now, h, 0, 0) /\ Now.ok /\ text = Flat(h) /\ Len(text) \in Nat
               /\ LineCount(Now) = Len(text)
  BY StateLines
<1>2. PICK room : Becomes(ml_delete_int(Now, next, room))
  BY DEF ReadEnd
<1>3. next = FileLines + 1 /\ LineCount(Now) = next
  BY SwapAssumption DEF ReadEnd, SwapInv, ReadInv
<1>4. PICK n : n = next
  OBVIOUS
<1>5. PICK u : u = ml_delete_int(Now, n, room)
  OBVIOUS
<1>6. n \in 1 .. Len(Flat(h)) /\ Len(Flat(h)) > 1
  BY <1>1, <1>3, <1>4, SwapAssumption
<1>7. PICK g : Shrunk(u, h, g, n)
  BY <1>1, <1>5, <1>6, MlDelete
<1>8. Becomes(u)
  BY <1>2, <1>4, <1>5
<1>9. Steps /\ Deleted(text, text', n)
  BY <1>1, <1>7, <1>8, StepShrinks
<1>10. QED
  BY <1>1, <1>6, <1>9 DEF Edits

-----------------------------------------------------------------------------
\* What is left of the invariant.
ReadStep ==
  /\ next' \in 0 .. (FileLines + 1) /\ changes' \in 0 .. MaxChanges
  /\ original' \in BOOLEAN /\ kept' \in {"no", "synced", "whole"}
  /\ next' # 0 => Len(text') = next' /\ changes' = 0

\* The parts of the invariant of the next state together.
LEMMA StepsInv ==
  ASSUME Steps, ReadStep
  PROVE  SwapInv' /\ text' \in Seq(LineNumbers)
<1>1. BufferInv(Now, Heap(mf), 0, 0)'
  BY DEF Steps
<1>2. ReadInv'
  <2>1. text' = Text(mf)' /\ LineCount(Now)' = Len(text')
    BY DEF Steps
  <2> HIDE DEF Steps
  <2>2. next' # 0 => LineCount(Now)' = next' /\ changes' = 0
    BY <2>1 DEF ReadStep
  <2>3. QED
    BY <2>1, <2>2 DEF ReadStep, ReadInv
<1>3. QED
  BY <1>1, <1>2 DEF SwapInv, Steps

\* Every step keeps the invariant and edits the lines as the editor may.
LEMMA SwapStep ==
  ASSUME SwapInv, [Next]_vars
  PROVE  SwapInv' /\ Edits(text, text') /\ text' \in Seq(LineNumbers)
<1>0. /\ next \in 0 .. (FileLines + 1) /\ changes \in 0 .. MaxChanges
      /\ original \in BOOLEAN /\ kept \in {"no", "synced", "whole"}
      /\ (next # 0 => Len(text) = next /\ changes = 0)
      /\ FileLines \in Nat \ {0} /\ MaxChanges \in Nat
  <2>1. LineCount(Now) = Len(text)
    BY StateLines
  <2>2. QED
    BY <2>1, SwapAssumption DEF SwapInv, ReadInv
<1>1. CASE ReadFirst
  <2>1. Steps /\ Edits(text, text') /\ Len(text') = Len(text) + 1
    BY <1>1, ReadFirstStep
  <2>2. next = 1 /\ next' = 2 /\ changes' = changes /\ original' = original /\ kept' = kept
    BY <1>1 DEF ReadFirst
  <2>a. 2 \in 0 .. (FileLines + 1) /\ Len(text) = 1 /\ changes = 0 /\ 1 + 1 = 2
    BY <1>0, <2>2
  <2>3. ReadStep
    BY <1>0, <2>1, <2>2, <2>a DEF ReadStep
  <2>4. QED
    BY <2>1, <2>3, StepsInv
<1>2. CASE ReadLine
  <2>1. Steps /\ Edits(text, text') /\ Len(text') = Len(text) + 1
    BY <1>2, ReadLineStep
  <2>2. /\ next \in 2 .. FileLines /\ next' = next + 1 /\ changes' = changes
        /\ original' = original /\ kept' = kept
    BY <1>2 DEF ReadLine
  <2>a. /\ next \in Nat /\ next # 0 /\ Len(text) = next /\ changes = 0
        /\ next' \in 0 .. (FileLines + 1) /\ Len(text') = next'
    <3>1. next \in Nat /\ next # 0 /\ next + 1 \in 0 .. (FileLines + 1)
      BY <1>0, <2>2
    <3>2. Len(text) = next /\ changes = 0
      BY <1>0, <3>1
    <3>3. QED
      BY <2>1, <2>2, <3>1, <3>2
  <2>3. ReadStep
    BY <1>0, <2>2, <2>a DEF ReadStep
  <2>4. QED
    BY <2>1, <2>3, StepsInv
<1>3. CASE ReadEnd
  <2>1. Steps /\ Edits(text, text')
    BY <1>3, ReadEndStep
  <2>2. next' = 0 /\ changes' = changes /\ original' = original /\ kept' = kept
    BY <1>3 DEF ReadEnd
  <2>3. ReadStep
    BY <1>0, <2>2 DEF ReadStep
  <2>4. QED
    BY <2>1, <2>3, StepsInv
<1>4. CASE Insert \/ Replace \/ Delete
  <2>1. Steps /\ Edits(text, text')
    BY <1>4, InsertStep, ReplaceStep, DeleteStep
  <2>2. /\ next = 0 /\ changes < MaxChanges /\ next' = next /\ changes' = changes + 1
        /\ original' = original /\ kept' = "no"
    BY <1>4 DEF Insert, Replace, Delete, MayChange, Changed
  <2>3. ReadStep
    BY <1>0, <2>2 DEF ReadStep
  <2>4. QED
    BY <2>1, <2>3, StepsInv
<1>5. CASE Get \/ OutOfMemory
  <2>1. Steps /\ text' = text
    BY <1>5, GetStep, OutOfMemoryStep
  <2>2. /\ next' = next /\ changes' = changes /\ original' = original /\ kept' = kept
    BY <1>5 DEF Get, OutOfMemory
  <2>3. ReadStep
    BY <1>0, <2>1, <2>2 DEF ReadStep
  <2>4. QED
    BY <2>1, <2>3, StepsInv DEF Edits
<1>6. CASE Preserve
  <2>1. Steps /\ text' = text /\ kept' \in {"whole", kept}
    BY <1>6, PreserveStep
  <2>2. /\ next' = next /\ changes' = changes /\ original' = original
    BY <1>6 DEF Preserve
  <2>3. ReadStep
    BY <1>0, <2>1, <2>2 DEF ReadStep
  <2>4. QED
    BY <2>1, <2>3, StepsInv DEF Edits
<1>7. CASE SyncAll
  <2>1. Steps /\ text' = text /\ kept' \in {"whole", "synced", kept}
    BY <1>7, SyncAllStep
  <2>2. /\ next' = next /\ changes' = changes /\ original' = original
    BY <1>7 DEF SyncAll
  <2>3. ReadStep
    BY <1>0, <2>1, <2>2 DEF ReadStep
  <2>4. QED
    BY <2>1, <2>3, StepsInv DEF Edits
<1>8. CASE Overwritten
  <2>1. /\ mf' = mf /\ locked' = locked /\ next' = next /\ changes' = changes /\ text' = text
        /\ original' = FALSE /\ kept' \in {"no", kept}
    BY <1>8 DEF Overwritten
  <2>2. BufferInv(Now, Heap(mf), 0, 0)' = BufferInv(Now, Heap(mf), 0, 0)
    BY <2>1 DEF Now
  <2>3. LineCount(Now)' = LineCount(Now) /\ Text(mf)' = Text(mf)
    BY <2>1 DEF Now
  <2>4. SwapInv'
    BY <2>1, <2>2, <2>3 DEF SwapInv, ReadInv
  <2>5. text \in Seq(LineNumbers)
    BY InvBuf
  <2>6. QED
    BY <2>1, <2>4, <2>5 DEF Edits
<1>9. CASE UNCHANGED vars
  <2>1. /\ mf' = mf /\ locked' = locked /\ next' = next /\ changes' = changes /\ text' = text
        /\ original' = original /\ kept' = kept
    BY <1>9 DEF vars
  <2>2. BufferInv(Now, Heap(mf), 0, 0)' = BufferInv(Now, Heap(mf), 0, 0)
    BY <2>1 DEF Now
  <2>3. LineCount(Now)' = LineCount(Now) /\ Text(mf)' = Text(mf)
    BY <2>1 DEF Now
  <2>4. SwapInv'
    BY <2>1, <2>2, <2>3 DEF SwapInv, ReadInv
  <2>5. text \in Seq(LineNumbers)
    BY InvBuf
  <2>6. QED
    BY <2>1, <2>4, <2>5 DEF Edits
<1>10. QED
  BY <1>1, <1>2, <1>3, <1>4, <1>5, <1>6, <1>7, <1>8, <1>9 DEF Next

-----------------------------------------------------------------------------
(* The initial state.                                                      *)

\* The memory file ml_open has made, field by field.
Fresh(m, u2, u1, u0) ==
  /\ m.used = <<u2, u1, u0>> /\ m.free = <<>> /\ m.blocknr_max = 3 /\ m.blocknr_min = -1
  /\ m.infile_count = 0 /\ m.neg_count = 0 /\ m.trans = <<>> /\ m.disk = <<>>
  /\ m.dirty = TRUE /\ m.fd = FALSE /\ m.may_swap = TRUE
  /\ m = [used |-> m.used, free |-> m.free, blocknr_max |-> m.blocknr_max,
          blocknr_min |-> m.blocknr_min, infile_count |-> m.infile_count,
          neg_count |-> m.neg_count, trans |-> m.trans, dirty |-> m.dirty, fd |-> m.fd,
          disk |-> m.disk, may_swap |-> m.may_swap]
\* A block that has just been made.
NewHead(hp, b, data) ==
  hp \in Headers /\ hp.b = b /\ hp.pages = 1 /\ hp.dirty /\ hp.data = data

\* The fields of a header of ml_open.
LEMMA NewHeadIs ==
  ASSUME NEW b \in Int, NEW data \in Blocks, NEW k \in BOOLEAN, NEW hp,
         hp = [b |-> b, pages |-> 1, locked |-> k, dirty |-> TRUE, data |-> data]
  PROVE  NewHead(hp, b, data)
BY DEF NewHead, Headers

\* The data of the three blocks ml_open makes.
LEMMA FirstBlocks ==
  /\ ZeroBlock \in Blocks /\ ZeroBlock.id = "zero"
  /\ DataBlock(<<EmptyLine>>) \in Blocks /\ DataBlock(<<EmptyLine>>).id = "data"
  /\ DataBlock(<<EmptyLine>>).lines = <<EmptyLine>>
  /\ RootBlock \in Blocks /\ RootBlock.id = "ptr"
  /\ \E e : EntryOf(e, 2, 1, 1) /\ RootBlock.ptrs = <<e>>
<1>1. EmptyLine \in LineNumbers
  BY SwapAssumption DEF EmptyLine, LineNumbers
<1>2. <<EmptyLine>> \in Seq(LineNumbers)
  BY <1>1
<1>3. /\ DataBlock(<<EmptyLine>>) \in Blocks /\ DataBlock(<<EmptyLine>>).id = "data"
      /\ DataBlock(<<EmptyLine>>).lines = <<EmptyLine>>
  BY <1>2, DataBlockIs
<1>4. ZeroBlock \in Blocks /\ ZeroBlock.id = "zero"
  <2>1. ZeroBlock = [id |-> "zero", lines |-> <<>>, ptrs |-> <<>>, behind |-> <<>>]
    BY DEF ZeroBlock, NoBlock
  <2>2. <<>> \in Seq(LineNumbers) /\ <<>> \in Seq(Entries) /\ <<>> \in Seq(Nat)
    OBVIOUS
  <2>3. QED
    BY <2>1, <2>2 DEF Blocks
<1>5. PICK e : e = Entry(2, 1, 1, 1)
  OBVIOUS
<1>6. EntryOf(e, 2, 1, 1)
  BY <1>5, EntryIs
<1>7. <<e>> \in Seq(Entries)
  BY <1>6 DEF EntryOf
<1>8. RootBlock = [NoBlock EXCEPT !.id = "ptr", !.ptrs = <<e>>]
  BY <1>5 DEF RootBlock
<1>9. RootBlock \in Blocks /\ RootBlock.id = "ptr" /\ RootBlock.ptrs = <<e>>
  <2>1. RootBlock = [id |-> "ptr", lines |-> <<>>, ptrs |-> <<e>>, behind |-> <<>>]
    BY <1>8 DEF NoBlock
  <2>2. <<>> \in Seq(LineNumbers) /\ <<>> \in Seq(Nat)
    OBVIOUS
  <2>3. QED
    BY <1>7, <2>1, <2>2 DEF Blocks
<1>10. QED
  BY <1>3, <1>4, <1>6, <1>9

\* The memory file ml_open leaves.
LEMMA InitFresh ==
  ASSUME Init
  PROVE  \E u2, u1, u0 : /\ NewHead(u2, 2, DataBlock(<<EmptyLine>>))
                         /\ NewHead(u1, 1, RootBlock) /\ NewHead(u0, 0, ZeroBlock)
                         /\ Fresh(mf, u2, u1, u0)
<1>0. PICK k2, k1, k0 : /\ k2 \in BOOLEAN /\ k2 = (2 = 2) /\ k1 \in BOOLEAN /\ k1 = (1 = 2)
                        /\ k0 \in BOOLEAN /\ k0 = (0 = 2)
  OBVIOUS
<1>1. PICK u2 : u2 = [b |-> 2, pages |-> 1, locked |-> k2, dirty |-> TRUE,
                      data |-> DataBlock(<<EmptyLine>>)]
  OBVIOUS
<1>2. PICK u1 : u1 = [b |-> 1, pages |-> 1, locked |-> k1, dirty |-> TRUE, data |-> RootBlock]
  OBVIOUS
<1>3. PICK u0 : u0 = [b |-> 0, pages |-> 1, locked |-> k0, dirty |-> TRUE, data |-> ZeroBlock]
  OBVIOUS
<1>4. mf = [used |-> <<u2, u1, u0>>, free |-> <<>>, blocknr_max |-> 3, blocknr_min |-> -1,
            infile_count |-> 0, neg_count |-> 0, trans |-> <<>>, dirty |-> TRUE, fd |-> FALSE,
            disk |-> <<>>, may_swap |-> TRUE]
  BY <1>0, <1>1, <1>2, <1>3 DEF Init
<1>5. Fresh(mf, u2, u1, u0)
  BY <1>4 DEF Fresh
<1>6. k2 \in BOOLEAN /\ k1 \in BOOLEAN /\ k0 \in BOOLEAN /\ 2 \in Int /\ 1 \in Int /\ 0 \in Int
  BY <1>0
<1>7. NewHead(u2, 2, DataBlock(<<EmptyLine>>))
  BY <1>1, <1>6, FirstBlocks, NewHeadIs
<1>8. NewHead(u1, 1, RootBlock)
  BY <1>2, <1>6, FirstBlocks, NewHeadIs
<1>9. NewHead(u0, 0, ZeroBlock)
  BY <1>3, <1>6, FirstBlocks, NewHeadIs
<1>10. QED
  BY <1>5, <1>7, <1>8, <1>9

FirstData(x) == IF x = 0 THEN ZeroBlock ELSE IF x = 1 THEN RootBlock ELSE DataBlock(<<EmptyLine>>)
FirstHeap == [x \in {0, 1, 2} |-> [pages |-> 1, data |-> FirstData(x)]]

\* It satisfies the invariant of memory files.
LEMMA FreshMem ==
  ASSUME NEW m, NEW u2, NEW u1, NEW u0, NewHead(u2, 2, DataBlock(<<EmptyLine>>)),
         NewHead(u1, 1, RootBlock), NewHead(u0, 0, ZeroBlock), Fresh(m, u2, u1, u0)
  PROVE  MemInv(m, FirstHeap, {})
<1>1. PICK h : h = FirstHeap
  OBVIOUS
<1>2. /\ DOMAIN h = {0, 1, 2} /\ \A x \in {0, 1, 2} : h[x].pages = 1
      /\ h[0].data = ZeroBlock /\ h[1].data = RootBlock /\ h[2].data = DataBlock(<<EmptyLine>>)
  BY <1>1 DEF FirstHeap, FirstData
<1>3. h \in Heaps(DOMAIN h) /\ DOMAIN h \subseteq Int
  <2>1. \A x \in {0, 1, 2} : FirstData(x) \in Blocks
    BY FirstBlocks DEF FirstData
  <2>2. QED
    BY <1>1, <1>2, <2>1 DEF FirstHeap, Heaps
<1>4. IsFiniteSet(DOMAIN h)
  <2>1. DOMAIN h = 0 .. 2
    BY <1>2
  <2>2. QED
    BY <2>1, FS_Interval, 0 \in Int, 2 \in Int
<1>5. MemTypes(m)
  <2>1. m.used \in Seq(Headers)
    BY DEF Fresh, NewHead
  <2>2. m.trans \in [DOMAIN m.trans -> Nat] /\ DOMAIN m.trans \subseteq Int
    BY DEF Fresh
  <2>3. m.disk \in [0 .. (m.infile_count - 1) -> FilePages]
    BY NoPages DEF Fresh
  <2>4. /\ m.free \in Seq(FreeRanges) /\ m.blocknr_max \in Nat /\ m.blocknr_min \in Int
        /\ m.infile_count \in Nat /\ m.neg_count \in Int
    BY DEF Fresh
  <2>5. m.dirty \in BOOLEAN /\ m.fd \in BOOLEAN /\ m.may_swap \in BOOLEAN
    BY DEF Fresh
  <2>6. QED
    BY <2>1, <2>2, <2>3, <2>4, <2>5 DEF MemTypes, Fresh
<1>6. DOMAIN m.trans = {} /\ \A x : Translated(m, x) = x
  BY DEF Fresh, Translated
<1>7. DOMAIN m.used = {1, 2, 3} /\ m.used[1] = u2 /\ m.used[2] = u1 /\ m.used[3] = u0
  BY DEF Fresh
<1>8. UsedInv(m, h, {})
  <2>1. \A i \in DOMAIN m.used : \E x \in DOMAIN h :
            /\ m.used[i].b = Translated(m, x)
            /\ m.used[i].pages = h[x].pages /\ m.used[i].data = h[x].data
    BY <1>2, <1>6, <1>7 DEF NewHead
  <2>2. \A i, k \in DOMAIN m.used : m.used[i].b = m.used[k].b => i = k
    BY <1>7 DEF NewHead
  <2>3. \A i \in DOMAIN m.used : m.used[i].dirty
    BY <1>7 DEF NewHead
  <2>4. QED
    BY <2>1, <2>2, <2>3 DEF UsedInv
<1>9. SavedInv(m, h)
  BY <1>2, <1>6, <1>7 DEF NewHead, SavedInv, InMemory
<1>10. NumbersInv(m, h)
  <2>1. DOMAIN m.free = {} /\ m.blocknr_max = 3 /\ m.blocknr_min = -1 /\ m.neg_count = 0
    BY DEF Fresh
  <2>2. \A x \in DOMAIN h : x > m.blocknr_min /\ Clear(m, Translated(m, x), h[x].pages)
    BY <1>2, <1>6, <2>1 DEF Clear
  <2>3. \A x, y \in DOMAIN h :
          x # y => Separate(Translated(m, x), h[x].pages, Translated(m, y), h[y].pages)
    BY <1>2, <1>6 DEF Separate
  <2>4. FreeInv(m)
    BY <2>1 DEF FreeInv
  <2>5. m.neg_count = Cardinality({x \in DOMAIN h : x < 0})
    <3>1. {x \in DOMAIN h : x < 0} = {}
      BY <1>2
    <3>2. QED
      BY <2>1, <3>1, FS_EmptySet
  <2>6. QED
    BY <1>6, <2>1, <2>2, <2>3, <2>4, <2>5 DEF NumbersInv
<1>11. m.infile_count <= m.blocknr_max /\ (~m.fd => m.infile_count = 0)
  BY DEF Fresh
<1>12. QED
  BY <1>1, <1>3, <1>4, <1>5, <1>8, <1>9, <1>10, <1>11 DEF MemInv

\* Its blocks are a tree with one empty line.
LEMMA FirstTree ==
  /\ Tree(FirstHeap) /\ Rooted(FirstHeap) /\ Counted(FirstHeap, NotLocked, 0, 0)
  /\ Flat(FirstHeap) = <<EmptyLine>>
<1>1. PICK h : h = FirstHeap
  OBVIOUS
<1>2. /\ DOMAIN h = {0, 1, 2} /\ \A x \in {0, 1, 2} : h[x].pages = 1
      /\ h[0].data = ZeroBlock /\ h[1].data = RootBlock /\ h[2].data = DataBlock(<<EmptyLine>>)
  BY <1>1 DEF FirstHeap, FirstData
<1>3. PICK e : EntryOf(e, 2, 1, 1) /\ RootBlock.ptrs = <<e>>
  BY FirstBlocks
<1>4. /\ Ptrs(h) = <<e>> /\ Len(Ptrs(h)) = 1 /\ DOMAIN Ptrs(h) = {1} /\ Ptrs(h)[1] = e
      /\ e \in Entries /\ e.b = 2 /\ e.pages = 1 /\ e.count = 1
  BY <1>2, <1>3 DEF Ptrs, EntryOf
<1>5. EmptyLine \in LineNumbers
  BY SwapAssumption DEF EmptyLine, LineNumbers
<1>6. /\ h[2].data.lines = <<EmptyLine>> /\ h[2].data.id = "data" /\ h[0].data.id = "zero"
      /\ h[1].data.id = "ptr" /\ h[1].data \in Blocks
  BY <1>2, FirstBlocks
<1>7. TreeOf(h, Ptrs(h))
  <2>1. PICK p : p = Ptrs(h)
    OBVIOUS
  <2>2. p # <<>> /\ DOMAIN p = {1} /\ p[1].b = 2 /\ p[1].pages = 1
    BY <1>4, <2>1
  <2>3. {p[i].b : i \in DOMAIN p} = {2}
    BY <2>2
  <2>4. DOMAIN h = {0, 1} \cup {p[i].b : i \in DOMAIN p}
    BY <1>2, <2>3
  <2>5. /\ {0, 1} \subseteq DOMAIN h /\ h[0].pages = 1 /\ h[1].pages = 1 /\ h[2].pages = 1
    BY <1>2
  <2>6. h[2].data.lines # <<>>
    BY <1>6
  <2>7. QED
    BY <1>6, <2>1, <2>2, <2>4, <2>5, <2>6, ZenonT(30) DEF TreeOf
<1>8. Tree(h)
  BY <1>7, TreeIs DEF Ptrs
<1>9. Rooted(h)
  <2>1. 1 \in DOMAIN h /\ h[1].pages = 1 /\ Ptrs(h) \in Seq(Entries)
    BY <1>2, <1>4
  <2>2. h[2].data.lines \in Seq(LineNumbers) /\ 2 \in DOMAIN h
    <3>1. <<EmptyLine>> \in Seq(LineNumbers)
      BY <1>5
    <3>2. QED
      BY <1>2, <1>6, <3>1
  <2>3. DOMAIN Ptrs(h) = 1 .. Len(Ptrs(h))
    BY <1>4
  <2>4. \A k \in DOMAIN Ptrs(h) : Ptrs(h)[k].b = 2
    BY <1>4
  <2>5. QED
    BY <1>6, <2>1, <2>2, <2>3, <2>4 DEF Rooted
<1>10. Counted(h, NotLocked, 0, 0)
  <2>1. NotLocked.at = 0
    BY NothingLocked
  <2>2. Len(<<EmptyLine>>) = 1
    OBVIOUS
  <2>3. Ptrs(h)[1].count = Len(h[Ptrs(h)[1].b].data.lines)
    BY <1>4, <1>6, <2>2
  <2>4. \A k \in DOMAIN Ptrs(h) : k = 1 /\ Ptrs(h)[k].count = 1
    BY <1>4
  <2>5. \A k \in DOMAIN Ptrs(h) : Ptrs(h)[k].count + (IF NotLocked.at = k THEN NotLocked.add ELSE 0)
             = Len(h[Ptrs(h)[k].b].data.lines) + (IF k = 0 THEN 0 ELSE 0)
    BY <1>4, <1>6, <2>1, <2>2, <2>4, ZenonT(30)
  <2>6. QED
    BY <2>5 DEF Counted, Ptrs
<1>11. Flat(h) = <<EmptyLine>>
  <2>1. Rows(h) = <<<<EmptyLine>>>>
    BY <1>4, <1>6 DEF Rows
  <2>2. <<EmptyLine>> \in Seq(LineNumbers)
    BY <1>5
  <2>3. QED
    BY <2>1, <2>2, FlatOne DEF Flat
<1>12. QED
  BY <1>1, <1>8, <1>9, <1>10, <1>11

\* The invariant holds of a buffer ml_open has made.
LEMMA SwapInit ==
  ASSUME Init
  PROVE  SwapInv /\ text = <<EmptyLine>> /\ EmptyLine \in LineNumbers
<1>1. MemInv(mf, FirstHeap, {})
  <2>1. PICK u2, u1, u0 : /\ NewHead(u2, 2, DataBlock(<<EmptyLine>>))
                          /\ NewHead(u1, 1, RootBlock) /\ NewHead(u0, 0, ZeroBlock)
                          /\ Fresh(mf, u2, u1, u0)
    BY InitFresh
  <2>2. QED
    BY <2>1, FreshMem
<1>2. /\ locked = NotLocked /\ next = 1 /\ changes = 0 /\ original = TRUE /\ kept = "no"
      /\ text = <<EmptyLine>>
  BY DEF Init
<1>3. Now.m = mf /\ Now.l = locked /\ Now.ok = TRUE /\ IsState(Now)
  BY DEF Now, IsState
<1>4. LockedInv(mf, FirstHeap, NotLocked) /\ Pending(NotLocked) = {}
  BY NothingLocked
<1>5. Buf(Now, FirstHeap, 0, 0)
  BY <1>1, <1>2, <1>3, <1>4, FirstTree DEF Buf, Half
<1>6. text = Text(mf)
  BY <1>1, <1>2, FirstTree, TextIs
<1>7. Stands(mf, locked, text)
  BY <1>3, <1>5, <1>6, BufStands
<1>8. BufferInv(Now, Heap(mf), 0, 0) /\ LineCount(Now) = Len(text)
  BY <1>7 DEF Stands, Now
<1>9. Len(text) = 1
  BY <1>2
<1>10. ReadInv
  BY <1>2, <1>6, <1>8, <1>9, SwapAssumption DEF ReadInv
<1>11. EmptyLine \in LineNumbers
  BY SwapAssumption DEF EmptyLine, LineNumbers
<1>12. QED
  BY <1>2, <1>8, <1>10, <1>11 DEF SwapInv

-----------------------------------------------------------------------------
\* SwapInv always holds: the blocks in memory and on disk are those of the tree of block
\* 1, with right counts, and what is not in memory is on disk.
THEOREM SwapInvariance == Spec => []SwapInv
<1>1. Init => SwapInv
  BY SwapInit
<1>2. SwapInv /\ [Next]_vars => SwapInv'
  BY SwapStep
<1>3. QED
  BY <1>1, <1>2, PTL DEF Spec

\* Every step keeps a swap file that is to hold the whole text whole, or gives it up.
LEMMA WholeStep ==
  ASSUME RecoveryInv, [Next]_vars
  PROVE  WholeInv'
<1>0. /\ SwapInv /\ (next # 0 => kept = "no")
      /\ kept = "whole" => Entire(mf, locked)
  BY DEF RecoveryInv, WholeInv, Entire, Unchanged
<1>1. SUFFICES /\ next' # 0 => kept' = "no"
               /\ kept' = "whole" => Entire(mf', locked')
  BY DEF WholeInv, Entire, Unchanged, Clean
<1>2. CASE ReadFirst \/ ReadLine \/ ReadEnd
  <2>1. kept' = kept
    BY <1>2 DEF ReadFirst, ReadLine, ReadEnd
  <2>2. next = 1 \/ next \in 2 .. FileLines \/ next = FileLines + 1
    BY <1>2 DEF ReadFirst, ReadLine, ReadEnd
  <2>3. next # 0
    BY <2>2, SwapAssumption
  <2>4. QED
    BY <1>0, <2>1, <2>3
<1>3. CASE Insert \/ Replace \/ Delete
  BY <1>3 DEF Insert, Replace, Delete, Changed
<1>4. CASE Get \/ OutOfMemory \/ Preserve \/ SyncAll
  <2>1. StaysEntire
    BY <1>0, <1>4, GetStep, OutOfMemoryStep, PreserveStep, SyncAllStep
  <2>2. next = 0 /\ next' = next
    BY <1>4 DEF Get, OutOfMemory, Preserve, SyncAll
  <2>3. QED
    BY <1>0, <2>1, <2>2 DEF StaysEntire
<1>5. CASE Overwritten \/ UNCHANGED vars
  <2>1. /\ mf' = mf /\ locked' = locked /\ next' = next /\ kept' \in {"no", kept}
    BY <1>5 DEF Overwritten, vars
  <2>2. QED
    BY <1>0, <2>1
<1>6. QED
  BY <1>2, <1>3, <1>4, <1>5 DEF Next

\* RecoveryInv always holds: besides SwapInv, that a :preserve that succeeded and was not
\* broken off, and a sync that came to its end with no negative number left, leave nothing
\* that is to be written, and that it stays so until the text is changed, whatever is read,
\* evicted and synced.
THEOREM Recovery == Spec => []RecoveryInv
<1>1. Init => RecoveryInv
  <2>1. Init => kept = "no"
    BY DEF Init
  <2>2. QED
    BY <2>1, SwapInit DEF RecoveryInv, WholeInv
<1>2. RecoveryInv /\ [Next]_vars => RecoveryInv'
  <2>1. RecoveryInv => SwapInv
    BY DEF RecoveryInv
  <2>2. QED
    BY <2>1, SwapStep, WholeStep DEF RecoveryInv
<1>3. QED
  BY <1>1, <1>2, PTL DEF Spec

-----------------------------------------------------------------------------
(* The invariants of the runs.                                             *)

\* Sets that correspond one to one are of the same size.
LEMMA SameSize ==
  ASSUME NEW S, NEW T, IsFiniteSet(S), NEW f \in [S -> T],
         \A a, b \in S : f[a] = f[b] => a = b, \A t \in T : \E s \in S : f[s] = t
  PROVE  IsFiniteSet(T) /\ Cardinality(T) = Cardinality(S)
<1>1. f \in Bijection(S, T)
  BY Fun_IsBij
<1>2. ExistsBijection(S, T)
  BY <1>1 DEF ExistsBijection
<1>3. QED
  BY <1>2, FS_Bijection

\* What the invariant says of the memory file and of the entries of block 1.
LEMMA InvMem ==
  ASSUME SwapInv
  PROVE  \E h : /\ MemInv(mf, h, Pending(locked)) /\ Rooted(h) /\ TreeOf(h, Pointers(mf))
                /\ LockedInv(mf, h, locked) /\ Pointers(mf) = Ptrs(h)
                /\ DOMAIN Pointers(mf) = 1 .. Len(Pointers(mf)) /\ Len(Pointers(mf)) \in Nat
<1>1. PICK h : h = Heap(mf)
  OBVIOUS
<1>2. Buf(Now, h, 0, 0) /\ Now.m = mf /\ Now.l = locked
  BY <1>1, InvBuf
<1>3. MemInv(mf, h, Pending(locked)) /\ Rooted(h) /\ Tree(h)
  BY <1>2, BufHeld
<1>4. Pointers(mf) = Ptrs(h)
  BY <1>3, PointersAre
<1>5. TreeOf(h, Pointers(mf))
  BY <1>3, <1>4, TreeIs DEF Ptrs
<1>6. LockedInv(mf, h, locked)
  BY <1>2 DEF Buf, Half
<1>7. DOMAIN Ptrs(h) = 1 .. Len(Ptrs(h)) /\ Len(Ptrs(h)) \in Nat
  BY <1>3 DEF Rooted
<1>8. QED
  BY <1>3, <1>4, <1>5, <1>6, <1>7

\* The invariant has the types.
LEMMA InvTypes ==
  ASSUME SwapInv
  PROVE  TypeOK
<1>1. PICK h : /\ MemInv(mf, h, Pending(locked)) /\ LockedInv(mf, h, locked)
               /\ Pointers(mf) = Ptrs(h)
               /\ DOMAIN Pointers(mf) = 1 .. Len(Pointers(mf)) /\ Len(Pointers(mf)) \in Nat
  BY InvMem
<1>2. MemTypes(mf) /\ mf.infile_count <= mf.blocknr_max
  BY <1>1 DEF MemInv
<1>3. /\ DOMAIN mf.used = 1 .. Len(mf.used) /\ mf.blocknr_max \in Nat /\ mf.blocknr_min \in Int
      /\ \A i \in DOMAIN mf.used : mf.used[i].b \in Int
  BY <1>2, MemFields
<1>4. \A i \in 1 .. Len(mf.used) :
          mf.used[i].b \in (mf.blocknr_min + 1) .. (mf.blocknr_max - 1)
  <2> SUFFICES ASSUME NEW i \in DOMAIN mf.used
               PROVE  mf.used[i].b \in (mf.blocknr_min + 1) .. (mf.blocknr_max - 1)
    BY <1>3
  <2>1. PICK b : b = mf.used[i].b
    OBVIOUS
  <2>2. b \in Int /\ b < mf.blocknr_max /\ (b < 0 => b \in DOMAIN h)
    BY <1>1, <1>3, <2>1, NameOf
  <2>3. mf.blocknr_min < 0 /\ \A x \in DOMAIN h : x > mf.blocknr_min
    BY <1>1 DEF MemInv, NumbersInv
  <2>4. b > mf.blocknr_min
    <3>1. CASE b < 0
      BY <2>2, <2>3, <3>1
    <3>2. CASE ~(b < 0)
      BY <1>3, <2>2, <2>3, <3>2
    <3>3. QED
      BY <3>1, <3>2
  <2>5. QED
    BY <1>3, <2>1, <2>2, <2>4
<1>5. locked \in [at : 0 .. Len(Pointers(mf)), b : Int, dirty : BOOLEAN, pos : BOOLEAN, add : Int]
  <2>1. CASE locked = NotLocked
    BY <1>1, <2>1 DEF NotLocked, Lock
  <2>2. CASE locked # NotLocked
    <3>1. /\ locked \in [at : Nat \ {0}, b : Int, dirty : BOOLEAN, pos : BOOLEAN, add : Int]
          /\ locked.at \in DOMAIN Ptrs(h)
      BY <1>1, <2>2 DEF LockedInv, Ptrs
    <3>2. locked.at \in 0 .. Len(Pointers(mf))
      BY <1>1, <3>1
    <3>3. QED
      BY <3>1, <3>2
  <2>3. QED
    BY <2>1, <2>2
<1>6. /\ next \in 0 .. (FileLines + 1) /\ changes \in 0 .. MaxChanges
      /\ original \in BOOLEAN /\ kept \in {"no", "synced", "whole"}
  BY DEF SwapInv, ReadInv
<1>7. QED
  BY <1>2, <1>4, <1>5, <1>6 DEF TypeOK

\* What is on disk is read as it is.
LEMMA DiskReads ==
  ASSUME NEW m, MemTypes(m), NEW b \in Int, NEW pages \in Nat \ {0}, NEW data,
         OnDisk(m, b, pages, data)
  PROVE  InFile(m, b, pages) /\ ReadBlock(m, b, pages) = data /\ m.disk[b] = Page(data, 0, pages)
<1>1. DOMAIN m.disk = 0 .. (m.infile_count - 1) /\ m.infile_count \in Nat
  BY MemFields
<1>2. /\ m.fd /\ b >= 0 /\ b + pages <= m.infile_count
      /\ \A p \in b .. (b + pages - 1) : m.disk[p] = Page(data, p - b, pages)
  BY DEF OnDisk
<1>3. \A p \in b .. (b + pages - 1) : m.disk[p].data = data /\ m.disk[p].k = p - b
  BY <1>2, PageFields
<1>4. b \in b .. (b + pages - 1) /\ b - b = 0
  OBVIOUS
<1>5. ReadBlock(m, b, pages) = data
  BY <1>3, <1>4 DEF ReadBlock
<1>6. InFile(m, b, pages)
  BY <1>1, <1>2 DEF InFile
<1>7. QED
  BY <1>2, <1>4, <1>5, <1>6

\* What is clean can be read back from the file as it is.
LEMMA InvClean ==
  ASSUME SwapInv
  PROVE  CleanIsInFile
<1>1. PICK h : /\ MemInv(mf, h, Pending(locked))
  BY InvMem
<1>2. MemTypes(mf)
  BY <1>1 DEF MemInv
<1>3. DOMAIN mf.used = 1 .. Len(mf.used) /\ DOMAIN mf.disk = 0 .. (mf.infile_count - 1)
      /\ mf.infile_count \in Nat
  BY <1>2, MemFields
<1> SUFFICES ASSUME NEW i \in DOMAIN mf.used
             PROVE  \/ mf.used[i].dirty
                    \/ (locked.at # 0 /\ locked.b = mf.used[i].b /\ locked.dirty)
                    \/ (/\ mf.used[i].b >= 0 /\ InFile(mf, mf.used[i].b, mf.used[i].pages)
                        /\ ReadBlock(mf, mf.used[i].b, mf.used[i].pages) = mf.used[i].data)
  BY <1>3 DEF CleanIsInFile
<1>4. PICK b, pages, data : b = mf.used[i].b /\ pages = mf.used[i].pages /\ data = mf.used[i].data
  OBVIOUS
<1>5. b \in Int /\ pages \in Nat \ {0}
  BY <1>2, <1>4, MemFields
<1>6. mf.used[i].dirty \/ b \in Pending(locked) \/ OnDisk(mf, b, pages, data)
  BY <1>1, <1>4 DEF MemInv, UsedInv
<1>7. b \in Pending(locked) => locked.at # 0 /\ locked.b = b /\ locked.dirty
  BY DEF Pending
<1>8. OnDisk(mf, b, pages, data) =>
        b >= 0 /\ InFile(mf, b, pages) /\ ReadBlock(mf, b, pages) = data
  BY <1>2, <1>5, DiskReads DEF OnDisk
<1>9. QED
  BY <1>4, <1>6, <1>7, <1>8

\* The count of negative numbers is that of the entries that have one.
LEMMA InvCounted ==
  ASSUME SwapInv
  PROVE  NegativesCounted
<1>1. PICK h : /\ MemInv(mf, h, Pending(locked)) /\ TreeOf(h, Pointers(mf))
               /\ DOMAIN Pointers(mf) = 1 .. Len(Pointers(mf)) /\ Len(Pointers(mf)) \in Nat
  BY InvMem
<1>2. PICK p : p = Pointers(mf)
  OBVIOUS
<1>3. PICK S, T : S = {i \in 1 .. Len(p) : p[i].b < 0} /\ T = {x \in DOMAIN h : x < 0}
  OBVIOUS
<1>4. IsFiniteSet(S)
  <2>1. IsFiniteSet(1 .. Len(p))
    BY <1>1, <1>2, FS_Interval, 1 \in Int
  <2>2. QED
    BY <1>3, <2>1, FS_Subset
<1>5. PICK f : f = [i \in S |-> p[i].b]
  OBVIOUS
<1>6. f \in [S -> T] /\ \A i \in S : f[i] = p[i].b
  <2>1. \A i \in S : p[i].b \in T
    BY <1>1, <1>2, <1>3 DEF TreeOf
  <2>2. QED
    BY <1>5, <2>1
<1>7. \A a, b \in S : f[a] = f[b] => a = b
  BY <1>1, <1>2, <1>3, <1>6 DEF TreeOf
<1>8. \A t \in T : \E s \in S : f[s] = t
  <2> SUFFICES ASSUME NEW t \in T PROVE \E s \in S : f[s] = t
    OBVIOUS
  <2>1. t \in DOMAIN h /\ t < 0
    BY <1>3
  <2>2. t \notin {0, 1}
    BY <2>1
  <2>3. PICK i \in DOMAIN p : p[i].b = t
    BY <1>1, <1>2, <2>1, <2>2 DEF TreeOf
  <2>4. i \in S
    BY <1>1, <1>2, <1>3, <2>1, <2>3
  <2>5. QED
    BY <1>6, <2>3, <2>4
<1>9. Cardinality(T) = Cardinality(S)
  BY <1>4, <1>6, <1>7, <1>8, SameSize
<1>10. mf.neg_count = Cardinality(T)
  BY <1>1, <1>3 DEF MemInv, NumbersInv
<1>11. QED
  BY <1>2, <1>3, <1>9, <1>10 DEF NegativesCounted

-----------------------------------------------------------------------------
(* No page has two owners.                                                 *)

\* Separate blocks have no page in common.
LEMMA PagesApart ==
  ASSUME NEW a \in Int, NEW p \in Nat \ {0}, NEW b \in Int, NEW q \in Nat \ {0},
         Separate(a, p, b, q)
  PROVE  Pages(a, p) \cap Pages(b, q) = {} /\ Pages(a, p) # Pages(b, q)
<1>1. Pages(a, p) \cap Pages(b, q) = {}
  BY DEF Pages, Separate
<1>2. a \in Pages(a, p)
  BY DEF Pages
<1>3. QED
  BY <1>1, <1>2

\* N ranges of pages that do not overlap
Family(N, B, P) ==
  /\ N \in Nat
  /\ \A k \in 1 .. N : B[k] \in Int /\ P[k] \in Nat \ {0}
  /\ \A k, l \in 1 .. N : k # l => Separate(B[k], P[k], B[l], P[l])
OwnersOf(N, B, P, S) ==
  /\ \A k \in 1 .. N : Pages(B[k], P[k]) \in S
  /\ \A s \in S : \E k \in 1 .. N : s = Pages(B[k], P[k])

\* N ranges that do not overlap are N sets that do not.
LEMMA FamilyApart ==
  ASSUME NEW N, NEW B, NEW P, Family(N, B, P), NEW S, OwnersOf(N, B, P, S)
  PROVE  (\A s, t \in S : s # t => s \cap t = {}) /\ Cardinality(S) = N
<1>1. \A k, l \in 1 .. N : k # l => /\ Pages(B[k], P[k]) \cap Pages(B[l], P[l]) = {}
                                    /\ Pages(B[k], P[k]) # Pages(B[l], P[l])
  BY PagesApart DEF Family
<1>2. \A s, t \in S : s # t => s \cap t = {}
  BY <1>1 DEF OwnersOf
<1>3. PICK f : f = [k \in 1 .. N |-> Pages(B[k], P[k])]
  OBVIOUS
<1>4. f \in [1 .. N -> S] /\ \A k \in 1 .. N : f[k] = Pages(B[k], P[k])
  BY <1>3 DEF OwnersOf
<1>5. \A a, b \in 1 .. N : f[a] = f[b] => a = b
  BY <1>1, <1>4
<1>6. \A s \in S : \E k \in 1 .. N : f[k] = s
  BY <1>4 DEF OwnersOf
<1>7. N \in Nat /\ IsFiniteSet(1 .. N) /\ Cardinality(1 .. N) = N
  <2>1. N \in Int /\ 1 \in Int /\ N \in Nat
    BY DEF Family
  <2>2. IsFiniteSet(1 .. N) /\ Cardinality(1 .. N) = IF 1 > N THEN 0 ELSE N - 1 + 1
    BY <2>1, FS_Interval
  <2>3. QED
    BY <2>1, <2>2
<1>8. Cardinality(S) = Cardinality(1 .. N)
  BY <1>4, <1>5, <1>6, <1>7, SameSize
<1>9. QED
  BY <1>2, <1>7, <1>8

\* The names of the blocks of the tree, numbered.
NameAt(p, k) == IF k <= 2 THEN k - 1 ELSE p[k - 2].b
Numbers(m, p) ==
  [k \in 1 .. (2 + Len(p) + Len(m.free)) |->
      IF k <= 2 + Len(p) THEN Translated(m, NameAt(p, k)) ELSE m.free[k - 2 - Len(p)].b]
Extents(m, h, p) ==
  [k \in 1 .. (2 + Len(p) + Len(m.free)) |->
      IF k <= 2 + Len(p) THEN h[NameAt(p, k)].pages ELSE m.free[k - 2 - Len(p)].pages]

\* The names of the blocks are numbered, each once.
LEMMA NamesAre ==
  ASSUME NEW h, NEW p, TreeOf(h, p), DOMAIN p = 1 .. Len(p), Len(p) \in Nat
  PROVE  /\ \A k \in 1 .. (2 + Len(p)) : NameAt(p, k) \in DOMAIN h
         /\ \A k, l \in 1 .. (2 + Len(p)) : NameAt(p, k) = NameAt(p, l) => k = l
         /\ \A x \in DOMAIN h : \E k \in 1 .. (2 + Len(p)) : NameAt(p, k) = x
<1>0. PICK n : n = Len(p) /\ n \in Nat
  OBVIOUS
<1>1. \A k \in 1 .. (2 + n) : /\ k <= 2 => NameAt(p, k) = k - 1 /\ k - 1 \in {0, 1}
                              /\ ~(k <= 2) => NameAt(p, k) = p[k - 2].b /\ k - 2 \in DOMAIN p
  BY <1>0 DEF NameAt
<1>2. /\ DOMAIN h = {0, 1} \cup {p[i].b : i \in DOMAIN p}
      /\ \A i \in DOMAIN p : p[i].b \notin {0, 1}
      /\ \A i, k \in DOMAIN p : p[i].b = p[k].b => i = k
  BY DEF TreeOf
<1>3. \A k \in 1 .. (2 + n) : NameAt(p, k) \in DOMAIN h
  BY <1>1, <1>2
<1>4. ASSUME NEW k \in 1 .. (2 + n), NEW l \in 1 .. (2 + n), NameAt(p, k) = NameAt(p, l)
      PROVE  k = l
  <2>1. CASE k <= 2 /\ l <= 2
    BY <1>0, <1>1, <1>4, <2>1
  <2>2. CASE ~(k <= 2) /\ ~(l <= 2)
    <3>1. k - 2 = l - 2
      BY <1>1, <1>2, <1>4, <2>2
    <3>2. QED
      BY <1>0, <3>1
  <2>3. CASE (k <= 2) # (l <= 2)
    BY <1>1, <1>2, <1>4, <2>3
  <2>4. QED
    BY <2>1, <2>2, <2>3
<1>5. ASSUME NEW x \in DOMAIN h
      PROVE  \E k \in 1 .. (2 + n) : NameAt(p, k) = x
  <2>1. CASE x \in {0, 1}
    <3>1. PICK k : k = x + 1
      OBVIOUS
    <3>2. k \in 1 .. (2 + n) /\ k <= 2 /\ k - 1 = x
      BY <1>0, <2>1, <3>1
    <3>3. QED
      BY <1>1, <3>2
  <2>2. CASE x \notin {0, 1}
    <3>1. PICK i \in DOMAIN p : p[i].b = x
      BY <1>2, <2>2
    <3>2. PICK k : k = i + 2
      OBVIOUS
    <3>3. k \in 1 .. (2 + n) /\ ~(k <= 2) /\ k - 2 = i
      BY <1>0, <3>2
    <3>4. QED
      BY <1>1, <3>1, <3>3
  <2>3. QED
    BY <2>1, <2>2
<1>6. QED
  BY <1>0, <1>3, <1>4, <1>5

\* Arithmetic of the numbering.
LEMMA Numbering ==
  ASSUME NEW n \in Nat, NEW f \in Nat
  PROVE  /\ 2 + n + f \in Nat
         /\ \A k \in 1 .. (2 + n) : k \in 1 .. (2 + n + f) /\ k <= 2 + n
         /\ \A k \in 1 .. (2 + n + f) : k <= 2 + n => k \in 1 .. (2 + n)
         /\ \A k \in 1 .. (2 + n + f) : ~(k <= 2 + n) => k - 2 - n \in 1 .. f
         /\ \A k, l \in 1 .. (2 + n + f) : k - 2 - n = l - 2 - n => k = l
         /\ \A i \in 1 .. f : \E k \in 1 .. (2 + n + f) : ~(k <= 2 + n) /\ k - 2 - n = i
<1>1. ASSUME NEW i \in 1 .. f
      PROVE  \E k \in 1 .. (2 + n + f) : ~(k <= 2 + n) /\ k - 2 - n = i
  <2>1. 2 + n + i \in 1 .. (2 + n + f) /\ ~(2 + n + i <= 2 + n) /\ (2 + n + i) - 2 - n = i
    OBVIOUS
  <2>2. QED
    BY <2>1
<1>2. QED
  BY <1>1

\* The blocks of the tree and the free ranges do not overlap.
LEMMA AllApart ==
  ASSUME NEW m, NEW h, NEW X, MemInv(m, h, X), NEW p, TreeOf(h, p), DOMAIN p = 1 .. Len(p),
         Len(p) \in Nat
  PROVE  Family(2 + Len(p) + Len(m.free), Numbers(m, p), Extents(m, h, p))
<1>0. PICK n \in Nat, f \in Nat : n = Len(p) /\ f = Len(m.free)
  BY MemFields DEF MemInv
<1> DEFINE T == 2 + n + f
<1>a. /\ T \in Nat
      /\ \A k \in 1 .. (2 + n) : k \in 1 .. T /\ k <= 2 + n
      /\ \A k \in 1 .. T : k <= 2 + n => k \in 1 .. (2 + n)
      /\ \A k \in 1 .. T : ~(k <= 2 + n) => k - 2 - n \in 1 .. f
      /\ \A k, l \in 1 .. T : k - 2 - n = l - 2 - n => k = l
  BY Numbering
<1>1. DOMAIN m.free = 1 .. f /\ \A i \in DOMAIN m.free : m.free[i].b \in Nat
                                                         /\ m.free[i].pages \in Nat \ {0}
  BY <1>0, MemFields DEF MemInv
<1>2. PICK B, P : B = Numbers(m, p) /\ P = Extents(m, h, p)
  OBVIOUS
<1>b. /\ \A k \in 1 .. T : k <= 2 + n => B[k] = Translated(m, NameAt(p, k))
                                       /\ P[k] = h[NameAt(p, k)].pages
      /\ \A k \in 1 .. T : ~(k <= 2 + n) => B[k] = m.free[k - 2 - n].b
                                          /\ P[k] = m.free[k - 2 - n].pages
  <2>1. /\ B = [k \in 1 .. T |-> IF k <= 2 + n THEN Translated(m, NameAt(p, k))
                                              ELSE m.free[k - 2 - n].b]
        /\ P = [k \in 1 .. T |-> IF k <= 2 + n THEN h[NameAt(p, k)].pages
                                              ELSE m.free[k - 2 - n].pages]
    BY <1>0, <1>2 DEF Numbers, Extents
  <2> HIDE DEF T
  <2>2. QED
    BY <2>1
<1>c. \A k \in 1 .. (2 + n) : NameAt(p, k) \in DOMAIN h
  BY <1>0, NamesAre
<1> HIDE DEF T
<1>3. \A k \in 1 .. (2 + n) : \E x \in DOMAIN h :
        x = NameAt(p, k) /\ B[k] = Translated(m, x) /\ P[k] = h[x].pages
  BY <1>a, <1>b, <1>c
<1>4. \A k \in 1 .. T : ~(k <= 2 + n) => \E i \in DOMAIN m.free :
        i = k - 2 - n /\ B[k] = m.free[i].b /\ P[k] = m.free[i].pages
  BY <1>0, <1>1, <1>a, <1>b
<1>5. \A x \in DOMAIN h : Translated(m, x) \in Int /\ h[x].pages \in Nat \ {0}
  BY NameFacts
<1>6. \A k \in 1 .. T : B[k] \in Int /\ P[k] \in Nat \ {0}
  <2> SUFFICES ASSUME NEW k \in 1 .. T PROVE B[k] \in Int /\ P[k] \in Nat \ {0}
    OBVIOUS
  <2>1. CASE k <= 2 + n
    <3>1. k \in 1 .. (2 + n)
      BY <1>a, <2>1
    <3>2. QED
      BY <1>3, <1>5, <3>1
  <2>2. CASE ~(k <= 2 + n)
    <3>1. PICK i \in DOMAIN m.free : B[k] = m.free[i].b /\ P[k] = m.free[i].pages
      BY <1>4, <2>2
    <3>2. m.free[i].b \in Nat /\ m.free[i].pages \in Nat \ {0}
      BY <1>1
    <3>3. QED
      BY <3>1, <3>2
  <2>3. QED
    BY <2>1, <2>2
<1>7. /\ \A x \in DOMAIN h : Clear(m, Translated(m, x), h[x].pages)
      /\ \A x, y \in DOMAIN h :
            x # y => Separate(Translated(m, x), h[x].pages, Translated(m, y), h[y].pages)
      /\ \A i, k \in DOMAIN m.free :
            i # k => Separate(m.free[i].b, m.free[i].pages, m.free[k].b, m.free[k].pages)
      /\ \A x \in DOMAIN h : \A i \in DOMAIN m.free :
            Separate(Translated(m, x), h[x].pages, m.free[i].b, m.free[i].pages)
  BY DEF MemInv, NumbersInv, FreeInv, Clear
<1>8. ASSUME NEW k \in 1 .. T, NEW l \in 1 .. T, k # l, l <= 2 + n => k <= 2 + n
      PROVE  Separate(B[k], P[k], B[l], P[l])
  <2>1. CASE k <= 2 + n /\ l <= 2 + n
    <3>1. k \in 1 .. (2 + n) /\ l \in 1 .. (2 + n)
      BY <1>a, <2>1
    <3>2. PICK x \in DOMAIN h : x = NameAt(p, k) /\ B[k] = Translated(m, x) /\ P[k] = h[x].pages
      BY <1>3, <3>1
    <3>3. PICK y \in DOMAIN h : y = NameAt(p, l) /\ B[l] = Translated(m, y) /\ P[l] = h[y].pages
      BY <1>3, <3>1
    <3>4. x # y
      BY <1>0, <1>8, <3>1, <3>2, <3>3, NamesAre
    <3>5. QED
      BY <1>7, <3>2, <3>3, <3>4
  <2>2. CASE k <= 2 + n /\ ~(l <= 2 + n)
    <3>1. k \in 1 .. (2 + n)
      BY <1>a, <2>2
    <3>2. PICK x \in DOMAIN h : B[k] = Translated(m, x) /\ P[k] = h[x].pages
      BY <1>3, <3>1
    <3>3. PICK i \in DOMAIN m.free : B[l] = m.free[i].b /\ P[l] = m.free[i].pages
      BY <1>4, <2>2
    <3>4. QED
      BY <1>7, <3>2, <3>3
  <2>3. CASE ~(k <= 2 + n) /\ ~(l <= 2 + n)
    <3>1. PICK j \in DOMAIN m.free : j = k - 2 - n /\ B[k] = m.free[j].b /\ P[k] = m.free[j].pages
      BY <1>4, <2>3
    <3>2. PICK i \in DOMAIN m.free : i = l - 2 - n /\ B[l] = m.free[i].b /\ P[l] = m.free[i].pages
      BY <1>4, <2>3
    <3>3. j # i
      BY <1>a, <1>8, <3>1, <3>2
    <3>4. QED
      BY <1>7, <3>1, <3>2, <3>3
  <2>4. QED
    BY <1>8, <2>1, <2>2, <2>3
<1>9. \A k, l \in 1 .. T : k # l => Separate(B[k], P[k], B[l], P[l])
  <2> SUFFICES ASSUME NEW k \in 1 .. T, NEW l \in 1 .. T, k # l
               PROVE  Separate(B[k], P[k], B[l], P[l])
    OBVIOUS
  <2>1. CASE l <= 2 + n => k <= 2 + n
    BY <1>8, <2>1
  <2>2. CASE ~(l <= 2 + n => k <= 2 + n)
    <3>1. k <= 2 + n => l <= 2 + n
      BY <2>2
    <3>2. Separate(B[l], P[l], B[k], P[k])
      BY <1>8, <3>1
    <3>3. QED
      BY <1>6, <3>2, Apart
  <2>3. QED
    BY <2>1, <2>2
<1>10. Family(T, B, P)
  BY <1>6, <1>9, <1>a DEF Family
<1>11. QED
  BY <1>0, <1>2, <1>10 DEF T

\* No page has two owners.
LEMMA InvDisjoint ==
  ASSUME SwapInv
  PROVE  NumbersDisjoint
<1>1. PICK h : /\ MemInv(mf, h, Pending(locked)) /\ TreeOf(h, Pointers(mf))
               /\ DOMAIN Pointers(mf) = 1 .. Len(Pointers(mf)) /\ Len(Pointers(mf)) \in Nat
  BY InvMem
<1>2. PICK p : p = Pointers(mf)
  OBVIOUS
<1>3. PICK n \in Nat, f \in Nat : n = Len(p) /\ f = Len(mf.free)
  BY <1>1, <1>2, MemFields DEF MemInv
<1> DEFINE T == 2 + n + f
<1>a. /\ T \in Nat
      /\ \A k \in 1 .. (2 + n) : k \in 1 .. T /\ k <= 2 + n
      /\ \A k \in 1 .. T : k <= 2 + n => k \in 1 .. (2 + n)
      /\ \A k \in 1 .. T : ~(k <= 2 + n) => k - 2 - n \in 1 .. f
      /\ \A i \in 1 .. f : \E k \in 1 .. T : ~(k <= 2 + n) /\ k - 2 - n = i
  BY Numbering
<1>4. PICK B, P : B = Numbers(mf, p) /\ P = Extents(mf, h, p)
  OBVIOUS
<1>5. Family(T, B, P)
  BY <1>1, <1>2, <1>3, <1>4, AllApart
<1>6. PICK S : S = Owners(p)
  OBVIOUS
<1>7. TreeOf(h, p) /\ DOMAIN p = 1 .. n
  BY <1>1, <1>2, <1>3
<1>8. \A x \in DOMAIN h : Pages(Translated(mf, x), h[x].pages) \in S
  <2> SUFFICES ASSUME NEW x \in DOMAIN h
               PROVE  Pages(Translated(mf, x), h[x].pages) \in S
    OBVIOUS
  <2>1. CASE x \in {0, 1}
    <3>1. Translated(mf, x) = x
      BY <1>1, <2>1, NameFacts
    <3>2. h[x].pages = 1
      BY <1>7, <2>1 DEF TreeOf
    <3>3. QED
      BY <1>6, <2>1, <3>1, <3>2 DEF Owners
  <2>2. CASE x \notin {0, 1}
    <3>1. PICK i \in DOMAIN p : p[i].b = x
      BY <1>7, <2>2 DEF TreeOf
    <3>2. p[i].pages = h[x].pages /\ i \in 1 .. Len(p)
      BY <1>3, <1>7, <3>1 DEF TreeOf
    <3>3. QED
      BY <1>6, <3>1, <3>2 DEF Owners, EntryB
  <2>3. QED
    BY <2>1, <2>2
<1>9. \A i \in DOMAIN mf.free : Pages(mf.free[i].b, mf.free[i].pages) \in S
  <2>1. DOMAIN mf.free = 1 .. Len(mf.free)
    BY <1>1, MemFields DEF MemInv
  <2>2. QED
    BY <1>6, <2>1 DEF Owners
<1>10. \A s \in S : \/ \E x \in DOMAIN h : s = Pages(Translated(mf, x), h[x].pages)
                    \/ \E i \in DOMAIN mf.free : s = Pages(mf.free[i].b, mf.free[i].pages)
  <2> SUFFICES ASSUME NEW s \in S
               PROVE  \/ \E x \in DOMAIN h : s = Pages(Translated(mf, x), h[x].pages)
                      \/ \E i \in DOMAIN mf.free : s = Pages(mf.free[i].b, mf.free[i].pages)
    OBVIOUS
  <2>1. CASE s \in {Pages(0, 1), Pages(1, 1)}
    <3>1. PICK x \in {0, 1} : s = Pages(x, 1)
      BY <2>1
    <3>2. x \in DOMAIN h /\ h[x].pages = 1
      BY <1>7, <3>1 DEF TreeOf
    <3>3. Translated(mf, x) = x
      BY <1>1, <3>1, <3>2, NameFacts
    <3>4. QED
      BY <3>1, <3>2, <3>3
  <2>2. CASE \E i \in 1 .. Len(p) : s = Pages(EntryB(p[i]), p[i].pages)
    <3>1. PICK i \in DOMAIN p : s = Pages(EntryB(p[i]), p[i].pages)
      BY <1>3, <1>7, <2>2
    <3>2. p[i].b \in DOMAIN h /\ p[i].pages = h[p[i].b].pages
      BY <1>7, <3>1 DEF TreeOf
    <3>3. QED
      BY <3>1, <3>2 DEF EntryB
  <2>3. CASE \E i \in 1 .. Len(mf.free) : s = Pages(mf.free[i].b, mf.free[i].pages)
    <3>1. DOMAIN mf.free = 1 .. Len(mf.free)
      BY <1>1, MemFields DEF MemInv
    <3>2. QED
      BY <2>3, <3>1
  <2>4. QED
    BY <1>6, <2>1, <2>2, <2>3 DEF Owners
<1>11. /\ \A k \in 1 .. (2 + n) : NameAt(p, k) \in DOMAIN h
       /\ \A x \in DOMAIN h : \E k \in 1 .. (2 + n) : NameAt(p, k) = x
  BY <1>3, <1>7, NamesAre
<1>12. /\ \A k \in 1 .. (T) : k <= 2 + n => /\ B[k] = Translated(mf, NameAt(p, k))
                                                   /\ P[k] = h[NameAt(p, k)].pages
       /\ \A k \in 1 .. (T) : ~(k <= 2 + n) => /\ B[k] = mf.free[k - 2 - n].b
                                                      /\ P[k] = mf.free[k - 2 - n].pages
  <2>1. /\ B = [k \in 1 .. T |-> IF k <= 2 + n THEN Translated(mf, NameAt(p, k))
                                              ELSE mf.free[k - 2 - n].b]
        /\ P = [k \in 1 .. T |-> IF k <= 2 + n THEN h[NameAt(p, k)].pages
                                              ELSE mf.free[k - 2 - n].pages]
    BY <1>3, <1>4 DEF Numbers, Extents
  <2> HIDE DEF T
  <2>2. QED
    BY <2>1
<1>13. DOMAIN mf.free = 1 .. f
  BY <1>1, <1>3, MemFields DEF MemInv
<1> HIDE DEF T
<1>14. OwnersOf(T, B, P, S)
  <2>1. ASSUME NEW k \in 1 .. (T) PROVE Pages(B[k], P[k]) \in S
    <3>1. CASE k <= 2 + n
      <4>1. k \in 1 .. (2 + n)
        BY <1>a, <3>1
      <4>2. QED
        BY <1>8, <1>11, <1>12, <3>1, <4>1
    <3>2. CASE ~(k <= 2 + n)
      <4>1. k - 2 - n \in DOMAIN mf.free
        BY <1>a, <1>13, <3>2
      <4>2. QED
        BY <1>9, <1>12, <3>2, <4>1
    <3>3. QED
      BY <3>1, <3>2
  <2>2. ASSUME NEW x \in DOMAIN h
        PROVE  \E k \in 1 .. (T) : Pages(Translated(mf, x), h[x].pages) = Pages(B[k], P[k])
    <3>1. PICK k \in 1 .. (2 + n) : NameAt(p, k) = x
      BY <1>11
    <3>2. k \in 1 .. (T) /\ k <= 2 + n
      BY <1>a
    <3>3. QED
      BY <1>12, <3>1, <3>2
  <2>3. ASSUME NEW i \in DOMAIN mf.free
        PROVE  \E k \in 1 .. (T) :
                  Pages(mf.free[i].b, mf.free[i].pages) = Pages(B[k], P[k])
    <3>1. PICK k \in 1 .. T : ~(k <= 2 + n) /\ k - 2 - n = i
      BY <1>a, <1>13
    <3>2. QED
      BY <1>12, <3>1
  <2>4. QED
    BY <1>10, <2>1, <2>2, <2>3 DEF OwnersOf
<1>15. (\A s, t \in S : s # t => s \cap t = {}) /\ Cardinality(S) = T
  BY <1>5, <1>14, FamilyApart
<1>16. \A i \in 1 .. Len(mf.used) : Pages(mf.used[i].b, mf.used[i].pages) \in S
  <2>1. DOMAIN mf.used = 1 .. Len(mf.used)
    BY <1>1, MemFields DEF MemInv
  <2>2. \A i \in DOMAIN mf.used : \E x \in DOMAIN h :
            mf.used[i].b = Translated(mf, x) /\ mf.used[i].pages = h[x].pages
    BY <1>1 DEF MemInv, UsedInv
  <2>3. QED
    BY <1>8, <2>1, <2>2
<1>17. QED
  BY <1>2, <1>3, <1>6, <1>15, <1>16 DEF NumbersDisjoint, T

\* What the runs check, for every value of the constants.
THEOREM Types == Spec => []TypeOK
BY SwapInvariance, InvTypes, PTL

\* BlockNumbers always holds: mf_new, mf_trans_add, mf_trans_del and mf_free give out,
\* exchange and take back numbers so that no page of the file has two owners, and count
\* the negative ones, whatever is inserted, deleted, written and evicted.
THEOREM BlocksNumbered == Spec => []BlockNumbers
<1>1. SwapInv => BlockNumbers
  BY InvDisjoint, InvCounted DEF BlockNumbers
<1>2. QED
  BY <1>1, SwapInvariance, PTL

\* CleanIsInFile always holds: a block mf_release gives up without a write can be read
\* back.
THEOREM CleanInFile == Spec => []CleanIsInFile
BY SwapInvariance, InvClean, PTL

\* When every number is positive and nothing is to be written, all blocks are on disk
\* under the names the tree has for them.
LEMMA AllOnDisk ==
  ASSUME NEW m, NEW h, MemInv(m, h, {}), Clean(m), NEW x \in DOMAIN h
  PROVE  x >= 0 /\ OnDisk(m, x, h[x].pages, h[x].data)
<1>1. x >= 0
  BY NoneNegative DEF Clean
<1>2. Translated(m, x) = x
  BY <1>1, NameFacts
<1>3. CASE InMemory(m, x)
  <2>1. PICK k \in DOMAIN m.used : m.used[k].b = x
    BY <1>3 DEF InMemory
  <2>2. m.used[k].pages = h[x].pages /\ m.used[k].data = h[x].data
    BY <1>2, <2>1, NameOf
  <2>3. m.used[k].dirty \/ OnDisk(m, m.used[k].b, m.used[k].pages, m.used[k].data)
    BY DEF MemInv, UsedInv
  <2>4. QED
    BY <1>1, <2>1, <2>2, <2>3 DEF Clean
<1>4. CASE ~InMemory(m, x)
  <2>1. OnDisk(m, Translated(m, x), h[x].pages, h[x].data)
    BY <1>2, <1>4 DEF MemInv, SavedInv
  <2>2. QED
    BY <1>1, <1>2, <2>1
<1>5. QED
  BY <1>3, <1>4

\* Then ml_recover finds all lines.
LEMMA WholeRecovers ==
  ASSUME SwapInv, Clean(mf), ~locked.dirty, locked.add = 0
  PROVE  Recovered = text
<1>1. PICK h : h = Heap(mf)
  OBVIOUS
<1>2. Buf(Now, h, 0, 0) /\ Now.m = mf /\ Now.l = locked /\ text = Flat(h)
  BY <1>1, InvBuf
<1>3. MemInv(mf, h, {}) /\ Rooted(h) /\ Tree(h)
  <2>1. MemInv(mf, h, Pending(locked)) /\ Rooted(h) /\ Tree(h)
    BY <1>2, BufHeld
  <2>2. Pending(locked) = {}
    BY DEF Pending
  <2>3. QED
    BY <2>1, <2>2
<1>4. /\ MemTypes(mf) /\ DOMAIN mf.disk = 0 .. (mf.infile_count - 1)
      /\ mf.infile_count \in Nat
  BY <1>3, MemFields DEF MemInv
<1>5. ASSUME NEW x \in DOMAIN h
      PROVE  /\ x >= 0 /\ OnDisk(mf, x, h[x].pages, h[x].data)
             /\ InFile(mf, x, h[x].pages) /\ ReadBlock(mf, x, h[x].pages) = h[x].data
             /\ mf.disk[x].data = h[x].data /\ mf.disk[x].pages = h[x].pages
  <2>1. x \in Int /\ h[x].pages \in Nat \ {0}
    BY <1>3, NameFacts
  <2>2. x >= 0 /\ OnDisk(mf, x, h[x].pages, h[x].data)
    BY <1>3, AllOnDisk
  <2>3. /\ InFile(mf, x, h[x].pages) /\ ReadBlock(mf, x, h[x].pages) = h[x].data
        /\ mf.disk[x] = Page(h[x].data, 0, h[x].pages)
    <3>1. PICK pages, data : pages = h[x].pages /\ data = h[x].data
      OBVIOUS
    <3>2. x \in Int /\ pages \in Nat \ {0} /\ OnDisk(mf, x, pages, data) /\ MemTypes(mf)
      BY <1>4, <2>1, <2>2, <3>1
    <3>3. InFile(mf, x, pages) /\ ReadBlock(mf, x, pages) = data /\ mf.disk[x] = Page(data, 0, pages)
      BY <3>2, DiskReads
    <3>4. QED
      BY <3>1, <3>3
  <2>4. mf.disk[x].data = h[x].data /\ mf.disk[x].pages = h[x].pages
    BY <2>3 DEF Page
  <2>5. QED
    BY <2>2, <2>3, <2>4
<1>6. /\ 0 \in DOMAIN h /\ 1 \in DOMAIN h /\ h[0].pages = 1 /\ h[1].pages = 1
      /\ h[0].data.id = "zero" /\ h[1].data.id = "ptr"
      /\ \A i \in DOMAIN Ptrs(h) :
            /\ Ptrs(h)[i].b \in DOMAIN h /\ Ptrs(h)[i].pages = h[Ptrs(h)[i].b].pages
            /\ h[Ptrs(h)[i].b].data.id = "data"
  BY <1>3 DEF Tree, Rooted, Ptrs
<1>7. InFile(mf, 0, 2)
  <2>1. mf.fd /\ 1 + 1 <= mf.infile_count
    BY <1>5, <1>6 DEF OnDisk
  <2>2. QED
    BY <1>4, <2>1 DEF InFile
<1>8. mf.disk[0].data.id = "zero" /\ mf.disk[1].data.id = "ptr" /\ mf.disk[1].data.ptrs = Ptrs(h)
  BY <1>5, <1>6 DEF Ptrs
<1>9. DOMAIN Ptrs(h) = 1 .. Len(Ptrs(h)) /\ Ptrs(h) \in Seq(Entries)
  BY <1>3 DEF Rooted
<1>10. ASSUME NEW i \in 1 .. Len(Ptrs(h))
       PROVE  RecoveredLines(Ptrs(h)[i]) = h[Ptrs(h)[i].b].data.lines
  <2>1. PICK pe : pe = Ptrs(h)[i]
    OBVIOUS
  <2>2. PICK x : x = pe.b
    OBVIOUS
  <2>3. x \in DOMAIN h /\ pe.pages = h[x].pages /\ h[x].data.id = "data" /\ pe.count \in Int
    <3>1. pe \in Entries
      BY <1>9, <2>1
    <3>2. QED
      BY <1>6, <1>9, <2>1, <2>2, <3>1 DEF Entries
  <2>4. /\ ~(x < 0) /\ InFile(mf, x, pe.pages) /\ ReadBlock(mf, x, pe.pages) = h[x].data
        /\ mf.disk[x].data = h[x].data /\ mf.disk[x].pages = pe.pages
    <3>1. x \in Int /\ x >= 0
      BY <1>3, <1>5, <2>3, NameFacts
    <3>2. QED
      BY <1>5, <2>3, <3>1
  <2>5. Len(h[x].data.lines) = pe.count
    <3>1. Counted(h, locked, 0, 0)
      BY <1>2 DEF Buf, Half
    <3>2. pe.count + (IF locked.at = i THEN locked.add ELSE 0)
            = Len(h[x].data.lines) + (IF i = 0 THEN 0 ELSE 0)
      BY <1>9, <2>1, <2>2, <3>1 DEF Counted, Ptrs
    <3>3. Len(h[x].data.lines) \in Nat
      BY <1>3, <1>9, <2>1, <2>2 DEF Rooted
    <3>4. (IF locked.at = i THEN locked.add ELSE 0) = 0
      OBVIOUS
    <3>5. QED
      BY <2>3, <3>2, <3>3, <3>4
  <2>6. RecoveredLines(pe) = h[x].data.lines
    BY <2>2, <2>3, <2>4, <2>5 DEF RecoveredLines
  <2>7. QED
    BY <2>1, <2>2, <2>6
<1>11. PICK R : R = [i \in 1 .. Len(Ptrs(h)) |-> RecoveredLines(Ptrs(h)[i])]
  OBVIOUS
<1>12. R = Rows(h)
  BY <1>10, <1>11 DEF Rows
<1>13. Recovered = FlattenSeq(R)
  BY <1>7, <1>8, <1>11 DEF Recovered
<1>14. QED
  BY <1>2, <1>12, <1>13 DEF Flat

\* Recoverable always holds: after a :preserve that succeeded and was not broken off with
\* CTRL-C, or a sync that came to its end when no block had a negative number, ml_recover
\* finds the text in the swap file alone, until the text is changed, whatever blocks are
\* read, evicted or synced meanwhile, and whatever writes fail or are broken off.
THEOREM Recovers == Spec => []Recoverable
<1>1. RecoveryInv => Recoverable
  BY WholeRecovers DEF RecoveryInv, WholeInv, Recoverable
<1>2. QED
  BY <1>1, Recovery, PTL

\* A line deleted is a line removed.
LEMMA WithoutLine ==
  ASSUME NEW S, NEW t \in Seq(S), NEW n \in 1 .. Len(t), NEW u \in Seq(S), Deleted(t, u, n)
  PROVE  u = RemoveAt(t, n)
<1>1. \E p, q : p = SubSeq(t, 1, n - 1) /\ q = SubSeq(t, n + 1, Len(t))
  <2> WITNESS SubSeq(t, 1, n - 1), SubSeq(t, n + 1, Len(t))
  <2> QED
    OBVIOUS
<1>a. PICK p, q : p = SubSeq(t, 1, n - 1) /\ q = SubSeq(t, n + 1, Len(t))
  BY <1>1
<1>2. /\ p \in Seq(S) /\ Len(p) = n - 1 /\ \A k \in 1 .. (n - 1) : p[k] = t[k]
  BY <1>a
<1>3. /\ q \in Seq(S) /\ Len(q) = Len(t) - n /\ \A k \in 1 .. (Len(t) - n) : q[k] = t[n + k]
  BY <1>a
<1>4. PICK r : r = p \o q
  OBVIOUS
<1>5. r \in Seq(S) /\ Len(r) = Len(t) - 1
  BY <1>2, <1>3, <1>4
<1>6. \A k \in 1 .. (Len(t) - 1) : r[k] = u[k]
  <2> SUFFICES ASSUME NEW k \in 1 .. (Len(t) - 1) PROVE r[k] = u[k]
    OBVIOUS
  <2>1. CASE k <= n - 1
    <3>1. k \in 1 .. (n - 1)
      BY <2>1
    <3>2. r[k] = p[k]
      BY <1>2, <1>3, <1>4, <3>1
    <3>3. QED
      BY <1>2, <3>1, <3>2 DEF Deleted
  <2>2. CASE ~(k <= n - 1)
    <3>1. PICK j : j = k - (n - 1)
      OBVIOUS
    <3>2. j \in 1 .. (Len(t) - n) /\ n + j = k + 1 /\ k \in n .. (Len(t) - 1)
      BY <2>2, <3>1
    <3>3. r[k] = q[j]
      BY <1>2, <1>3, <1>4, <2>2, <3>1
    <3>4. QED
      BY <1>3, <3>2, <3>3 DEF Deleted
  <2>3. QED
    BY <2>1, <2>2
<1>7. r = u
  BY <1>5, <1>6 DEF Deleted
<1>8. QED
  BY <1>a, <1>4, <1>7 DEF RemoveAt

\* An edit, in terms of VimText.
LEMMA Texts ==
  ASSUME NEW t \in Seq(LineNumbers), NEW u \in Seq(LineNumbers), Edits(t, u)
  PROVE  \/ Len(u) = Len(t) + 1 /\ \E n \in 1 .. Len(u) : t = RemoveAt(u, n)
         \/ Len(u) = Len(t) /\ \E n \in 1 .. Len(t) : RemoveAt(u, n) = RemoveAt(t, n)
         \/ /\ Len(t) > 1 /\ Len(u) = Len(t) - 1
            /\ \E n \in 1 .. Len(t) : u = RemoveAt(t, n)
         \/ u = t
<1>1. CASE \E n, line : Inserted(t, u, n, line)
  <2>1. PICK n, line : Inserted(t, u, n, line)
    BY <1>1
  <2>2. n + 1 \in 1 .. Len(u) /\ Len(u) = Len(t) + 1
    BY <2>1 DEF Inserted
  <2>3. PICK j \in 1 .. Len(u) : j - 1 = n
    BY <2>1, <2>2 DEF Inserted
  <2>4. Deleted(u, t, j)
    <3>1. Len(t) = Len(u) - 1 /\ n \in Nat /\ j = n + 1
      BY <2>1, <2>2, <2>3 DEF Inserted
    <3>2. \A k \in 1 .. (j - 1) : t[k] = u[k]
      BY <2>1, <2>3 DEF Inserted
    <3>3. \A k \in j .. (Len(u) - 1) : t[k] = u[k + 1]
      BY <2>1, <3>1, <2>2 DEF Inserted
    <3>4. QED
      BY <3>1, <3>2, <3>3 DEF Deleted
  <2>5. t = RemoveAt(u, j)
    BY <2>4, WithoutLine
  <2>6. QED
    BY <2>2, <2>5
<1>2. CASE Len(t) > 1 /\ \E n : Deleted(t, u, n)
  <2>1. PICK n : Deleted(t, u, n)
    BY <1>2
  <2>2. n \in 1 .. Len(t) /\ Len(u) = Len(t) - 1
    BY <2>1 DEF Deleted
  <2>3. u = RemoveAt(t, n)
    BY <2>1, <2>2, WithoutLine
  <2>4. QED
    BY <1>2, <2>2, <2>3
<1>3. CASE \E n : Replaced(t, u, n)
  <2>1. PICK n : Replaced(t, u, n)
    BY <1>3
  <2>2. n \in 1 .. Len(t) /\ Len(u) = Len(t) /\ \A k \in 1 .. Len(t) : k # n => u[k] = t[k]
    BY <2>1 DEF Replaced
  <2>3. SubSeq(u, 1, n - 1) = SubSeq(t, 1, n - 1)
    <3>1. \A k \in 1 .. (n - 1) : u[k] = t[k]
      BY <2>2
    <3>2. /\ SubSeq(u, 1, n - 1) = [k \in 1 .. (n - 1) |-> u[k]]
          /\ SubSeq(t, 1, n - 1) = [k \in 1 .. (n - 1) |-> t[k]]
      BY <2>2
    <3>3. QED
      BY <3>1, <3>2
  <2>4. SubSeq(u, n + 1, Len(u)) = SubSeq(t, n + 1, Len(t))
    <3>1. PICK p, q : p = SubSeq(u, n + 1, Len(u)) /\ q = SubSeq(t, n + 1, Len(t))
      OBVIOUS
    <3>2. /\ p \in Seq(LineNumbers) /\ Len(p) = Len(t) - n
          /\ \A k \in 1 .. (Len(t) - n) : p[k] = u[n + k]
      BY <2>2, <3>1
    <3>3. /\ q \in Seq(LineNumbers) /\ Len(q) = Len(t) - n
          /\ \A k \in 1 .. (Len(t) - n) : q[k] = t[n + k]
      BY <2>2, <3>1
    <3>4. \A k \in 1 .. (Len(t) - n) : u[n + k] = t[n + k]
      <4>1. \A k \in 1 .. (Len(t) - n) : n + k \in 1 .. Len(t) /\ n + k # n
        BY <2>2
      <4>2. QED
        BY <2>2, <4>1
    <3>5. p = q
      BY <3>2, <3>3, <3>4
    <3>6. QED
      BY <3>1, <3>5
  <2>5. RemoveAt(u, n) = RemoveAt(t, n)
    BY <2>3, <2>4 DEF RemoveAt
  <2>6. QED
    BY <2>2, <2>5
<1>4. QED
  BY <1>1, <1>2, <1>3 DEF Edits

\* VimSwap implements VimText: finding, writing, evicting and reading back blocks never
\* changes the text, and an edit changes the one line it is about.
THEOREM Implements == Spec => ImplementsText
<1>1. Init => Buffer!Init
  BY SwapInit DEF Buffer!Init
<1>2. SwapInv /\ SwapInv' /\ [Next]_vars => [Buffer!Next]_text
  <2> SUFFICES ASSUME SwapInv, SwapInv', [Next]_vars
               PROVE  [Buffer!Next]_text
    OBVIOUS
  <2>1. text \in Seq(LineNumbers)
    BY InvBuf
  <2>2. text' \in Seq(LineNumbers) /\ Edits(text, text')
    BY SwapStep
  <2>3. \/ Len(text') = Len(text) + 1 /\ \E n \in 1 .. Len(text') : text = RemoveAt(text', n)
        \/ Len(text') = Len(text) /\ \E n \in 1 .. Len(text) : RemoveAt(text', n) = RemoveAt(text, n)
        \/ /\ Len(text) > 1 /\ Len(text') = Len(text) - 1
           /\ \E n \in 1 .. Len(text) : text' = RemoveAt(text, n)
        \/ text' = text
    BY <2>1, <2>2, Texts
  <2>4. QED
    BY <2>2, <2>3 DEF Buffer!Next, Buffer!Insert, Buffer!Replace, Buffer!Delete, Buffer!RemoveAt, RemoveAt
<1>3. QED
  BY <1>1, <1>2, SwapInvariance, PTL DEF Spec, ImplementsText, Buffer!Spec
=============================================================================
