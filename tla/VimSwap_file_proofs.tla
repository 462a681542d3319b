--------------------------- MODULE VimSwap_file_proofs ---------------------------
(*****************************************************************************)
(* The memory file of VimSwap, for every memory file and every heap h of     *)
(* blocks that stand in MemInv: what each operation of memfile.c does to the *)
(* blocks, in memory and on disk, and that it keeps MemInv. A failing write  *)
(* is a case of each lemma. A step of the memory file is Quiet when it       *)
(* leaves the blocks of the heap, Steady when what is locked stays locked    *)
(* too; it Follows when a block may have been read from the file.            *)
(*****************************************************************************)
EXTENDS VimSwap, FiniteSetTheorems, SequenceTheorems, TLAPS

-----------------------------------------------------------------------------
(* Numbers, and functions defined from one number to the next.             *)

\* Every set of natural numbers has a least one.
LEMMA Least ==
  ASSUME NEW S, S \subseteq Nat, S # {}
  PROVE  \E x \in S : \A y \in S : x <= y
<1> DEFINE Less == {ss \in Nat \X Nat : ss[1] < ss[2]}
<1>0. IsWellFoundedOn(Less, Nat)
  BY NatLessThanWellFounded DEF OpToRel
<1>1. PICK x \in S : \A y \in S : <<y, x>> \notin Less
  <2> HIDE DEF Less
  <2> QED BY <1>0, WFMin
<1>2. \A y \in S : ~(y < x)
  BY <1>1
<1>3. QED
  BY <1>2

\* What holds of 0 and goes on from each number to the next holds throughout.
LEMMA UpTo ==
  ASSUME NEW n \in Nat, NEW T, 0 \in T, \A i \in 1 .. n : i - 1 \in T => i \in T
  PROVE  \A i \in 0 .. n : i \in T
<1> DEFINE Out == {i \in 0 .. n : i \notin T}
<1>1. SUFFICES ASSUME Out # {} PROVE FALSE
  OBVIOUS
<1>2. PICK x \in Out : \A y \in Out : x <= y
  <2>1. Out \subseteq Nat
    OBVIOUS
  <2> HIDE DEF Out
  <2>2. QED
    BY <1>1, <2>1, Least
<1>3. x \in 1 .. n /\ x - 1 \in 0 .. n /\ x - 1 \notin Out
  BY <1>2
<1>4. QED
  BY <1>2, <1>3

\* A function that goes on from each number to the next exists.
Iteration(n, S, t, g) ==
  \E f \in [0 .. n -> S] : f[0] = t /\ \A i \in 1 .. n : f[i] = g[<<f[i - 1], i>>]

\* A function defined by iteration exists: every loop of memfile.c and memline.c is one.
LEMMA IterationExists ==
  ASSUME NEW n \in Nat, NEW S, NEW t \in S, NEW g \in [S \X (1 .. n) -> S]
  PROVE  Iteration(n, S, t, g)
<1> DEFINE Values0(m, f) == f[0] = t /\ \A i \in 1 .. m : f[i] = g[<<f[i - 1], i>>]
           Good(m) == \E f \in [0 .. m -> S] : Values0(m, f)
           Bad == {m \in 0 .. n : ~Good(m)}
<1>1. Good(0)
  <2>1. Values0(0, [i \in 0 .. 0 |-> t]) /\ [i \in 0 .. 0 |-> t] \in [0 .. 0 -> S]
    OBVIOUS
  <2>2. QED
    BY <2>1
<1>2. ASSUME NEW m \in 1 .. n, Good(m - 1)
      PROVE  Good(m)
  <2>1. PICK f \in [0 .. m - 1 -> S] : Values0(m - 1, f)
    BY <1>2
  <2>2. m - 1 \in 0 .. m - 1 /\ f[m - 1] \in S /\ g[<<f[m - 1], m>>] \in S
    BY <2>1
  <2> DEFINE h == [i \in 0 .. m |-> IF i < m THEN f[i] ELSE g[<<f[m - 1], m>>]]
  <2>3. h \in [0 .. m -> S]
    BY <2>1, <2>2
  <2>4. h[0] = t
    BY <2>1
  <2>5. ASSUME NEW i \in 1 .. m
        PROVE  h[i] = g[<<h[i - 1], i>>]
    <3>1. i - 1 \in 0 .. m - 1 /\ h[i - 1] = f[i - 1]
      BY <2>5
    <3>2. CASE i = m
      <4>1. h[m] = g[<<f[m - 1], m>>]
        OBVIOUS
      <4> HIDE DEF h
      <4>2. QED
        BY <3>1, <3>2, <4>1
    <3>3. CASE i # m
      <4>1. i \in 1 .. m - 1 /\ h[i] = f[i]
        BY <2>5, <3>3
      <4>2. QED
        BY <2>1, <3>1, <4>1
    <3>4. QED
      BY <3>2, <3>3
  <2> HIDE DEF h
  <2>6. QED
    BY <2>3, <2>4, <2>5
<1> HIDE DEF Good
<1>3. Bad = {}
  <2> SUFFICES ASSUME Bad # {} PROVE FALSE
    OBVIOUS
  <2>1. PICK x \in Bad : \A y \in Bad : x <= y
    <3>1. Bad \subseteq Nat
      OBVIOUS
    <3> HIDE DEF Bad
    <3>2. QED
      BY <3>1, Least
  <2>2. x # 0
    BY <1>1
  <2>3. x \in 1 .. n /\ x - 1 \in 0 .. n /\ x - 1 \notin Bad
    BY <2>1, <2>2
  <2>4. QED
    BY <1>2, <2>1, <2>3
<1>4. Good(n)
  BY <1>3
<1>5. QED
  BY <1>4 DEF Good, Iteration

-----------------------------------------------------------------------------
(* Sequences.                                                              *)

\* RemoveAt takes the one element out and moves those behind it up.
LEMMA Removed ==
  ASSUME NEW S, NEW s \in Seq(S), NEW i \in DOMAIN s
  PROVE  LET r == RemoveAt(s, i)
         IN  /\ r \in Seq(S) /\ Len(r) = Len(s) - 1 /\ DOMAIN r = 1 .. Len(s) - 1
             /\ \A k \in DOMAIN r : r[k] = IF k < i THEN s[k] ELSE s[k + 1]
<1> DEFINE front == SubSeq(s, 1, i - 1)
           back == SubSeq(s, i + 1, Len(s))
<1>1. Len(s) \in Nat /\ i \in 1 .. Len(s)
  OBVIOUS
<1>2. /\ front \in Seq(S) /\ Len(front) = i - 1
      /\ \A k \in 1 .. i - 1 : front[k] = s[k]
  BY <1>1
<1>3. /\ back \in Seq(S) /\ Len(back) = Len(s) - i
      /\ \A k \in 1 .. Len(s) - i : back[k] = s[k + i]
  BY <1>1, SubSeqProperties
<1>4. RemoveAt(s, i) = front \o back
  BY DEF RemoveAt
<1> HIDE DEF front, back
<1>5. /\ front \o back \in Seq(S) /\ Len(front \o back) = Len(s) - 1
      /\ \A k \in 1 .. Len(s) - 1 :
           (front \o back)[k] = IF k <= i - 1 THEN front[k] ELSE back[k - (i - 1)]
  <2>1. /\ front \o back \in Seq(S) /\ Len(front \o back) = Len(front) + Len(back)
        /\ \A k \in 1 .. Len(front) + Len(back) :
             (front \o back)[k] = IF k <= Len(front) THEN front[k] ELSE back[k - Len(front)]
    BY <1>2, <1>3, ConcatProperties
  <2>2. Len(front) = i - 1 /\ Len(front) + Len(back) = Len(s) - 1
    BY <1>1, <1>2, <1>3
  <2>3. QED
    BY <2>1, <2>2
<1>6. ASSUME NEW k \in 1 .. Len(s) - 1
      PROVE  (front \o back)[k] = IF k < i THEN s[k] ELSE s[k + 1]
  <2>1. CASE k < i
    BY <1>1, <1>2, <1>5, <2>1
  <2>2. CASE ~(k < i)
    <3>1. k - (i - 1) \in 1 .. Len(s) - i /\ k - (i - 1) + i = k + 1
      BY <1>1, <2>2
    <3>2. back[k - (i - 1)] = s[k + 1]
      BY <1>3, <3>1
    <3>3. QED
      BY <1>1, <1>5, <2>2, <3>2
  <2>3. QED
    BY <2>1, <2>2
<1>7. DOMAIN (front \o back) = 1 .. Len(s) - 1
  BY <1>1, <1>5, LenProperties
<1>8. QED
  BY <1>4, <1>5, <1>6, <1>7

\* An element put in front moves the others down.
LEMMA InFront ==
  ASSUME NEW S, NEW s \in Seq(S), NEW e \in S
  PROVE  LET r == <<e>> \o s
         IN  /\ r \in Seq(S) /\ Len(r) = Len(s) + 1 /\ DOMAIN r = 1 .. Len(s) + 1
             /\ r[1] = e /\ \A k \in 2 .. Len(s) + 1 : r[k] = s[k - 1]
OBVIOUS

\* The places of the rest after one has been removed, and back.
LEMMA RemovedPlaces ==
  ASSUME NEW S, NEW s \in Seq(S), NEW i \in DOMAIN s, NEW r, r = RemoveAt(s, i)
  PROVE  /\ \A k \in DOMAIN r : \E l \in DOMAIN s \ {i} : r[k] = s[l]
         /\ \A l \in DOMAIN s \ {i} : \E k \in DOMAIN r : r[k] = s[l]
         /\ \A k, l \in DOMAIN r : k # l => \E a, b \in DOMAIN s \ {i} :
                                               a # b /\ r[k] = s[a] /\ r[l] = s[b]
<1> DEFINE at(k) == IF k < i THEN k ELSE k + 1
<1>1. /\ Len(s) \in Nat /\ i \in 1 .. Len(s) /\ DOMAIN s = 1 .. Len(s)
      /\ DOMAIN r = 1 .. Len(s) - 1
      /\ \A k \in DOMAIN r : r[k] = IF k < i THEN s[k] ELSE s[k + 1]
  BY Removed
<1>2. \A k \in DOMAIN r : at(k) \in DOMAIN s \ {i} /\ r[k] = s[at(k)]
  BY <1>1
<1>3. \A k, l \in DOMAIN r : k # l => at(k) # at(l)
  BY <1>1
<1>4. ASSUME NEW l \in DOMAIN s \ {i} PROVE \E k \in DOMAIN r : r[k] = s[l]
  <2>1. CASE l < i
    <3>1. l \in DOMAIN r /\ r[l] = s[l]
      BY <1>1, <2>1
    <3>2. QED
      BY <3>1
  <2>2. CASE l > i
    <3>1. l - 1 \in DOMAIN r /\ r[l - 1] = s[l]
      BY <1>1, <2>2
    <3>2. QED
      BY <3>1
  <2>3. QED
    BY <1>1, <2>1, <2>2
<1> HIDE DEF at
<1>5. QED
  BY <1>2, <1>3, <1>4

-----------------------------------------------------------------------------
(* The records.                                                            *)

\* The types of the fields of a memory file, one by one.
LEMMA MemFields ==
  ASSUME NEW m, MemTypes(m)
  PROVE  /\ m.used \in Seq(Headers) /\ m.free \in Seq(FreeRanges) /\ m.blocknr_max \in Nat
         /\ m.blocknr_min \in Int /\ m.infile_count \in Nat /\ m.neg_count \in Int
         /\ m.dirty \in BOOLEAN /\ m.fd \in BOOLEAN /\ m.may_swap \in BOOLEAN
         /\ m.trans \in [DOMAIN m.trans -> Nat] /\ DOMAIN m.trans \subseteq Int
         /\ m.disk \in [0 .. (m.infile_count - 1) -> FilePages]
         /\ DOMAIN m.used = 1 .. Len(m.used) /\ Len(m.used) \in Nat
         /\ DOMAIN m.free = 1 .. Len(m.free) /\ Len(m.free) \in Nat
         /\ \A i \in DOMAIN m.used : /\ m.used[i] \in Headers /\ m.used[i].b \in Int
                                     /\ m.used[i].pages \in Nat \ {0}
                                     /\ m.used[i].locked \in BOOLEAN /\ m.used[i].dirty \in BOOLEAN
                                     /\ m.used[i].data \in Blocks
         /\ \A i \in DOMAIN m.free : m.free[i].b \in Nat /\ m.free[i].pages \in Nat \ {0}
<1>1. /\ m.used \in Seq(Headers) /\ m.free \in Seq(FreeRanges) /\ m.blocknr_max \in Nat
      /\ m.blocknr_min \in Int /\ m.infile_count \in Nat /\ m.neg_count \in Int
      /\ m.dirty \in BOOLEAN /\ m.fd \in BOOLEAN /\ m.may_swap \in BOOLEAN
      /\ m.trans \in [DOMAIN m.trans -> Nat] /\ DOMAIN m.trans \subseteq Int
      /\ m.disk \in [0 .. (m.infile_count - 1) -> FilePages]
  BY DEF MemTypes
<1>2. \A i \in DOMAIN m.used : m.used[i] \in Headers
  BY <1>1
<1>3. \A i \in DOMAIN m.free : m.free[i] \in FreeRanges
  BY <1>1
<1>4. \A i \in DOMAIN m.used : /\ m.used[i].b \in Int /\ m.used[i].pages \in Nat \ {0}
                             /\ m.used[i].locked \in BOOLEAN /\ m.used[i].dirty \in BOOLEAN
                             /\ m.used[i].data \in Blocks
  BY <1>2 DEF Headers
<1>5. \A i \in DOMAIN m.free : m.free[i].b \in Nat /\ m.free[i].pages \in Nat \ {0}
  BY <1>3 DEF FreeRanges
<1>6. /\ DOMAIN m.used = 1 .. Len(m.used) /\ Len(m.used) \in Nat
      /\ DOMAIN m.free = 1 .. Len(m.free) /\ Len(m.free) \in Nat
  BY <1>1
<1>7. QED
  BY <1>1, <1>2, <1>4, <1>5, <1>6

\* Where a block is in the used list.
LEMMA PositionIn ==
  ASSUME NEW m, NEW b,
         \A i, k \in DOMAIN m.used : m.used[i].b = m.used[k].b => i = k
  PROVE  /\ InMemory(m, b) => Position(m, b) \in DOMAIN m.used /\ m.used[Position(m, b)].b = b
         /\ ~InMemory(m, b) => Position(m, b) = 0
         /\ \A i \in DOMAIN m.used : m.used[i].b = b => Position(m, b) = i
BY DEF InMemory, Position

\* An update of one field or two.
LEMMA NewUsed ==
  ASSUME NEW m, MemTypes(m), NEW used \in Seq(Headers)
  PROVE  LET n == [m EXCEPT !.used = used]
         IN  /\ MemTypes(n) /\ n.used = used /\ n.free = m.free
             /\ n.blocknr_max = m.blocknr_max /\ n.blocknr_min = m.blocknr_min
             /\ n.infile_count = m.infile_count /\ n.neg_count = m.neg_count
             /\ n.trans = m.trans /\ n.dirty = m.dirty /\ n.fd = m.fd /\ n.disk = m.disk
             /\ n.may_swap = m.may_swap
BY DEF MemTypes

-----------------------------------------------------------------------------
(* Blocks and their names.                                                 *)

SameNumbers(m, n) ==
  /\ n.free = m.free /\ n.blocknr_max = m.blocknr_max /\ n.blocknr_min = m.blocknr_min
  /\ n.neg_count = m.neg_count /\ n.trans = m.trans
SameFile(m, n) == n.fd = m.fd /\ n.disk = m.disk /\ n.infile_count = m.infile_count

\* The block with number b is locked and will not get another number.
Holds(m, b) ==
  b \notin DOMAIN m.trans /\ \E k \in DOMAIN m.used : m.used[k].b = b /\ m.used[k].locked

\* The invariant of the numbers depends only on what SameNumbers names.
LEMMA NumbersKept ==
  ASSUME NEW m, NEW n, SameNumbers(m, n), NEW h, NumbersInv(m, h)
  PROVE  NumbersInv(n, h) /\ \A x \in DOMAIN h : Translated(n, x) = Translated(m, x)
<1>1. \A x \in DOMAIN h : Translated(n, x) = Translated(m, x)
  BY DEF SameNumbers, Translated
<1>2. \A b, p : Clear(m, b, p) => Clear(n, b, p)
  BY DEF SameNumbers, Clear
<1>3. FreeInv(n)
  BY DEF SameNumbers, FreeInv, NumbersInv
<1>4. QED
  BY <1>1, <1>2, <1>3 DEF SameNumbers, NumbersInv

\* What is on disk depends only on what SameFile names.
LEMMA FileKept ==
  ASSUME NEW m, NEW n, SameFile(m, n), NEW b, NEW pages, NEW data
  PROVE  OnDisk(n, b, pages, data) = OnDisk(m, b, pages, data)
BY DEF SameFile, OnDisk

\* What the invariant says of the names.
LEMMA NameFacts ==
  ASSUME NEW m, NEW h, NEW X, MemInv(m, h, X)
  PROVE  /\ \A x \in DOMAIN h :
              /\ x \in Int /\ h[x].pages \in Nat \ {0} /\ h[x].data \in Blocks
              /\ Translated(m, x) \in Int
              /\ Translated(m, x) < 0 => Translated(m, x) = x /\ x \notin DOMAIN m.trans
              /\ x >= 0 => Translated(m, x) = x /\ x \notin DOMAIN m.trans
         /\ \A x, y \in DOMAIN h : Translated(m, x) = Translated(m, y) => x = y
<1>1. /\ DOMAIN h \subseteq Int /\ h \in [DOMAIN h -> [pages : Nat \ {0}, data : Blocks]]
  BY DEF MemInv, Heaps
<1>2. \A x \in DOMAIN h : x \in Int /\ h[x].pages \in Nat \ {0} /\ h[x].data \in Blocks
  BY <1>1
<1>3. m.trans \in [DOMAIN m.trans -> Nat] /\ DOMAIN m.trans \subseteq {x \in DOMAIN h : x < 0}
  BY DEF MemInv, MemTypes, NumbersInv
<1>4. ASSUME NEW x \in DOMAIN h
      PROVE  /\ Translated(m, x) \in Int
             /\ Translated(m, x) < 0 => Translated(m, x) = x /\ x \notin DOMAIN m.trans
             /\ x >= 0 => Translated(m, x) = x /\ x \notin DOMAIN m.trans
  BY <1>2, <1>3 DEF Translated
<1>5. ASSUME NEW x \in DOMAIN h, NEW y \in DOMAIN h, Translated(m, x) = Translated(m, y)
      PROVE  x = y
  <2>1. x # y => Separate(Translated(m, x), h[x].pages, Translated(m, y), h[y].pages)
    BY DEF MemInv, NumbersInv
  <2>2. QED
    BY <1>2, <1>4, <1>5, <2>1 DEF Separate
<1>6. QED
  BY <1>2, <1>4, <1>5

\* The name of a block in memory.
LEMMA NameOf ==
  ASSUME NEW m, NEW h, NEW X, MemInv(m, h, X), NEW i \in DOMAIN m.used
  PROVE  /\ \E x \in DOMAIN h : /\ m.used[i].b = Translated(m, x)
                                /\ m.used[i].pages = h[x].pages /\ m.used[i].data = h[x].data
         /\ \A x \in DOMAIN h : m.used[i].b = Translated(m, x) =>
                                   m.used[i].pages = h[x].pages /\ m.used[i].data = h[x].data
         /\ m.used[i].b < 0 => /\ m.used[i].b \in DOMAIN h /\ m.used[i].b \notin DOMAIN m.trans
                               /\ Translated(m, m.used[i].b) = m.used[i].b
         /\ m.used[i].b < m.blocknr_max
<1>1. PICK x \in DOMAIN h : /\ m.used[i].b = Translated(m, x)
                            /\ m.used[i].pages = h[x].pages /\ m.used[i].data = h[x].data
  BY DEF MemInv, UsedInv
<1>2. \A y \in DOMAIN h : m.used[i].b = Translated(m, y) => y = x
  BY <1>1, NameFacts
<1>3. Clear(m, Translated(m, x), h[x].pages) /\ m.blocknr_max \in Nat
  BY DEF MemInv, NumbersInv, MemTypes
<1>4. m.used[i].b < m.blocknr_max
  BY <1>1, <1>3, NameFacts DEF Clear
<1>5. QED
  BY <1>1, <1>2, <1>4, NameFacts

\* A page of a block knows the block's data, its place in it and its size.
LEMMA PageFields ==
  ASSUME NEW data, NEW k, NEW pages
  PROVE  /\ Page(data, k, pages).data = data /\ Page(data, k, pages).k = k
         /\ Page(data, k, pages).pages = pages
BY DEF Page

\* What the editor finds under a name is what the block has.
LEMMA LookIs ==
  ASSUME NEW m, NEW h, NEW X, MemInv(m, h, X), NEW x \in DOMAIN h
  PROVE  Look(m, Translated(m, x), h[x].pages) = h[x].data
<1> DEFINE b == Translated(m, x)
           pages == h[x].pages
<1>0. b \in Int /\ pages \in Nat \ {0}
  BY NameFacts
<1>1. \A i, k \in DOMAIN m.used : m.used[i].b = m.used[k].b => i = k
  BY DEF MemInv, UsedInv
<1>2. CASE InMemory(m, b)
  <2>1. Position(m, b) \in DOMAIN m.used /\ m.used[Position(m, b)].b = b
    BY <1>1, <1>2, PositionIn
  <2>2. m.used[Position(m, b)].data = h[x].data
    BY <2>1, NameOf
  <2>3. Position(m, b) # 0
    BY <2>1, MemFields DEF MemInv
  <2>4. QED
    BY <2>2, <2>3 DEF Look
<1>3. CASE ~InMemory(m, b)
  <2>1. Position(m, b) = 0
    BY <1>1, <1>3, PositionIn
  <2>2. OnDisk(m, b, pages, h[x].data)
    BY <1>3 DEF MemInv, SavedInv
  <2>3. m.infile_count \in Nat /\ m.disk \in [0 .. (m.infile_count - 1) -> FilePages]
    BY MemFields DEF MemInv
  <2>4. /\ m.fd /\ b >= 0 /\ b + pages <= m.infile_count
        /\ \A p \in b .. (b + pages - 1) : m.disk[p] = Page(h[x].data, p - b, pages)
    BY <2>2 DEF OnDisk
  <2>5. \A p \in b .. (b + pages - 1) : m.disk[p].data = h[x].data /\ m.disk[p].k = p - b
    BY <2>4, PageFields
  <2>6. b \in b .. (b + pages - 1) /\ b \in 0 .. (m.infile_count - 1)
        /\ b .. (b + pages - 1) \subseteq DOMAIN m.disk
    BY <1>0, <2>3, <2>4
  <2>7. InFile(m, b, pages) /\ ReadBlock(m, b, pages) = h[x].data
    BY <2>4, <2>5, <2>6 DEF InFile, ReadBlock
  <2>8. QED
    BY <2>1, <2>6, <2>7 DEF Look
<1>4. QED
  BY <1>2, <1>3

-----------------------------------------------------------------------------
(* Numbers are given out.                                                  *)

\* Separate is symmetric, and separate blocks have different numbers.
LEMMA Apart ==
  ASSUME NEW a \in Int, NEW p \in Nat \ {0}, NEW b \in Int, NEW q \in Nat \ {0},
         Separate(a, p, b, q)
  PROVE  Separate(b, q, a, p) /\ a # b
BY DEF Separate

\* What is separate from a range is separate from a part of it.
LEMMA Within ==
  ASSUME NEW a \in Int, NEW p \in Nat \ {0}, NEW b \in Nat, NEW q \in Nat \ {0},
         NEW c \in Nat, NEW r \in Nat \ {0},
         Separate(a, p, b, q), b <= c, c + r <= b + q
  PROVE  Separate(a, p, c, r) /\ Separate(c, r, a, p)
BY DEF Separate

\* The free list without the pages taken.
FreeLeft(m, p) ==
  IF Head(m.free).pages > p
  THEN <<[b |-> Head(m.free).b + p, pages |-> Head(m.free).pages - p]>> \o Tail(m.free)
  ELSE Tail(m.free)

\* The free list after its first range has given up p pages (mf_new, mf_trans_add).
LEMMA FreeLeftIs ==
  ASSUME NEW m, MemTypes(m), NEW p \in Nat \ {0}, Reuse(m, p)
  PROVE  /\ FreeLeft(m, p) \in Seq(FreeRanges) /\ 1 \in DOMAIN m.free /\ Head(m.free) = m.free[1]
         /\ \A k \in DOMAIN FreeLeft(m, p) :
              \/ k + 1 \in DOMAIN m.free /\ FreeLeft(m, p)[k] = m.free[k + 1]
                 /\ ~(m.free[1].pages > p)
              \/ k = 1 /\ m.free[1].pages > p /\ FreeLeft(m, p)[k].b = m.free[1].b + p
                 /\ FreeLeft(m, p)[k].pages = m.free[1].pages - p
              \/ k # 1 /\ m.free[1].pages > p /\ k \in DOMAIN m.free
                 /\ FreeLeft(m, p)[k] = m.free[k]
<1> DEFINE free == m.free
           one == [b |-> free[1].b + p, pages |-> free[1].pages - p]
<1>1. /\ free \in Seq(FreeRanges) /\ DOMAIN free = 1 .. Len(free) /\ Len(free) \in Nat
      /\ \A i \in DOMAIN free : free[i].b \in Nat /\ free[i].pages \in Nat \ {0}
      /\ free # <<>>
  BY MemFields DEF Reuse
<1> HIDE DEF free
<1>2. /\ Tail(free) \in Seq(FreeRanges) /\ Head(free) = free[1] /\ Len(free) > 0
      /\ Len(Tail(free)) = Len(free) - 1 /\ \A k \in 1 .. Len(free) - 1 : Tail(free)[k] = free[k + 1]
  BY <1>1
<1>3. CASE free[1].pages > p
  <2>1. one \in FreeRanges
    <3>1. free[1].b \in Nat /\ free[1].pages \in Nat
      BY <1>1, <1>2
    <3>2. free[1].b + p \in Nat /\ free[1].pages - p \in Nat \ {0}
      BY <3>1, <1>3
    <3>3. QED
      BY <3>2 DEF FreeRanges
  <2>2. one.b = free[1].b + p /\ one.pages = free[1].pages - p
    OBVIOUS
  <2>3. FreeLeft(m, p) = <<one>> \o Tail(free)
    BY <1>2, <1>3 DEF FreeLeft, free
  <2> HIDE DEF one
  <2>4. LET r == <<one>> \o Tail(free)
        IN  /\ r \in Seq(FreeRanges) /\ DOMAIN r = 1 .. Len(free)
            /\ r[1] = one /\ \A k \in 2 .. Len(free) : r[k] = Tail(free)[k - 1]
    BY <1>1, <1>2, <2>1, InFront
  <2>5. \A k \in 2 .. Len(free) : Tail(free)[k - 1] = free[k]
    BY <1>1, <1>2
  <2>6. QED
    BY <1>1, <1>2, <1>3, <2>2, <2>3, <2>4, <2>5, SMTT(30) DEF free
<1>4. CASE ~(free[1].pages > p)
  <2>1. FreeLeft(m, p) = Tail(free)
    BY <1>2, <1>4 DEF FreeLeft, free
  <2>2. DOMAIN Tail(free) = 1 .. Len(free) - 1
    BY <1>2
  <2>3. QED
    BY <1>1, <1>2, <1>4, <2>1, <2>2 DEF free
<1>5. QED
  BY <1>3, <1>4

\* Only the free list is new.
LEMMA NewFree ==
  ASSUME NEW m, MemTypes(m), NEW free \in Seq(FreeRanges), NEW t, t = [m EXCEPT !.free = free]
  PROVE  /\ MemTypes(t) /\ t.free = free /\ t.used = m.used /\ SameFile(m, t)
         /\ t.blocknr_min = m.blocknr_min /\ t.blocknr_max = m.blocknr_max
         /\ t.neg_count = m.neg_count /\ t.trans = m.trans
         /\ t.dirty = m.dirty /\ t.may_swap = m.may_swap
BY DEF MemTypes, SameFile

\* Only the number of blocks is new.
LEMMA NewMax ==
  ASSUME NEW m, MemTypes(m), NEW x \in Nat, NEW t, t = [m EXCEPT !.blocknr_max = x]
  PROVE  /\ MemTypes(t) /\ t.free = m.free /\ t.used = m.used /\ SameFile(m, t)
         /\ t.blocknr_min = m.blocknr_min /\ t.blocknr_max = x
         /\ t.neg_count = m.neg_count /\ t.trans = m.trans
         /\ t.dirty = m.dirty /\ t.may_swap = m.may_swap
BY DEF MemTypes, SameFile

\* The number taken is nobody else's, and what was clear of the free ranges
\* still is.
Took(m, t, nr, p) ==
  /\ MemTypes(t) /\ t.used = m.used /\ SameFile(m, t)
  /\ t.blocknr_min = m.blocknr_min /\ t.blocknr_max >= m.blocknr_max
  /\ t.neg_count = m.neg_count /\ t.trans = m.trans
  /\ t.dirty = m.dirty /\ t.may_swap = m.may_swap
  /\ nr \in Nat /\ FreeInv(t) /\ Clear(t, nr, p)
  /\ \A b \in Int, q \in Nat \ {0} : Clear(m, b, q) => Clear(t, b, q) /\ Separate(b, q, nr, p)

\* A number for p pages, from the free list or from the end of the file, is clear of
\* every number given out and stays so.
LEMMA NumberTaken ==
  ASSUME NEW m, MemTypes(m), FreeInv(m), NEW p \in Nat \ {0}
  PROVE  Took(m, TakeNumber(m, p), NewNumber(m, p), p)
<1> DEFINE t == TakeNumber(m, p)
           nr == NewNumber(m, p)
<1>0. /\ m.blocknr_max \in Nat /\ m.free \in Seq(FreeRanges)
      /\ \A i \in DOMAIN m.free : m.free[i].b \in Nat /\ m.free[i].pages \in Nat \ {0}
  BY MemFields
<1>1. CASE ~Reuse(m, p)
  <2>1. t = [m EXCEPT !.blocknr_max = m.blocknr_max + p] /\ nr = m.blocknr_max
    BY <1>1 DEF TakeNumber, NewNumber
  <2> HIDE DEF t, nr
  <2>2. /\ MemTypes(t) /\ t.free = m.free /\ t.used = m.used /\ SameFile(m, t)
        /\ t.blocknr_min = m.blocknr_min /\ t.blocknr_max = m.blocknr_max + p
        /\ t.neg_count = m.neg_count /\ t.trans = m.trans
        /\ t.dirty = m.dirty /\ t.may_swap = m.may_swap
    <3>1. m.blocknr_max + p \in Nat
      BY <1>0
    <3>2. QED
      BY <2>1, <3>1, NewMax
  <2>3. FreeInv(t) /\ Clear(t, nr, p)
    BY <1>0, <2>1, <2>2, SMTT(30) DEF FreeInv, Clear, Separate
  <2>4. ASSUME NEW b \in Int, NEW q \in Nat \ {0}, Clear(m, b, q)
        PROVE  Clear(t, b, q) /\ Separate(b, q, nr, p)
    BY <1>0, <2>1, <2>2, <2>4 DEF Clear, Separate
  <2>5. QED
    BY <1>0, <2>1, <2>2, <2>3, <2>4 DEF Took, t, nr
<1>2. CASE Reuse(m, p)
  <2>0. t = [m EXCEPT !.free = FreeLeft(m, p)] /\ nr = Head(m.free).b
    BY <1>2 DEF TakeNumber, NewNumber, FreeLeft
  <2>1. Head(m.free).pages >= p
    BY <1>2 DEF Reuse
  <2> DEFINE left == FreeLeft(m, p)
             one == m.free[1]
  <2> HIDE DEF t, nr
  <2>2. /\ left \in Seq(FreeRanges) /\ 1 \in DOMAIN m.free /\ Head(m.free) = one
        /\ \A k \in DOMAIN left :
              \/ k + 1 \in DOMAIN m.free /\ left[k] = m.free[k + 1] /\ ~(one.pages > p)
              \/ k = 1 /\ one.pages > p /\ left[k].b = one.b + p /\ left[k].pages = one.pages - p
              \/ k # 1 /\ one.pages > p /\ k \in DOMAIN m.free /\ left[k] = m.free[k]
    BY <1>2, FreeLeftIs
  <2>3. t = [m EXCEPT !.free = left]
    BY <2>0
  <2> HIDE DEF left
  <2>4. /\ MemTypes(t) /\ t.free = left /\ t.used = m.used /\ SameFile(m, t)
        /\ t.blocknr_min = m.blocknr_min /\ t.blocknr_max = m.blocknr_max
        /\ t.neg_count = m.neg_count /\ t.trans = m.trans
        /\ t.dirty = m.dirty /\ t.may_swap = m.may_swap
    BY <2>2, <2>3, NewFree
  <2>5. one.b \in Nat /\ one.pages \in Nat \ {0} /\ nr = one.b /\ one.pages >= p
    BY <1>0, <2>0, <2>1, <2>2
  \* An entry left is an old one behind the first, or the rest of the first.
  <2> DEFINE At(k) == IF one.pages > p THEN k ELSE k + 1
             Rest(k) == k = 1 /\ one.pages > p
  <2>6. ASSUME NEW k \in DOMAIN left
        PROVE  /\ left[k].b \in Nat /\ left[k].pages \in Nat \ {0}
               /\ ~Rest(k) => At(k) \in DOMAIN m.free \ {1} /\ left[k] = m.free[At(k)]
               /\ Rest(k) => /\ one.b <= left[k].b
                             /\ left[k].b + left[k].pages = one.b + one.pages
                             /\ left[k].b = nr + p
    <3>1. k \in Nat \ {0}
      BY <2>2
    <3>2. ~Rest(k) => At(k) \in DOMAIN m.free \ {1} /\ left[k] = m.free[At(k)]
      BY <2>2, <3>1
    <3>3. Rest(k) => left[k].b = one.b + p /\ left[k].pages = one.pages - p
      BY <2>2, <3>1
    <3>4. CASE Rest(k)
      BY <2>5, <3>3, <3>4
    <3>5. CASE ~Rest(k)
      BY <1>0, <3>2, <3>5
    <3>6. QED
      BY <3>4, <3>5
  <2>7. \A k, l \in DOMAIN left : k # l => At(k) # At(l) /\ ~(Rest(k) /\ Rest(l))
    <3>1. DOMAIN left \subseteq Nat \ {0}
      BY <2>2
    <3>2. QED
      BY <3>1
  <2> HIDE DEF At, Rest
  <2>8. /\ \A i \in DOMAIN m.free : m.free[i].b + m.free[i].pages <= m.blocknr_max
        /\ \A i, k \in DOMAIN m.free :
             i # k => Separate(m.free[i].b, m.free[i].pages, m.free[k].b, m.free[k].pages)
    BY DEF FreeInv
  <2>9. FreeInv(t)
    <3>1. \A k \in DOMAIN left : left[k].b + left[k].pages <= m.blocknr_max
      BY <1>0, <2>2, <2>5, <2>6, <2>8
    <3>2. ASSUME NEW k \in DOMAIN left, NEW l \in DOMAIN left, k # l
          PROVE  Separate(left[k].b, left[k].pages, left[l].b, left[l].pages)
      <4>1. \A a, c \in DOMAIN m.free \ {1} : a # c =>
              Separate(m.free[a].b, m.free[a].pages, m.free[c].b, m.free[c].pages)
        BY <2>8
      <4>2. \A a \in DOMAIN m.free \ {1} :
              Separate(m.free[a].b, m.free[a].pages, one.b, one.pages)
        BY <2>2, <2>8
      <4>3. At(k) # At(l) /\ ~(Rest(k) /\ Rest(l))
        BY <2>7, <3>2
      <4>4. CASE ~Rest(k) /\ ~Rest(l)
        BY <2>6, <4>1, <4>3, <4>4
      <4>5. CASE Rest(k) /\ ~Rest(l)
        <5>1. Separate(m.free[At(l)].b, m.free[At(l)].pages, one.b, one.pages)
          BY <2>6, <4>2, <4>5
        <5>2. /\ left[k].b \in Nat /\ left[k].pages \in Nat \ {0} /\ one.b <= left[k].b
              /\ left[k].b + left[k].pages <= one.b + one.pages /\ one.b >= 0
          BY <2>5, <2>6, <4>5
        <5>3. left[l] = m.free[At(l)] /\ left[l].b \in Int /\ left[l].pages \in Nat \ {0}
          BY <2>6, <4>5
        <5>4. Separate(left[l].b, left[l].pages, one.b, one.pages)
          BY <5>1, <5>3
        <5> DEFINE a == left[l].b
                   ap == left[l].pages
                   b == one.b
                   bp == one.pages
                   c == left[k].b
                   cp == left[k].pages
        <5>5. /\ a \in Int /\ ap \in Nat \ {0} /\ b \in Nat /\ bp \in Nat \ {0}
              /\ c \in Nat /\ cp \in Nat \ {0}
              /\ Separate(a, ap, b, bp) /\ b <= c /\ c + cp <= b + bp
          BY <2>5, <5>2, <5>3, <5>4
        <5> HIDE DEF a, ap, b, bp, c, cp
        <5>6. Separate(a, ap, c, cp) /\ Separate(c, cp, a, ap)
          BY <5>5, Within
        <5>7. QED
          BY <5>6 DEF a, ap, c, cp
      <4>6. CASE ~Rest(k) /\ Rest(l)
        <5>1. Separate(m.free[At(k)].b, m.free[At(k)].pages, one.b, one.pages)
          BY <2>6, <4>2, <4>6
        <5>2. /\ left[l].b \in Nat /\ left[l].pages \in Nat \ {0} /\ one.b <= left[l].b
              /\ left[l].b + left[l].pages <= one.b + one.pages /\ one.b >= 0
          BY <2>5, <2>6, <4>6
        <5>3. left[k] = m.free[At(k)] /\ left[k].b \in Int /\ left[k].pages \in Nat \ {0}
          BY <2>6, <4>6
        <5>4. Separate(left[k].b, left[k].pages, one.b, one.pages)
          BY <5>1, <5>3
        <5> DEFINE a == left[k].b
                   ap == left[k].pages
                   b == one.b
                   bp == one.pages
                   c == left[l].b
                   cp == left[l].pages
        <5>5. /\ a \in Int /\ ap \in Nat \ {0} /\ b \in Nat /\ bp \in Nat \ {0}
              /\ c \in Nat /\ cp \in Nat \ {0}
              /\ Separate(a, ap, b, bp) /\ b <= c /\ c + cp <= b + bp
          BY <2>5, <5>2, <5>3, <5>4
        <5> HIDE DEF a, ap, b, bp, c, cp
        <5>6. Separate(a, ap, c, cp) /\ Separate(c, cp, a, ap)
          BY <5>5, Within
        <5>7. QED
          BY <5>6 DEF a, ap, c, cp
      <4>7. QED
        BY <4>3, <4>4, <4>5, <4>6
    <3>3. QED
      BY <2>4, <3>1, <3>2 DEF FreeInv
  <2>10. Clear(t, nr, p)
    <3>1. \A a \in DOMAIN m.free \ {1} :
              Separate(m.free[a].b, m.free[a].pages, one.b, one.pages)
      BY <2>2, <2>8
    <3>2. one.b + one.pages <= m.blocknr_max
      BY <2>2, <2>8
    <3>3. \A k \in DOMAIN left : Separate(nr, p, left[k].b, left[k].pages)
      <4> SUFFICES ASSUME NEW k \in DOMAIN left
                   PROVE  Separate(nr, p, left[k].b, left[k].pages)
        OBVIOUS
      <4>1. CASE Rest(k)
        BY <2>5, <2>6, <4>1 DEF Separate
      <4>2. CASE ~Rest(k)
        <5>1. Separate(left[k].b, left[k].pages, one.b, one.pages)
          BY <2>6, <3>1, <4>2
        <5>2. QED
          BY <2>5, <2>6, <5>1 DEF Separate
      <4>3. QED
        BY <4>1, <4>2
    <3>4. QED
      BY <1>0, <2>4, <2>5, <3>2, <3>3, SMTT(30) DEF Clear
  <2>11. ASSUME NEW b \in Int, NEW q \in Nat \ {0}, Clear(m, b, q)
         PROVE  Clear(t, b, q) /\ Separate(b, q, nr, p)
    <3>1. \A a \in DOMAIN m.free : Separate(b, q, m.free[a].b, m.free[a].pages)
      BY <2>11 DEF Clear
    <3>2. Separate(b, q, one.b, one.pages)
      BY <2>2, <3>1
    <3>3. \A k \in DOMAIN left : Separate(b, q, left[k].b, left[k].pages)
      <4> SUFFICES ASSUME NEW k \in DOMAIN left
                   PROVE  Separate(b, q, left[k].b, left[k].pages)
        OBVIOUS
      <4>1. CASE Rest(k)
        BY <2>5, <2>6, <3>2, <4>1 DEF Separate
      <4>2. CASE ~Rest(k)
        BY <2>6, <3>1, <4>2
      <4>3. QED
        BY <4>1, <4>2
    <3>4. Separate(b, q, nr, p)
      BY <2>5, <3>2 DEF Separate
    <3>5. QED
      BY <2>4, <2>11, <3>3, <3>4 DEF Clear
  <2>12. QED
    BY <1>0, <2>4, <2>5, <2>9, <2>10, <2>11 DEF Took, t, nr
<1>3. QED
  BY <1>1, <1>2

-----------------------------------------------------------------------------
(* Pages are written.                                                      *)

\* The same blocks are in memory at the same places, with the same data.
SameBlocks(m, n) ==
  /\ Len(n.used) = Len(m.used)
  /\ \A k \in DOMAIN m.used : /\ n.used[k].b = m.used[k].b
                              /\ n.used[k].pages = m.used[k].pages
                              /\ n.used[k].data = m.used[k].data
SameLocks(m, n) == \A k \in DOMAIN m.used : n.used[k].locked = m.used[k].locked

\* The invariant survives a change of dirty marks and of the file, as long as what is not
\* dirty and what is not in memory is on disk.
LEMMA Retouched ==
  ASSUME NEW m, NEW h, NEW X, MemInv(m, h, X), NEW n, NEW Y, MemTypes(n), SameNumbers(m, n),
         SameBlocks(m, n),
         \A k \in DOMAIN m.used : m.used[k].b < 0 => n.used[k].dirty,
         \A k \in DOMAIN m.used : \/ n.used[k].dirty \/ m.used[k].b \in Y
                                  \/ OnDisk(n, m.used[k].b, m.used[k].pages, m.used[k].data),
         \A x \in DOMAIN h : \/ InMemory(m, Translated(m, x))
                             \/ OnDisk(n, Translated(m, x), h[x].pages, h[x].data),
         n.infile_count <= n.blocknr_max, ~n.fd => n.infile_count = 0
  PROVE  /\ MemInv(n, h, Y) /\ \A x \in DOMAIN h : Translated(n, x) = Translated(m, x)
         /\ \A b : InMemory(n, b) = InMemory(m, b)
<1>0. /\ DOMAIN m.used = 1 .. Len(m.used) /\ DOMAIN n.used = 1 .. Len(n.used)
      /\ Len(n.used) = Len(m.used)
  BY MemFields DEF MemInv, SameBlocks
<1>1. DOMAIN n.used = DOMAIN m.used
  BY <1>0
<1>2. /\ \A x \in DOMAIN h : Translated(n, x) = Translated(m, x)
      /\ NumbersInv(n, h)
  BY NumbersKept DEF MemInv
<1>3. \A b : InMemory(n, b) = InMemory(m, b)
  BY <1>1 DEF InMemory, SameBlocks
<1>4. UsedInv(n, h, Y)
  <2>1. \A i \in DOMAIN n.used : \E x \in DOMAIN h :
            /\ n.used[i].b = Translated(n, x)
            /\ n.used[i].pages = h[x].pages /\ n.used[i].data = h[x].data
    BY <1>1, <1>2 DEF MemInv, UsedInv, SameBlocks
  <2>2. \A i, k \in DOMAIN n.used : n.used[i].b = n.used[k].b => i = k
    BY <1>1 DEF MemInv, UsedInv, SameBlocks
  <2>3. \A i \in DOMAIN n.used :
            /\ n.used[i].b < 0 => n.used[i].dirty
            /\ n.used[i].dirty \/ n.used[i].b \in Y
                 \/ OnDisk(n, n.used[i].b, n.used[i].pages, n.used[i].data)
    BY <1>1 DEF SameBlocks
  <2>4. QED
    BY <2>1, <2>2, <2>3 DEF UsedInv
<1>5. SavedInv(n, h)
  BY <1>2, <1>3 DEF SavedInv
<1>6. QED
  BY <1>2, <1>3, <1>4, <1>5 DEF MemInv

\* The block is in the file then, and what it does not overlap stays there.
InFileNow(m, n, b, pages, data) ==
  /\ MemTypes(n) /\ n.used = m.used /\ SameNumbers(m, n) /\ n.fd = m.fd
  /\ n.dirty = m.dirty /\ n.may_swap = m.may_swap
  /\ n.infile_count = IF b + pages > m.infile_count THEN b + pages ELSE m.infile_count
  /\ m.fd => OnDisk(n, b, pages, data)
  /\ \A c \in Nat, q \in Nat \ {0} : \A d :
       OnDisk(m, c, q, d) /\ (c + q <= b \/ b + pages <= c) => OnDisk(n, c, q, d)

\* WritePages puts the block on disk and leaves the other blocks there.
LEMMA PagesWritten ==
  ASSUME NEW m, MemTypes(m), NEW b \in Nat, NEW pages \in Nat \ {0}, b <= m.infile_count,
         NEW data \in Blocks
  PROVE  InFileNow(m, WritePages(m, b, data, pages), b, pages, data)
<1> DEFINE n == WritePages(m, b, data, pages)
           N == IF b + pages > m.infile_count THEN b + pages ELSE m.infile_count
           new == [p \in 0 .. (N - 1) |->
                     IF p \in b .. (b + pages - 1) THEN Page(data, p - b, pages) ELSE m.disk[p]]
<1>1. /\ m.infile_count \in Nat /\ m.disk \in [0 .. (m.infile_count - 1) -> FilePages]
      /\ N \in Nat /\ DOMAIN m.disk = 0 .. (m.infile_count - 1)
  BY MemFields
<1>2. (DOMAIN m.disk) \cup (0 .. (b + pages - 1)) = 0 .. (N - 1)
  BY <1>1
<1>3. \A p \in 0 .. (N - 1) : p \in b .. (b + pages - 1) \/ p \in DOMAIN m.disk
  BY <1>1
<1>4. [p \in (DOMAIN m.disk) \cup (0 .. (b + pages - 1)) |->
         IF p \in b .. (b + pages - 1) THEN Page(data, p - b, pages)
         ELSE IF p \in DOMAIN m.disk THEN m.disk[p] ELSE Hole] = new
  BY <1>2, <1>3
<1>5. new \in [0 .. (N - 1) -> FilePages]
  <2> SUFFICES ASSUME NEW p \in 0 .. (N - 1) PROVE new[p] \in FilePages
    OBVIOUS
  <2>1. CASE p \in b .. (b + pages - 1)
    <3>1. p - b \in Nat
      BY <2>1
    <3>2. QED
      BY <2>1, <3>1 DEF Page, FilePages
  <2>2. CASE p \notin b .. (b + pages - 1)
    BY <1>1, <1>3, <2>2
  <2>3. QED
    BY <2>1, <2>2
<1>6. n = [m EXCEPT !.disk = new, !.infile_count = N]
  BY <1>4 DEF WritePages
<1> HIDE DEF n
<1>7. /\ \A p \in 0 .. (N - 1) :
           new[p] = IF p \in b .. (b + pages - 1) THEN Page(data, p - b, pages) ELSE m.disk[p]
      /\ b + pages <= N /\ m.infile_count <= N
  BY <1>1
<1>8. DOMAIN new = 0 .. (N - 1)
  OBVIOUS
<1> HIDE DEF new
<1>9. /\ n.used = m.used /\ SameNumbers(m, n) /\ n.fd = m.fd
      /\ n.dirty = m.dirty /\ n.may_swap = m.may_swap /\ n.infile_count = N /\ n.disk = new
  BY <1>6 DEF MemTypes, SameNumbers
<1>10. MemTypes(n)
  BY <1>1, <1>5, <1>6, <1>8 DEF MemTypes
<1> HIDE DEF N
<1>11. m.fd => OnDisk(n, b, pages, data)
  <2>1. \A p \in b .. (b + pages - 1) : p \in 0 .. (N - 1)
    BY <1>1, <1>7
  <2>2. QED
    BY <1>7, <1>9, <2>1 DEF OnDisk
<1>12. ASSUME NEW c \in Nat, NEW q \in Nat \ {0}, NEW d, OnDisk(m, c, q, d),
              c + q <= b \/ b + pages <= c
       PROVE  OnDisk(n, c, q, d)
  <2>1. /\ m.fd /\ c + q <= m.infile_count
        /\ \A p \in c .. (c + q - 1) : m.disk[p] = Page(d, p - c, q)
    BY <1>12 DEF OnDisk
  <2>2. \A p \in c .. (c + q - 1) : p \in 0 .. (N - 1) /\ p \notin b .. (b + pages - 1)
    BY <1>1, <1>7, <1>12, <2>1
  <2>3. \A p \in c .. (c + q - 1) : n.disk[p] = Page(d, p - c, q)
    BY <1>7, <1>9, <2>1, <2>2
  <2>4. c + q <= N
    BY <1>1, <1>7, <2>1
  <2>5. QED
    BY <1>9, <2>1, <2>3, <2>4 DEF OnDisk
<1>13. QED
  BY <1>9, <1>10, <1>11, <1>12 DEF N, n, InFileNow

SameRest(m, n) ==
  SameNumbers(m, n) /\ SameFile(m, n) /\ n.dirty = m.dirty /\ n.may_swap = m.may_swap

\* One header of the used list is another.
LEMMA NewHeader ==
  ASSUME NEW m, MemTypes(m), NEW j \in DOMAIN m.used, NEW hp \in Headers,
         NEW n, n = [m EXCEPT !.used[j] = hp]
  PROVE  /\ MemTypes(n) /\ SameRest(m, n)
         /\ Len(n.used) = Len(m.used) /\ DOMAIN n.used = DOMAIN m.used
         /\ n.used[j] = hp /\ \A k \in DOMAIN m.used : k # j => n.used[k] = m.used[k]
<1> DEFINE u == [m.used EXCEPT ![j] = hp]
<1>1. m.used \in Seq(Headers) /\ DOMAIN m.used = 1 .. Len(m.used)
  BY MemFields
<1>2. /\ u \in Seq(Headers) /\ Len(u) = Len(m.used) /\ DOMAIN u = DOMAIN m.used
      /\ \A k \in 1 .. Len(m.used) : u[k] = IF k = j THEN hp ELSE m.used[k]
  BY <1>1
<1>3. n = [m EXCEPT !.used = u]
  OBVIOUS
<1> HIDE DEF u
<1>4. /\ MemTypes(n) /\ n.used = u /\ SameRest(m, n)
  <2> DEFINE o == [m EXCEPT !.used = u]
  <2>1. /\ MemTypes(o) /\ o.used = u /\ o.free = m.free
        /\ o.blocknr_max = m.blocknr_max /\ o.blocknr_min = m.blocknr_min
        /\ o.infile_count = m.infile_count /\ o.neg_count = m.neg_count
        /\ o.trans = m.trans /\ o.dirty = m.dirty /\ o.fd = m.fd /\ o.disk = m.disk
        /\ o.may_swap = m.may_swap
    BY <1>2, NewUsed
  <2>2. n = o
    BY <1>3
  <2> HIDE DEF o
  <2>3. QED
    BY <2>1, <2>2 DEF SameRest, SameNumbers, SameFile
<1>5. QED
  BY <1>1, <1>2, <1>4

\* A header with another mark.
LEMMA Marked ==
  ASSUME NEW hp \in Headers, NEW d \in BOOLEAN, NEW n, n = [hp EXCEPT !.dirty = d]
  PROVE  /\ n \in Headers /\ n.b = hp.b /\ n.pages = hp.pages /\ n.data = hp.data
         /\ n.locked = hp.locked /\ n.dirty = d
BY DEF Headers

\* Marking a header clean changes nothing else of it.
LEMMA Cleaned ==
  ASSUME NEW hp \in Headers, NEW n, n = [hp EXCEPT !.dirty = FALSE]
  PROVE  /\ n \in Headers /\ n.b = hp.b /\ n.pages = hp.pages /\ n.data = hp.data
         /\ n.locked = hp.locked /\ n.dirty = FALSE
BY DEF Headers

-----------------------------------------------------------------------------
(* mf_write.                                                               *)

\* Blocks that are not the same do not overlap.
LEMMA UsedSeparate ==
  ASSUME NEW m, NEW h, NEW X, MemInv(m, h, X), NEW k \in DOMAIN m.used, NEW x \in DOMAIN h,
         Translated(m, x) # m.used[k].b
  PROVE  Separate(Translated(m, x), h[x].pages, m.used[k].b, m.used[k].pages)
<1>1. PICK y \in DOMAIN h : /\ m.used[k].b = Translated(m, y) /\ m.used[k].pages = h[y].pages
  BY NameOf
<1>2. QED
  BY <1>1 DEF MemInv, NumbersInv

\* No block has become dirty.
Cleaner(m, n) == \A k \in DOMAIN m.used : n.used[k].dirty => m.used[k].dirty
\* What writing does: blocks, locks and numbers stay.
Wrote(m, n, h, X) ==
  /\ MemInv(n, h, X) /\ SameNumbers(m, n) /\ SameBlocks(m, n) /\ SameLocks(m, n)
  /\ n.fd = m.fd /\ n.dirty = m.dirty /\ n.may_swap = m.may_swap
  /\ n.infile_count >= m.infile_count /\ Cleaner(m, n)

\* One turn of mf_write: a failing write changes nothing; one that succeeds writes the
\* block wanted, or makes the file longer on the way to it.
LEMMA NumberWritten ==
  ASSUME NEW m, NEW h, NEW X, MemInv(m, h, X), m.fd, NEW i \in DOMAIN m.used, m.used[i].b >= 0,
         NEW room,
         NEW r, r = WriteNumber(m, i, NextNumber(m, i), Position(m, NextNumber(m, i)), room)
  PROVE  /\ Wrote(m, r.m, h, X) /\ r.ok \in BOOLEAN /\ r.done \in BOOLEAN
         /\ ~r.ok => r.done /\ r.m = m
         /\ r.ok /\ r.done => /\ ~r.m.used[i].dirty
                              /\ OnDisk(r.m, m.used[i].b, m.used[i].pages, m.used[i].data)
         /\ r.ok /\ ~r.done => /\ r.m.infile_count > m.infile_count
                               /\ r.m.infile_count <= m.used[i].b
<1> DEFINE b == m.used[i].b
           nr == NextNumber(m, i)
           j == Position(m, nr)
           pages == IF j = 0 THEN 1 ELSE m.used[j].pages
           at == IF j = 0 THEN i ELSE j
           w == WritePages(m, nr, m.used[at].data, pages)
<1>0. /\ MemTypes(m) /\ m.infile_count \in Nat /\ m.blocknr_max \in Nat
      /\ \A k \in DOMAIN m.used : /\ m.used[k] \in Headers /\ m.used[k].b \in Int
                                  /\ m.used[k].pages \in Nat \ {0} /\ m.used[k].data \in Blocks
      /\ m.infile_count <= m.blocknr_max /\ 0 \notin DOMAIN m.used
  BY MemFields DEF MemInv
<1>1. \A k, l \in DOMAIN m.used : m.used[k].b = m.used[l].b => k = l
  BY DEF MemInv, UsedInv
<1>2. /\ nr \in Nat /\ nr <= m.infile_count /\ nr <= b
      /\ nr # b => nr = m.infile_count
  BY <1>0 DEF NextNumber
<1>3. /\ j # 0 => j \in DOMAIN m.used /\ m.used[j].b = nr
      /\ j = 0 => ~InMemory(m, nr)
      /\ nr = b => j = i
  BY <1>0, <1>1, PositionIn DEF InMemory
<1>4. /\ pages \in Nat \ {0} /\ at \in DOMAIN m.used
      /\ (j = 0 => pages = 1) /\ (j # 0 => pages = m.used[j].pages /\ at = j)
  BY <1>0, <1>3
<1> HIDE DEF nr, j, pages, at
<1>5. /\ MemTypes(w) /\ w.used = m.used /\ SameNumbers(m, w) /\ w.fd = m.fd
      /\ w.dirty = m.dirty /\ w.may_swap = m.may_swap
      /\ w.infile_count = IF nr + pages > m.infile_count THEN nr + pages ELSE m.infile_count
      /\ OnDisk(w, nr, pages, m.used[at].data)
      /\ \A c \in Nat, q \in Nat \ {0} : \A d : OnDisk(m, c, q, d) /\ (c + q <= nr \/ nr + pages <= c)
                                        => OnDisk(w, c, q, d)
  <2>1. w = WritePages(m, nr, m.used[at].data, pages) /\ m.used[at].data \in Blocks
    BY <1>0, <1>4
  <2> HIDE DEF w
  <2> DEFINE data == m.used[at].data
  <2>2. nr \in Nat /\ pages \in Nat \ {0} /\ nr <= m.infile_count /\ data \in Blocks
        /\ MemTypes(m) /\ w = WritePages(m, nr, data, pages)
    BY <1>0, <1>2, <1>4, <2>1
  <2> HIDE DEF data
  <2>3. InFileNow(m, w, nr, pages, data)
    BY <2>2, PagesWritten
  <2>4. QED
    BY <2>3 DEF data, InFileNow
<1> HIDE DEF w
\* What the write is not about stays in the file.
<1>6. \A c \in Int, q \in Nat \ {0} : \A d :
         OnDisk(m, c, q, d) /\ (j # 0 => Separate(c, q, nr, pages)) => OnDisk(w, c, q, d)
  <2> SUFFICES ASSUME NEW c \in Int, NEW q \in Nat \ {0}, NEW d,
                      OnDisk(m, c, q, d), j # 0 => Separate(c, q, nr, pages)
               PROVE  OnDisk(w, c, q, d)
    OBVIOUS
  <2>1. c \in Nat /\ c + q <= m.infile_count
    BY DEF OnDisk
  <2>2. c + q <= nr \/ nr + pages <= c
    <3>1. CASE j # 0
      BY <1>2, <1>4, <2>1, <3>1 DEF Separate
    <3>2. CASE j = 0
      BY <1>0, <1>2, <1>3, <2>1, <3>2
    <3>3. QED
      BY <3>1, <3>2
  <2>3. QED
    BY <1>5, <2>1, <2>2
<1>7. \A k \in DOMAIN m.used : OnDisk(m, m.used[k].b, m.used[k].pages, m.used[k].data) /\ k # j
        => OnDisk(w, m.used[k].b, m.used[k].pages, m.used[k].data)
  <2> SUFFICES ASSUME NEW k \in DOMAIN m.used, k # j,
                      OnDisk(m, m.used[k].b, m.used[k].pages, m.used[k].data)
               PROVE  OnDisk(w, m.used[k].b, m.used[k].pages, m.used[k].data)
    OBVIOUS
  <2>1. j # 0 => Separate(m.used[k].b, m.used[k].pages, nr, pages)
    <3>1. PICK x \in DOMAIN h : m.used[k].b = Translated(m, x) /\ m.used[k].pages = h[x].pages
      BY NameOf
    <3>2. QED
      BY <1>1, <1>3, <1>4, <3>1, UsedSeparate
  <2>2. QED
    BY <1>0, <1>6, <2>1
<1>8. \A x \in DOMAIN h : \/ InMemory(m, Translated(m, x))
                          \/ OnDisk(w, Translated(m, x), h[x].pages, h[x].data)
  <2> SUFFICES ASSUME NEW x \in DOMAIN h, ~InMemory(m, Translated(m, x))
               PROVE  OnDisk(w, Translated(m, x), h[x].pages, h[x].data)
    OBVIOUS
  <2>1. OnDisk(m, Translated(m, x), h[x].pages, h[x].data)
    BY DEF MemInv, SavedInv
  <2>2. j # 0 => Separate(Translated(m, x), h[x].pages, nr, pages)
    BY <1>3, <1>4, UsedSeparate DEF InMemory
  <2>3. Translated(m, x) \in Int /\ h[x].pages \in Nat \ {0}
    BY NameFacts
  <2>4. QED
    BY <1>6, <2>1, <2>2, <2>3
<1>9. /\ w.infile_count \in Nat /\ w.infile_count >= m.infile_count
      /\ w.infile_count <= m.blocknr_max
      /\ nr # b => w.infile_count > m.infile_count /\ w.infile_count <= b
  <2>1. b < m.blocknr_max
    BY NameOf
  <2>2. CASE j = 0
    BY <1>0, <1>2, <1>3, <1>4, <1>5, <2>1, <2>2
  <2>3. CASE j # 0
    <3>1. PICK x \in DOMAIN h : m.used[j].b = Translated(m, x) /\ m.used[j].pages = h[x].pages
      BY <1>3, <2>3, NameOf
    <3>2. nr + pages <= m.blocknr_max
      BY <1>2, <1>3, <1>4, <2>3, <3>1 DEF MemInv, NumbersInv, Clear
    <3>3. nr # b => nr + pages <= b
      <4>1. PICK y \in DOMAIN h : b = Translated(m, y) /\ m.used[i].pages = h[y].pages
        BY NameOf
      <4>2. nr # b => Separate(b, h[y].pages, nr, pages)
        BY <1>3, <1>4, <2>3, <4>1, UsedSeparate
      <4>3. h[y].pages \in Nat \ {0}
        BY NameFacts
      <4>4. QED
        BY <1>0, <1>2, <1>4, <4>2, <4>3 DEF Separate
    <3>4. QED
      BY <1>0, <1>2, <1>4, <1>5, <3>2, <3>3
  <2>4. QED
    BY <2>2, <2>3
<1>10. CASE nr + pages > room
  <2>1. r = [m |-> m, ok |-> FALSE, done |-> TRUE]
    BY <1>10 DEF WriteNumber, nr, pages, j
  <2>2. Wrote(m, m, h, X)
    BY <1>0 DEF Wrote, SameNumbers, SameBlocks, SameLocks, Cleaner
  <2>3. QED
    BY <2>1, <2>2
<1>11. CASE ~(nr + pages > room) /\ j = 0
  <2>1. r = [m |-> w, ok |-> TRUE, done |-> nr = b]
    BY <1>11 DEF WriteNumber, nr, pages, j, w, at
  <2>2. SameBlocks(m, w) /\ SameLocks(m, w)
    BY <1>5 DEF SameBlocks, SameLocks
  <2>3. \A k \in DOMAIN m.used : k # j
    BY <1>0, <1>11
  <2>4. MemInv(w, h, X)
    <3>1. \A k \in DOMAIN m.used :
            /\ m.used[k].b < 0 => w.used[k].dirty
            /\ \/ w.used[k].dirty \/ m.used[k].b \in X
               \/ OnDisk(w, m.used[k].b, m.used[k].pages, m.used[k].data)
      BY <1>5, <1>7, <2>3 DEF MemInv, UsedInv
    <3>2. w.infile_count <= w.blocknr_max /\ (~w.fd => w.infile_count = 0)
      BY <1>5, <1>9 DEF SameNumbers
    <3>3. QED
      BY <1>5, <1>8, <2>2, <3>1, <3>2, Retouched
  <2>5. Wrote(m, w, h, X)
    BY <1>5, <1>9, <2>2, <2>4 DEF Wrote, Cleaner
  <2>6. nr # b
    BY <1>3, <1>0, <1>11
  <2>7. r.m = w /\ r.ok = TRUE /\ r.done = FALSE
    <3>1. r.m = w /\ r.ok
      BY <2>1
    <3>2. r.done = (nr = b)
      BY <2>1
    <3> HIDE DEF b
    <3>3. QED
      BY <2>6, <3>1, <3>2
  <2>8. QED
    BY <1>9, <2>5, <2>6, <2>7
<1>12. CASE ~(nr + pages > room) /\ j # 0
  <2> DEFINE hp == [w.used[j] EXCEPT !.dirty = FALSE]
             n == [w EXCEPT !.used[j] = hp]
  <2>1. r = [m |-> n, ok |-> TRUE, done |-> nr = b]
    BY <1>12 DEF WriteNumber, nr, pages, j, w, at
  <2>2. /\ hp \in Headers /\ hp.b = m.used[j].b /\ hp.pages = m.used[j].pages
        /\ hp.data = m.used[j].data /\ hp.locked = m.used[j].locked /\ hp.dirty = FALSE
    <3>1. w.used[j] \in Headers /\ w.used[j] = m.used[j]
      BY <1>0, <1>3, <1>5, <1>12
    <3> DEFINE old == w.used[j]
    <3>2. hp = [old EXCEPT !.dirty = FALSE]
      OBVIOUS
    <3> HIDE DEF hp, old
    <3>3. /\ hp \in Headers /\ hp.b = old.b /\ hp.pages = old.pages
          /\ hp.data = old.data /\ hp.locked = old.locked /\ hp.dirty = FALSE
      <4>1. old \in Headers
        BY <3>1 DEF old
      <4>2. QED
        BY <3>2, <4>1, Cleaned
    <3>4. QED
      BY <3>1, <3>3 DEF old
  <2> HIDE DEF hp
  <2>3. /\ MemTypes(n) /\ SameRest(w, n)
        /\ Len(n.used) = Len(m.used) /\ DOMAIN n.used = DOMAIN m.used
        /\ n.used[j] = hp /\ \A k \in DOMAIN m.used : k # j => n.used[k] = m.used[k]
    BY <1>3, <1>5, <1>12, <2>2, NewHeader
  <2> HIDE DEF n
  <2>4. SameBlocks(m, n) /\ SameLocks(m, n)
    BY <2>2, <2>3 DEF SameBlocks, SameLocks
  <2>5. \A c, q, d : OnDisk(n, c, q, d) = OnDisk(w, c, q, d)
    BY <2>3, FileKept DEF SameRest
  <2>6. SameNumbers(m, n) /\ n.fd = m.fd /\ n.infile_count = w.infile_count
        /\ n.dirty = m.dirty /\ n.may_swap = m.may_swap
    BY <1>5, <2>3 DEF SameRest, SameNumbers, SameFile
  <2>7. /\ OnDisk(n, m.used[j].b, m.used[j].pages, m.used[j].data)
    BY <1>3, <1>4, <1>5, <1>12, <2>5
  <2>8. MemInv(n, h, X)
    <3>1. \A k \in DOMAIN m.used :
            /\ m.used[k].b < 0 => n.used[k].dirty
            /\ \/ n.used[k].dirty \/ m.used[k].b \in X
               \/ OnDisk(n, m.used[k].b, m.used[k].pages, m.used[k].data)
      <4> SUFFICES ASSUME NEW k \in DOMAIN m.used
                   PROVE  /\ m.used[k].b < 0 => n.used[k].dirty
                          /\ \/ n.used[k].dirty \/ m.used[k].b \in X
                             \/ OnDisk(n, m.used[k].b, m.used[k].pages, m.used[k].data)
        OBVIOUS
      <4>1. CASE k = j
        BY <1>2, <1>3, <1>12, <2>7, <4>1
      <4>2. CASE k # j
        <5>1. n.used[k] = m.used[k]
          BY <2>3, <4>2
        <5>2. QED
          BY <1>7, <2>5, <4>2, <5>1 DEF MemInv, UsedInv
      <4>3. QED
        BY <4>1, <4>2
    <3>2. n.infile_count <= n.blocknr_max /\ (~n.fd => n.infile_count = 0)
      BY <1>9, <2>6 DEF SameNumbers
    <3>3. \A x \in DOMAIN h : \/ InMemory(m, Translated(m, x))
                              \/ OnDisk(n, Translated(m, x), h[x].pages, h[x].data)
      BY <1>8, <2>5
    <3>4. QED
      BY <2>3, <2>4, <2>6, <3>1, <3>2, <3>3, Retouched
  <2>9. Wrote(m, n, h, X)
    <3>1. Cleaner(m, n)
      BY <2>2, <2>3 DEF Cleaner
    <3>2. QED
      BY <1>9, <2>4, <2>6, <2>8, <3>1 DEF Wrote
  <2>10. nr = b => ~n.used[i].dirty /\ OnDisk(n, b, m.used[i].pages, m.used[i].data)
    BY <1>3, <2>2, <2>3, <2>7
  <2>11. CASE nr = b
    <3>1. r.m = n /\ r.ok = TRUE /\ r.done = TRUE
        <4>1. r.m = n /\ r.ok
        BY <2>1
      <4>2. r.done = (nr = b)
        BY <2>1
      <4> HIDE DEF b
      <4>3. QED
        BY <2>11, <4>1, <4>2
    <3>2. QED
      BY <2>9, <2>10, <2>11, <3>1
  <2>12. CASE nr # b
    <3>1. r.m = n /\ r.ok = TRUE /\ r.done = FALSE
        <4>1. r.m = n /\ r.ok
        BY <2>1
      <4>2. r.done = (nr = b)
        BY <2>1
      <4> HIDE DEF b
      <4>3. QED
        BY <2>12, <4>1, <4>2
    <3>2. QED
      BY <1>9, <2>6, <2>9, <2>12, <3>1
  <2>13. QED
    BY <2>11, <2>12
<1>13. QED
  BY <1>10, <1>11, <1>12

\* Writing twice is writing.
LEMMA WroteOn ==
  ASSUME NEW m, NEW n, NEW o, NEW h, NEW X, MemInv(m, h, X), Wrote(m, n, h, X), Wrote(n, o, h, X)
  PROVE  Wrote(m, o, h, X)
<1>1. DOMAIN n.used = DOMAIN m.used
  BY MemFields DEF Wrote, MemInv, SameBlocks
<1>2. m.infile_count \in Nat /\ n.infile_count \in Nat /\ o.infile_count \in Nat
  BY MemFields DEF Wrote, MemInv
<1>3. SameBlocks(m, o) /\ SameLocks(m, o)
  BY <1>1 DEF Wrote, SameBlocks, SameLocks
<1>4. SameNumbers(m, o)
  BY DEF Wrote, SameNumbers
<1>5. Cleaner(m, o)
  BY <1>1 DEF Wrote, Cleaner
<1>6. QED
  BY <1>2, <1>3, <1>4, <1>5 DEF Wrote

\* Writing nothing is writing.
LEMMA WroteNothing ==
  ASSUME NEW m, NEW h, NEW X, MemInv(m, h, X)
  PROVE  Wrote(m, m, h, X)
BY MemFields DEF MemInv, Wrote, SameNumbers, SameBlocks, SameLocks, Cleaner

\* The loop of mf_write ends with the block written, or with a failure.
Written(n, i) ==
  ~n.used[i].dirty /\ OnDisk(n, n.used[i].b, n.used[i].pages, n.used[i].data)

\* The loop of mf_write: it keeps the invariant, and when it succeeds the block is clean
\* and on disk.
LEMMA WrittenUpTo ==
  ASSUME NEW m, NEW h, NEW X, MemInv(m, h, X), m.fd, NEW i \in DOMAIN m.used, m.used[i].b >= 0,
         NEW room, NEW r, r = WriteUpTo(m, i, room)
  PROVE  /\ Wrote(m, r.m, h, X) /\ r.ok \in BOOLEAN /\ (r.ok => Written(r.m, i))
         /\ m.used[i].b = 0 /\ ~r.ok => r.m = m
<1> DEFINE b == m.used[i].b
           Loop(N, f) == f = [n \in 0 .. N |-> IF n = 0 THEN [m |-> m, ok |-> TRUE, done |-> FALSE]
                                               ELSE WriteOne(f[n - 1], i, room)]
<1>0. b \in Nat
  BY MemFields DEF MemInv
<1>1. \A N \in 0 .. (b + 1) : \E f : Loop(N, f)
  <2> DEFINE T == {N \in 0 .. (b + 1) : \E f : Loop(N, f)}
  <2>1. 0 \in T
    <3>1. Loop(0, [n \in 0 .. 0 |-> [m |-> m, ok |-> TRUE, done |-> FALSE]])
      OBVIOUS
    <3> HIDE DEF Loop
    <3>2. QED
      BY <1>0, <3>1
  <2>2. ASSUME NEW N \in 1 .. (b + 1), N - 1 \in T
        PROVE  N \in T
    <3>1. PICK f : Loop(N - 1, f)
      BY <2>2
    <3> DEFINE g == [n \in 0 .. N |-> IF n < N THEN f[n] ELSE WriteOne(f[N - 1], i, room)]
    <3>2. Loop(N, g)
      <4>1. \A n \in 0 .. N : n # 0 => n - 1 \in 0 .. (N - 1) /\ g[n - 1] = f[n - 1]
        BY <2>2
      <4>2. \A n \in 0 .. N : g[n] = IF n = 0 THEN [m |-> m, ok |-> TRUE, done |-> FALSE]
                                     ELSE WriteOne(g[n - 1], i, room)
        <5> SUFFICES ASSUME NEW n \in 0 .. N
                     PROVE  g[n] = IF n = 0 THEN [m |-> m, ok |-> TRUE, done |-> FALSE]
                                   ELSE WriteOne(g[n - 1], i, room)
          OBVIOUS
        <5>1. CASE n = N
          <6>1. g[n] = WriteOne(f[n - 1], i, room) /\ n # 0
            BY <2>2, <5>1
          <6> HIDE DEF g
          <6>2. QED
            BY <4>1, <6>1
        <5>2. CASE n # N
          <6>1. g[n] = f[n] /\ n \in 0 .. (N - 1)
            BY <2>2, <5>2
          <6>2. f[n] = IF n = 0 THEN [m |-> m, ok |-> TRUE, done |-> FALSE]
                       ELSE WriteOne(f[n - 1], i, room)
            BY <3>1, <6>1
          <6> HIDE DEF g
          <6>3. QED
            BY <4>1, <6>1, <6>2
        <5>3. QED
          BY <5>1, <5>2
      <4>3. g = [n \in 0 .. N |-> g[n]]
        OBVIOUS
      <4> HIDE DEF g
      <4>4. QED
        BY <4>2, <4>3
    <3> HIDE DEF Loop, g
    <3>3. QED
      BY <2>2, <3>2
  <2> HIDE DEF T
  <2>3. \A N \in 0 .. (b + 1) : N \in T
    <3>1. b + 1 \in Nat
      BY <1>0
    <3> HIDE DEF b
    <3>2. QED
      BY <2>1, <2>2, <3>1, UpTo
  <2>4. QED
    BY <2>3 DEF T
<1> DEFINE Turn == CHOOSE f : Loop(b + 1, f)
<1>2. r = Turn[b + 1]
  BY DEF WriteUpTo
<1>3. Loop(b + 1, Turn)
  <2>1. \E f : Loop(b + 1, f)
    <3> HIDE DEF Loop
    <3>1. QED
      BY <1>0, <1>1
  <2> HIDE DEF Loop
  <2>2. QED
    BY <2>1
<1>4. /\ Turn[0] = [m |-> m, ok |-> TRUE, done |-> FALSE]
      /\ \A n \in 1 .. (b + 1) : Turn[n] = WriteOne(Turn[n - 1], i, room)
  <2> HIDE DEF Turn
  <2>1. \A n \in 0 .. (b + 1) :
          Turn[n] = IF n = 0 THEN [m |-> m, ok |-> TRUE, done |-> FALSE]
                    ELSE WriteOne(Turn[n - 1], i, room)
    BY <1>3
  <2>2. 0 \in 0 .. (b + 1) /\ \A n \in 1 .. (b + 1) : n \in 0 .. (b + 1) /\ n # 0
    BY <1>0
  <2>3. QED
    BY <2>1, <2>2
<1> HIDE DEF Turn, Loop
<1> DEFINE Good(n, t) ==
             /\ Wrote(m, t.m, h, X) /\ t.ok \in BOOLEAN /\ t.done \in BOOLEAN
             /\ t.ok /\ t.done => Written(t.m, i)
             /\ ~t.done => t.ok /\ t.m.infile_count >= n /\ (n > 0 => t.m.infile_count <= b)
             /\ n = 0 \/ (b = 0 /\ ~t.ok) => t.m = m
<1>5. Good(0, Turn[0])
  <2>1. Turn[0].m = m /\ Turn[0].ok = TRUE /\ Turn[0].done = FALSE
    BY <1>4
  <2>2. m.infile_count >= 0
    BY MemFields DEF MemInv
  <2>3. Wrote(m, Turn[0].m, h, X) /\ Turn[0].m.infile_count >= 0
    BY <2>1, <2>2, WroteNothing
  <2>4. Turn[0].ok /\ ~Turn[0].done /\ Turn[0].ok \in BOOLEAN /\ Turn[0].done \in BOOLEAN
    BY <2>1
  <2>5. ~(0 > 0)
    OBVIOUS
  <2>6. QED
    BY <2>1, <2>3, <2>4, <2>5
<1>6. ASSUME NEW n \in 1 .. (b + 1), NEW t, Good(n - 1, t), NEW u, u = WriteOne(t, i, room)
      PROVE  Good(n, u)
  <2>1. CASE t.done
    <3>1. u = t
      BY <1>6, <2>1 DEF WriteOne
    <3>2. n # 0
      BY <1>0
    <3>3. n - 1 = 0 \/ (b = 0 /\ ~t.ok) => t.m = m
      BY <1>6
    <3>4. QED
      BY <1>6, <2>1, <3>1, <3>2, <3>3
  <2>2. CASE ~t.done
    <3>1. u = WriteNumber(t.m, i, NextNumber(t.m, i), Position(t.m, NextNumber(t.m, i)), room)
      BY <1>6, <2>2 DEF WriteOne
    <3>2. /\ MemInv(t.m, h, X) /\ t.m.fd /\ i \in DOMAIN t.m.used /\ t.m.used[i].b = b
          /\ t.m.used[i].b >= 0
      BY <1>0, <1>6, MemFields DEF Wrote, SameBlocks, MemInv
    <3>3. /\ Wrote(t.m, u.m, h, X) /\ u.ok \in BOOLEAN /\ u.done \in BOOLEAN
          /\ ~u.ok => u.done /\ u.m = t.m
          /\ u.ok /\ u.done => /\ ~u.m.used[i].dirty
                               /\ OnDisk(u.m, t.m.used[i].b, t.m.used[i].pages, t.m.used[i].data)
          /\ u.ok /\ ~u.done => /\ u.m.infile_count > t.m.infile_count
                                /\ u.m.infile_count <= t.m.used[i].b
      BY <3>1, <3>2, NumberWritten
    <3>4. Wrote(m, u.m, h, X)
      BY <1>6, <3>3, WroteOn
    <3>5. u.ok /\ u.done => Written(u.m, i)
      BY <3>2, <3>3 DEF Written, Wrote, SameBlocks
    <3>6. t.m.infile_count \in Nat /\ u.m.infile_count \in Nat
      BY <3>2, <3>3, MemFields DEF MemInv, Wrote
    <3>7. ~u.done => u.ok /\ u.m.infile_count >= n /\ u.m.infile_count <= b
      BY <1>0, <1>6, <2>2, <3>2, <3>3, <3>6
    <3>8. n # 0
      BY <1>0
    <3>9. b = 0 /\ ~u.ok => u.m = m
      <4> SUFFICES ASSUME b = 0, ~u.ok PROVE u.m = m
        OBVIOUS
      <4>1. n - 1 = 0
        BY <1>0, <1>6, <2>2, <3>6
      <4>2. QED
        BY <1>6, <3>3, <4>1
    <3>10. QED
      BY <3>3, <3>4, <3>5, <3>7, <3>8, <3>9
  <2>3. QED
    BY <1>6, <2>1, <2>2
<1>7. \A n \in 0 .. (b + 1) : Good(n, Turn[n])
  <2> DEFINE T == {n \in 0 .. (b + 1) : Good(n, Turn[n])}
  <2> HIDE DEF Good
  <2>1. 0 \in T /\ b + 1 \in Nat
    BY <1>0, <1>5
  <2>2. ASSUME NEW n \in 1 .. (b + 1), n - 1 \in T PROVE n \in T
    <3>1. n \in 0 .. (b + 1)
      BY <1>0
    <3>2. QED
      BY <1>4, <1>6, <2>2, <3>1
  <2> HIDE DEF T, b
  <2>3. \A n \in 0 .. (b + 1) : n \in T
    BY <2>1, <2>2, UpTo
  <2>4. QED
    BY <2>3 DEF T
<1>8. Good(b + 1, r)
  <2> HIDE DEF Good
  <2>1. b + 1 \in 0 .. (b + 1)
    BY <1>0
  <2>2. QED
    BY <1>2, <1>7, <2>1
<1>9. r.m.infile_count \in Nat
  BY <1>8, MemFields DEF Wrote, MemInv
<1>10. QED
  BY <1>0, <1>8, <1>9

-----------------------------------------------------------------------------
(* mf_trans_add.                                                           *)

\* A new number for a header changes nothing else of it.
LEMMA Renamed ==
  ASSUME NEW hp \in Headers, NEW b \in Int, NEW n, n = [hp EXCEPT !.b = b]
  PROVE  /\ n \in Headers /\ n.b = b /\ n.pages = hp.pages /\ n.data = hp.data
         /\ n.locked = hp.locked /\ n.dirty = hp.dirty
BY DEF Headers

\* Renumber gives block i a number and remembers it in the hash of translations.
LEMMA RenumberIs ==
  ASSUME NEW m, MemTypes(m), NEW i \in DOMAIN m.used, NEW nr \in Nat,
         NEW n, n = Renumber(m, i, nr)
  PROVE  /\ MemTypes(n) /\ Len(n.used) = Len(m.used) /\ DOMAIN n.used = DOMAIN m.used
         /\ \A k \in DOMAIN m.used : k # i => n.used[k] = m.used[k]
         /\ n.used[i].b = nr /\ n.used[i].pages = m.used[i].pages
         /\ n.used[i].data = m.used[i].data /\ n.used[i].locked = m.used[i].locked
         /\ n.used[i].dirty = m.used[i].dirty
         /\ DOMAIN n.trans = DOMAIN m.trans \cup {m.used[i].b}
         /\ n.trans[m.used[i].b] = nr
         /\ \A x \in DOMAIN m.trans : x # m.used[i].b => n.trans[x] = m.trans[x]
         /\ n.free = m.free /\ n.blocknr_max = m.blocknr_max /\ n.blocknr_min = m.blocknr_min
         /\ n.neg_count = m.neg_count /\ n.dirty = m.dirty /\ n.may_swap = m.may_swap
         /\ SameFile(m, n)
<1> DEFINE hp == [m.used[i] EXCEPT !.b = nr]
           u == [m.used EXCEPT ![i] = hp]
           D == DOMAIN m.trans \cup {m.used[i].b}
           t == [x \in D |-> IF x = m.used[i].b THEN nr ELSE m.trans[x]]
<1>0. /\ m.used \in Seq(Headers) /\ DOMAIN m.used = 1 .. Len(m.used)
      /\ m.used[i] \in Headers /\ m.used[i].b \in Int
      /\ DOMAIN m.trans \subseteq Int /\ m.trans \in [DOMAIN m.trans -> Nat]
  BY MemFields
<1>1. n = [m EXCEPT !.used = u, !.trans = t]
  BY DEF Renumber
<1>2. /\ hp \in Headers /\ hp.b = nr /\ hp.pages = m.used[i].pages /\ hp.data = m.used[i].data
      /\ hp.locked = m.used[i].locked /\ hp.dirty = m.used[i].dirty
  BY <1>0, Renamed
<1> HIDE DEF hp
<1>3. /\ u \in Seq(Headers) /\ Len(u) = Len(m.used) /\ DOMAIN u = DOMAIN m.used
      /\ u[i] = hp /\ \A k \in DOMAIN m.used : k # i => u[k] = m.used[k]
  BY <1>0, <1>2
<1>4. /\ D \subseteq Int /\ t \in [D -> Nat] /\ DOMAIN t = D /\ t[m.used[i].b] = nr
      /\ \A x \in DOMAIN m.trans : x # m.used[i].b => t[x] = m.trans[x]
  BY <1>0
<1> HIDE DEF u, t, D
<1>21. t \in [DOMAIN t -> Nat] /\ DOMAIN t \subseteq Int
  BY <1>4
<1>5. /\ MemTypes(n) /\ n.used = u /\ n.trans = t /\ n.free = m.free
      /\ n.blocknr_max = m.blocknr_max /\ n.blocknr_min = m.blocknr_min
      /\ n.neg_count = m.neg_count /\ n.dirty = m.dirty /\ n.may_swap = m.may_swap
      /\ SameFile(m, n)
  BY <1>1, <1>3, <1>21 DEF MemTypes, SameFile
<1>6. QED
  BY <1>2, <1>3, <1>4, <1>5 DEF D

\* What may happen to the memory file while the block at place i is written:
\* all blocks stay, that block may get its positive number.
Moved(m, n, i, h, X) ==
  /\ MemInv(n, h, X) /\ n.fd = m.fd /\ n.dirty = m.dirty /\ n.may_swap = m.may_swap
  /\ n.blocknr_min = m.blocknr_min
  /\ Len(n.used) = Len(m.used) /\ DOMAIN n.used = DOMAIN m.used
  /\ \A k \in DOMAIN m.used : /\ n.used[k].pages = m.used[k].pages
                              /\ n.used[k].data = m.used[k].data
                              /\ n.used[k].locked = m.used[k].locked
                              /\ k # i \/ m.used[k].b >= 0 => n.used[k].b = m.used[k].b
  /\ \A x \in DOMAIN h :
       /\ Translated(m, x) >= 0 \/ Translated(m, x) # m.used[i].b
            => Translated(n, x) = Translated(m, x)
       /\ InMemory(n, Translated(n, x)) = InMemory(m, Translated(m, x))
  /\ DOMAIN m.trans \subseteq DOMAIN n.trans
  /\ \A x \in DOMAIN n.trans : x \in DOMAIN m.trans \/ (x < 0 /\ x = m.used[i].b)
  /\ Cleaner(m, n)

\* mf_trans_add: the block has a positive number, found by translation under its old
\* name, that no other block has.
LEMMA NumberAdded ==
  ASSUME NEW m, NEW h, NEW X, MemInv(m, h, X), NEW i \in DOMAIN m.used, m.used[i].b < 0,
         NEW n, n = TransAddAt(m, i)
  PROVE  Moved(m, n, i, h, X) /\ SameFile(m, n) /\ n.used[i].b \in Nat
<1> DEFINE b == m.used[i].b
           p == m.used[i].pages
           t == TakeNumber(m, p)
           nr == NewNumber(m, p)
<1>0. /\ MemTypes(m) /\ b \in Int /\ p \in Nat \ {0} /\ m.blocknr_max \in Nat
      /\ m.used[i].data \in Blocks
      /\ DOMAIN m.used = 1 .. Len(m.used)
      /\ \A k \in DOMAIN m.used : m.used[k].b \in Int /\ m.used[k].pages \in Nat \ {0}
  BY MemFields DEF MemInv
<1>1. Took(m, t, nr, p)
  BY <1>0, NumberTaken DEF MemInv, NumbersInv
<1>2. n = Renumber(t, i, nr)
  BY DEF TransAddAt
<1> HIDE DEF t, nr
<1>3. /\ MemTypes(n) /\ Len(n.used) = Len(m.used) /\ DOMAIN n.used = DOMAIN m.used
      /\ \A k \in DOMAIN m.used : k # i => n.used[k] = m.used[k]
      /\ n.used[i].b = nr /\ n.used[i].pages = m.used[i].pages
      /\ n.used[i].data = m.used[i].data /\ n.used[i].locked = m.used[i].locked
      /\ n.used[i].dirty = m.used[i].dirty
      /\ DOMAIN n.trans = DOMAIN m.trans \cup {b}
      /\ n.trans[b] = nr
      /\ \A x \in DOMAIN m.trans : x # b => n.trans[x] = m.trans[x]
      /\ n.free = t.free /\ n.blocknr_max = t.blocknr_max /\ n.blocknr_min = m.blocknr_min
      /\ n.neg_count = m.neg_count /\ n.dirty = m.dirty /\ n.may_swap = m.may_swap
      /\ SameFile(m, n)
  <2>1. /\ MemTypes(t) /\ t.used = m.used /\ nr \in Nat /\ t.trans = m.trans
        /\ t.blocknr_min = m.blocknr_min /\ t.neg_count = m.neg_count
        /\ t.dirty = m.dirty /\ t.may_swap = m.may_swap /\ SameFile(m, t)
    BY <1>1 DEF Took
  <2>2. /\ MemTypes(n) /\ Len(n.used) = Len(t.used) /\ DOMAIN n.used = DOMAIN t.used
        /\ \A k \in DOMAIN t.used : k # i => n.used[k] = t.used[k]
        /\ n.used[i].b = nr /\ n.used[i].pages = t.used[i].pages
        /\ n.used[i].data = t.used[i].data /\ n.used[i].locked = t.used[i].locked
        /\ n.used[i].dirty = t.used[i].dirty
        /\ DOMAIN n.trans = DOMAIN t.trans \cup {t.used[i].b}
        /\ n.trans[t.used[i].b] = nr
        /\ \A x \in DOMAIN t.trans : x # t.used[i].b => n.trans[x] = t.trans[x]
        /\ n.free = t.free /\ n.blocknr_max = t.blocknr_max /\ n.blocknr_min = t.blocknr_min
        /\ n.neg_count = t.neg_count /\ n.dirty = t.dirty /\ n.may_swap = t.may_swap
        /\ SameFile(t, n)
    <3>1. i \in DOMAIN t.used
      BY <2>1
    <3>2. QED
      BY <1>2, <2>1, <3>1, RenumberIs
  <2>3. SameFile(m, n)
    BY <2>1, <2>2 DEF SameFile
  <2>4. QED
    BY <2>1, <2>2, <2>3
<1>4. /\ b \in DOMAIN h /\ b \notin DOMAIN m.trans /\ Translated(m, b) = b
      /\ h[b].pages = p /\ h[b].data = m.used[i].data
  BY NameOf
<1>5. nr \in Nat /\ Translated(n, b) = nr /\ Translated(n, b) >= 0
  BY <1>1, <1>3 DEF Translated, Took
<1>6. \A x \in DOMAIN h : x # b => Translated(n, x) = Translated(m, x) /\ Translated(m, x) # b
  BY <1>3, <1>4, NameFacts DEF Translated
<1>7. \A x \in DOMAIN h : /\ Clear(t, Translated(m, x), h[x].pages)
                          /\ Separate(Translated(m, x), h[x].pages, nr, p)
  <2> SUFFICES ASSUME NEW x \in DOMAIN h
               PROVE  /\ Clear(t, Translated(m, x), h[x].pages)
                      /\ Separate(Translated(m, x), h[x].pages, nr, p)
    OBVIOUS
  <2>1. Translated(m, x) \in Int /\ h[x].pages \in Nat \ {0}
    BY NameFacts
  <2>2. Clear(m, Translated(m, x), h[x].pages)
    BY DEF MemInv, NumbersInv
  <2>3. QED
    BY <1>1, <2>1, <2>2 DEF Took
<1>8. NumbersInv(n, h)
  <2>1. DOMAIN n.trans \subseteq {x \in DOMAIN h : x < 0} /\ n.blocknr_min < 0
    BY <1>3, <1>4 DEF MemInv, NumbersInv
  <2>2. \A c, q : Clear(n, c, q) = Clear(t, c, q)
    BY <1>3 DEF Clear
  <2>3. \A x \in DOMAIN h : x > n.blocknr_min /\ Clear(n, Translated(n, x), h[x].pages)
    <3>1. \A x \in DOMAIN h : x > n.blocknr_min
      BY <1>3 DEF MemInv, NumbersInv
    <3>2. Clear(n, nr, h[b].pages)
      BY <1>1, <1>4, <2>2 DEF Took
    <3>3. QED
      BY <1>5, <1>6, <1>7, <2>2, <3>1, <3>2
  <2>4. ASSUME NEW x \in DOMAIN h, NEW y \in DOMAIN h, x # y
        PROVE  Separate(Translated(n, x), h[x].pages, Translated(n, y), h[y].pages)
    <3>0. /\ Translated(m, x) \in Int /\ h[x].pages \in Nat \ {0}
          /\ Translated(m, y) \in Int /\ h[y].pages \in Nat \ {0}
      BY NameFacts
    <3>1. CASE x # b /\ y # b
      BY <1>6, <2>4, <3>1 DEF MemInv, NumbersInv
    <3>2. CASE y = b
      <4>1. Separate(Translated(m, x), h[x].pages, nr, p)
        BY <1>7
      <4>2. QED
        BY <1>4, <1>5, <1>6, <2>4, <3>2, <4>1
    <3>3. CASE x = b
      <4>1. Separate(Translated(m, y), h[y].pages, nr, p)
        BY <1>7
      <4>2. Separate(nr, p, Translated(m, y), h[y].pages)
        <5> DEFINE ty == Translated(m, y)
                   py == h[y].pages
        <5>1. ty \in Int /\ py \in Nat \ {0} /\ nr \in Int /\ p \in Nat \ {0}
              /\ Separate(ty, py, nr, p)
          BY <1>0, <1>5, <3>0, <4>1
        <5> HIDE DEF ty, py, p
        <5>2. Separate(nr, p, ty, py)
          BY <5>1, Apart
        <5>3. QED
          BY <5>2 DEF ty, py, p
      <4>3. QED
        BY <1>4, <1>5, <1>6, <2>4, <3>3, <4>2
    <3>4. QED
      BY <3>1, <3>2, <3>3
  <2>5. FreeInv(n)
    BY <1>1, <1>3 DEF FreeInv, Took
  <2>6. n.neg_count = Cardinality({x \in DOMAIN h : x < 0})
    BY <1>3 DEF MemInv, NumbersInv
  <2>7. QED
    BY <2>1, <2>3, <2>4, <2>5, <2>6 DEF NumbersInv
<1>9. \A x \in DOMAIN h : InMemory(n, Translated(n, x)) = InMemory(m, Translated(m, x))
  <2> SUFFICES ASSUME NEW x \in DOMAIN h
               PROVE  InMemory(n, Translated(n, x)) <=> InMemory(m, Translated(m, x))
    BY DEF InMemory
  <2>1. CASE x = b
    BY <1>3, <1>4, <1>5, <2>1 DEF InMemory
  <2>2. CASE x # b
    <3>1. Translated(n, x) = Translated(m, x) /\ Translated(m, x) # b
      BY <1>6, <2>2
    <3>2. Translated(m, x) # nr
      <4>1. Separate(Translated(m, x), h[x].pages, nr, p) /\ Translated(m, x) \in Int
            /\ h[x].pages \in Nat \ {0}
        BY <1>7, NameFacts
      <4>2. QED
        BY <1>0, <1>5, <4>1, Apart
    <3>3. \A k \in DOMAIN m.used : m.used[k].b = Translated(m, x)
                                     <=> n.used[k].b = Translated(m, x)
      BY <1>3, <3>1, <3>2
    <3>4. QED
      BY <1>3, <3>1, <3>3 DEF InMemory
  <2>3. QED
    BY <2>1, <2>2
<1>10. \A c, q, d : OnDisk(n, c, q, d) = OnDisk(m, c, q, d)
  BY <1>3, FileKept
<1>11. UsedInv(n, h, X)
  <2>0. m.used[i].dirty
    BY DEF MemInv, UsedInv
  <2>1. ASSUME NEW k \in DOMAIN n.used
        PROVE  \E x \in DOMAIN h : /\ n.used[k].b = Translated(n, x)
                                   /\ n.used[k].pages = h[x].pages /\ n.used[k].data = h[x].data
    <3>1. CASE k = i
      BY <1>3, <1>4, <1>5, <3>1
    <3>2. CASE k # i
      <4>1. n.used[k] = m.used[k] /\ k \in DOMAIN m.used
        BY <1>3, <3>2
      <4>2. m.used[k].b # b
        BY <3>2, <4>1 DEF MemInv, UsedInv
      <4>3. PICK x \in DOMAIN h : /\ m.used[k].b = Translated(m, x)
                                  /\ m.used[k].pages = h[x].pages /\ m.used[k].data = h[x].data
        BY <4>1, NameOf
      <4>4. x # b
        BY <1>4, <4>2, <4>3
      <4>5. QED
        BY <1>6, <4>1, <4>3, <4>4
    <3>3. QED
      BY <3>1, <3>2
  <2>2. \A k \in DOMAIN m.used : k # i => m.used[k].b # nr
    <3> SUFFICES ASSUME NEW k \in DOMAIN m.used, k # i PROVE m.used[k].b # nr
      OBVIOUS
    <3>1. PICK x \in DOMAIN h : m.used[k].b = Translated(m, x)
      BY NameOf
    <3>2. Separate(Translated(m, x), h[x].pages, nr, p) /\ Translated(m, x) \in Int
          /\ h[x].pages \in Nat \ {0}
      BY <1>7, NameFacts
    <3>3. QED
      BY <1>0, <1>5, <3>1, <3>2, Apart, ZenonT(30)
  <2>3. \A k, l \in DOMAIN n.used : n.used[k].b = n.used[l].b => k = l
    <3>1. \A k, l \in DOMAIN m.used : m.used[k].b = m.used[l].b => k = l
      BY DEF MemInv, UsedInv
    <3>2. QED
      BY <1>3, <2>2, <3>1
  <2>4. \A k \in DOMAIN n.used :
            /\ n.used[k].b < 0 => n.used[k].dirty
            /\ n.used[k].dirty \/ n.used[k].b \in X
                 \/ OnDisk(n, n.used[k].b, n.used[k].pages, n.used[k].data)
    <3> SUFFICES ASSUME NEW k \in DOMAIN n.used
                 PROVE  /\ n.used[k].b < 0 => n.used[k].dirty
                        /\ n.used[k].dirty \/ n.used[k].b \in X
                             \/ OnDisk(n, n.used[k].b, n.used[k].pages, n.used[k].data)
      OBVIOUS
    <3>1. CASE k = i
      BY <1>3, <2>0, <3>1
    <3>2. CASE k # i
      <4>1. n.used[k] = m.used[k] /\ k \in DOMAIN m.used
        BY <1>3, <3>2
      <4>2. QED
        BY <1>10, <4>1 DEF MemInv, UsedInv
    <3>3. QED
      BY <3>1, <3>2
  <2>5. QED
    BY <2>1, <2>3, <2>4 DEF UsedInv
<1>12. SavedInv(n, h)
  <2> SUFFICES ASSUME NEW x \in DOMAIN h, ~InMemory(n, Translated(n, x))
               PROVE  OnDisk(n, Translated(n, x), h[x].pages, h[x].data)
    BY DEF SavedInv
  <2>1. ~InMemory(m, Translated(m, x))
    BY <1>9
  <2>2. OnDisk(m, Translated(m, x), h[x].pages, h[x].data)
    BY <2>1 DEF MemInv, SavedInv
  <2>3. x # b
    BY <1>4, <2>1 DEF InMemory
  <2>4. QED
    BY <1>6, <1>10, <2>2, <2>3
<1>13. n.infile_count <= n.blocknr_max /\ (~n.fd => n.infile_count = 0)
  <2>1. m.infile_count <= m.blocknr_max /\ (~m.fd => m.infile_count = 0) /\ m.infile_count \in Nat
        /\ n.blocknr_max \in Nat
    BY <1>3, MemFields DEF MemInv
  <2>2. t.blocknr_max >= m.blocknr_max
    BY <1>1 DEF Took
  <2>3. QED
    BY <1>0, <1>3, <2>1, <2>2 DEF SameFile
<1>14. MemInv(n, h, X)
  BY <1>3, <1>8, <1>11, <1>12, <1>13 DEF MemInv
<1>15. \A x \in DOMAIN h : Translated(m, x) # b => x # b
  BY <1>4
<1>16. \A x \in DOMAIN h : Translated(m, x) >= 0 => x # b
  BY <1>0, <1>4
<1>17. /\ \A k \in DOMAIN m.used : /\ n.used[k].pages = m.used[k].pages
                                   /\ n.used[k].data = m.used[k].data
                                   /\ n.used[k].locked = m.used[k].locked
                                   /\ k # i \/ m.used[k].b >= 0 => n.used[k].b = m.used[k].b
  BY <1>0, <1>3
<1>18. n.fd = m.fd
  BY <1>3 DEF SameFile
<1>19. DOMAIN m.trans \subseteq DOMAIN n.trans
       /\ \A x \in DOMAIN n.trans : x \in DOMAIN m.trans \/ (x < 0 /\ x = b)
  BY <1>3
<1>20. Cleaner(m, n)
  BY <1>3 DEF Cleaner
<1>21. QED
  BY <1>3, <1>5, <1>6, <1>9, <1>14, <1>15, <1>16, <1>17, <1>18, <1>19, <1>20 DEF Moved

\* Doing nothing is a case of Moved.
LEMMA MovedNothing ==
  ASSUME NEW m, NEW h, NEW X, MemInv(m, h, X), NEW i
  PROVE  Moved(m, m, i, h, X)
BY DEF Moved, Cleaner

\* Writing after moving is a case of Moved.
LEMMA MovedWrote ==
  ASSUME NEW m, NEW n, NEW o, NEW i, NEW h, NEW X, MemInv(m, h, X),
         Moved(m, n, i, h, X), Wrote(n, o, h, X)
  PROVE  Moved(m, o, i, h, X)
<1>1. /\ SameNumbers(n, o) /\ SameBlocks(n, o) /\ SameLocks(n, o) /\ MemInv(o, h, X)
      /\ o.fd = n.fd /\ o.dirty = n.dirty /\ o.may_swap = n.may_swap
  BY DEF Wrote
<1>2. DOMAIN o.used = DOMAIN n.used /\ DOMAIN n.used = DOMAIN m.used
  <2>1. MemTypes(n) /\ MemTypes(o)
    BY DEF Moved, Wrote, MemInv
  <2>2. QED
    BY <1>1, <2>1, MemFields DEF SameBlocks, Moved
<1>3. \A x \in DOMAIN h : /\ Translated(o, x) = Translated(n, x)
                          /\ InMemory(o, Translated(o, x)) = InMemory(n, Translated(n, x))
  <2>1. \A x \in DOMAIN h : Translated(o, x) = Translated(n, x)
    BY <1>1 DEF SameNumbers, Translated
  <2>2. \A b : InMemory(o, b) = InMemory(n, b)
    BY <1>1, <1>2 DEF SameBlocks, InMemory
  <2>3. QED
    BY <2>1, <2>2
<1>4. o.trans = n.trans /\ o.blocknr_min = n.blocknr_min
  BY <1>1 DEF SameNumbers
<1>5. \A k \in DOMAIN m.used : /\ o.used[k].pages = n.used[k].pages
                               /\ o.used[k].data = n.used[k].data
                               /\ o.used[k].locked = n.used[k].locked
                               /\ o.used[k].b = n.used[k].b
  BY <1>1, <1>2 DEF SameBlocks, SameLocks
<1>6. Len(o.used) = Len(n.used)
  BY <1>1 DEF SameBlocks
<1>7. Cleaner(m, o)
  BY <1>2 DEF Moved, Wrote, Cleaner
<1>8. QED
  BY <1>1, <1>2, <1>3, <1>4, <1>5, <1>6, <1>7 DEF Moved

\* mf_write keeps the invariant; when it succeeds, the block is clean and on disk.
LEMMA MfWrite ==
  ASSUME NEW m, NEW h, NEW X, MemInv(m, h, X), NEW i \in DOMAIN m.used, NEW room,
         NEW r, r = mf_write(m, i, room)
  PROVE  /\ Moved(m, r.m, i, h, X) /\ r.ok \in BOOLEAN /\ (r.ok => Written(r.m, i))
         /\ m.used[i].b = 0 /\ ~r.ok => r.m = m
<1>1. CASE ~m.fd
  <2>1. r.m = m /\ r.ok = FALSE
    BY <1>1 DEF mf_write
  <2>2. QED
    BY <2>1, MovedNothing
<1>2. CASE m.fd
  <2> DEFINE n == mf_trans_add(m, m.used[i].b)
  <2>1. r = WriteUpTo(n, i, room)
    BY <1>2 DEF mf_write
  <2> HIDE DEF n
  <2>2. Moved(m, n, i, h, X) /\ n.used[i].b >= 0
    <3>0. m.used[i].b \in Int
      BY MemFields DEF MemInv
    <3>1. CASE m.used[i].b >= 0
      <4>1. n = m
        BY <3>1 DEF n, mf_trans_add
      <4>2. QED
        BY <3>1, <4>1, MovedNothing
    <3>2. CASE m.used[i].b < 0
      <4>1. Position(m, m.used[i].b) = i
        BY PositionIn DEF MemInv, UsedInv
      <4>2. n = TransAddAt(m, i)
        BY <3>0, <3>2, <4>1 DEF n, mf_trans_add
      <4>3. Moved(m, n, i, h, X) /\ n.used[i].b \in Nat
        BY <3>2, <4>2, NumberAdded
      <4>4. QED
        BY <4>3
    <3>3. QED
      BY <3>0, <3>1, <3>2
  <2>3. MemInv(n, h, X) /\ n.fd /\ i \in DOMAIN n.used
    BY <1>2, <2>2 DEF Moved
  <2>4. /\ Wrote(n, r.m, h, X) /\ r.ok \in BOOLEAN /\ (r.ok => Written(r.m, i))
        /\ n.used[i].b = 0 /\ ~r.ok => r.m = n
    BY <2>1, <2>2, <2>3, WrittenUpTo
  <2>5. m.used[i].b = 0 => n = m
    BY DEF n, mf_trans_add
  <2>6. m.used[i].b = 0 /\ ~r.ok => r.m = m
    BY <2>4, <2>5
  <2>7. QED
    BY <2>2, <2>4, <2>6, MovedWrote
<1>3. QED
  BY <1>1, <1>2

-----------------------------------------------------------------------------
(* What goes on in the memory file while the tree stays as it is.          *)

Quiet(m, n, h, X) ==
  /\ MemInv(n, h, X) /\ n.blocknr_min = m.blocknr_min
  /\ \A x \in DOMAIN h :
       /\ Translated(m, x) >= 0 => Translated(n, x) = Translated(m, x)
       /\ InMemory(n, Translated(n, x)) => InMemory(m, Translated(m, x))
HoldsOn(m, n, B) == \A b \in B : Holds(m, b) => Holds(n, b)
Held(m, X) == \A b \in X : Holds(m, b)

\* Doing nothing is quiet.
LEMMA QuietNothing ==
  ASSUME NEW m, NEW h, NEW X, MemInv(m, h, X)
  PROVE  Quiet(m, m, h, X) /\ \A B : HoldsOn(m, m, B)
BY DEF Quiet, HoldsOn

\* Two quiet steps are a quiet one.
LEMMA QuietOn ==
  ASSUME NEW m, NEW n, NEW o, NEW h, NEW X, Quiet(m, n, h, X), Quiet(n, o, h, X)
  PROVE  Quiet(m, o, h, X)
<1>1. \A x \in DOMAIN h : Translated(m, x) >= 0 => Translated(o, x) = Translated(m, x)
  BY DEF Quiet
<1>2. QED
  BY <1>1 DEF Quiet

\* Moving and writing a block is quiet, and what is held stays held.
LEMMA MovedQuiet ==
  ASSUME NEW m, NEW n, NEW i \in DOMAIN m.used, NEW h, NEW X, Moved(m, n, i, h, X)
  PROVE  /\ Quiet(m, n, h, X)
         /\ \A b : Holds(m, b) /\ (b >= 0 \/ b # m.used[i].b) => Holds(n, b)
<1>1. Quiet(m, n, h, X)
  BY DEF Moved, Quiet
<1>2. ASSUME NEW b, Holds(m, b), b >= 0 \/ b # m.used[i].b
      PROVE  Holds(n, b)
  <2>1. PICK k \in DOMAIN m.used : m.used[k].b = b /\ m.used[k].locked
    BY <1>2 DEF Holds
  <2>2. k \in DOMAIN n.used /\ n.used[k].b = b /\ n.used[k].locked
    BY <1>2, <2>1 DEF Moved
  <2>3. b \notin DOMAIN n.trans
    <3>1. DOMAIN n.trans \subseteq Int
      BY MemFields DEF Moved, MemInv
    <3>2. QED
      BY <1>2, <3>1 DEF Moved, Holds
  <2>4. QED
    BY <2>2, <2>3 DEF Holds
<1>3. QED
  BY <1>1, <1>2

\* A block that is in the file leaves the memory.
Without(m, i) == [m EXCEPT !.used = RemoveAt(m.used, i)]
LeftOut(m, n, i, h, X) ==
  /\ Quiet(m, n, h, X) /\ SameRest(m, n)
  /\ Len(n.used) = Len(m.used) - 1
  /\ \A k \in DOMAIN n.used : n.used[k] = IF k < i THEN m.used[k] ELSE m.used[k + 1]
  /\ ~m.used[i].locked => \A b : Holds(m, b) => Holds(n, b)

\* A block that is on disk can leave memory.
LEMMA PlaceGone ==
  ASSUME NEW m, NEW h, NEW X, MemInv(m, h, X), NEW i \in DOMAIN m.used,
         OnDisk(m, m.used[i].b, m.used[i].pages, m.used[i].data),
         NEW n, n = Without(m, i)
  PROVE  LeftOut(m, n, i, h, X)
<1> DEFINE u == RemoveAt(m.used, i)
<1>0. /\ MemTypes(m) /\ m.used \in Seq(Headers) /\ DOMAIN m.used = 1 .. Len(m.used)
      /\ \A k, l \in DOMAIN m.used : m.used[k].b = m.used[l].b => k = l
  BY MemFields DEF MemInv, UsedInv
<1>1. /\ u \in Seq(Headers) /\ Len(u) = Len(m.used) - 1 /\ DOMAIN u = 1 .. Len(m.used) - 1
      /\ \A k \in DOMAIN u : u[k] = IF k < i THEN m.used[k] ELSE m.used[k + 1]
  BY <1>0, Removed
<1>2. /\ \A k \in DOMAIN u : \E l \in DOMAIN m.used \ {i} : u[k] = m.used[l]
      /\ \A l \in DOMAIN m.used \ {i} : \E k \in DOMAIN u : u[k] = m.used[l]
      /\ \A k, l \in DOMAIN u : k # l => \E a, b \in DOMAIN m.used \ {i} :
                                           a # b /\ u[k] = m.used[a] /\ u[l] = m.used[b]
  <2>1. u = RemoveAt(m.used, i)
    OBVIOUS
  <2>2. m.used \in Seq(Headers) /\ i \in DOMAIN m.used
    BY <1>0
  <2> DEFINE s == m.used
  <2> HIDE DEF u, s
  <2>3. u = RemoveAt(s, i) /\ s \in Seq(Headers) /\ i \in DOMAIN s
    BY <2>1, <2>2 DEF s
  <2>4. /\ \A k \in DOMAIN u : \E l \in DOMAIN s \ {i} : u[k] = s[l]
        /\ \A l \in DOMAIN s \ {i} : \E k \in DOMAIN u : u[k] = s[l]
        /\ \A k, l \in DOMAIN u : k # l => \E a, b \in DOMAIN s \ {i} :
                                             a # b /\ u[k] = s[a] /\ u[l] = s[b]
    BY <2>3, RemovedPlaces
  <2>5. QED
    BY <2>4 DEF s
<1> HIDE DEF u
<1>3. /\ MemTypes(n) /\ n.used = u /\ SameRest(m, n)
  <2>1. n = [m EXCEPT !.used = u]
    BY DEF Without, u
  <2>2. QED
    BY <1>0, <1>1, <2>1 DEF SameRest, SameNumbers, SameFile, MemTypes
<1>4. NumbersInv(n, h) /\ \A x \in DOMAIN h : Translated(n, x) = Translated(m, x)
  BY <1>3, NumbersKept DEF SameRest, MemInv
<1>5. \A c, q, d : OnDisk(n, c, q, d) = OnDisk(m, c, q, d)
  BY <1>3, FileKept DEF SameRest
<1>6. \A b : InMemory(n, b) <=> InMemory(m, b) /\ b # m.used[i].b
  <2>1. \A b : InMemory(n, b) => InMemory(m, b) /\ b # m.used[i].b
    BY <1>0, <1>2, <1>3 DEF InMemory
  <2>2. \A b : InMemory(m, b) /\ b # m.used[i].b => InMemory(n, b)
    BY <1>2, <1>3 DEF InMemory
  <2>3. QED
    BY <2>1, <2>2
<1>7. UsedInv(n, h, X)
  <2>1. ASSUME NEW k \in DOMAIN u
        PROVE  /\ \E x \in DOMAIN h : /\ u[k].b = Translated(n, x)
                                      /\ u[k].pages = h[x].pages /\ u[k].data = h[x].data
               /\ u[k].b < 0 => u[k].dirty
               /\ u[k].dirty \/ u[k].b \in X \/ OnDisk(n, u[k].b, u[k].pages, u[k].data)
    <3>1. PICK l \in DOMAIN m.used \ {i} : u[k] = m.used[l]
      BY <1>2
    <3>2. QED
      BY <1>4, <1>5, <3>1 DEF MemInv, UsedInv
  <2>2. \A k, l \in DOMAIN u : u[k].b = u[l].b => k = l
    <3> SUFFICES ASSUME NEW k \in DOMAIN u, NEW l \in DOMAIN u, k # l PROVE u[k].b # u[l].b
      OBVIOUS
    <3>1. PICK a, b \in DOMAIN m.used \ {i} : a # b /\ u[k] = m.used[a] /\ u[l] = m.used[b]
      BY <1>2
    <3>2. m.used[a].b # m.used[b].b
      BY <1>0, <3>1
    <3>3. QED
      BY <3>1, <3>2
  <2>3. QED
    BY <1>3, <2>1, <2>2 DEF UsedInv
<1>8. SavedInv(n, h)
  <2> SUFFICES ASSUME NEW x \in DOMAIN h, ~InMemory(n, Translated(n, x))
               PROVE  OnDisk(n, Translated(n, x), h[x].pages, h[x].data)
    BY DEF SavedInv
  <2>1. CASE InMemory(m, Translated(m, x))
    <3>1. Translated(m, x) = m.used[i].b
      BY <1>4, <1>6, <2>1
    <3>2. m.used[i].pages = h[x].pages /\ m.used[i].data = h[x].data
      BY <3>1, NameOf
    <3>3. QED
      BY <1>4, <1>5, <3>1, <3>2
  <2>2. CASE ~InMemory(m, Translated(m, x))
    BY <1>4, <1>5, <2>2 DEF MemInv, SavedInv
  <2>3. QED
    BY <2>1, <2>2
<1>9. n.infile_count <= n.blocknr_max /\ (~n.fd => n.infile_count = 0)
  BY <1>3 DEF SameRest, SameFile, SameNumbers, MemInv
<1>10. MemInv(n, h, X)
  BY <1>3, <1>4, <1>7, <1>8, <1>9 DEF MemInv
<1>11. Quiet(m, n, h, X)
  BY <1>3, <1>4, <1>6, <1>10 DEF Quiet, SameRest, SameNumbers
<1>12. ASSUME ~m.used[i].locked, NEW b, Holds(m, b)
       PROVE  Holds(n, b)
  <2>1. PICK k \in DOMAIN m.used : m.used[k].b = b /\ m.used[k].locked
    BY <1>12 DEF Holds
  <2>2. k \in DOMAIN m.used \ {i}
    BY <1>12, <2>1
  <2>3. PICK l \in DOMAIN u : u[l] = m.used[k]
    BY <1>2, <2>2
  <2>4. b \notin DOMAIN n.trans
    BY <1>3, <1>12 DEF Holds, SameRest, SameNumbers
  <2>5. QED
    BY <1>3, <2>1, <2>3, <2>4 DEF Holds
<1>13. QED
  BY <1>1, <1>3, <1>11, <1>12 DEF LeftOut

\* A block that is not locked is given up, or it is still there.
LEMMA Evicted ==
  ASSUME NEW m, NEW h, NEW X, MemInv(m, h, X), Held(m, X), NEW i \in DOMAIN m.used,
         ~m.used[i].locked, NEW room, NEW n, n = Evict(m, i, room)
  PROVE  /\ Quiet(m, n, h, X) /\ \A b : Holds(m, b) => Holds(n, b)
         /\ n.fd = m.fd
         /\ \/ DOMAIN n.used = DOMAIN m.used
               /\ \A k \in DOMAIN m.used : n.used[k].locked = m.used[k].locked
            \/ Len(n.used) = Len(m.used) - 1
               /\ \A k \in DOMAIN n.used : k < i => n.used[k].locked = m.used[k].locked
<1>0. \A k, l \in DOMAIN m.used : m.used[k].b = m.used[l].b => k = l
  BY DEF MemInv, UsedInv
<1>1. \A b : Holds(m, b) => b # m.used[i].b
  BY <1>0 DEF Holds
<1>2. CASE m.used[i].dirty
  <2> DEFINE w == mf_write(m, i, room)
  <2>1. n = Gone(w, i)
    BY <1>2 DEF Evict
  <2>2. Moved(m, w.m, i, h, X) /\ w.ok \in BOOLEAN /\ (w.ok => Written(w.m, i))
    BY MfWrite
  <2> HIDE DEF w
  <2>3. Quiet(m, w.m, h, X) /\ \A b : Holds(m, b) => Holds(w.m, b)
    BY <1>1, <2>2, MovedQuiet
  <2>4. /\ DOMAIN w.m.used = DOMAIN m.used /\ Len(w.m.used) = Len(m.used) /\ w.m.fd = m.fd
        /\ \A k \in DOMAIN m.used : w.m.used[k].locked = m.used[k].locked
    BY <2>2 DEF Moved
  <2>5. CASE ~w.ok
    <3>1. n = w.m
      BY <2>1, <2>5 DEF Gone
    <3>2. QED
      BY <2>3, <2>4, <3>1
  <2>6. CASE w.ok
    <3>1. n = Without(w.m, i)
      BY <2>1, <2>6 DEF Gone, Without
    <3>2. /\ MemInv(w.m, h, X) /\ i \in DOMAIN w.m.used /\ ~w.m.used[i].locked
          /\ OnDisk(w.m, w.m.used[i].b, w.m.used[i].pages, w.m.used[i].data)
      BY <2>2, <2>3, <2>4, <2>6 DEF Quiet, Written
    <3>3. /\ Quiet(w.m, n, h, X) /\ SameRest(w.m, n)
          /\ Len(n.used) = Len(w.m.used) - 1
          /\ \A k \in DOMAIN n.used : n.used[k] = IF k < i THEN w.m.used[k] ELSE w.m.used[k + 1]
          /\ \A b : Holds(w.m, b) => Holds(n, b)
      <4>1. LeftOut(w.m, n, i, h, X)
        BY <3>1, <3>2, PlaceGone
      <4>2. QED
        BY <3>2, <4>1 DEF LeftOut
    <3>4. Quiet(m, n, h, X) /\ \A b : Holds(m, b) => Holds(n, b)
      BY <2>3, <3>3, QuietOn
    <3>5. DOMAIN n.used = 1 .. Len(m.used) - 1 /\ DOMAIN m.used = 1 .. Len(m.used)
      BY <2>4, <3>3, <3>4, MemFields DEF Quiet, MemInv
    <3>6. \A k \in DOMAIN n.used : k < i => n.used[k].locked = m.used[k].locked
      <4> SUFFICES ASSUME NEW k \in DOMAIN n.used, k < i
                   PROVE  n.used[k].locked = m.used[k].locked
        OBVIOUS
      <4>1. k \in DOMAIN m.used /\ n.used[k] = w.m.used[k]
        <5>1. Len(m.used) \in Nat /\ k \in 1 .. Len(m.used) - 1
          BY <3>5, MemFields DEF MemInv
        <5>2. QED
          BY <3>3, <3>5, <5>1
      <4>2. QED
        BY <2>4, <4>1
    <3>7. n.fd = m.fd
      BY <2>4, <3>3 DEF SameRest, SameFile
    <3>8. QED
      BY <2>4, <3>3, <3>4, <3>6, <3>7
  <2>7. QED
    BY <2>2, <2>5, <2>6
<1>3. CASE ~m.used[i].dirty
  <2>1. n = Without(m, i)
    BY <1>3 DEF Evict, Gone, Without
  <2>2. m.used[i].b \notin X
    BY <1>1 DEF Held
  <2>3. OnDisk(m, m.used[i].b, m.used[i].pages, m.used[i].data)
    BY <1>3, <2>2 DEF MemInv, UsedInv
  <2>4. /\ Quiet(m, n, h, X) /\ SameRest(m, n)
        /\ Len(n.used) = Len(m.used) - 1
        /\ \A k \in DOMAIN n.used : n.used[k] = IF k < i THEN m.used[k] ELSE m.used[k + 1]
        /\ \A b : Holds(m, b) => Holds(n, b)
    <3>1. LeftOut(m, n, i, h, X)
      BY <2>1, <2>3, PlaceGone
    <3>2. QED
      BY <3>1 DEF LeftOut
  <2>5. n.fd = m.fd
    BY <2>4 DEF SameRest, SameFile
  <2>6. QED
    BY <2>4, <2>5
<1>4. QED
  BY <1>2, <1>3

-----------------------------------------------------------------------------
(* mf_sync.                                                                *)

\* Only flags of the memory file change.
LEMMA FlagsQuiet ==
  ASSUME NEW m, NEW h, NEW X, MemInv(m, h, X), NEW n, MemTypes(n), n.used = m.used,
         SameNumbers(m, n), SameFile(m, n)
  PROVE  Quiet(m, n, h, X) /\ \A b : Holds(m, b) => Holds(n, b)
<1>1. SameBlocks(m, n)
  BY DEF SameBlocks
<1>2. \A c, q, d : OnDisk(n, c, q, d) = OnDisk(m, c, q, d)
  BY FileKept
<1>3. MemInv(n, h, X) /\ \A x \in DOMAIN h : Translated(n, x) = Translated(m, x)
      /\ \A b : InMemory(n, b) = InMemory(m, b)
  <2>1. \A k \in DOMAIN m.used : m.used[k].b < 0 => n.used[k].dirty
    BY DEF MemInv, UsedInv
  <2>2. \A k \in DOMAIN m.used : \/ n.used[k].dirty \/ m.used[k].b \in X
                                 \/ OnDisk(n, m.used[k].b, m.used[k].pages, m.used[k].data)
    BY <1>2 DEF MemInv, UsedInv
  <2>3. \A x \in DOMAIN h : \/ InMemory(m, Translated(m, x))
                            \/ OnDisk(n, Translated(m, x), h[x].pages, h[x].data)
    BY <1>2 DEF MemInv, SavedInv
  <2>4. n.infile_count <= n.blocknr_max /\ (~n.fd => n.infile_count = 0)
    BY DEF MemInv, SameFile, SameNumbers
  <2>5. QED
    BY <1>1, <2>1, <2>2, <2>3, <2>4, Retouched
<1>4. QED
  BY <1>3 DEF Quiet, Holds, SameNumbers

\* How far the list has been gone through.
Synching(m, r, h, X, all, zero) ==
  /\ Quiet(m, r.m, h, X) /\ r.ok \in BOOLEAN /\ r.quit \in BOOLEAN
  /\ r.m.fd = m.fd /\ r.m.may_swap = m.may_swap
  /\ DOMAIN r.m.used = DOMAIN m.used /\ Len(r.m.used) = Len(m.used)
  /\ \A b : Holds(m, b) /\ (b >= 0 \/ ~all) => Holds(r.m, b)
  /\ zero /\ m.infile_count = 0 =>
       IF r.ok THEN \/ r.m.infile_count = 0
                    \/ \A k \in DOMAIN m.used : r.m.used[k].b = 0 => ~r.m.used[k].dirty
       ELSE r.m.infile_count = 0

\* A turn of the loop of mf_sync keeps Synching.
LEMMA SyncedOne ==
  ASSUME NEW m, NEW h, NEW X, MemInv(m, h, X), NEW all \in BOOLEAN, NEW zero \in BOOLEAN,
         NEW stop, NEW room, NEW r, Synching(m, r, h, X, all, zero), NEW i \in DOMAIN m.used,
         NEW u, u = SyncOne(r, i, all, zero, stop, room)
  PROVE  Synching(m, u, h, X, all, zero)
<1>1. CASE ~Wanted(r, r.m.used[i], all, zero)
  BY <1>1 DEF SyncOne
<1>2. CASE Wanted(r, r.m.used[i], all, zero)
  <2> DEFINE w == mf_write(r.m, i, room)
             hp == r.m.used[i]
  <2>1. u = WroteOne(r, w, stop)
    BY <1>2 DEF SyncOne
  <2>2. /\ MemInv(r.m, h, X) /\ i \in DOMAIN r.m.used /\ r.ok \in BOOLEAN
    BY DEF Synching, Quiet
  <2>3. /\ Moved(r.m, w.m, i, h, X) /\ w.ok \in BOOLEAN /\ (w.ok => Written(w.m, i))
        /\ hp.b = 0 /\ ~w.ok => w.m = r.m
    BY <2>2, MfWrite
  <2> HIDE DEF w
  <2>4. u.m = w.m /\ u.ok = (r.ok /\ w.ok) /\ u.quit \in BOOLEAN
    BY <2>1 DEF WroteOne
  <2>5. u.ok \in BOOLEAN /\ (u.ok <=> r.ok /\ w.ok)
    BY <2>4
  <2>6. /\ Quiet(r.m, w.m, h, X)
        /\ \A b : Holds(r.m, b) /\ (b >= 0 \/ b # hp.b) => Holds(w.m, b)
    BY <2>2, <2>3, MovedQuiet
  <2>7. Quiet(m, w.m, h, X)
    BY <2>6, QuietOn DEF Synching
  <2>8. /\ w.m.fd = m.fd /\ w.m.may_swap = m.may_swap
        /\ DOMAIN w.m.used = DOMAIN m.used /\ Len(w.m.used) = Len(m.used)
    BY <2>3 DEF Moved, Synching
  <2>9. hp.b \in Int /\ (hp.b >= 0 \/ all)
    BY <1>2, <2>2, MemFields DEF Wanted, MemInv
  <2>10. ASSUME NEW b, Holds(m, b), b >= 0 \/ ~all
         PROVE  Holds(w.m, b)
    <3>1. Holds(r.m, b)
      BY <2>10 DEF Synching
    <3>2. CASE b >= 0
      BY <2>6, <3>1, <3>2
    <3>3. CASE b # hp.b
      BY <2>6, <3>1, <3>3
    <3>4. QED
      BY <2>9, <2>10, <3>2, <3>3
  <2>11. ASSUME zero, m.infile_count = 0
         PROVE  IF u.ok THEN \/ w.m.infile_count = 0
                             \/ \A k \in DOMAIN m.used : w.m.used[k].b = 0 => ~w.m.used[k].dirty
                ELSE w.m.infile_count = 0
    <3>1. hp.b = 0 /\ hp.dirty
      BY <1>2, <2>11 DEF Wanted
    <3>2. r.ok
      <4> SUFFICES ASSUME ~r.ok PROVE FALSE
        BY <2>2
      <4>1. r.m.infile_count = 0
        BY <2>11 DEF Synching
      <4>2. hp.b \in 0 .. (r.m.infile_count - 1)
        BY <1>2 DEF Wanted
      <4>3. QED
        BY <4>1, <4>2
    <3>3. r.m.infile_count = 0
      BY <2>2, <2>11, <3>1, <3>2 DEF Synching
    <3>4. CASE w.ok
      <4>1. ~w.m.used[i].dirty /\ w.m.used[i].b = 0
        BY <2>2, <2>3, <2>9, <3>1, <3>4, SMTT(30) DEF Written, Moved
      <4>2. \A k \in DOMAIN m.used : w.m.used[k].b = 0 => k = i
        BY <2>7, <2>8, <4>1 DEF Quiet, MemInv, UsedInv
      <4>3. QED
        BY <2>5, <3>2, <3>4, <4>1, <4>2
    <3>5. CASE ~w.ok
      BY <2>3, <2>5, <3>1, <3>3, <3>5
    <3>6. QED
      BY <2>3, <3>4, <3>5
  <2>12. QED
    BY <2>4, <2>5, <2>7, <2>8, <2>10, <2>11 DEF Synching
<1>3. QED
  BY <1>1, <1>2

\* All blocks in memory have their numbers in the file; none is to be written.
Numbered(m) == \A k \in DOMAIN m.used : m.used[k].b >= 0
NothingDirty(m) == \A k \in DOMAIN m.used : ~m.used[k].dirty

\* After n turns of the loop of mf_sync: the last n blocks are written, if all went well.
WroteLast(m, r, all, zero, stop, n) ==
  /\ r.n \in Nat /\ (Numbered(m) => Numbered(r.m))
  /\ NothingDirty(m) => NothingDirty(r.m) /\ r.ok /\ ~r.quit
  /\ stop = 0 /\ r.ok => ~r.quit
  /\ stop = 0 => ~r.got_int
  /\ r.ok /\ ~r.quit /\ ~zero /\ (all \/ Numbered(m)) =>
       \A k \in DOMAIN m.used : k > Len(m.used) - n => ~r.m.used[k].dirty

\* A turn of the loop of mf_sync writes the next block from the end.
LEMMA OneMoreWritten ==
  ASSUME NEW m, NEW h, NEW X, MemInv(m, h, X), NEW all \in BOOLEAN, NEW zero \in BOOLEAN,
         NEW stop, NEW room, NEW r, Synching(m, r, h, X, all, zero),
         NEW n \in 1 .. Len(m.used), WroteLast(m, r, all, zero, stop, n - 1),
         NEW u, u = SyncOne(r, Len(m.used) + 1 - n, all, zero, stop, room)
  PROVE  WroteLast(m, u, all, zero, stop, n)
<1> DEFINE i == Len(m.used) + 1 - n
           hp == r.m.used[i]
<1>0. /\ Len(m.used) \in Nat /\ DOMAIN m.used = 1 .. Len(m.used) /\ DOMAIN r.m.used = DOMAIN m.used
      /\ MemInv(r.m, h, X) /\ i \in DOMAIN m.used /\ r.ok \in BOOLEAN /\ r.quit \in BOOLEAN
      /\ hp.b \in Int /\ hp.dirty \in BOOLEAN
  <2>1. Len(m.used) \in Nat /\ DOMAIN m.used = 1 .. Len(m.used)
    BY MemFields DEF MemInv
  <2>2. i \in DOMAIN m.used
    BY <2>1
  <2>3. DOMAIN r.m.used = DOMAIN m.used /\ MemInv(r.m, h, X) /\ r.ok \in BOOLEAN /\ r.quit \in BOOLEAN
    BY DEF Synching, Quiet
  <2>4. QED
    BY <2>1, <2>2, <2>3, MemFields DEF MemInv
<1>1. \A k \in DOMAIN m.used : k > Len(m.used) - n => k = i \/ k > Len(m.used) - (n - 1)
  BY <1>0
<1>2. u = SyncOne(r, i, all, zero, stop, room)
  OBVIOUS
<1> HIDE DEF i
<1>3. CASE ~Wanted(r, hp, all, zero)
  <2>1. u = r
    BY <1>2, <1>3 DEF SyncOne
  <2>2. r.ok /\ ~r.quit /\ ~zero /\ (all \/ Numbered(m)) => ~hp.dirty
    <3>1. Numbered(m) => hp.b >= 0
      BY <1>0 DEF WroteLast, Numbered
    <3>2. QED
      BY <1>0, <1>3, <3>1 DEF Wanted
  <2>3. QED
    BY <1>1, <2>1, <2>2 DEF WroteLast
<1>4. CASE Wanted(r, hp, all, zero)
  <2> DEFINE w == mf_write(r.m, i, room)
  <2>1. u = WroteOne(r, w, stop)
    BY <1>2, <1>4 DEF SyncOne
  <2>2. Moved(r.m, w.m, i, h, X) /\ w.ok \in BOOLEAN /\ (w.ok => Written(w.m, i))
    BY <1>0, MfWrite
  <2> HIDE DEF w
  <2>3. /\ u.m = w.m /\ u.ok = (r.ok /\ w.ok) /\ u.n = r.n + 1
        /\ u.quit = ((~r.ok /\ ~w.ok) \/ r.n + 1 = stop)
    BY <2>1 DEF WroteOne
  <2>i. u.got_int => r.n + 1 = stop
    <3>1. u.got_int = (~(~r.ok /\ ~w.ok) /\ r.n + 1 = stop)
      BY <2>1 DEF WroteOne
    <3>2. QED
      BY <3>1
  <2>4. hp.dirty /\ ~r.quit
    BY <1>4 DEF Wanted
  <2>5. ~NothingDirty(m)
    BY <1>0, <2>4 DEF WroteLast, NothingDirty
  <2>6. Numbered(m) => Numbered(u.m)
    <3> SUFFICES ASSUME Numbered(m), NEW k \in DOMAIN w.m.used PROVE w.m.used[k].b >= 0
      BY <2>3 DEF Numbered
    <3>1. k \in DOMAIN r.m.used
      BY <2>2 DEF Moved
    <3>2. r.m.used[k].b >= 0
      BY <3>1 DEF WroteLast, Numbered
    <3>3. QED
      BY <2>2, <3>1, <3>2 DEF Moved
  <2>7. u.n \in Nat /\ u.n # 0
    BY <2>3 DEF WroteLast
  <2>8. (stop = 0 /\ u.ok => ~u.quit) /\ (stop = 0 => ~u.got_int)
    BY <2>3, <2>7, <2>i
  <2>9. ASSUME u.ok, ~zero, all \/ Numbered(m), NEW k \in DOMAIN m.used, k > Len(m.used) - n
        PROVE  ~u.m.used[k].dirty
    <3>1. r.ok /\ w.ok
      BY <2>3, <2>9
    <3>2. CASE k = i
      BY <2>2, <2>3, <3>1, <3>2 DEF Written
    <3>3. CASE k # i
      <4>1. ~r.m.used[k].dirty
        BY <1>1, <2>4, <2>9, <3>1, <3>3 DEF WroteLast
      <4>2. QED
        BY <1>0, <2>2, <2>3, <4>1 DEF Moved, Cleaner
    <3>4. QED
      BY <3>2, <3>3
  <2>10. QED
    BY <2>5, <2>6, <2>7, <2>8, <2>9 DEF WroteLast
<1>5. QED
  BY <1>3, <1>4

\* A sync that comes to its end without a failure leaves nothing to be written; when
\* nothing is to be written it cannot fail.
SyncEnds(m, s, all, zero, stop) ==
  /\ Numbered(m) => Numbered(s.m)
  /\ m.fd /\ NothingDirty(m) => s.ok /\ s.end /\ NothingDirty(s.m)
  /\ stop = 0 => ~s.got_int /\ (s.ok => s.end)
  /\ s.ok /\ s.end /\ ~zero /\ (all \/ Numbered(m)) => NothingDirty(s.m)

SyncDone(m, s, h, X, all, zero) ==
  /\ Quiet(m, s.m, h, X) /\ s.ok \in BOOLEAN /\ s.end \in BOOLEAN
  /\ s.m.fd = m.fd /\ s.m.may_swap = m.may_swap
  /\ \A b : Holds(m, b) /\ (b >= 0 \/ ~all) => Holds(s.m, b)
  /\ zero /\ m.infile_count = 0 /\ ~s.ok => s.m.infile_count = 0

\* mf_sync is quiet, and writes nothing into an empty file when block 0 cannot be
\* written.
LEMMA MfSync ==
  ASSUME NEW m, NEW h, NEW X, MemInv(m, h, X), NEW all \in BOOLEAN, NEW zero \in BOOLEAN,
         NEW stop, NEW room, NEW s, s = mf_sync(m, all, zero, stop, room)
  PROVE  SyncDone(m, s, h, X, all, zero) /\ SyncEnds(m, s, all, zero, stop)
<1> DEFINE L == Len(m.used)
           t0 == [m |-> m, ok |-> TRUE, n |-> 0, quit |-> FALSE, got_int |-> FALSE]
           Loop(N, f) == f = [n \in 0 .. N |-> IF n = 0 THEN t0
                                ELSE SyncOne(f[n - 1], L + 1 - n, all, zero, stop, room)]
<1>0. /\ L \in Nat /\ DOMAIN m.used = 1 .. L /\ m.infile_count \in Nat
  BY MemFields DEF MemInv
<1> HIDE DEF L
<1>1. \A N \in 0 .. L : \E f : Loop(N, f)
  <2> DEFINE T == {N \in 0 .. L : \E f : Loop(N, f)}
  <2>1. 0 \in T
    <3>1. Loop(0, [n \in 0 .. 0 |-> t0])
      OBVIOUS
    <3> HIDE DEF Loop
    <3>2. QED
      BY <1>0, <3>1
  <2>2. ASSUME NEW N \in 1 .. L, N - 1 \in T
        PROVE  N \in T
    <3>1. PICK f : Loop(N - 1, f)
      BY <2>2
    <3> DEFINE g == [n \in 0 .. N |-> IF n < N THEN f[n]
                                ELSE SyncOne(f[N - 1], L + 1 - N, all, zero, stop, room)]
    <3> HIDE DEF t0
    <3>2. Loop(N, g)
      <4>1. \A n \in 0 .. N : n # 0 => n - 1 \in 0 .. (N - 1) /\ g[n - 1] = f[n - 1]
        BY <2>2
      <4>2. \A n \in 0 .. N : g[n] = IF n = 0 THEN t0
                                ELSE SyncOne(g[n - 1], L + 1 - n, all, zero, stop, room)
        <5> SUFFICES ASSUME NEW n \in 0 .. N
                     PROVE  g[n] = IF n = 0 THEN t0
                                ELSE SyncOne(g[n - 1], L + 1 - n, all, zero, stop, room)
          OBVIOUS
        <5>1. CASE n = N
          <6>1. g[n] = SyncOne(f[n - 1], L + 1 - n, all, zero, stop, room) /\ n # 0
            BY <2>2, <5>1
          <6> HIDE DEF g
          <6>2. QED
            BY <4>1, <6>1
        <5>2. CASE n # N
          <6>1. g[n] = f[n] /\ n \in 0 .. (N - 1)
            BY <2>2, <5>2
          <6>2. f[n] = IF n = 0 THEN t0
                       ELSE SyncOne(f[n - 1], L + 1 - n, all, zero, stop, room)
            BY <3>1, <6>1
          <6> HIDE DEF g
          <6>3. QED
            BY <4>1, <6>1, <6>2
        <5>3. QED
          BY <5>1, <5>2
      <4>3. g = [n \in 0 .. N |-> g[n]]
        OBVIOUS
      <4> HIDE DEF g
      <4>4. QED
        BY <4>2, <4>3
    <3> HIDE DEF Loop, g
    <3>3. QED
      BY <2>2, <3>2
  <2> HIDE DEF T
  <2>3. \A N \in 0 .. L : N \in T
    BY <1>0, <2>1, <2>2, UpTo
  <2>4. QED
    BY <2>3 DEF T
<1> DEFINE Scan == CHOOSE f : Loop(L, f)
<1>2. s = IF m.fd THEN Synced(Scan[L])
          ELSE [m |-> [m EXCEPT !.dirty = FALSE], ok |-> FALSE, end |-> FALSE, got_int |-> FALSE]
  BY DEF mf_sync, L
<1>3. Loop(L, Scan)
  <2>1. \E f : Loop(L, f)
    <3> HIDE DEF Loop
    <3>1. QED
      BY <1>0, <1>1
  <2> HIDE DEF Loop
  <2>2. QED
    BY <2>1
<1>4. /\ Scan[0] = t0
      /\ \A n \in 1 .. L : Scan[n] = SyncOne(Scan[n - 1], L + 1 - n, all, zero, stop, room)
  <2> HIDE DEF Scan, t0
  <2>1. \A n \in 0 .. L :
          Scan[n] = IF n = 0 THEN t0
                    ELSE SyncOne(Scan[n - 1], L + 1 - n, all, zero, stop, room)
    BY <1>3
  <2>2. 0 \in 0 .. L /\ \A n \in 1 .. L : n \in 0 .. L /\ n # 0
    BY <1>0
  <2>3. QED
    BY <2>1, <2>2
<1> HIDE DEF Scan, Loop
<1> DEFINE Good(n, r) == Synching(m, r, h, X, all, zero) /\ WroteLast(m, r, all, zero, stop, n)
<1>5. Good(0, t0)
  <2>1. /\ t0.m = m /\ t0.ok /\ ~t0.quit /\ t0.ok \in BOOLEAN /\ t0.quit \in BOOLEAN
        /\ t0.n \in Nat /\ ~t0.got_int
    OBVIOUS
  <2> HIDE DEF t0
  <2>2. Synching(m, t0, h, X, all, zero)
    BY <2>1, QuietNothing DEF Synching
  <2>3. WroteLast(m, t0, all, zero, stop, 0)
    BY <1>0, <2>1 DEF WroteLast, L
  <2>4. QED
    BY <2>2, <2>3
<1>6. Good(L, Scan[L])
  <2> DEFINE T == {n \in 0 .. L : Good(n, Scan[n])}
  <2> HIDE DEF Good
  <2>1. 0 \in T
    BY <1>0, <1>4, <1>5
  <2>2. ASSUME NEW n \in 1 .. L, n - 1 \in T PROVE n \in T
    <3>1. L + 1 - n \in DOMAIN m.used /\ n \in 0 .. L
      BY <1>0
    <3>2. Good(n - 1, Scan[n - 1])
      BY <2>2
    <3>3. Good(n, Scan[n])
      <4>1. Synching(m, Scan[n], h, X, all, zero)
        BY <1>4, <3>1, <3>2, SyncedOne DEF Good
      <4>2. WroteLast(m, Scan[n], all, zero, stop, n)
        BY <1>4, <3>2, OneMoreWritten DEF Good, L
      <4>3. QED
        BY <4>1, <4>2 DEF Good
    <3>4. QED
      BY <3>1, <3>3
  <2> HIDE DEF T
  <2>3. \A n \in 0 .. L : n \in T
    BY <1>0, <2>1, <2>2, UpTo
  <2>4. L \in T
    BY <1>0, <2>3
  <2>5. QED
    BY <2>4 DEF T
\* The flag of the memory file, at the end.
<1>7. ASSUME NEW a, MemTypes(a)
      PROVE  LET c == [a EXCEPT !.dirty = FALSE]
             IN  /\ MemTypes(c) /\ c.used = a.used /\ SameNumbers(a, c) /\ SameFile(a, c)
                 /\ c.may_swap = a.may_swap
  BY <1>7 DEF MemTypes, SameNumbers, SameFile
<1>8. CASE ~m.fd
  <2> DEFINE c == [m EXCEPT !.dirty = FALSE]
  <2>1. /\ MemTypes(c) /\ c.used = m.used /\ SameNumbers(m, c) /\ SameFile(m, c)
        /\ c.may_swap = m.may_swap
    BY <1>7 DEF MemInv
  <2>2. s.m = c /\ s.ok = FALSE /\ s.end = FALSE /\ s.got_int = FALSE
    BY <1>2, <1>8
  <2> HIDE DEF c
  <2>3. Quiet(m, c, h, X) /\ \A b : Holds(m, b) => Holds(c, b)
    BY <2>1, FlagsQuiet
  <2>4. SyncDone(m, s, h, X, all, zero)
    BY <2>1, <2>2, <2>3 DEF SameFile, SyncDone
  <2>5. SyncEnds(m, s, all, zero, stop)
    BY <1>8, <2>1, <2>2 DEF SyncEnds, Numbered
  <2>6. QED
    BY <2>4, <2>5
<1>9. CASE m.fd
  <2> DEFINE r == Scan[L]
             c == [r.m EXCEPT !.dirty = FALSE]
  <2>1. s = Synced(r)
    BY <1>2, <1>9
  <2> HIDE DEF r
  <2>2. Synching(m, r, h, X, all, zero) /\ WroteLast(m, r, all, zero, stop, L)
    BY <1>6 DEF r
  <2>3. /\ MemTypes(c) /\ c.used = r.m.used /\ SameNumbers(r.m, c) /\ SameFile(r.m, c)
        /\ c.may_swap = r.m.may_swap
    BY <1>7, <2>2 DEF MemInv, Synching, Quiet
  <2>4. /\ s.m \in {r.m, c} /\ s.ok = r.ok /\ s.end \in BOOLEAN /\ s.end = ~r.quit
        /\ s.got_int = r.got_int
    BY <2>1 DEF Synced
  <2> HIDE DEF c
  <2>5. Quiet(r.m, c, h, X) /\ \A b : Holds(r.m, b) => Holds(c, b)
    BY <2>2, <2>3, FlagsQuiet DEF Synching, Quiet
  <2>6. Quiet(m, c, h, X)
    BY <2>2, <2>5, QuietOn DEF Synching
  <2>7. Quiet(m, s.m, h, X) /\ s.m.fd = m.fd /\ s.m.may_swap = m.may_swap
        /\ s.m.infile_count = r.m.infile_count
    BY <2>2, <2>3, <2>4, <2>6 DEF Synching, SameFile
  <2>8. \A b : Holds(m, b) /\ (b >= 0 \/ ~all) => Holds(s.m, b)
    BY <2>2, <2>4, <2>5 DEF Synching
  <2>9. zero /\ m.infile_count = 0 /\ ~s.ok => s.m.infile_count = 0
    BY <2>2, <2>4, <2>7 DEF Synching
  <2>10. SyncDone(m, s, h, X, all, zero)
    BY <2>2, <2>4, <2>7, <2>8, <2>9 DEF Synching, SyncDone
  <2>11. SyncEnds(m, s, all, zero, stop)
    <3>1. s.m.used = r.m.used /\ DOMAIN r.m.used = DOMAIN m.used
      BY <2>2, <2>3, <2>4 DEF Synching
    <3>2. \A k \in DOMAIN m.used : k > L - L
      BY <1>0
    <3>3. QED
      BY <2>2, <2>4, <3>1, <3>2 DEF WroteLast, SyncEnds, Numbered, NothingDirty, L
  <2>12. QED
    BY <2>10, <2>11
<1>10. QED
  BY <1>8, <1>9

-----------------------------------------------------------------------------
(* What reading leaves alone.                                              *)

\* No block gets a negative number, no block becomes dirty, and the file stays open.
Calm(m, n) ==
  n.fd = m.fd /\ (Numbered(m) => Numbered(n)) /\ (NothingDirty(m) => NothingDirty(n))

\* Two calm steps are a calm one.
LEMMA CalmOn ==
  ASSUME NEW m, NEW n, NEW o, Calm(m, n), Calm(n, o)
  PROVE  Calm(m, o)
BY DEF Calm

\* A step is calm when every block was there before, with its number and its mark.
LEMMA PlacesCalm ==
  ASSUME NEW m, NEW n, n.fd = m.fd,
         \A k \in DOMAIN n.used : \E l \in DOMAIN m.used :
             n.used[k].b = m.used[l].b /\ n.used[k].dirty = m.used[l].dirty
  PROVE  Calm(m, n)
BY DEF Calm, Numbered, NothingDirty

\* A block taken out of memory.
LEMMA GoneCalm ==
  ASSUME NEW m, MemTypes(m), NEW i \in DOMAIN m.used,
         NEW n, n = [m EXCEPT !.used = RemoveAt(@, i)]
  PROVE  Calm(m, n)
<1>1. m.used \in Seq(Headers)
  BY MemFields
<1>2. n.used = RemoveAt(m.used, i) /\ n.fd = m.fd
  BY DEF MemTypes
<1>3. \A k \in DOMAIN n.used : \E l \in DOMAIN m.used \ {i} : n.used[k] = m.used[l]
  BY <1>1, <1>2, RemovedPlaces
<1>4. ASSUME NEW k \in DOMAIN n.used
      PROVE  \E l \in DOMAIN m.used : n.used[k].b = m.used[l].b /\ n.used[k].dirty = m.used[l].dirty
  <2>1. PICK l \in DOMAIN m.used : n.used[k] = m.used[l]
    BY <1>3
  <2>2. QED
    BY <2>1
<1>5. Numbered(m) => Numbered(n)
  BY <1>4 DEF Numbered
<1>6. NothingDirty(m) => NothingDirty(n)
  BY <1>4 DEF NothingDirty
<1>7. QED
  BY <1>2, <1>5, <1>6 DEF Calm

\* A block is written when it is dirty, and given up.
LEMMA EvictCalm ==
  ASSUME NEW m, NEW h, NEW X, MemInv(m, h, X), NEW i \in DOMAIN m.used, NEW room,
         NEW n, n = Evict(m, i, room)
  PROVE  Calm(m, n)
<1>1. CASE m.used[i].dirty
  <2> DEFINE w == mf_write(m, i, room)
  <2>1. n = Gone(w, i)
    BY <1>1 DEF Evict
  <2>2. Moved(m, w.m, i, h, X) /\ w.ok \in BOOLEAN
    BY MfWrite
  <2> HIDE DEF w
  <2>3. Calm(m, w.m)
    <3>1. ~NothingDirty(m)
      BY <1>1 DEF NothingDirty
    <3>2. ASSUME Numbered(m), NEW k \in DOMAIN w.m.used PROVE w.m.used[k].b >= 0
      <4>1. k \in DOMAIN m.used
        BY <2>2 DEF Moved
      <4>2. m.used[k].b >= 0
        BY <3>2, <4>1 DEF Numbered
      <4>3. QED
        BY <2>2, <4>1, <4>2 DEF Moved
    <3>3. QED
      BY <2>2, <3>1, <3>2 DEF Calm, Numbered, Moved
  <2>4. Calm(w.m, n)
    <3>1. CASE w.ok
      <4>1. n = [w.m EXCEPT !.used = RemoveAt(@, i)]
        BY <2>1, <3>1 DEF Gone
      <4>2. MemTypes(w.m) /\ i \in DOMAIN w.m.used
        BY <2>2 DEF Moved, MemInv
      <4>3. QED
        BY <4>1, <4>2, GoneCalm
    <3>2. CASE ~w.ok
      BY <2>1, <3>2 DEF Gone, Calm
    <3>3. QED
      BY <3>1, <3>2
  <2>5. QED
    BY <2>3, <2>4, CalmOn
<1>2. CASE ~m.used[i].dirty
  <2>1. n = [m EXCEPT !.used = RemoveAt(@, i)]
    BY <1>2 DEF Evict, Gone
  <2>2. QED
    BY <2>1, GoneCalm DEF MemInv
<1>3. QED
  BY <1>1, <1>2

-----------------------------------------------------------------------------
(* ml_open_file, mf_release, mf_release_all.                               *)

Steady(m, n, h, X) == Quiet(m, n, h, X) /\ \A b : Holds(m, b) => Holds(n, b)

\* Doing nothing is steady.
LEMMA SteadyNothing ==
  ASSUME NEW m, NEW h, NEW X, MemInv(m, h, X)
  PROVE  Steady(m, m, h, X)
BY QuietNothing DEF Steady

\* Two steady steps are a steady one.
LEMMA SteadyOn ==
  ASSUME NEW m, NEW n, NEW o, NEW h, NEW X, Steady(m, n, h, X), Steady(n, o, h, X)
  PROVE  Steady(m, o, h, X)
BY QuietOn DEF Steady

\* What is held is held after a steady step.
LEMMA SteadyHeld ==
  ASSUME NEW m, NEW n, NEW h, NEW X, Steady(m, n, h, X), Held(m, X)
  PROVE  Held(n, X) /\ MemInv(n, h, X)
BY DEF Steady, Held, Quiet

\* Nothing is in a file that is not open, or that has no pages.
LEMMA NoFile ==
  ASSUME NEW m, NEW h, NEW X, MemInv(m, h, X), ~m.fd \/ m.infile_count = 0,
         NEW n, MemTypes(n), n.used = m.used, SameNumbers(m, n), n.infile_count = 0
  PROVE  Steady(m, n, h, X)
<1>1. \A x \in DOMAIN h : ~OnDisk(m, Translated(m, x), h[x].pages, h[x].data)
  <2> SUFFICES ASSUME NEW x \in DOMAIN h, OnDisk(m, Translated(m, x), h[x].pages, h[x].data)
               PROVE  FALSE
    OBVIOUS
  <2>1. Translated(m, x) \in Int /\ h[x].pages \in Nat \ {0}
    BY NameFacts
  <2>2. QED
    BY <2>1 DEF OnDisk
<1>2. \A k \in DOMAIN m.used : ~OnDisk(m, m.used[k].b, m.used[k].pages, m.used[k].data)
  BY <1>1, NameOf
<1>3. SameBlocks(m, n)
  BY DEF SameBlocks
<1>4. MemInv(n, h, X) /\ \A x \in DOMAIN h : Translated(n, x) = Translated(m, x)
      /\ \A b : InMemory(n, b) = InMemory(m, b)
  <2>1. \A k \in DOMAIN m.used : m.used[k].b < 0 => n.used[k].dirty
    BY DEF MemInv, UsedInv
  <2>2. \A k \in DOMAIN m.used : \/ n.used[k].dirty \/ m.used[k].b \in X
                                 \/ OnDisk(n, m.used[k].b, m.used[k].pages, m.used[k].data)
    BY <1>2 DEF MemInv, UsedInv
  <2>3. \A x \in DOMAIN h : \/ InMemory(m, Translated(m, x))
                            \/ OnDisk(n, Translated(m, x), h[x].pages, h[x].data)
    BY <1>1 DEF MemInv, SavedInv
  <2>4. n.infile_count <= n.blocknr_max /\ (~n.fd => n.infile_count = 0)
    BY MemFields DEF MemInv, SameNumbers
  <2>5. QED
    BY <1>3, <2>1, <2>2, <2>3, <2>4, Retouched
<1>5. QED
  BY <1>4 DEF Steady, Quiet, Holds, SameNumbers

\* A file without pages is an empty function.
LEMMA NoPages == <<>> \in [0 .. (0 - 1) -> FilePages]
<1>1. <<>> \in [1 .. 0 -> FilePages]
  OBVIOUS
<1>2. 1 .. 0 = 0 .. (0 - 1)
  OBVIOUS
<1>3. QED
  BY <1>1, <1>2

\* ml_open_file, whether it opens the swap file or fails, is steady.
LEMMA MlOpenFile ==
  ASSUME NEW m, NEW h, NEW X, MemInv(m, h, X), NEW room
  PROVE  Steady(m, ml_open_file(m, room), h, X)
<1> DEFINE n == ml_open_file(m, room)
<1>1. CASE m.fd
  BY <1>1, SteadyNothing DEF ml_open_file
<1>2. CASE ~m.fd
  <2> DEFINE o == [m EXCEPT !.fd = TRUE, !.dirty = TRUE, !.disk = <<>>]
             s == mf_sync(o, FALSE, TRUE, 0, room)
             t == IF s.ok THEN s.m ELSE CloseFile(s.m)
  <2>1. n = [t EXCEPT !.may_swap = FALSE]
    BY <1>2 DEF ml_open_file, Opened
  <2>2. MemTypes(m) /\ m.infile_count = 0
    BY <1>2 DEF MemInv
  <2>3. /\ MemTypes(o) /\ o.used = m.used /\ SameNumbers(m, o) /\ o.infile_count = 0
    BY <2>2, NoPages DEF MemTypes, SameNumbers
  <2> HIDE DEF o
  <2>4. Steady(m, o, h, X)
    BY <1>2, <2>3, NoFile
  <2>5. MemInv(o, h, X)
    BY <2>4 DEF Steady, Quiet
  <2>6. /\ Quiet(o, s.m, h, X) /\ s.ok \in BOOLEAN
        /\ \A b : Holds(o, b) /\ (b >= 0 \/ ~FALSE) => Holds(s.m, b)
        /\ TRUE /\ o.infile_count = 0 /\ ~s.ok => s.m.infile_count = 0
    <3>1. SyncDone(o, s, h, X, FALSE, TRUE)
      BY <2>5, MfSync
    <3> HIDE DEF s
    <3>2. QED
      BY <3>1 DEF SyncDone
  <2> HIDE DEF s
  <2>7. Steady(o, s.m, h, X) /\ MemInv(s.m, h, X)
    BY <2>6 DEF Steady, Quiet
  <2>8. Steady(s.m, t, h, X)
    <3>1. CASE s.ok
      BY <2>7, <3>1, SteadyNothing
    <3>2. CASE ~s.ok
      <4>1. s.m.infile_count = 0 /\ t = [s.m EXCEPT !.fd = FALSE, !.disk = <<>>]
        BY <2>3, <2>6, <3>2 DEF CloseFile
      <4>2. /\ MemTypes(t) /\ t.used = s.m.used /\ SameNumbers(s.m, t) /\ t.infile_count = 0
        BY <2>7, <4>1, NoPages DEF MemInv, MemTypes, SameNumbers
      <4> HIDE DEF t
      <4>3. QED
        BY <2>7, <4>1, <4>2, NoFile
    <3>3. QED
      BY <2>6, <3>1, <3>2
  <2> HIDE DEF t
  <2>9. MemInv(t, h, X)
    BY <2>8 DEF Steady, Quiet
  <2>10. MemTypes(n) /\ n.used = t.used /\ SameNumbers(t, n) /\ SameFile(t, n)
    BY <2>1, <2>9 DEF MemInv, MemTypes, SameNumbers, SameFile
  <2> HIDE DEF n
  <2>11. Steady(t, n, h, X)
    BY <2>9, <2>10, FlagsQuiet DEF Steady
  <2>12. QED
    BY <2>4, <2>7, <2>8, <2>11, SteadyOn DEF n
<1>3. QED
  BY <1>1, <1>2

\* Opening the swap file when it may be opened is steady.
LEMMA MayOpenSteady ==
  ASSUME NEW m, NEW h, NEW X, MemInv(m, h, X), NEW room
  PROVE  Steady(m, MayOpen(m, room), h, X)
BY MlOpenFile, SteadyNothing DEF MayOpen

\* A set of numbers up to L has a greatest.
LEMMA Greatest ==
  ASSUME NEW L \in Nat, NEW S, S \subseteq 1 .. L, S # {}
  PROVE  Max(S) \in S
<1> DEFINE R == {L - x : x \in S}
<1>1. R \subseteq Nat /\ R # {}
  OBVIOUS
<1>2. PICK y \in R : \A z \in R : y <= z
  <2> HIDE DEF R
  <2> QED BY <1>1, Least
<1>3. PICK x \in S : y = L - x
  BY <1>2
<1>4. \A z \in S : x >= z
  BY <1>2, <1>3
<1>5. \E a \in S : \A z \in S : a >= z
  BY <1>4
<1>6. QED
  BY <1>5 DEF Max

\* mf_release is steady: the block it gives up is on disk, the locked one stays.
LEMMA MfRelease ==
  ASSUME NEW m, NEW h, NEW X, MemInv(m, h, X), Held(m, X), NEW room
  PROVE  Steady(m, mf_release(m, room), h, X)
<1> DEFINE o == MayOpen(m, room)
           n == EvictOne(o, room)
<1>1. CASE UsedPages(m) < MaxUsed
  BY <1>1, SteadyNothing DEF mf_release
<1>2. CASE ~(UsedPages(m) < MaxUsed)
  <2>1. mf_release(m, room) = n
    BY <1>2 DEF mf_release
  <2>2. Steady(m, o, h, X)
    BY MayOpenSteady
  <2> HIDE DEF o
  <2>3. MemInv(o, h, X) /\ Held(o, X)
    BY <2>2, SteadyHeld
  <2>4. Steady(o, n, h, X)
    <3>1. CASE o.fd /\ Unlocked(o) # {}
      <4> DEFINE i == Max(Unlocked(o))
      <4>1. n = Evict(o, i, room)
        BY <3>1 DEF EvictOne
      <4>2. Len(o.used) \in Nat /\ Unlocked(o) \subseteq 1 .. Len(o.used)
            /\ DOMAIN o.used = 1 .. Len(o.used)
        BY <2>3, MemFields DEF MemInv, Unlocked
      <4>3. i \in Unlocked(o)
        BY <3>1, <4>2, Greatest
      <4>4. i \in DOMAIN o.used /\ ~o.used[i].locked
        BY <4>2, <4>3 DEF Unlocked
      <4> HIDE DEF i, n
      <4>5. QED
        BY <2>3, <4>1, <4>4, Evicted DEF Steady
    <3>2. CASE ~(o.fd /\ Unlocked(o) # {})
      BY <2>3, <3>2, SteadyNothing DEF EvictOne
    <3>3. QED
      BY <3>1, <3>2
  <2>5. QED
    BY <2>1, <2>2, <2>4, SteadyOn
<1>3. QED
  BY <1>1, <1>2

\* When the file is open giving up a block is calm.
LEMMA ReleaseCalm ==
  ASSUME NEW m, NEW h, NEW X, MemInv(m, h, X), m.fd, NEW room
  PROVE  Calm(m, mf_release(m, room))
<1> DEFINE n == mf_release(m, room)
           i == Max(Unlocked(m))
<1>1. CASE ~(UsedPages(m) < MaxUsed) /\ Unlocked(m) # {}
  <2>1. MayOpen(m, room) = m
    BY DEF MayOpen
  <2>2. n = Evict(m, i, room)
    BY <1>1, <2>1 DEF mf_release, EvictOne
  <2>3. Len(m.used) \in Nat /\ Unlocked(m) \subseteq 1 .. Len(m.used)
        /\ DOMAIN m.used = 1 .. Len(m.used)
    BY MemFields DEF MemInv, Unlocked
  <2>4. i \in DOMAIN m.used
    BY <1>1, <2>3, Greatest
  <2> HIDE DEF i, n
  <2>5. Calm(m, n)
    BY <2>2, <2>4, EvictCalm
  <2>6. QED
    BY <2>5 DEF n
<1>2. CASE UsedPages(m) < MaxUsed \/ Unlocked(m) = {}
  <2>1. n = m
    BY <1>2 DEF mf_release, MayOpen, EvictOne
  <2>2. QED
    BY <2>1 DEF Calm
<1>3. QED
  BY <1>1, <1>2

\* One step of the walk of mf_release_all, from the end of the list.
ReleaseStep(r, i, room) == IF r.used[i].locked THEN r ELSE Evict(r, i, room)

\* mf_release_all, called when memory is short, is steady.
LEMMA MfReleaseAll ==
  ASSUME NEW m, NEW h, NEW X, MemInv(m, h, X), Held(m, X), NEW room
  PROVE  /\ Steady(m, mf_release_all(m, room), h, X)
         /\ m.fd => Calm(m, mf_release_all(m, room))
<1> DEFINE o == MayOpen(m, room)
           L == Len(o.used)
           Loop(N, f) == f = [n \in 0 .. N |-> IF n = 0 THEN o
                                               ELSE ReleaseStep(f[n - 1], L + 1 - n, room)]
<1>1. Steady(m, o, h, X)
  BY MayOpenSteady
<1>2. MemInv(o, h, X) /\ Held(o, X) /\ (m.fd => o = m)
  BY <1>1, SteadyHeld DEF MayOpen
<1>3. mf_release_all(m, room) = ReleaseUnlocked(o, room)
  BY DEF mf_release_all
<1> HIDE DEF o
<1>4. L \in Nat
  BY <1>2, MemFields DEF MemInv
<1> HIDE DEF L
<1>5. \A N \in 0 .. L : \E f : Loop(N, f)
  <2> DEFINE T == {N \in 0 .. L : \E f : Loop(N, f)}
  <2>1. 0 \in T
    <3>1. Loop(0, [n \in 0 .. 0 |-> o])
      OBVIOUS
    <3> HIDE DEF Loop
    <3>2. QED
      BY <1>4, <3>1
  <2>2. ASSUME NEW N \in 1 .. L, N - 1 \in T
        PROVE  N \in T
    <3>1. PICK f : Loop(N - 1, f)
      BY <2>2
    <3> DEFINE g == [n \in 0 .. N |-> IF n < N THEN f[n]
                                      ELSE ReleaseStep(f[N - 1], L + 1 - N, room)]
    <3>2. Loop(N, g)
      <4>1. \A n \in 0 .. N : n # 0 => n - 1 \in 0 .. (N - 1) /\ g[n - 1] = f[n - 1]
        BY <2>2
      <4>2. \A n \in 0 .. N : g[n] = IF n = 0 THEN o
                                     ELSE ReleaseStep(g[n - 1], L + 1 - n, room)
        <5> SUFFICES ASSUME NEW n \in 0 .. N
                     PROVE  g[n] = IF n = 0 THEN o ELSE ReleaseStep(g[n - 1], L + 1 - n, room)
          OBVIOUS
        <5>1. CASE n = N
          <6>1. g[n] = ReleaseStep(f[n - 1], L + 1 - n, room) /\ n # 0
            BY <2>2, <5>1
          <6> HIDE DEF g
          <6>2. QED
            BY <4>1, <6>1
        <5>2. CASE n # N
          <6>1. g[n] = f[n] /\ n \in 0 .. (N - 1)
            BY <2>2, <5>2
          <6>2. f[n] = IF n = 0 THEN o ELSE ReleaseStep(f[n - 1], L + 1 - n, room)
            BY <3>1, <6>1
          <6> HIDE DEF g
          <6>3. QED
            BY <4>1, <6>1, <6>2
        <5>3. QED
          BY <5>1, <5>2
      <4>3. g = [n \in 0 .. N |-> g[n]]
        OBVIOUS
      <4> HIDE DEF g
      <4>4. QED
        BY <4>2, <4>3
    <3> HIDE DEF Loop, g
    <3>3. QED
      BY <2>2, <3>2
  <2> HIDE DEF T
  <2>3. \A N \in 0 .. L : N \in T
    BY <1>4, <2>1, <2>2, UpTo
  <2>4. QED
    BY <2>3 DEF T
<1> DEFINE Scan == CHOOSE f : Loop(L, f)
<1>6. ReleaseUnlocked(o, room) = IF o.fd THEN Scan[L] ELSE o
  BY DEF ReleaseUnlocked, ReleaseStep, L
<1>7. Loop(L, Scan)
  <2>1. \E f : Loop(L, f)
    <3> HIDE DEF Loop
    <3>1. QED
      BY <1>4, <1>5
  <2> HIDE DEF Loop
  <2>2. QED
    BY <2>1
<1>8. Scan[0] = o /\ \A n \in 1 .. L : Scan[n] = ReleaseStep(Scan[n - 1], L + 1 - n, room)
  <2> HIDE DEF Scan
  <2>1. \A n \in 0 .. L :
          Scan[n] = IF n = 0 THEN o ELSE ReleaseStep(Scan[n - 1], L + 1 - n, room)
    BY <1>7
  <2>2. 0 \in 0 .. L /\ \A n \in 1 .. L : n \in 0 .. L /\ n # 0
    BY <1>4
  <2>3. QED
    BY <2>1, <2>2
<1> HIDE DEF Scan, Loop
<1> DEFINE Good(n, r) == Steady(o, r, h, X) /\ Calm(o, r) /\ Len(r.used) >= L - n
<1>9. Good(L, Scan[L])
  <2> DEFINE T == {n \in 0 .. L : Good(n, Scan[n])}
  <2>1. 0 \in T
    BY <1>2, <1>4, <1>8, SteadyNothing DEF L, Calm
  <2>2. ASSUME NEW n \in 1 .. L, n - 1 \in T PROVE n \in T
    <3> DEFINE r == Scan[n - 1]
               u == Scan[n]
               i == L + 1 - n
    <3>1. Good(n - 1, r)
      BY <2>2
    <3>2. u = ReleaseStep(r, i, room)
      BY <1>8
    <3> HIDE DEF r, u
    <3>3. MemInv(r, h, X) /\ Held(r, X)
      BY <1>2, <3>1, SteadyHeld
    <3>4. Len(r.used) \in Nat /\ DOMAIN r.used = 1 .. Len(r.used) /\ i \in DOMAIN r.used
      BY <1>4, <3>1, <3>3, MemFields DEF MemInv
    <3>5. CASE r.used[i].locked
      BY <1>4, <3>1, <3>2, <3>4, <3>5 DEF ReleaseStep, u
    <3>6. CASE ~r.used[i].locked
      <4>1. u = Evict(r, i, room)
        BY <3>2, <3>6 DEF ReleaseStep
      <4> HIDE DEF i
      <4>2. /\ Quiet(r, u, h, X) /\ \A b : Holds(r, b) => Holds(u, b)
            /\ DOMAIN u.used = DOMAIN r.used \/ Len(u.used) = Len(r.used) - 1
        BY <3>3, <3>4, <3>6, <4>1, Evicted
      <4>3. Steady(o, u, h, X)
        BY <3>1, <4>2, SteadyOn DEF Steady
      <4>4. Len(u.used) \in Nat /\ DOMAIN u.used = 1 .. Len(u.used)
        BY <4>3, MemFields DEF Steady, Quiet, MemInv
      <4>5. Len(u.used) >= Len(r.used) - 1
        BY <3>4, <4>2, <4>4
      <4>6. Calm(o, u)
        <5>1. Calm(r, u)
          BY <3>3, <3>4, <4>1, EvictCalm
        <5>2. QED
          BY <3>1, <5>1, CalmOn
      <4>7. QED
        BY <1>4, <3>1, <3>4, <4>3, <4>4, <4>5, <4>6 DEF u
    <3>7. QED
      BY <3>5, <3>6
  <2> HIDE DEF T
  <2>3. \A n \in 0 .. L : n \in T
    BY <1>4, <2>1, <2>2, UpTo
  <2>4. L \in T
    BY <1>4, <2>3
  <2>5. QED
    BY <2>4 DEF T
<1>10. Steady(o, ReleaseUnlocked(o, room), h, X) /\ Calm(o, ReleaseUnlocked(o, room))
  <2>1. CASE o.fd
    BY <1>6, <1>9, <2>1
  <2>2. CASE ~o.fd
    BY <1>2, <1>6, <2>2, SteadyNothing DEF Calm
  <2>3. QED
    BY <2>1, <2>2
<1>11. QED
  BY <1>1, <1>2, <1>3, <1>10, SteadyOn

-----------------------------------------------------------------------------
(* mf_new.                                                                 *)

\* What the callers of memfile.c rely on.
Follows(m, n, h, X) ==
  /\ MemInv(n, h, X)
  /\ \A x \in DOMAIN h : Translated(m, x) >= 0 => Translated(n, x) = Translated(m, x)
  /\ \A b : Holds(m, b) => Holds(n, b)

\* A steady step follows.
LEMMA SteadyFollows ==
  ASSUME NEW m, NEW n, NEW h, NEW X, Steady(m, n, h, X)
  PROVE  Follows(m, n, h, X)
BY DEF Steady, Quiet, Follows

\* Two steps that follow do so together.
LEMMA FollowsOn ==
  ASSUME NEW m, NEW n, NEW o, NEW h, NEW X, NEW Y, Follows(m, n, h, X), Follows(n, o, h, Y)
  PROVE  Follows(m, o, h, Y)
BY DEF Follows

\* What is held is held after a step that follows.
LEMMA FollowsHeld ==
  ASSUME NEW m, NEW n, NEW h, NEW X, NEW Y, Follows(m, n, h, X), Held(m, Y)
  PROVE  Held(n, Y)
BY DEF Follows, Held

\* A heap with one more block, or with another block under a name.
With(h, b, pages, data) ==
  [x \in DOMAIN h \cup {b} |-> IF x = b THEN [pages |-> pages, data |-> data] ELSE h[x]]
Widened(h, g, b, pages, data) ==
  /\ DOMAIN g = DOMAIN h \cup {b} /\ g \in Heaps(DOMAIN g)
  /\ g[b].pages = pages /\ g[b].data = data
  /\ \A x \in DOMAIN h : x # b => g[x] = h[x]

\* The heap with a new block or with new data for one.
LEMMA WithIs ==
  ASSUME NEW h, h \in Heaps(DOMAIN h), NEW b, NEW pages \in Nat \ {0}, NEW data \in Blocks
  PROVE  Widened(h, With(h, b, pages, data), b, pages, data)
BY DEF With, Heaps, Widened

\* A block is put in front of the used list.
LEMMA Fronted ==
  ASSUME NEW m, MemTypes(m), NEW hp \in Headers, NEW n, MemTypes(n), n.used = <<hp>> \o m.used
  PROVE  /\ 1 \in DOMAIN n.used /\ n.used[1] = hp
         /\ \A k \in DOMAIN n.used : k = 1 \/ (k - 1 \in DOMAIN m.used /\ n.used[k] = m.used[k - 1])
         /\ \A k \in DOMAIN m.used : k + 1 \in DOMAIN n.used /\ n.used[k + 1] = m.used[k]
         /\ \A k, l \in DOMAIN n.used : k # 1 /\ l # 1 /\ k # l => k - 1 # l - 1
<1>1. /\ m.used \in Seq(Headers) /\ DOMAIN m.used = 1 .. Len(m.used) /\ Len(m.used) \in Nat
  BY MemFields
<1> DEFINE s == m.used
           r == <<hp>> \o s
<1> HIDE DEF s
<1>2. /\ r \in Seq(Headers) /\ Len(r) = Len(s) + 1 /\ DOMAIN r = 1 .. Len(s) + 1
      /\ r[1] = hp /\ \A k \in 2 .. Len(s) + 1 : r[k] = s[k - 1]
  BY <1>1, InFront DEF s
<1>3. n.used = r
  BY DEF s
<1> HIDE DEF r
<1>4. \A k \in DOMAIN r : k = 1 \/ (k - 1 \in DOMAIN s /\ r[k] = s[k - 1])
  BY <1>1, <1>2 DEF s
<1>5. ASSUME NEW k \in DOMAIN s PROVE k + 1 \in DOMAIN r /\ r[k + 1] = s[k]
  <2>1. k + 1 \in 2 .. Len(s) + 1 /\ k + 1 - 1 = k /\ k + 1 \in 1 .. Len(s) + 1
    BY <1>1 DEF s
  <2>2. QED
    BY <1>2, <2>1
<1>6. \A k, l \in DOMAIN r : k # 1 /\ l # 1 /\ k # l => k - 1 # l - 1
  BY <1>1, <1>2 DEF s
<1>7. 1 \in DOMAIN r
  BY <1>1, <1>2 DEF s
<1>8. QED
  BY <1>2, <1>3, <1>4, <1>5, <1>6, <1>7 DEF s

\* A new block: its number is nobody's, it is in front of the used list.
Made(m, n, h, X, b, pages, data) ==
  /\ b \in Int /\ b \notin DOMAIN h /\ MemInv(n, With(h, b, pages, data), X)
  /\ 1 \in DOMAIN n.used /\ n.used[1].b = b /\ Holds(n, b)
  /\ \A x \in DOMAIN h : Translated(m, x) >= 0 => Translated(n, x) = Translated(m, x)
  /\ \A c : Holds(m, c) => Holds(n, c)

\* Created, in terms of its effect: the new block is in front, locked and dirty, the
\* others stand.
LEMMA NewIsMade ==
  ASSUME NEW m, NEW h, NEW X, MemInv(m, h, X), NEW pages \in Nat \ {0}, NEW data \in Blocks,
         NEW b \in Int, NEW n, MemTypes(n), b \notin DOMAIN h,
         n.used = <<[b |-> b, pages |-> pages, locked |-> TRUE, dirty |-> TRUE, data |-> data]>>
                  \o m.used,
         n.trans = m.trans, SameFile(m, n), NumbersInv(n, With(h, b, pages, data)),
         n.blocknr_max >= m.blocknr_max
  PROVE  Made(m, n, h, X, b, pages, data)
<1> DEFINE hp == [b |-> b, pages |-> pages, locked |-> TRUE, dirty |-> TRUE, data |-> data]
           g == With(h, b, pages, data)
<1>0. MemTypes(m) /\ h \in Heaps(DOMAIN h) /\ DOMAIN h \subseteq Int /\ IsFiniteSet(DOMAIN h)
      /\ DOMAIN m.trans \subseteq DOMAIN h
  BY DEF MemInv, NumbersInv
<1>1. /\ hp \in Headers /\ hp.b = b /\ hp.pages = pages /\ hp.data = data /\ hp.locked /\ hp.dirty
  BY DEF Headers
<1>2. n.used = <<hp>> \o m.used
  OBVIOUS
<1> HIDE DEF hp
<1>3. /\ 1 \in DOMAIN n.used /\ n.used[1] = hp
      /\ \A k \in DOMAIN n.used : k = 1 \/ (k - 1 \in DOMAIN m.used /\ n.used[k] = m.used[k - 1])
      /\ \A k \in DOMAIN m.used : k + 1 \in DOMAIN n.used /\ n.used[k + 1] = m.used[k]
      /\ \A k, l \in DOMAIN n.used : k # 1 /\ l # 1 /\ k # l => k - 1 # l - 1
  BY <1>0, <1>1, <1>2, Fronted
<1>4. /\ DOMAIN g = DOMAIN h \cup {b} /\ g \in Heaps(DOMAIN g)
      /\ g[b].pages = pages /\ g[b].data = data /\ \A x \in DOMAIN h : g[x] = h[x]
  <2>1. Widened(h, g, b, pages, data)
    BY <1>0, WithIs
  <2>2. QED
    BY <2>1 DEF Widened
<1> HIDE DEF g
<1>5. /\ \A x \in DOMAIN h : Translated(n, x) = Translated(m, x)
      /\ Translated(n, b) = b /\ b \notin DOMAIN n.trans
  BY <1>0 DEF Translated
<1>6. \A c, q, d : OnDisk(n, c, q, d) = OnDisk(m, c, q, d)
  BY FileKept
<1>7. ASSUME NEW k \in DOMAIN m.used PROVE m.used[k].b # b
  <2>1. PICK x \in DOMAIN h : m.used[k].b = Translated(m, x)
    BY NameOf
  <2>2. x \in DOMAIN g /\ b \in DOMAIN g /\ x # b
    BY <1>4
  <2>3. Separate(Translated(n, x), g[x].pages, Translated(n, b), g[b].pages)
    BY <2>2 DEF NumbersInv, g
  <2>4. /\ Translated(m, x) \in Int /\ h[x].pages \in Nat \ {0}
        /\ Separate(Translated(m, x), h[x].pages, b, pages)
    BY <1>4, <1>5, <2>3, NameFacts
  <2>5. QED
    BY <2>1, <2>4, Apart
<1>8. UsedInv(n, g, X)
  <2>1. ASSUME NEW k \in DOMAIN n.used
        PROVE  /\ \E x \in DOMAIN g : /\ n.used[k].b = Translated(n, x)
                                      /\ n.used[k].pages = g[x].pages /\ n.used[k].data = g[x].data
               /\ n.used[k].b < 0 => n.used[k].dirty
               /\ n.used[k].dirty \/ n.used[k].b \in X
                    \/ OnDisk(n, n.used[k].b, n.used[k].pages, n.used[k].data)
    <3>1. CASE k = 1
      BY <1>1, <1>3, <1>4, <1>5, <3>1
    <3>2. CASE k # 1
      <4>1. k - 1 \in DOMAIN m.used /\ n.used[k] = m.used[k - 1]
        BY <1>3, <3>2
      <4> DEFINE old == m.used[k - 1]
      <4>2. /\ old.b < 0 => old.dirty
            /\ old.dirty \/ old.b \in X \/ OnDisk(m, old.b, old.pages, old.data)
        BY <4>1 DEF MemInv, UsedInv
      <4>3. PICK x \in DOMAIN h : /\ old.b = Translated(m, x)
                                  /\ old.pages = h[x].pages /\ old.data = h[x].data
        BY <4>1, NameOf
      <4> HIDE DEF old
      <4>4. n.used[k] = old
        BY <4>1 DEF old
      <4>5. x \in DOMAIN g /\ g[x] = h[x] /\ Translated(n, x) = Translated(m, x)
        BY <1>4, <1>5
      <4>6. OnDisk(n, old.b, old.pages, old.data) = OnDisk(m, old.b, old.pages, old.data)
        BY <1>6
      <4>7. QED
        BY <4>2, <4>3, <4>4, <4>5, <4>6
    <3>3. QED
      BY <3>1, <3>2
  <2>2. ASSUME NEW k \in DOMAIN n.used, NEW l \in DOMAIN n.used, k # l
        PROVE  n.used[k].b # n.used[l].b
    <3>1. CASE k = 1
      BY <1>1, <1>3, <1>7, <2>2, <3>1
    <3>2. CASE l = 1
      BY <1>1, <1>3, <1>7, <2>2, <3>2
    <3>3. CASE k # 1 /\ l # 1
      <4>1. /\ k - 1 \in DOMAIN m.used /\ n.used[k] = m.used[k - 1]
            /\ l - 1 \in DOMAIN m.used /\ n.used[l] = m.used[l - 1] /\ k - 1 # l - 1
        BY <1>3, <2>2, <3>3
      <4>2. QED
        BY <4>1 DEF MemInv, UsedInv
    <3>4. QED
      BY <3>1, <3>2, <3>3
  <2>3. QED
    BY <2>1, <2>2 DEF UsedInv
<1>9. SavedInv(n, g)
  <2>1. InMemory(n, Translated(n, b))
    BY <1>1, <1>3, <1>5 DEF InMemory
  <2>2. \A c : InMemory(m, c) => InMemory(n, c)
    BY <1>3 DEF InMemory
  <2>3. QED
    BY <1>4, <1>5, <1>6, <2>1, <2>2 DEF MemInv, SavedInv
<1>10. n.infile_count <= n.blocknr_max /\ (~n.fd => n.infile_count = 0)
  BY MemFields DEF MemInv, SameFile
<1>11. MemInv(n, g, X)
  <2>1. DOMAIN g \subseteq Int /\ IsFiniteSet(DOMAIN g)
    BY <1>0, <1>4, FS_AddElement
  <2>2. NumbersInv(n, g)
    BY DEF g
  <2>3. QED
    BY <1>4, <1>8, <1>9, <1>10, <2>1, <2>2 DEF MemInv
<1>12. Holds(n, b)
  BY <1>1, <1>3, <1>5 DEF Holds
<1>13. \A c : Holds(m, c) => Holds(n, c)
  BY <1>3, ZenonT(30) DEF Holds
<1>14. QED
  BY <1>1, <1>3, <1>5, <1>11, <1>12, <1>13 DEF Made, g

\* A block with a negative number: blocknr_min is no name in use.
LEMMA NewNegative ==
  ASSUME NEW m, NEW h, NEW X, MemInv(m, h, X), NEW pages \in Nat \ {0}, NEW data \in Blocks
  PROVE  Made(m, Created(m, TRUE, pages, data), h, X, m.blocknr_min, pages, data)
<1> DEFINE n == Created(m, TRUE, pages, data)
           b == m.blocknr_min
           hp == [b |-> b, pages |-> pages, locked |-> TRUE, dirty |-> TRUE, data |-> data]
           u == <<hp>> \o m.used
           g == With(h, b, pages, data)
<1>0. /\ MemTypes(m) /\ b \in Int /\ b < 0 /\ m.neg_count \in Int /\ m.used \in Seq(Headers)
      /\ h \in Heaps(DOMAIN h) /\ DOMAIN h \subseteq Int /\ IsFiniteSet(DOMAIN h)
      /\ DOMAIN m.trans \subseteq DOMAIN h
      /\ \A x \in DOMAIN h : x > b
  BY MemFields DEF MemInv, NumbersInv
<1>1. b \notin DOMAIN h
  BY <1>0
<1>2. n = [m EXCEPT !.blocknr_min = b - 1, !.neg_count = m.neg_count + 1, !.dirty = TRUE, !.used = u]
  BY <1>0 DEF Created
<1>3. hp \in Headers
  BY <1>0 DEF Headers
<1> HIDE DEF hp
<1>4. u \in Seq(Headers)
  BY <1>0, <1>3
<1> HIDE DEF u, n
<1>5. /\ MemTypes(n) /\ n.used = u /\ n.trans = m.trans /\ SameFile(m, n)
      /\ n.blocknr_max = m.blocknr_max /\ n.free = m.free
      /\ n.blocknr_min = b - 1 /\ n.neg_count = m.neg_count + 1
  <2> DEFINE c == [m EXCEPT !.blocknr_min = b - 1, !.neg_count = m.neg_count + 1]
  <2>1. /\ MemTypes(c) /\ c.trans = m.trans /\ SameFile(m, c) /\ c.blocknr_max = m.blocknr_max
        /\ c.free = m.free /\ c.blocknr_min = b - 1 /\ c.neg_count = m.neg_count + 1
    <3> DEFINE d == [m EXCEPT !.blocknr_min = b - 1]
    <3>1. b - 1 \in Int /\ m.neg_count + 1 \in Int
      BY <1>0
    <3>2. MemTypes(d) /\ SameFile(m, d) /\ d.trans = m.trans /\ d.blocknr_max = m.blocknr_max
          /\ d.free = m.free /\ d.blocknr_min = b - 1
      BY <1>0, <3>1 DEF MemTypes, SameFile
    <3>3. c = [d EXCEPT !.neg_count = m.neg_count + 1]
      BY <1>0 DEF MemTypes
    <3> HIDE DEF d, c
    <3>4. MemTypes(c) /\ SameFile(d, c) /\ c.trans = d.trans /\ c.blocknr_max = d.blocknr_max
          /\ c.free = d.free /\ c.blocknr_min = d.blocknr_min /\ c.neg_count = m.neg_count + 1
      BY <3>1, <3>2, <3>3 DEF MemTypes, SameFile
    <3>5. QED
      BY <3>2, <3>4 DEF SameFile
  <2>2. n = [c EXCEPT !.dirty = TRUE, !.used = u]
    BY <1>0, <1>2 DEF MemTypes
  <2> HIDE DEF c
  <2>3. /\ MemTypes(n) /\ n.used = u /\ n.trans = c.trans /\ SameFile(c, n)
        /\ n.blocknr_max = c.blocknr_max /\ n.free = c.free
        /\ n.blocknr_min = c.blocknr_min /\ n.neg_count = c.neg_count
    BY <1>4, <2>1, <2>2 DEF MemTypes, SameFile
  <2>4. QED
    BY <2>1, <2>3 DEF SameFile
<1>6. /\ DOMAIN g = DOMAIN h \cup {b} /\ g[b].pages = pages
      /\ \A x \in DOMAIN h : g[x] = h[x]
  <2>1. Widened(h, g, b, pages, data)
    BY <1>0, WithIs
  <2>2. QED
    BY <1>1, <2>1 DEF Widened
<1> HIDE DEF g
<1>7. /\ \A x \in DOMAIN h : Translated(n, x) = Translated(m, x) /\ Translated(m, x) # b
      /\ Translated(n, b) = b
  <2>1. \A x \in DOMAIN h : Translated(n, x) = Translated(m, x)
    BY <1>5 DEF Translated
  <2>2. Translated(n, b) = b
    BY <1>0, <1>1, <1>5 DEF Translated
  <2>3. \A x \in DOMAIN h : Translated(m, x) # b
    <3> SUFFICES ASSUME NEW x \in DOMAIN h, Translated(m, x) = b PROVE FALSE
      OBVIOUS
    <3>1. x = b
      BY <1>0, NameFacts
    <3>2. QED
      BY <1>1, <3>1
  <2>4. QED
    BY <2>1, <2>2, <2>3
<1>8. NumbersInv(n, g)
  <2>1. DOMAIN n.trans \subseteq {x \in DOMAIN g : x < 0} /\ n.blocknr_min < 0
    BY <1>0, <1>5, <1>6 DEF MemInv, NumbersInv
  <2>2. \A c, q : Clear(n, c, q) = Clear(m, c, q)
    BY <1>5 DEF Clear
  <2>3. Clear(n, b, pages)
    BY <1>0, <1>5, MemFields DEF Clear, Separate
  <2>4. \A x \in DOMAIN g : x > n.blocknr_min /\ Clear(n, Translated(n, x), g[x].pages)
    <3>1. \A x \in DOMAIN h : Clear(m, Translated(m, x), h[x].pages)
      BY DEF MemInv, NumbersInv
    <3>2. \A x \in DOMAIN h : x > n.blocknr_min
      BY <1>0, <1>5
    <3>3. b > n.blocknr_min
      BY <1>0, <1>5
    <3>4. QED
      BY <1>6, <1>7, <2>2, <2>3, <3>1, <3>2, <3>3
  <2>5. ASSUME NEW x \in DOMAIN g, NEW y \in DOMAIN g, x # y
        PROVE  Separate(Translated(n, x), g[x].pages, Translated(n, y), g[y].pages)
    <3>1. CASE x # b /\ y # b
      BY <1>6, <1>7, <2>5, <3>1 DEF MemInv, NumbersInv
    <3>2. CASE x = b /\ y # b
      BY <1>0, <1>6, <1>7, <3>2 DEF Separate
    <3>3. CASE x # b /\ y = b
      BY <1>0, <1>6, <1>7, <3>3 DEF Separate
    <3>4. QED
      BY <2>5, <3>1, <3>2, <3>3
  <2>6. FreeInv(n)
    BY <1>5 DEF FreeInv, MemInv, NumbersInv
  <2>7. n.neg_count = Cardinality({x \in DOMAIN g : x < 0})
    <3> DEFINE N == {x \in DOMAIN h : x < 0}
    <3>1. {x \in DOMAIN g : x < 0} = N \cup {b}
      BY <1>0, <1>6
    <3>2. IsFiniteSet(N) /\ b \notin N
      BY <1>0, <1>1, FS_Subset
    <3>3. m.neg_count = Cardinality(N)
      BY DEF MemInv, NumbersInv
    <3> HIDE DEF N
    <3>4. Cardinality(N \cup {b}) = Cardinality(N) + 1
      BY <3>2, FS_AddElement
    <3>5. QED
      BY <1>5, <3>1, <3>3, <3>4
  <2>8. QED
    BY <2>1, <2>4, <2>5, <2>6, <2>7 DEF NumbersInv
<1>9. n.blocknr_max >= m.blocknr_max
  BY <1>0, <1>5, MemFields
<1>10. QED
  BY <1>0, <1>1, <1>5, <1>8, <1>9, NewIsMade DEF u, hp, g, n

\* A block with a positive number: the number is clear of every other.
LEMMA NewPositive ==
  ASSUME NEW m, NEW h, NEW X, MemInv(m, h, X), NEW pages \in Nat \ {0}, NEW data \in Blocks
  PROVE  Made(m, Created(m, FALSE, pages, data), h, X, NewNumber(m, pages), pages, data)
<1> DEFINE n == Created(m, FALSE, pages, data)
           b == NewNumber(m, pages)
           t == TakeNumber(m, pages)
           hp == [b |-> b, pages |-> pages, locked |-> TRUE, dirty |-> TRUE, data |-> data]
           u == <<hp>> \o t.used
           g == With(h, b, pages, data)
<1>0. /\ MemTypes(m) /\ m.used \in Seq(Headers) /\ m.blocknr_max \in Nat
      /\ h \in Heaps(DOMAIN h) /\ DOMAIN h \subseteq Int /\ IsFiniteSet(DOMAIN h)
      /\ DOMAIN m.trans \subseteq {x \in DOMAIN h : x < 0}
  BY MemFields DEF MemInv, NumbersInv
<1>1. Took(m, t, b, pages)
  BY NumberTaken DEF MemInv, NumbersInv
<1>2. n = [t EXCEPT !.dirty = TRUE, !.used = u]
  BY DEF Created
<1> HIDE DEF t, b
<1>3. /\ MemTypes(t) /\ t.used = m.used /\ b \in Nat /\ b \in Int /\ t.trans = m.trans
      /\ t.blocknr_min = m.blocknr_min /\ t.neg_count = m.neg_count /\ SameFile(m, t)
      /\ t.blocknr_max >= m.blocknr_max
  BY <1>1 DEF Took
<1>4. hp \in Headers
  BY <1>3 DEF Headers
<1> HIDE DEF hp
<1>5. u \in Seq(Headers)
  BY <1>0, <1>3, <1>4
<1> HIDE DEF u, n
<1>6. /\ MemTypes(n) /\ n.used = u /\ n.trans = m.trans /\ SameFile(m, n)
      /\ n.blocknr_max = t.blocknr_max /\ n.free = t.free
      /\ n.blocknr_min = m.blocknr_min /\ n.neg_count = m.neg_count
  <2>1. /\ MemTypes(n) /\ n.used = u /\ n.trans = t.trans /\ SameFile(t, n)
        /\ n.blocknr_max = t.blocknr_max /\ n.free = t.free
        /\ n.blocknr_min = t.blocknr_min /\ n.neg_count = t.neg_count
    BY <1>2, <1>3, <1>5 DEF MemTypes, SameFile
  <2>2. QED
    BY <1>3, <2>1 DEF SameFile
<1>7. \A x \in DOMAIN h : /\ Clear(t, Translated(m, x), h[x].pages)
                          /\ Separate(Translated(m, x), h[x].pages, b, pages)
                          /\ Separate(b, pages, Translated(m, x), h[x].pages)
                          /\ Translated(m, x) # b
  <2> SUFFICES ASSUME NEW x \in DOMAIN h
               PROVE  /\ Clear(t, Translated(m, x), h[x].pages)
                      /\ Separate(Translated(m, x), h[x].pages, b, pages)
                      /\ Separate(b, pages, Translated(m, x), h[x].pages)
                      /\ Translated(m, x) # b
    OBVIOUS
  <2> DEFINE tx == Translated(m, x)
             px == h[x].pages
  <2>1. tx \in Int /\ px \in Nat \ {0}
    BY NameFacts
  <2>2. Clear(m, tx, px)
    BY DEF MemInv, NumbersInv
  <2> HIDE DEF tx, px
  <2>3. Clear(t, tx, px) /\ Separate(tx, px, b, pages)
    BY <1>1, <2>1, <2>2 DEF Took
  <2>4. Separate(b, pages, tx, px) /\ tx # b
    BY <1>3, <2>1, <2>3, Apart
  <2>5. QED
    BY <2>3, <2>4 DEF tx, px
<1>8. b \notin DOMAIN h
  <2> SUFFICES ASSUME b \in DOMAIN h PROVE FALSE
    OBVIOUS
  <2>1. Translated(m, b) = b
    BY <1>3, NameFacts
  <2>2. QED
    BY <1>7, <2>1
<1>9. /\ DOMAIN g = DOMAIN h \cup {b} /\ g[b].pages = pages
      /\ \A x \in DOMAIN h : g[x] = h[x]
  <2>1. Widened(h, g, b, pages, data)
    BY <1>0, <1>3, WithIs
  <2>2. QED
    BY <1>8, <2>1 DEF Widened
<1> HIDE DEF g
<1>10. /\ \A x \in DOMAIN h : Translated(n, x) = Translated(m, x)
       /\ Translated(n, b) = b
  BY <1>0, <1>6, <1>8 DEF Translated
<1>11. NumbersInv(n, g)
  <2>1. DOMAIN n.trans \subseteq {x \in DOMAIN g : x < 0} /\ n.blocknr_min < 0
    BY <1>0, <1>6, <1>9 DEF MemInv, NumbersInv
  <2>2. \A c, q : Clear(n, c, q) = Clear(t, c, q)
    BY <1>6 DEF Clear
  <2>3. \A x \in DOMAIN g : x > n.blocknr_min /\ Clear(n, Translated(n, x), g[x].pages)
    <3>1. \A x \in DOMAIN h : x > n.blocknr_min
      BY <1>6 DEF MemInv, NumbersInv
    <3>2. b > n.blocknr_min
      BY <1>3, <2>1, <1>6, MemFields
    <3>3. Clear(t, b, pages)
      BY <1>1 DEF Took
    <3>4. QED
      BY <1>7, <1>9, <1>10, <2>2, <3>1, <3>2, <3>3
  <2>4. ASSUME NEW x \in DOMAIN g, NEW y \in DOMAIN g, x # y
        PROVE  Separate(Translated(n, x), g[x].pages, Translated(n, y), g[y].pages)
    <3>1. CASE x # b /\ y # b
      BY <1>9, <1>10, <2>4, <3>1 DEF MemInv, NumbersInv
    <3>2. CASE x = b /\ y # b
      BY <1>7, <1>9, <1>10, <3>2
    <3>3. CASE x # b /\ y = b
      BY <1>7, <1>9, <1>10, <3>3
    <3>4. QED
      BY <2>4, <3>1, <3>2, <3>3
  <2>5. FreeInv(n)
    BY <1>1, <1>6 DEF FreeInv, Took
  <2>6. n.neg_count = Cardinality({x \in DOMAIN g : x < 0})
    <3>1. {x \in DOMAIN g : x < 0} = {x \in DOMAIN h : x < 0}
      BY <1>3, <1>9
    <3>2. QED
      BY <1>6, <3>1 DEF MemInv, NumbersInv
  <2>7. QED
    BY <2>1, <2>3, <2>4, <2>5, <2>6 DEF NumbersInv
<1>12. n.used = <<[b |-> b, pages |-> pages, locked |-> TRUE, dirty |-> TRUE, data |-> data]>> \o m.used
  BY <1>3, <1>6 DEF u, hp
<1>13. QED
  BY <1>3, <1>6, <1>8, <1>11, <1>12, NewIsMade DEF g, n, b

-----------------------------------------------------------------------------
(* mf_new, mf_get.                                                         *)

\* mf_new makes a block under a name that was not in use, and loses none.
LEMMA MfNew ==
  ASSUME NEW m, NEW h, NEW X, MemInv(m, h, X), Held(m, X), NEW pages \in Nat \ {0},
         NEW data \in Blocks, NEW negative \in BOOLEAN, NEW room,
         NEW n, n = mf_new(m, negative, pages, data, room)
  PROVE  Made(m, n, h, X, n.used[1].b, pages, data)
<1> DEFINE r == mf_release(m, room)
           b == IF negative THEN r.blocknr_min ELSE NewNumber(r, pages)
<1>1. Steady(m, r, h, X)
  BY MfRelease
<1>2. n = Created(r, negative, pages, data)
  BY DEF mf_new
<1> HIDE DEF r
<1>3. MemInv(r, h, X)
  BY <1>1, SteadyHeld
<1>4. Made(r, n, h, X, b, pages, data)
  <2>1. CASE negative
    <3>1. Made(r, Created(r, TRUE, pages, data), h, X, r.blocknr_min, pages, data)
      BY <1>3, NewNegative
    <3>2. QED
      BY <1>2, <2>1, <3>1
  <2>2. CASE ~negative
    <3>1. Made(r, Created(r, FALSE, pages, data), h, X, NewNumber(r, pages), pages, data)
      BY <1>3, NewPositive
    <3>2. QED
      BY <1>2, <2>2, <3>1
  <2>3. QED
    BY <2>1, <2>2
<1> HIDE DEF b
<1>5. n.used[1].b = b
  BY <1>4 DEF Made
<1>6. Follows(m, r, h, X)
  BY <1>1, SteadyFollows
<1>7. QED
  BY <1>4, <1>5, <1>6 DEF Made, Follows

\* The block is in front of the used list, locked.
Got(m, n, h, X, b) ==
  /\ Follows(m, n, h, X) /\ Holds(n, b)
  /\ 1 \in DOMAIN n.used /\ n.used[1].b = b
  /\ n.used[1].pages = h[b].pages /\ n.used[1].data = h[b].data

\* A block that is in memory.
Fronting(u, hp, s, i) == u = <<hp>> \o RemoveAt(s, i)

\* A block moved to the front of the used list and locked has been got.
LEMMA ToFront ==
  ASSUME NEW m, NEW h, NEW X, MemInv(m, h, X), NEW b \in DOMAIN h, b \notin DOMAIN m.trans,
         NEW i \in DOMAIN m.used, m.used[i].b = b, NEW hp \in Headers, hp.b = b, hp.locked,
         hp.pages = m.used[i].pages, hp.dirty = m.used[i].dirty, hp.data = m.used[i].data,
         NEW u, Fronting(u, hp, m.used, i),
         NEW n, MemTypes(n), n.used = u, SameNumbers(m, n), SameFile(m, n)
  PROVE  Got(m, n, h, X, b)
<1> DEFINE s == m.used
           r == RemoveAt(s, i)
<1>0. /\ MemTypes(m) /\ s \in Seq(Headers) /\ DOMAIN s = 1 .. Len(s) /\ i \in DOMAIN s
      /\ s[i] \in Headers /\ b \in Int
      /\ \A k, l \in DOMAIN s : s[k].b = s[l].b => k = l
  BY MemFields DEF MemInv, UsedInv
<1>1. /\ s = m.used /\ r = RemoveAt(s, i) /\ u = <<hp>> \o r /\ s[i].b = b
      /\ hp.pages = s[i].pages /\ hp.dirty = s[i].dirty /\ hp.data = s[i].data
  BY DEF Fronting
<1>2. r \in Seq(Headers) /\ Len(r) = Len(s) - 1
  BY <1>0, Removed, SMTT(30)
<1> HIDE DEF s, r
<1>3. /\ \A k \in DOMAIN r : \E l \in DOMAIN s \ {i} : r[k] = s[l]
      /\ \A l \in DOMAIN s \ {i} : \E k \in DOMAIN r : r[k] = s[l]
      /\ \A k, l \in DOMAIN r : k # l => \E a, c \in DOMAIN s \ {i} :
                                            a # c /\ r[k] = s[a] /\ r[l] = s[c]
  <2>1. r = RemoveAt(s, i) /\ s \in Seq(Headers) /\ i \in DOMAIN s
    BY <1>0, <1>1
  <2>2. QED
    BY <2>1, RemovedPlaces
<1>4. /\ u \in Seq(Headers) /\ DOMAIN u = 1 .. Len(r) + 1 /\ u[1] = hp
      /\ \A k \in 2 .. Len(r) + 1 : u[k] = r[k - 1]
  BY <1>1, <1>2, InFront
<1>5. n.blocknr_max = m.blocknr_max
  BY DEF SameNumbers
<1>6. DOMAIN r = 1 .. Len(r) /\ Len(r) \in Nat
  BY <1>2
<1>7. /\ \A k \in DOMAIN u : k = 1 \/ (k - 1 \in DOMAIN r /\ u[k] = r[k - 1])
      /\ \A k \in DOMAIN r : k + 1 \in DOMAIN u /\ u[k + 1] = r[k]
      /\ 1 \in DOMAIN u
  <2>1. ASSUME NEW k \in DOMAIN u, k # 1 PROVE k - 1 \in DOMAIN r /\ u[k] = r[k - 1]
    BY <1>4, <1>6, <2>1
  <2>2. ASSUME NEW k \in DOMAIN r PROVE k + 1 \in DOMAIN u /\ u[k + 1] = r[k]
    <3>1. k + 1 \in 2 .. Len(r) + 1 /\ k + 1 - 1 = k
      BY <1>6
    <3>2. QED
      BY <1>4, <3>1
  <2>3. QED
    BY <1>4, <1>6, <2>1, <2>2
<1>8. \A k \in DOMAIN u : \E l \in DOMAIN s :
          /\ u[k].b = s[l].b /\ u[k].pages = s[l].pages
          /\ u[k].data = s[l].data /\ u[k].dirty = s[l].dirty
          /\ (k = 1 <=> l = i)
  <2> SUFFICES ASSUME NEW k \in DOMAIN u
               PROVE  \E l \in DOMAIN s :
                        /\ u[k].b = s[l].b /\ u[k].pages = s[l].pages
                        /\ u[k].data = s[l].data /\ u[k].dirty = s[l].dirty
                        /\ (k = 1 <=> l = i)
    OBVIOUS
  <2>1. CASE k = 1
    BY <1>1, <1>4, <2>1
  <2>2. CASE k # 1
    <3>1. PICK l \in DOMAIN s \ {i} : u[k] = s[l]
      BY <1>3, <1>7, <2>2
    <3>2. QED
      BY <2>2, <3>1
  <2>3. QED
    BY <2>1, <2>2
<1>9. \A l \in DOMAIN s : \E k \in DOMAIN u :
          u[k].b = s[l].b /\ (s[l].locked => u[k].locked)
  <2> SUFFICES ASSUME NEW l \in DOMAIN s
               PROVE  \E k \in DOMAIN u : u[k].b = s[l].b /\ (s[l].locked => u[k].locked)
    OBVIOUS
  <2>1. CASE l = i
    BY <1>1, <1>4, <1>7, <2>1, SMTT(30)
  <2>2. CASE l # i
    <3>1. PICK k \in DOMAIN r : r[k] = s[l]
      BY <1>3, <2>2
    <3>2. k + 1 \in DOMAIN u /\ u[k + 1] = s[l]
      BY <1>7, <3>1
    <3>3. QED
      BY <3>2
  <2>3. QED
    BY <2>1, <2>2
<1>10. \A k, l \in DOMAIN u : k # l => u[k].b # u[l].b
  <2> SUFFICES ASSUME NEW k \in DOMAIN u, NEW l \in DOMAIN u, k # l PROVE u[k].b # u[l].b
    OBVIOUS
  <2>1. CASE k = 1 \/ l = 1
    BY <1>0, <1>8, <2>1
  <2>2. CASE k # 1 /\ l # 1
    <3>1. /\ k - 1 \in DOMAIN r /\ u[k] = r[k - 1] /\ l - 1 \in DOMAIN r /\ u[l] = r[l - 1]
          /\ k - 1 # l - 1
      BY <1>4, <1>7, <2>2
    <3>2. PICK a \in DOMAIN s \ {i}, c \in DOMAIN s \ {i} :
             a # c /\ u[k] = s[a] /\ u[l] = s[c]
      BY <1>3, <3>1
    <3>3. QED
      BY <1>0, <3>2
  <2>3. QED
    BY <2>1, <2>2
<1>11. NumbersInv(n, h) /\ \A x \in DOMAIN h : Translated(n, x) = Translated(m, x)
  BY NumbersKept DEF MemInv
<1>12. \A c, q, d : OnDisk(n, c, q, d) = OnDisk(m, c, q, d)
  BY FileKept
<1>13. \A c : InMemory(m, c) => InMemory(n, c)
  <2> SUFFICES ASSUME NEW c, InMemory(m, c) PROVE InMemory(n, c)
    OBVIOUS
  <2>1. PICK l \in DOMAIN s : s[l].b = c
    BY <1>1 DEF InMemory
  <2>2. PICK k \in DOMAIN u : u[k].b = s[l].b
    BY <1>9
  <2>3. QED
    BY <2>1, <2>2 DEF InMemory
<1>14. UsedInv(n, h, X)
  <2>1. ASSUME NEW k \in DOMAIN n.used
        PROVE  /\ \E x \in DOMAIN h : /\ n.used[k].b = Translated(n, x)
                                      /\ n.used[k].pages = h[x].pages /\ n.used[k].data = h[x].data
               /\ n.used[k].b < 0 => n.used[k].dirty
               /\ n.used[k].dirty \/ n.used[k].b \in X
                    \/ OnDisk(n, n.used[k].b, n.used[k].pages, n.used[k].data)
    <3>1. PICK l \in DOMAIN s :
            /\ n.used[k].b = s[l].b /\ n.used[k].pages = s[l].pages
            /\ n.used[k].data = s[l].data /\ n.used[k].dirty = s[l].dirty
      BY <1>8
    <3>2. PICK x \in DOMAIN h : /\ s[l].b = Translated(m, x)
                                /\ s[l].pages = h[x].pages /\ s[l].data = h[x].data
      BY <1>1, NameOf, SMTT(30)
    <3>3. /\ s[l].b < 0 => s[l].dirty
          /\ s[l].dirty \/ s[l].b \in X
               \/ OnDisk(m, s[l].b, s[l].pages, s[l].data)
      BY <1>1 DEF MemInv, UsedInv
    <3>4. \E y \in DOMAIN h : /\ n.used[k].b = Translated(n, y)
                              /\ n.used[k].pages = h[y].pages /\ n.used[k].data = h[y].data
      BY <1>11, <3>1, <3>2
    <3>5. n.used[k].dirty \/ n.used[k].b \in X
            \/ OnDisk(n, n.used[k].b, n.used[k].pages, n.used[k].data)
      BY <1>12, <3>1, <3>3
    <3>6. QED
      BY <3>1, <3>3, <3>4, <3>5
  <2>2. \A k, l \in DOMAIN n.used : n.used[k].b = n.used[l].b => k = l
    BY <1>10
  <2>3. QED
    BY <2>1, <2>2 DEF UsedInv
<1>15. SavedInv(n, h)
  <2> SUFFICES ASSUME NEW x \in DOMAIN h
               PROVE  \/ InMemory(n, Translated(n, x))
                      \/ OnDisk(n, Translated(n, x), h[x].pages, h[x].data)
    BY DEF SavedInv
  <2>1. \/ InMemory(m, Translated(m, x)) \/ OnDisk(m, Translated(m, x), h[x].pages, h[x].data)
    BY DEF MemInv, SavedInv
  <2>2. QED
    BY <1>11, <1>12, <1>13, <2>1
<1>16. MemInv(n, h, X)
  <2>1. n.infile_count <= n.blocknr_max /\ (~n.fd => n.infile_count = 0)
    BY <1>5 DEF SameFile, MemInv
  <2>2. QED
    BY <1>11, <1>14, <1>15, <2>1 DEF MemInv
<1>17. n.trans = m.trans
  BY DEF SameNumbers
<1>18. \A c : Holds(m, c) => Holds(n, c)
  <2> SUFFICES ASSUME NEW c, Holds(m, c) PROVE Holds(n, c)
    OBVIOUS
  <2>1. PICK l \in DOMAIN s : s[l].b = c /\ s[l].locked
    BY <1>1 DEF Holds
  <2>2. PICK k \in DOMAIN u : u[k].b = s[l].b /\ u[k].locked
    BY <1>9, <2>1
  <2>3. QED
    BY <1>17, <2>1, <2>2 DEF Holds
<1>19. Holds(n, b)
  BY <1>1, <1>4, <1>5, <1>7, <1>17 DEF Holds
<1>20. n.used[1].pages = h[b].pages /\ n.used[1].data = h[b].data
  <2>1. Translated(m, b) = b
    BY DEF Translated
  <2>2. QED
    BY <1>0, <1>1, <1>4, <2>1, NameOf, SMTT(30)
<1>21. QED
  BY <1>1, <1>4, <1>5, <1>7, <1>11, <1>16, <1>18, <1>19, <1>20 DEF Got, Follows

\* mf_get of a block that is in memory.
LEMMA GetFound ==
  ASSUME NEW m, NEW h, NEW X, MemInv(m, h, X), NEW b \in DOMAIN h, b \notin DOMAIN m.trans,
         NEW i \in DOMAIN m.used, m.used[i].b = b,
         NEW n, n = [m EXCEPT !.used = <<[m.used[i] EXCEPT !.locked = TRUE]>> \o RemoveAt(m.used, i)]
  PROVE  Got(m, n, h, X, b)
<1> DEFINE hp == [m.used[i] EXCEPT !.locked = TRUE]
           u == <<hp>> \o RemoveAt(m.used, i)
<1>0. MemTypes(m) /\ m.used \in Seq(Headers) /\ m.used[i] \in Headers
  BY MemFields DEF MemInv
<1>1. /\ hp \in Headers /\ hp.b = b /\ hp.locked /\ hp.pages = m.used[i].pages
      /\ hp.dirty = m.used[i].dirty /\ hp.data = m.used[i].data
  BY <1>0 DEF Headers
<1>2. n = [m EXCEPT !.used = u]
  OBVIOUS
<1> HIDE DEF hp
<1>3. RemoveAt(m.used, i) \in Seq(Headers)
  BY <1>0, Removed
<1>4. u \in Seq(Headers)
  BY <1>1, <1>3
<1>5. Fronting(u, hp, m.used, i)
  BY DEF Fronting
<1> HIDE DEF u
<1>6. MemTypes(n) /\ n.used = u /\ SameNumbers(m, n) /\ SameFile(m, n)
  BY <1>0, <1>2, <1>4 DEF MemTypes, SameNumbers, SameFile
<1>7. QED
  BY <1>1, <1>5, <1>6, ToFront

\* A block that has to be read.
ReadHeader(m, b, pages) ==
  [b |-> b, pages |-> pages, locked |-> TRUE, dirty |-> FALSE, data |-> ReadBlock(m, b, pages)]

\* mf_get of a block that is in the file: the pages read are those written.
LEMMA GetRead ==
  ASSUME NEW m, NEW h, NEW X, MemInv(m, h, X), NEW b \in DOMAIN h, b \notin DOMAIN m.trans,
         ~InMemory(m, b), NEW r, r = mf_read(m, b, h[b].pages)
  PROVE  r.ok /\ Got(m, r.m, h, X, b)
<1> DEFINE pages == h[b].pages
           data == h[b].data
           hp == ReadHeader(m, b, pages)
           u == <<hp>> \o m.used
           n == [m EXCEPT !.used = u]
<1>0. /\ MemTypes(m) /\ m.used \in Seq(Headers) /\ b \in Int /\ pages \in Nat \ {0}
      /\ data \in Blocks /\ m.infile_count \in Nat
      /\ m.disk \in [0 .. (m.infile_count - 1) -> FilePages]
      /\ \A k, l \in DOMAIN m.used : m.used[k].b = m.used[l].b => k = l
  BY MemFields, NameFacts DEF MemInv, UsedInv
<1>1. Translated(m, b) = b
  BY DEF Translated
<1>2. OnDisk(m, b, pages, data)
  BY <1>1 DEF MemInv, SavedInv
<1> HIDE DEF pages, data
<1>3. /\ m.fd /\ b >= 0 /\ b + pages <= m.infile_count
      /\ \A p \in b .. (b + pages - 1) : m.disk[p] = Page(data, p - b, pages)
  BY <1>2 DEF OnDisk
<1>4. InFile(m, b, pages) /\ ReadBlock(m, b, pages) = data
  <2>1. b \in b .. (b + pages - 1) /\ b .. (b + pages - 1) \subseteq DOMAIN m.disk
    BY <1>0, <1>3
  <2>2. \A p \in b .. (b + pages - 1) : m.disk[p].data = data /\ m.disk[p].k = p - b
    BY <1>3, PageFields
  <2>3. QED
    BY <1>3, <2>1, <2>2 DEF InFile, ReadBlock
<1>5. r.ok /\ r.m = n
  BY <1>4 DEF mf_read, pages, ReadHeader
<1>6. /\ hp \in Headers /\ hp.b = b /\ hp.locked /\ hp.pages = pages /\ hp.data = data
  BY <1>0, <1>4 DEF Headers, ReadHeader
<1> HIDE DEF hp
<1>7. u \in Seq(Headers)
  BY <1>0, <1>6
<1>8. /\ MemTypes(n) /\ n.used = <<hp>> \o m.used /\ SameNumbers(m, n) /\ SameFile(m, n)
  <2> HIDE DEF u
  <2>1. MemTypes(n) /\ n.used = u /\ SameNumbers(m, n) /\ SameFile(m, n)
    BY <1>0, <1>7 DEF MemTypes, SameNumbers, SameFile
  <2>2. QED
    BY <2>1 DEF u
<1> HIDE DEF u, n
<1>9. /\ 1 \in DOMAIN n.used /\ n.used[1] = hp
      /\ \A k \in DOMAIN n.used : k = 1 \/ (k - 1 \in DOMAIN m.used /\ n.used[k] = m.used[k - 1])
      /\ \A k \in DOMAIN m.used : k + 1 \in DOMAIN n.used /\ n.used[k + 1] = m.used[k]
      /\ \A k, l \in DOMAIN n.used : k # 1 /\ l # 1 /\ k # l => k - 1 # l - 1
  <2>1. MemTypes(m) /\ hp \in Headers /\ MemTypes(n) /\ n.used = <<hp>> \o m.used
    BY <1>0, <1>6, <1>8
  <2>2. QED
    BY <2>1, Fronted
<1>10. NumbersInv(n, h) /\ \A x \in DOMAIN h : Translated(n, x) = Translated(m, x)
  BY <1>8, NumbersKept DEF MemInv
<1>11. \A c, q, d : OnDisk(n, c, q, d) = OnDisk(m, c, q, d)
  BY <1>8, FileKept
<1>12. UsedInv(n, h, X)
  <2>1. ASSUME NEW k \in DOMAIN n.used
        PROVE  /\ \E x \in DOMAIN h : /\ n.used[k].b = Translated(n, x)
                                      /\ n.used[k].pages = h[x].pages /\ n.used[k].data = h[x].data
               /\ n.used[k].b < 0 => n.used[k].dirty
               /\ n.used[k].dirty \/ n.used[k].b \in X
                    \/ OnDisk(n, n.used[k].b, n.used[k].pages, n.used[k].data)
    <3>1. CASE k = 1
      <4>1. n.used[k].b = b /\ n.used[k].pages = pages /\ n.used[k].data = data /\ b >= 0
        BY <1>3, <1>6, <1>9, <3>1
      <4>2. OnDisk(n, n.used[k].b, n.used[k].pages, n.used[k].data)
        BY <1>2, <1>11, <4>1
      <4>3. Translated(n, b) = b
        BY <1>1, <1>10
      <4>4. QED
        BY <1>0, <4>1, <4>2, <4>3 DEF pages, data
    <3>2. CASE k # 1
      <4> DEFINE old == m.used[k - 1]
      <4>1. k - 1 \in DOMAIN m.used /\ n.used[k] = old
        BY <1>9, <3>2
      <4>2. /\ old.b < 0 => old.dirty
            /\ old.dirty \/ old.b \in X \/ OnDisk(m, old.b, old.pages, old.data)
        BY <4>1 DEF MemInv, UsedInv
      <4>3. PICK x \in DOMAIN h : /\ old.b = Translated(m, x)
                                  /\ old.pages = h[x].pages /\ old.data = h[x].data
        BY <4>1, NameOf
      <4> HIDE DEF old
      <4>4. Translated(n, x) = Translated(m, x)
        BY <1>10
      <4>5. OnDisk(n, old.b, old.pages, old.data) = OnDisk(m, old.b, old.pages, old.data)
        BY <1>11
      <4>6. QED
        BY <4>1, <4>2, <4>3, <4>4, <4>5
    <3>3. QED
      BY <3>1, <3>2
  <2>2. ASSUME NEW k \in DOMAIN m.used PROVE m.used[k].b # b
    BY <2>2 DEF InMemory
  <2>3. ASSUME NEW k \in DOMAIN n.used, NEW l \in DOMAIN n.used, k # l
        PROVE  n.used[k].b # n.used[l].b
    <3>1. CASE k = 1
      BY <1>6, <1>9, <2>2, <2>3, <3>1
    <3>2. CASE l = 1
      BY <1>6, <1>9, <2>2, <2>3, <3>2
    <3>3. CASE k # 1 /\ l # 1
      <4>1. /\ k - 1 \in DOMAIN m.used /\ n.used[k] = m.used[k - 1]
            /\ l - 1 \in DOMAIN m.used /\ n.used[l] = m.used[l - 1] /\ k - 1 # l - 1
        BY <1>9, <2>3, <3>3
      <4>2. QED
        BY <1>0, <4>1
    <3>4. QED
      BY <3>1, <3>2, <3>3
  <2>4. QED
    BY <2>1, <2>3 DEF UsedInv
<1>13. \A c : InMemory(m, c) => InMemory(n, c)
  BY <1>9 DEF InMemory
<1>14. SavedInv(n, h)
  BY <1>10, <1>11, <1>13 DEF MemInv, SavedInv
<1>15. MemInv(n, h, X)
  <2>1. n.infile_count <= n.blocknr_max /\ (~n.fd => n.infile_count = 0)
    BY <1>8 DEF SameFile, SameNumbers, MemInv
  <2>2. QED
    BY <1>8, <1>10, <1>12, <1>14, <2>1 DEF MemInv
<1>16. n.trans = m.trans
  BY <1>8 DEF SameNumbers
<1>17. \A c : Holds(m, c) => Holds(n, c)
  BY <1>9, <1>16 DEF Holds
<1>18. Holds(n, b)
  BY <1>6, <1>9, <1>16 DEF Holds
<1>19. Got(m, n, h, X, b)
  BY <1>6, <1>9, <1>10, <1>15, <1>17, <1>18 DEF Got, Follows, pages, data
<1>20. QED
  BY <1>5, <1>19

\* A block of the tree is found or it is read.
LEMMA MfGet ==
  ASSUME NEW m, NEW h, NEW X, MemInv(m, h, X), Held(m, X), NEW b \in DOMAIN h,
         b \notin DOMAIN m.trans, NEW pages, pages = h[b].pages, NEW room,
         NEW r, r = mf_get(m, b, pages, room)
  PROVE  r.ok /\ Got(m, r.m, h, X, b)
<1> DEFINE i == Position(m, b)
<1>0. /\ DOMAIN m.used = 1 .. Len(m.used) /\ b \in Int /\ pages \in Nat \ {0}
      /\ \A k, l \in DOMAIN m.used : m.used[k].b = m.used[l].b => k = l
      /\ m.blocknr_max \in Nat /\ m.infile_count \in Nat
  BY MemFields, NameFacts DEF MemInv, UsedInv
<1>1. Translated(m, b) = b
  BY DEF Translated
<1>2. r = GetAt(m, i, b, pages, room)
  BY DEF mf_get
<1>3. CASE InMemory(m, b)
  <2>1. i \in DOMAIN m.used /\ m.used[i].b = b
    BY <1>0, <1>3, PositionIn
  <2>2. i # 0
    BY <1>0, <2>1
  <2> HIDE DEF i
  <2>3. r.ok /\ r.m = [m EXCEPT !.used = <<[m.used[i] EXCEPT !.locked = TRUE]>> \o RemoveAt(m.used, i)]
    BY <1>2, <2>2, MemFields DEF GetAt, MemInv
  <2>4. QED
    BY <2>1, <2>3, GetFound
<1>4. CASE ~InMemory(m, b)
  <2>1. i = 0
    BY <1>0, <1>4, PositionIn
  <2>2. OnDisk(m, b, pages, h[b].data)
    BY <1>1, <1>4 DEF MemInv, SavedInv
  <2>3. b >= 0 /\ b + pages <= m.infile_count /\ m.infile_count <= m.blocknr_max
    BY <2>2 DEF OnDisk, MemInv
  <2>4. b \in 0 .. (m.infile_count - 1) /\ ~(b >= m.blocknr_max)
    BY <1>0, <2>3
  <2> DEFINE o == mf_release(m, room)
  <2>5. r = mf_read(o, b, pages)
    BY <1>2, <2>1, <2>4 DEF GetAt
  <2>6. Steady(m, o, h, X)
    BY MfRelease
  <2> HIDE DEF o
  <2>7. MemInv(o, h, X) /\ Translated(o, b) = b /\ ~InMemory(o, b)
    BY <1>1, <1>4, <2>3, <2>6 DEF Steady, Quiet
  <2>8. b \notin DOMAIN o.trans
    BY <2>3, <2>7, NameFacts
  <2>9. r.ok /\ Got(o, r.m, h, X, b)
    BY <2>5, <2>7, <2>8, GetRead
  <2>10. Follows(m, o, h, X)
    BY <2>6, SteadyFollows
  <2>11. QED
    BY <2>9, <2>10, FollowsOn DEF Got
<1>5. QED
  BY <1>3, <1>4

\* When the file is open getting a block is calm: what is read has a number in the file
\* and is as the file has it.
LEMMA GetCalm ==
  ASSUME NEW m, NEW h, NEW X, MemInv(m, h, X), Held(m, X), m.fd, NEW b, NEW pages, NEW room,
         NEW r, r = mf_get(m, b, pages, room)
  PROVE  Calm(m, r.m)
<1> DEFINE i == Position(m, b)
<1>0. /\ MemTypes(m) /\ m.used \in Seq(Headers) /\ m.infile_count \in Nat
      /\ \A k, l \in DOMAIN m.used : m.used[k].b = m.used[l].b => k = l
  BY MemFields DEF MemInv, UsedInv
<1>1. r = GetAt(m, i, b, pages, room)
  BY DEF mf_get
<1>2. CASE i # 0
  <2>1. i \in DOMAIN m.used
    BY <1>0, <1>2, PositionIn
  <2> HIDE DEF i
  <2> DEFINE hp == [m.used[i] EXCEPT !.locked = TRUE]
             n == [m EXCEPT !.used = <<hp>> \o RemoveAt(m.used, i)]
  <2>2. r.m = n
    BY <1>0, <1>1, <1>2 DEF GetAt, MemTypes
  <2>3. m.used[i] \in Headers
    BY <1>0, <2>1
  <2>4. hp \in Headers /\ hp.b = m.used[i].b /\ hp.dirty = m.used[i].dirty
    BY <2>3 DEF Headers
  <2> HIDE DEF hp
  <2>5. n.used = <<hp>> \o RemoveAt(m.used, i) /\ n.fd = m.fd
    BY <1>0 DEF MemTypes
  <2> HIDE DEF n
  <2>6. ASSUME NEW k \in DOMAIN n.used
        PROVE  n.used[k] = hp \/ \E l \in DOMAIN m.used : n.used[k] = m.used[l]
    <3> DEFINE s == RemoveAt(m.used, i)
    <3>1. s \in Seq(Headers) /\ \A j \in DOMAIN s : \E l \in DOMAIN m.used \ {i} : s[j] = m.used[l]
      BY <1>0, <2>1, Removed, RemovedPlaces
    <3> HIDE DEF s
    <3>2. CASE k = 1
      BY <2>4, <2>5, <3>1, <3>2, InFront DEF s
    <3>3. CASE k # 1
      <4>1. k - 1 \in DOMAIN s /\ n.used[k] = s[k - 1]
        <5>1. n.used = <<hp>> \o s
          BY <2>5 DEF s
        <5>2. DOMAIN n.used = 1 .. Len(s) + 1 /\ \A j \in 2 .. Len(s) + 1 : n.used[j] = s[j - 1]
          BY <2>4, <3>1, <5>1, InFront
        <5>3. Len(s) \in Nat /\ DOMAIN s = 1 .. Len(s)
          BY <3>1
        <5>4. QED
          BY <2>6, <3>3, <5>2, <5>3
      <4>2. QED
        BY <3>1, <4>1
    <3>4. QED
      BY <3>2, <3>3
  <2>7. ASSUME NEW k \in DOMAIN n.used
        PROVE  \E l \in DOMAIN m.used : n.used[k].b = m.used[l].b /\ n.used[k].dirty = m.used[l].dirty
    <3>1. CASE n.used[k] = hp
      BY <2>1, <2>4, <3>1
    <3>2. CASE n.used[k] # hp
      <4>1. PICK l \in DOMAIN m.used : n.used[k] = m.used[l]
        BY <2>6, <3>2
      <4>2. QED
        BY <4>1
    <3>3. QED
      BY <3>1, <3>2
  <2>8. Calm(m, n)
    BY <2>5, <2>7, PlacesCalm
  <2>9. QED
    BY <2>2, <2>8
<1>3. CASE i = 0
  <2>1. CASE b \notin 0 .. (m.infile_count - 1) \/ b >= m.blocknr_max
    <3>1. r = [m |-> m, ok |-> FALSE]
      BY <1>1, <1>3, <2>1 DEF GetAt
    <3>2. r.m = m
      BY <3>1
    <3>3. QED
      BY <3>2 DEF Calm
  <2>2. CASE ~(b \notin 0 .. (m.infile_count - 1) \/ b >= m.blocknr_max)
    <3> DEFINE o == mf_release(m, room)
    <3>1. r = mf_read(o, b, pages) /\ b \in Nat
      BY <1>0, <1>1, <1>3, <2>2 DEF GetAt
    <3>2. Calm(m, o)
      BY ReleaseCalm
    <3>3. MemTypes(o) /\ o.used \in Seq(Headers)
      <4>1. Steady(m, o, h, X)
        BY MfRelease
      <4> HIDE DEF o
      <4>2. QED
        BY <4>1, MemFields DEF Steady, Quiet, MemInv
    <3> HIDE DEF o
    <3>4. Calm(o, r.m)
      <4>1. CASE ~InFile(o, b, pages)
        BY <3>1, <4>1 DEF mf_read, Calm
      <4>2. CASE InFile(o, b, pages)
        <5> DEFINE hp == ReadHeader(o, b, pages)
                   n == [o EXCEPT !.used = <<hp>> \o o.used]
        <5>1. r.m = n
          BY <3>1, <4>2 DEF mf_read, ReadHeader
        <5>2. hp.b >= 0 /\ ~hp.dirty
          BY <3>1 DEF ReadHeader
        <5> HIDE DEF hp
        <5>3. n.used = <<hp>> \o o.used /\ n.fd = o.fd
          BY <3>3 DEF MemTypes
        <5> HIDE DEF n
        <5>4. \A k \in DOMAIN n.used : n.used[k] = hp \/ \E l \in DOMAIN o.used : n.used[k] = o.used[l]
          BY <3>3, <5>3
        <5>5. QED
          BY <5>1, <5>2, <5>3, <5>4 DEF Calm, Numbered, NothingDirty
      <4>3. QED
        BY <4>1, <4>2
    <3>5. QED
      BY <3>2, <3>4, CalmOn
  <2>3. QED
    BY <2>1, <2>2
<1>4. QED
  BY <1>2, <1>3

-----------------------------------------------------------------------------
(* The data of a block in memory is changed, a block is put back.          *)

\* The numbers do not depend on the data.
LEMMA SameSizes ==
  ASSUME NEW m, NEW n, SameNumbers(m, n), NEW h, NEW g, NumbersInv(m, h), DOMAIN g = DOMAIN h,
         \A x \in DOMAIN h : g[x].pages = h[x].pages
  PROVE  NumbersInv(n, g) /\ \A x \in DOMAIN h : Translated(n, x) = Translated(m, x)
<1>1. NumbersInv(n, h) /\ \A x \in DOMAIN h : Translated(n, x) = Translated(m, x)
  BY NumbersKept
<1>2. NumbersInv(n, g)
  BY <1>1 DEF NumbersInv
<1>3. QED
  BY <1>1, <1>2

WithData(m, i, data) == [m EXCEPT !.used[i].data = data]
Edited(m, n, h, X, b, data) ==
  /\ MemInv(n, With(h, b, h[b].pages, data), X \cup {b})
  /\ n.trans = m.trans /\ InMemory(n, b)
  /\ \A x \in DOMAIN h : Translated(n, x) = Translated(m, x)
  /\ \A c : Holds(m, c) => Holds(n, c)

\* New data for a block in memory that is dirty or about to be.
LEMMA DataChanged ==
  ASSUME NEW m, NEW h, NEW X, MemInv(m, h, X), NEW b \in DOMAIN h, b \notin DOMAIN m.trans,
         NEW i \in DOMAIN m.used, m.used[i].b = b, b < 0 => m.used[i].dirty,
         NEW data \in Blocks, NEW n, n = WithData(m, i, data)
  PROVE  Edited(m, n, h, X, b, data) /\ n.used[i].b = b
<1> DEFINE g == With(h, b, h[b].pages, data)
           hp == [m.used[i] EXCEPT !.data = data]
           u == [m.used EXCEPT ![i] = hp]
<1>0. /\ MemTypes(m) /\ m.used \in Seq(Headers) /\ m.used[i] \in Headers
      /\ DOMAIN m.used = 1 .. Len(m.used)
      /\ h \in Heaps(DOMAIN h) /\ h[b].pages \in Nat \ {0}
      /\ \A k, l \in DOMAIN m.used : m.used[k].b = m.used[l].b => k = l
  BY MemFields, NameFacts DEF MemInv, UsedInv
<1>1. Widened(h, g, b, h[b].pages, data)
  BY <1>0, WithIs
<1> HIDE DEF g
<1>2. /\ DOMAIN g = DOMAIN h /\ g \in Heaps(DOMAIN g) /\ g[b].data = data
      /\ \A x \in DOMAIN h : g[x].pages = h[x].pages /\ (x # b => g[x] = h[x])
  BY <1>1 DEF Widened
<1>3. /\ hp \in Headers /\ hp.b = b /\ hp.locked = m.used[i].locked /\ hp.pages = m.used[i].pages
      /\ hp.dirty = m.used[i].dirty /\ hp.data = data
  BY <1>0 DEF Headers
<1>4. n = [m EXCEPT !.used = u]
  BY <1>0 DEF WithData, MemTypes
<1> HIDE DEF hp
<1>5. /\ u \in Seq(Headers) /\ DOMAIN u = DOMAIN m.used /\ u[i] = hp
      /\ \A k \in DOMAIN m.used : k # i => u[k] = m.used[k]
  BY <1>0, <1>3
<1> HIDE DEF u
<1>6. MemTypes(n) /\ n.used = u /\ SameNumbers(m, n) /\ SameFile(m, n)
  BY <1>0, <1>4, <1>5 DEF MemTypes, SameNumbers, SameFile
<1>7. NumbersInv(n, g) /\ \A x \in DOMAIN h : Translated(n, x) = Translated(m, x)
  BY <1>2, <1>6, SameSizes DEF MemInv
<1>8. \A c, q, d : OnDisk(n, c, q, d) = OnDisk(m, c, q, d)
  BY <1>6, FileKept
<1>9. \A k \in DOMAIN m.used : /\ u[k].b = m.used[k].b /\ u[k].dirty = m.used[k].dirty
                               /\ u[k].locked = m.used[k].locked /\ u[k].pages = m.used[k].pages
  BY <1>3, <1>5
<1>10. Translated(m, b) = b
  BY DEF Translated
<1>11. UsedInv(n, g, X \cup {b})
  <2>1. ASSUME NEW k \in DOMAIN u
        PROVE  /\ \E x \in DOMAIN g : /\ u[k].b = Translated(n, x)
                                      /\ u[k].pages = g[x].pages /\ u[k].data = g[x].data
               /\ u[k].b < 0 => u[k].dirty
               /\ u[k].dirty \/ u[k].b \in X \cup {b} \/ OnDisk(n, u[k].b, u[k].pages, u[k].data)
    <3>1. CASE k = i
      <4>1. u[k].pages = h[b].pages
        BY <1>3, <1>5, <1>10, <3>1, NameOf
      <4>2. QED
        BY <1>2, <1>3, <1>5, <1>7, <1>10, <3>1, <4>1
    <3>2. CASE k # i
      <4> DEFINE old == m.used[k]
      <4>1. k \in DOMAIN m.used /\ u[k] = old
        BY <1>5, <3>2
      <4>2. /\ old.b < 0 => old.dirty
            /\ old.dirty \/ old.b \in X \/ OnDisk(m, old.b, old.pages, old.data)
        BY <4>1 DEF MemInv, UsedInv
      <4>3. PICK x \in DOMAIN h : /\ old.b = Translated(m, x)
                                  /\ old.pages = h[x].pages /\ old.data = h[x].data
        BY <4>1, NameOf
      <4>4. x # b
        BY <1>0, <1>10, <3>2, <4>1, <4>3
      <4> HIDE DEF old
      <4>5. x \in DOMAIN g /\ g[x] = h[x] /\ Translated(n, x) = Translated(m, x)
        BY <1>2, <1>7, <4>4
      <4>6. OnDisk(n, old.b, old.pages, old.data) = OnDisk(m, old.b, old.pages, old.data)
        BY <1>8
      <4>7. QED
        BY <4>1, <4>2, <4>3, <4>5, <4>6
    <3>3. QED
      BY <3>1, <3>2
  <2>2. \A k, l \in DOMAIN u : u[k].b = u[l].b => k = l
    BY <1>0, <1>5, <1>9
  <2>3. QED
    BY <1>6, <2>1, <2>2 DEF UsedInv
<1>12. \A c : InMemory(n, c) <=> InMemory(m, c)
  BY <1>5, <1>6, <1>9 DEF InMemory
<1>13. SavedInv(n, g)
  <2> SUFFICES ASSUME NEW x \in DOMAIN g
               PROVE  \/ InMemory(n, Translated(n, x))
                      \/ OnDisk(n, Translated(n, x), g[x].pages, g[x].data)
    BY DEF SavedInv
  <2>1. CASE x = b
    BY <1>7, <1>10, <1>12, <2>1 DEF InMemory
  <2>2. CASE x # b
    <3>1. g[x] = h[x] /\ Translated(n, x) = Translated(m, x) /\ x \in DOMAIN h
      BY <1>2, <1>7, <2>2
    <3>2. \/ InMemory(m, Translated(m, x)) \/ OnDisk(m, Translated(m, x), h[x].pages, h[x].data)
      BY <3>1 DEF MemInv, SavedInv
    <3>3. QED
      BY <1>8, <1>12, <3>1, <3>2
  <2>3. QED
    BY <2>1, <2>2
<1>14. MemInv(n, g, X \cup {b})
  <2>1. n.infile_count <= n.blocknr_max /\ (~n.fd => n.infile_count = 0)
    BY <1>6 DEF SameFile, SameNumbers, MemInv
  <2>2. DOMAIN g \subseteq Int /\ IsFiniteSet(DOMAIN g)
    BY <1>2 DEF MemInv
  <2>3. QED
    BY <1>2, <1>6, <1>7, <1>11, <1>13, <2>1, <2>2 DEF MemInv
<1>15. n.trans = m.trans
  BY <1>6 DEF SameNumbers
<1>16. \A c : Holds(m, c) => Holds(n, c)
  <2> SUFFICES ASSUME NEW c, Holds(m, c) PROVE Holds(n, c)
    OBVIOUS
  <2>1. PICK l \in DOMAIN m.used : m.used[l].b = c /\ m.used[l].locked
    BY DEF Holds
  <2>2. l \in DOMAIN n.used /\ n.used[l].b = c /\ n.used[l].locked
    BY <1>5, <1>6, <1>9, <2>1
  <2>3. QED
    BY <1>15, <2>2 DEF Holds
<1>17. n.used[i].b = b /\ InMemory(n, b)
  BY <1>3, <1>5, <1>6 DEF InMemory
<1>18. QED
  BY <1>7, <1>14, <1>15, <1>16, <1>17 DEF Edited, g

\* The block is put back: what was going to become dirty is dirty now.
PutBack(m, n, h, Y, b) ==
  /\ MemInv(n, h, Y)
  /\ \A x \in DOMAIN h : Translated(m, x) >= 0 => Translated(n, x) = Translated(m, x)
  /\ \A c : Holds(m, c) /\ c # b => Holds(n, c)

\* Putting a block back, dirty or not, at its place.
LEMMA PutAtIs ==
  ASSUME NEW m, NEW h, NEW X, MemInv(m, h, X), NEW b, InMemory(m, b), NEW dirty \in BOOLEAN,
         NEW Y, \A c \in X : c \in Y \/ (c = b /\ dirty),
         NEW n, n = PutAt(m, Position(m, b), dirty)
  PROVE  /\ PutBack(m, n, h, Y, b)
         /\ \E i \in DOMAIN n.used : n.used[i].b = b /\ i = Position(n, b)
         /\ n.trans = m.trans
<1> DEFINE i == Position(m, b)
           hp == PutHeader(m.used[i], dirty)
           u == [m.used EXCEPT ![i] = hp]
<1>0. /\ MemTypes(m) /\ m.used \in Seq(Headers) /\ m.dirty \in BOOLEAN
      /\ DOMAIN m.used = 1 .. Len(m.used)
      /\ \A k, l \in DOMAIN m.used : m.used[k].b = m.used[l].b => k = l
      /\ \A k \in DOMAIN m.used : m.used[k] \in Headers /\ m.used[k].dirty \in BOOLEAN
  BY MemFields DEF MemInv, UsedInv
<1>1. i \in DOMAIN m.used /\ m.used[i].b = b
  BY <1>0, PositionIn
<1>2. n = PutAt(m, i, dirty)
  OBVIOUS
<1> HIDE DEF i
<1>3. /\ hp \in Headers /\ hp.b = b /\ hp.pages = m.used[i].pages /\ hp.data = m.used[i].data
      /\ hp.dirty = (m.used[i].dirty \/ dirty)
  BY <1>0, <1>1 DEF Headers, PutHeader
<1>4. n = [m EXCEPT !.used = u, !.dirty = @ \/ dirty]
  <2>1. n = [m EXCEPT !.used[i] = hp, !.dirty = @ \/ dirty]
    BY <1>2 DEF PutAt
  <2> HIDE DEF hp
  <2>2. QED
    BY <1>0, <1>1, <2>1 DEF MemTypes
<1> HIDE DEF hp
<1>5. /\ u \in Seq(Headers) /\ DOMAIN u = DOMAIN m.used /\ u[i] = hp /\ Len(u) = Len(m.used)
      /\ \A k \in DOMAIN m.used : k # i => u[k] = m.used[k]
  BY <1>0, <1>1, <1>3
<1> HIDE DEF u
<1>6. MemTypes(n) /\ n.used = u /\ SameNumbers(m, n) /\ SameFile(m, n)
  BY <1>0, <1>4, <1>5, ZenonT(30) DEF MemTypes, SameNumbers, SameFile
<1>7. \A c, q, d : OnDisk(n, c, q, d) = OnDisk(m, c, q, d)
  BY <1>6, FileKept
<1>8. SameBlocks(m, n)
  BY <1>1, <1>3, <1>5, <1>6 DEF SameBlocks
<1>9. ASSUME NEW k \in DOMAIN m.used
      PROVE  /\ m.used[k].b < 0 => n.used[k].dirty
             /\ \/ n.used[k].dirty \/ m.used[k].b \in Y
                \/ OnDisk(n, m.used[k].b, m.used[k].pages, m.used[k].data)
  <2>1. /\ m.used[k].b < 0 => m.used[k].dirty
        /\ m.used[k].dirty \/ m.used[k].b \in X
             \/ OnDisk(m, m.used[k].b, m.used[k].pages, m.used[k].data)
    BY DEF MemInv, UsedInv
  <2>2. m.used[k].dirty => n.used[k].dirty
    BY <1>3, <1>5, <1>6
  <2>3. m.used[k].b = b /\ dirty => n.used[k].dirty
    BY <1>0, <1>1, <1>3, <1>5, <1>6
  <2>4. OnDisk(n, m.used[k].b, m.used[k].pages, m.used[k].data)
          = OnDisk(m, m.used[k].b, m.used[k].pages, m.used[k].data)
    BY <1>7
  <2>5. QED
    BY <2>1, <2>2, <2>3, <2>4
<1>10. \A x \in DOMAIN h : \/ InMemory(m, Translated(m, x))
                           \/ OnDisk(n, Translated(m, x), h[x].pages, h[x].data)
  BY <1>7 DEF MemInv, SavedInv
<1>11. n.infile_count <= n.blocknr_max /\ (~n.fd => n.infile_count = 0)
  BY <1>6 DEF SameFile, SameNumbers, MemInv
<1>12. /\ MemInv(n, h, Y) /\ \A x \in DOMAIN h : Translated(n, x) = Translated(m, x)
  BY <1>6, <1>8, <1>9, <1>10, <1>11, Retouched
<1>13. n.trans = m.trans
  BY <1>6 DEF SameNumbers
<1>14. \A c : Holds(m, c) /\ c # b => Holds(n, c)
  <2> SUFFICES ASSUME NEW c, Holds(m, c), c # b PROVE Holds(n, c)
    OBVIOUS
  <2>1. PICK l \in DOMAIN m.used : m.used[l].b = c /\ m.used[l].locked
    BY DEF Holds
  <2>2. l \in DOMAIN n.used /\ n.used[l].b = c /\ n.used[l].locked
    BY <1>1, <1>5, <1>6, <2>1
  <2>3. QED
    BY <1>13, <2>2 DEF Holds
<1>15. i \in DOMAIN n.used /\ n.used[i].b = b
  BY <1>1, <1>3, <1>5, <1>6
<1>16. i = Position(n, b)
  <2>1. \A k, l \in DOMAIN n.used : n.used[k].b = n.used[l].b => k = l
    BY <1>12 DEF MemInv, UsedInv
  <2>2. QED
    BY <1>15, <2>1, PositionIn
<1>17. QED
  BY <1>12, <1>13, <1>14, <1>15, <1>16 DEF PutBack

\* mf_put gives the lock back; a change that was pending is now a dirty block.
LEMMA MfPut ==
  ASSUME NEW m, NEW h, NEW X, MemInv(m, h, X), NEW b, InMemory(m, b), NEW dirty \in BOOLEAN,
         NEW Y, \A c \in X : c \in Y \/ (c = b /\ dirty), NEW infile \in BOOLEAN,
         NEW n, n = mf_put(m, b, dirty, infile)
  PROVE  PutBack(m, n, h, Y, b) /\ (~infile => n.trans = m.trans)
<1> DEFINE o == PutAt(m, Position(m, b), dirty)
<1>1. /\ PutBack(m, o, h, Y, b)
      /\ \E i \in DOMAIN o.used : o.used[i].b = b /\ i = Position(o, b)
      /\ o.trans = m.trans
  BY PutAtIs
<1>2. n = IF infile THEN mf_trans_add(o, b) ELSE o
  BY DEF mf_put
<1> HIDE DEF o
<1>3. CASE ~infile \/ b >= 0
  BY <1>1, <1>2, <1>3 DEF mf_trans_add
<1>4. CASE infile /\ ~(b >= 0)
  <2>1. PICK i \in DOMAIN o.used : o.used[i].b = b /\ i = Position(o, b)
    BY <1>1
  <2>2. n = TransAddAt(o, i)
    BY <1>2, <1>4, <2>1 DEF mf_trans_add
  <2>3. MemInv(o, h, Y)
    BY <1>1 DEF PutBack
  <2>4. b \in Int
    BY <2>1, <2>3, MemFields DEF MemInv
  <2>5. Moved(o, n, i, h, Y)
    <3>1. i \in DOMAIN o.used /\ o.used[i].b < 0
      BY <1>4, <2>1, <2>4
    <3>2. QED
      BY <2>2, <2>3, <3>1, NumberAdded
  <2>6. /\ Quiet(o, n, h, Y)
        /\ \A c : Holds(o, c) /\ (c >= 0 \/ c # o.used[i].b) => Holds(n, c)
    BY <2>5, MovedQuiet
  <2>7. QED
    BY <1>1, <1>4, <2>1, <2>6 DEF PutBack, Quiet
<1>5. QED
  BY <1>3, <1>4

\* The swap file is open and no block in memory has a negative number.
Open(m) == m.fd /\ Numbered(m)
\* No block has become dirty, unless one is changed.
StaysClean(m, n, changed) == NothingDirty(m) /\ ~changed => NothingDirty(n)

\* A block is in memory once.
Once(m) == \A k, l \in DOMAIN m.used : m.used[k].b = m.used[l].b => k = l

\* Numbers and marks do not depend on the data.
LEMMA EditCalm ==
  ASSUME NEW m, MemTypes(m), NEW i \in DOMAIN m.used, NEW data \in Blocks,
         NEW n, n = WithData(m, i, data)
  PROVE  /\ MemTypes(n) /\ n.fd = m.fd /\ DOMAIN n.used = DOMAIN m.used
         /\ \A k \in DOMAIN m.used : n.used[k].b = m.used[k].b /\ n.used[k].dirty = m.used[k].dirty
<1>1. m.used \in Seq(Headers) /\ m.used[i] \in Headers
  BY MemFields
<1>2. PICK hp : hp = [m.used[i] EXCEPT !.data = data]
  OBVIOUS
<1>3. hp \in Headers /\ hp.b = m.used[i].b /\ hp.dirty = m.used[i].dirty
  BY <1>1, <1>2 DEF Headers
<1>4. n = [m EXCEPT !.used[i] = hp]
  BY <1>1, <1>2 DEF WithData, MemTypes
<1>5. /\ MemTypes(n) /\ SameRest(m, n) /\ DOMAIN n.used = DOMAIN m.used
      /\ n.used[i] = hp /\ \A k \in DOMAIN m.used : k # i => n.used[k] = m.used[k]
  BY <1>3, <1>4, NewHeader
<1>6. QED
  BY <1>3, <1>5 DEF SameRest, SameFile

\* When all numbers are positive a block put back keeps its number, and becomes dirty
\* only if it is put back as a changed one.
LEMMA PutCalm ==
  ASSUME NEW m, MemTypes(m), Once(m),
         NEW b, InMemory(m, b), NEW dirty \in BOOLEAN, NEW infile, Open(m),
         NEW n, n = mf_put(m, b, dirty, infile)
  PROVE  Open(n) /\ StaysClean(m, n, dirty)
<1> DEFINE i == Position(m, b)
           hp == PutHeader(m.used[i], dirty)
<1>1. i \in DOMAIN m.used /\ m.used[i].b = b
  BY PositionIn DEF Once
<1>2. n = PutAt(m, i, dirty)
  <2>1. b >= 0
    BY <1>1 DEF Open, Numbered
  <2>2. QED
    BY <2>1 DEF mf_put, mf_trans_add
<1> HIDE DEF i
<1>3. m.used \in Seq(Headers) /\ m.used[i] \in Headers /\ m.used[i].dirty \in BOOLEAN
  BY <1>1, MemFields
<1>4. hp \in Headers /\ hp.b = b /\ hp.dirty = (m.used[i].dirty \/ dirty)
  BY <1>1, <1>3 DEF Headers, PutHeader
<1>5. PICK o : o = [m EXCEPT !.used[i] = hp]
  OBVIOUS
<1>6. n.used = o.used /\ n.fd = o.fd
  <2>1. n = [m EXCEPT !.used[i] = hp, !.dirty = @ \/ dirty]
    BY <1>2 DEF PutAt
  <2> HIDE DEF hp
  <2>2. QED
    BY <1>5, <2>1 DEF MemTypes
<1> HIDE DEF hp
<1>7. /\ SameRest(m, o) /\ DOMAIN o.used = DOMAIN m.used
      /\ o.used[i] = hp /\ \A k \in DOMAIN m.used : k # i => o.used[k] = m.used[k]
  BY <1>1, <1>4, <1>5, NewHeader
<1>8. n.fd /\ DOMAIN n.used = DOMAIN m.used
  BY <1>6, <1>7 DEF SameRest, SameFile, Open
<1>9. Numbered(n)
  BY <1>1, <1>4, <1>6, <1>7 DEF Open, Numbered
<1>10. StaysClean(m, n, dirty)
  BY <1>1, <1>4, <1>6, <1>7 DEF StaysClean, NothingDirty
<1>11. QED
  BY <1>8, <1>9, <1>10 DEF Open

\* Putting new data into a block and the block back.
LEMMA DataPutCalm ==
  ASSUME NEW m, MemTypes(m), Once(m),
         NEW i \in DOMAIN m.used, NEW b, b = m.used[i].b, NEW data \in Blocks,
         NEW dirty \in BOOLEAN, Open(m), NEW n, n = mf_put(WithData(m, i, data), b, dirty, FALSE)
  PROVE  Open(n) /\ StaysClean(m, n, dirty)
<1>1. PICK o : o = WithData(m, i, data)
  OBVIOUS
<1>2. /\ MemTypes(o) /\ o.fd = m.fd /\ DOMAIN o.used = DOMAIN m.used
      /\ \A k \in DOMAIN m.used : o.used[k].b = m.used[k].b /\ o.used[k].dirty = m.used[k].dirty
  BY <1>1, EditCalm
<1>3. Open(o) /\ (NothingDirty(m) => NothingDirty(o))
  BY <1>2 DEF Open, Numbered, NothingDirty
<1>4. InMemory(o, b)
  BY <1>2 DEF InMemory
<1>5. Once(o)
  BY <1>2 DEF Once
<1>6. n = mf_put(o, b, dirty, FALSE)
  BY <1>1
<1>7. Open(n) /\ StaysClean(o, n, dirty)
  BY <1>2, <1>3, <1>4, <1>5, <1>6, PutCalm
<1>8. QED
  BY <1>3, <1>7 DEF StaysClean

\* A block with a negative number is dirty.
LEMMA CleanNumbered ==
  ASSUME NEW m, NEW h, NEW X, MemInv(m, h, X), NothingDirty(m)
  PROVE  Numbered(m)
<1>1. \A k \in DOMAIN m.used : m.used[k].b \in Int /\ (m.used[k].b < 0 => m.used[k].dirty)
  BY MemFields DEF MemInv, UsedInv
<1>2. QED
  BY <1>1 DEF Numbered, NothingDirty

\* When no number is negative there is no name that is, and none is counted.
LEMMA NoneNegative ==
  ASSUME NEW m, NEW h, NEW X, MemInv(m, h, X)
  PROVE  m.neg_count >= 0 /\ (m.neg_count = 0 <=> \A x \in DOMAIN h : x >= 0)
<1>1. PICK S : S = {x \in DOMAIN h : x < 0}
  OBVIOUS
<1>2. IsFiniteSet(S) /\ DOMAIN h \subseteq Int
  <2>1. IsFiniteSet(DOMAIN h) /\ DOMAIN h \subseteq Int
    BY DEF MemInv
  <2>2. QED
    BY <1>1, <2>1, FS_Subset
<1>3. m.neg_count = Cardinality(S)
  BY <1>1 DEF MemInv, NumbersInv
<1>4. Cardinality(S) \in Nat /\ (Cardinality(S) = 0 <=> S = {})
  BY <1>2, FS_CardinalityType, FS_EmptySet
<1>5. S = {} <=> \A x \in DOMAIN h : x >= 0
  BY <1>1, <1>2
<1>6. QED
  BY <1>3, <1>4, <1>5

-----------------------------------------------------------------------------
(* mf_trans_del: the block has its new number for a name; mf_free.         *)

Named(h, a, b) == [x \in (DOMAIN h \ {a}) \cup {b} |-> IF x = b THEN h[a] ELSE h[x]]
WithoutName(h, a) == [x \in DOMAIN h \ {a} |-> h[x]]

\* The heap with a block under a new name.
LEMMA NamedIs ==
  ASSUME NEW h, h \in Heaps(DOMAIN h), NEW a \in DOMAIN h, NEW b, b \notin DOMAIN h,
         NEW g, g = Named(h, a, b)
  PROVE  /\ DOMAIN g = (DOMAIN h \ {a}) \cup {b} /\ g \in Heaps(DOMAIN g)
         /\ g[b] = h[a] /\ \A x \in DOMAIN h : x # a => g[x] = h[x]
BY DEF Named, Heaps

\* The old name and the new one are of the same block.
NewName(m, n, h, X, a, b) ==
  /\ b \in Nat /\ b \notin DOMAIN h /\ MemInv(n, Named(h, a, b), X)
  /\ n.used = m.used /\ b \notin DOMAIN n.trans
  /\ \A x \in DOMAIN h : x # a => Translated(n, x) = Translated(m, x)
  /\ \A c : Holds(m, c) => Holds(n, c)

\* mf_trans_del: once its translation is followed, the block goes by its positive number,
\* and there is one negative number less.
LEMMA TransDel ==
  ASSUME NEW m, NEW h, NEW X, MemInv(m, h, X), NEW a \in DOMAIN h, a \in DOMAIN m.trans,
         NEW n, n = mf_trans_del(m, a)
  PROVE  NewName(m, n, h, X, a, m.trans[a])
<1> DEFINE b == m.trans[a]
           g == Named(h, a, b)
           t == [x \in DOMAIN m.trans \ {a} |-> m.trans[x]]
<1>0. /\ MemTypes(m) /\ h \in Heaps(DOMAIN h) /\ DOMAIN h \subseteq Int /\ IsFiniteSet(DOMAIN h)
      /\ m.trans \in [DOMAIN m.trans -> Nat] /\ DOMAIN m.trans \subseteq {x \in DOMAIN h : x < 0}
      /\ m.neg_count \in Int /\ b \in Nat /\ a < 0 /\ a \in Int /\ m.blocknr_min < 0
      /\ m.blocknr_min \in Int
  BY MemFields DEF MemInv, NumbersInv
<1>1. Translated(m, a) = b
  BY DEF Translated
<1> HIDE DEF b
<1>2. b \notin DOMAIN h
  <2> SUFFICES ASSUME b \in DOMAIN h PROVE FALSE
    OBVIOUS
  <2>1. Translated(m, b) = b
    BY <1>0, NameFacts
  <2>2. QED
    BY <1>0, <1>1, <2>1, NameFacts
<1>3. /\ DOMAIN g = (DOMAIN h \ {a}) \cup {b} /\ g \in Heaps(DOMAIN g)
      /\ g[b] = h[a] /\ \A x \in DOMAIN h : x # a => g[x] = h[x]
  <2> HIDE DEF g
  <2>1. g = Named(h, a, b)
    BY DEF g
  <2>2. QED
    BY <1>0, <1>2, <2>1, NamedIs
<1> HIDE DEF g
<1>4. n = [m EXCEPT !.neg_count = m.neg_count - 1, !.trans = t]
  BY <1>0 DEF mf_trans_del, MemTypes
<1>5. t \in [DOMAIN m.trans \ {a} -> Nat] /\ DOMAIN t \subseteq Int
      /\ \A x \in DOMAIN m.trans : x # a => t[x] = m.trans[x]
  BY <1>0
<1> HIDE DEF t
<1>6. /\ MemTypes(n) /\ n.used = m.used /\ SameFile(m, n) /\ n.free = m.free
      /\ n.blocknr_max = m.blocknr_max /\ n.blocknr_min = m.blocknr_min
      /\ n.neg_count = m.neg_count - 1 /\ n.trans = t
  <2> DEFINE o == [m EXCEPT !.neg_count = m.neg_count - 1]
  <2>1. /\ MemTypes(o) /\ o.used = m.used /\ SameFile(m, o) /\ o.free = m.free
        /\ o.blocknr_max = m.blocknr_max /\ o.blocknr_min = m.blocknr_min
        /\ o.neg_count = m.neg_count - 1 /\ o.trans = m.trans
    <3>1. m.neg_count - 1 \in Int
      BY <1>0
    <3>2. QED
      BY <1>0, <3>1 DEF MemTypes, SameFile
  <2>2. n = [o EXCEPT !.trans = t]
    BY <1>0, <1>4 DEF MemTypes
  <2> HIDE DEF o
  <2>3. /\ n.used = o.used /\ SameFile(o, n) /\ n.free = o.free
        /\ n.blocknr_max = o.blocknr_max /\ n.blocknr_min = o.blocknr_min
        /\ n.neg_count = o.neg_count /\ n.trans = t
    BY <2>1, <2>2 DEF MemTypes, SameFile
  <2>4. MemTypes(n)
    BY <1>5, <2>1, <2>2, <2>3 DEF MemTypes, SameFile
  <2>5. QED
    BY <2>1, <2>3, <2>4 DEF SameFile
<1>7. /\ \A x \in DOMAIN h : x # a => Translated(n, x) = Translated(m, x)
      /\ Translated(n, b) = b /\ b \notin DOMAIN n.trans
      /\ DOMAIN n.trans = DOMAIN m.trans \ {a}
  BY <1>0, <1>2, <1>5, <1>6 DEF Translated
<1>8. \A c, q, d : OnDisk(n, c, q, d) = OnDisk(m, c, q, d)
  BY <1>6, FileKept
\* A name in either heap, for the other.
<1>9. /\ \A x \in DOMAIN h : \E y \in DOMAIN g : g[y] = h[x] /\ Translated(n, y) = Translated(m, x)
      /\ \A y \in DOMAIN g : \E x \in DOMAIN h : /\ g[y] = h[x]
                                                 /\ Translated(n, y) = Translated(m, x)
                                                 /\ x = IF y = b THEN a ELSE y
  <2>1. ASSUME NEW x \in DOMAIN h
        PROVE  \E y \in DOMAIN g : g[y] = h[x] /\ Translated(n, y) = Translated(m, x)
    <3>1. CASE x = a
      BY <1>1, <1>3, <1>7, <3>1
    <3>2. CASE x # a
      BY <1>3, <1>7, <3>2
    <3>3. QED
      BY <3>1, <3>2
  <2>2. ASSUME NEW y \in DOMAIN g
        PROVE  \E x \in DOMAIN h : /\ g[y] = h[x] /\ Translated(n, y) = Translated(m, x)
                                   /\ x = IF y = b THEN a ELSE y
    <3>1. CASE y = b
      BY <1>1, <1>3, <1>7, <3>1
    <3>2. CASE y # b
      BY <1>3, <1>7, <3>2
    <3>3. QED
      BY <3>1, <3>2
  <2>3. QED
    BY <2>1, <2>2
<1>10. UsedInv(n, g, X)
  <2>1. ASSUME NEW k \in DOMAIN m.used
        PROVE  \E y \in DOMAIN g : /\ m.used[k].b = Translated(n, y)
                                   /\ m.used[k].pages = g[y].pages /\ m.used[k].data = g[y].data
    <3>1. PICK x \in DOMAIN h : /\ m.used[k].b = Translated(m, x)
                                /\ m.used[k].pages = h[x].pages /\ m.used[k].data = h[x].data
      BY NameOf
    <3>2. QED
      BY <1>9, <3>1
  <2>2. \A k \in DOMAIN m.used :
          /\ m.used[k].b < 0 => m.used[k].dirty
          /\ m.used[k].dirty \/ m.used[k].b \in X
               \/ OnDisk(n, m.used[k].b, m.used[k].pages, m.used[k].data)
    BY <1>8 DEF MemInv, UsedInv
  <2>3. \A k, l \in DOMAIN m.used : m.used[k].b = m.used[l].b => k = l
    BY DEF MemInv, UsedInv
  <2>4. QED
    BY <1>6, <2>1, <2>2, <2>3 DEF UsedInv
<1>11. SavedInv(n, g)
  <2> SUFFICES ASSUME NEW y \in DOMAIN g
               PROVE  \/ InMemory(n, Translated(n, y))
                      \/ OnDisk(n, Translated(n, y), g[y].pages, g[y].data)
    BY DEF SavedInv
  <2>1. PICK x \in DOMAIN h : g[y] = h[x] /\ Translated(n, y) = Translated(m, x)
    BY <1>9
  <2>2. \/ InMemory(m, Translated(m, x)) \/ OnDisk(m, Translated(m, x), h[x].pages, h[x].data)
    BY DEF MemInv, SavedInv
  <2>3. InMemory(n, Translated(n, y)) = InMemory(m, Translated(m, x))
    BY <1>6, <2>1 DEF InMemory
  <2>4. QED
    BY <1>8, <2>1, <2>2, <2>3
<1>12. NumbersInv(n, g)
  <2>1. DOMAIN n.trans \subseteq {x \in DOMAIN g : x < 0} /\ n.blocknr_min < 0
    BY <1>0, <1>3, <1>6, <1>7
  <2>2. \A c, q : Clear(n, c, q) = Clear(m, c, q)
    BY <1>6 DEF Clear
  <2>3. ASSUME NEW y \in DOMAIN g
        PROVE  y > n.blocknr_min /\ Clear(n, Translated(n, y), g[y].pages)
    <3>1. PICK x \in DOMAIN h : /\ g[y] = h[x] /\ Translated(n, y) = Translated(m, x)
                                /\ x = IF y = b THEN a ELSE y
      BY <1>9
    <3>2. x > m.blocknr_min /\ Clear(m, Translated(m, x), h[x].pages)
      BY DEF MemInv, NumbersInv
    <3>3. Clear(n, Translated(n, y), g[y].pages)
      BY <2>2, <3>1, <3>2
    <3>4. y > n.blocknr_min
      BY <1>0, <1>6, <3>1, <3>2
    <3>5. QED
      BY <3>3, <3>4
  <2>4. ASSUME NEW y \in DOMAIN g, NEW z \in DOMAIN g, y # z
        PROVE  Separate(Translated(n, y), g[y].pages, Translated(n, z), g[z].pages)
    <3>1. PICK x \in DOMAIN h : /\ g[y] = h[x] /\ Translated(n, y) = Translated(m, x)
                                /\ x = IF y = b THEN a ELSE y
      BY <1>9
    <3>2. PICK w \in DOMAIN h : /\ g[z] = h[w] /\ Translated(n, z) = Translated(m, w)
                                /\ w = IF z = b THEN a ELSE z
      BY <1>9
    <3>3. x # w
      BY <1>3, <1>2, <1>0, <2>4, <3>1, <3>2
    <3>4. Separate(Translated(m, x), h[x].pages, Translated(m, w), h[w].pages)
      BY <3>3 DEF MemInv, NumbersInv
    <3>5. QED
      BY <3>1, <3>2, <3>4
  <2>5. FreeInv(n)
    BY <1>6 DEF FreeInv, MemInv, NumbersInv
  <2>6. n.neg_count = Cardinality({x \in DOMAIN g : x < 0})
    <3> DEFINE N == {x \in DOMAIN h : x < 0}
    <3>1. {x \in DOMAIN g : x < 0} = N \ {a}
      BY <1>0, <1>3
    <3>2. IsFiniteSet(N) /\ a \in N
      BY <1>0, FS_Subset
    <3>3. m.neg_count = Cardinality(N)
      BY DEF MemInv, NumbersInv
    <3> HIDE DEF N
    <3>4. Cardinality(N \ {a}) = Cardinality(N) - 1
      BY <3>2, FS_RemoveElement
    <3>5. QED
      BY <1>6, <3>1, <3>3, <3>4
  <2>7. QED
    BY <2>1, <2>3, <2>4, <2>5, <2>6 DEF NumbersInv
<1>13. MemInv(n, g, X)
  <2>1. n.infile_count <= n.blocknr_max /\ (~n.fd => n.infile_count = 0)
    BY <1>6 DEF SameFile, MemInv
  <2>2. IsFiniteSet(DOMAIN h \ {a}) /\ b \in Int
    BY <1>0, FS_Subset
  <2>3. DOMAIN g \subseteq Int /\ IsFiniteSet(DOMAIN g)
    <3> DEFINE S == DOMAIN h \ {a}
    <3>1. IsFiniteSet(S) /\ S \subseteq Int
      BY <1>0, <2>2
    <3> HIDE DEF S
    <3>2. IsFiniteSet(S \cup {b})
      BY <3>1, FS_AddElement
    <3>3. DOMAIN g = S \cup {b}
      BY <1>3 DEF S
    <3>4. QED
      BY <2>2, <3>1, <3>2, <3>3
  <2>4. QED
    BY <1>3, <1>6, <1>10, <1>11, <1>12, <2>1, <2>3 DEF MemInv
<1>14. \A c : Holds(m, c) => Holds(n, c)
  BY <1>6, <1>7 DEF Holds
<1>15. NewName(m, n, h, X, a, b)
  BY <1>0, <1>2, <1>6, <1>7, <1>13, <1>14 DEF NewName, g
<1>16. QED
  BY <1>15 DEF b

\* The block is not in memory any more and its pages are free.
Freed(m, n, h, Y, b) ==
  /\ MemInv(n, WithoutName(h, b), Y)
  /\ \A x \in DOMAIN h : Translated(n, x) = Translated(m, x)
  /\ \A c : Holds(m, c) /\ c # b => Holds(n, c)

\* mf_free: the block is gone, and its number is in the free list or gives none.
LEMMA MfFree ==
  ASSUME NEW m, NEW h, NEW X, MemInv(m, h, X), NEW b \in DOMAIN h, Holds(m, b),
         NEW Y, X \subseteq Y \cup {b}, NEW n, n = mf_free(m, b)
  PROVE  Freed(m, n, h, Y, b)
<1> DEFINE i == Position(m, b)
           s == m.used
           u == RemoveAt(s, i)
           g == WithoutName(h, b)
           hole == [b |-> b, pages |-> s[i].pages]
           free == <<hole>> \o m.free
<1>0. /\ MemTypes(m) /\ s \in Seq(Headers) /\ h \in Heaps(DOMAIN h) /\ DOMAIN h \subseteq Int
      /\ IsFiniteSet(DOMAIN h) /\ DOMAIN m.trans \subseteq {x \in DOMAIN h : x < 0}
      /\ m.neg_count \in Int /\ b \in Int /\ m.free \in Seq(FreeRanges) /\ DOMAIN s = 1 .. Len(s)
      /\ \A k, l \in DOMAIN s : s[k].b = s[l].b => k = l
      /\ b \notin DOMAIN m.trans /\ h[b].pages \in Nat \ {0}
  BY MemFields, NameFacts DEF MemInv, NumbersInv, UsedInv, Holds
<1>1. i \in DOMAIN s /\ s[i].b = b
  <2>1. InMemory(m, b)
    BY DEF Holds, InMemory
  <2>2. QED
    BY <1>0, <2>1, PositionIn
<1>2. Translated(m, b) = b
  BY <1>0 DEF Translated
<1>3. s[i].pages = h[b].pages
  BY <1>1, <1>2, NameOf
<1>4. n = IF b < 0 THEN [m EXCEPT !.used = u, !.neg_count = m.neg_count - 1]
          ELSE [m EXCEPT !.used = u, !.free = free]
  BY <1>0 DEF mf_free, MemTypes
<1> HIDE DEF i
<1>5. u \in Seq(Headers) /\ Len(u) = Len(s) - 1
  BY <1>0, <1>1, Removed, ZenonT(30)
<1>6. /\ \A k \in DOMAIN u : \E l \in DOMAIN s \ {i} : u[k] = s[l]
      /\ \A l \in DOMAIN s \ {i} : \E k \in DOMAIN u : u[k] = s[l]
      /\ \A k, l \in DOMAIN u : k # l => \E a, c \in DOMAIN s \ {i} :
                                            a # c /\ u[k] = s[a] /\ u[l] = s[c]
  <2>1. s \in Seq(Headers) /\ i \in DOMAIN s /\ u = RemoveAt(s, i)
    BY <1>0, <1>1
  <2> HIDE DEF s, u
  <2>2. QED
    BY <2>1, RemovedPlaces
<1>7. hole \in FreeRanges \/ b < 0
  BY <1>0, <1>3 DEF FreeRanges
<1>8. hole.b = b /\ hole.pages = h[b].pages
  BY <1>3
<1> HIDE DEF hole
<1>9. b >= 0 => /\ free \in Seq(FreeRanges) /\ free[1] = hole /\ DOMAIN free = 1 .. Len(m.free) + 1
                /\ \A k \in 2 .. Len(m.free) + 1 : free[k] = m.free[k - 1]
  BY <1>0, <1>7, InFront
<1> HIDE DEF u, free
<1>10. /\ MemTypes(n) /\ n.used = u /\ SameFile(m, n) /\ n.blocknr_max = m.blocknr_max
       /\ n.blocknr_min = m.blocknr_min /\ n.trans = m.trans
       /\ b < 0 => n.free = m.free /\ n.neg_count = m.neg_count - 1
       /\ b >= 0 => n.free = free /\ n.neg_count = m.neg_count
  <2> DEFINE o == [m EXCEPT !.used = u]
  <2>1. /\ MemTypes(o) /\ o.used = u /\ SameFile(m, o) /\ o.blocknr_max = m.blocknr_max
        /\ o.blocknr_min = m.blocknr_min /\ o.trans = m.trans /\ o.free = m.free
        /\ o.neg_count = m.neg_count
    BY <1>0, <1>5 DEF MemTypes, SameFile
  <2>2. n = IF b < 0 THEN [o EXCEPT !.neg_count = m.neg_count - 1] ELSE [o EXCEPT !.free = free]
    BY <1>0, <1>4 DEF MemTypes
  <2> HIDE DEF o
  <2>3. CASE b < 0
    <3>1. n = [o EXCEPT !.neg_count = m.neg_count - 1] /\ m.neg_count - 1 \in Int
      BY <1>0, <2>2, <2>3
    <3>2. /\ MemTypes(n) /\ n.used = o.used /\ SameFile(o, n) /\ n.blocknr_max = o.blocknr_max
          /\ n.blocknr_min = o.blocknr_min /\ n.trans = o.trans
          /\ n.free = o.free /\ n.neg_count = m.neg_count - 1
      BY <2>1, <3>1 DEF MemTypes, SameFile
    <3>3. QED
      BY <1>0, <2>1, <2>3, <3>2 DEF SameFile
  <2>4. CASE b >= 0
    <3>1. n = [o EXCEPT !.free = free]
      BY <1>0, <2>2, <2>4
    <3>2. /\ MemTypes(n) /\ n.used = o.used /\ SameFile(o, n) /\ n.blocknr_max = o.blocknr_max
          /\ n.blocknr_min = o.blocknr_min /\ n.trans = o.trans
          /\ n.free = free /\ n.neg_count = o.neg_count
      BY <1>9, <2>1, <2>4, <3>1 DEF MemTypes, SameFile
    <3>3. QED
      BY <1>0, <2>1, <2>4, <3>2 DEF SameFile
  <2>5. QED
    BY <1>0, <2>3, <2>4
<1>11. DOMAIN g = DOMAIN h \ {b} /\ g \in Heaps(DOMAIN g) /\ \A x \in DOMAIN g : g[x] = h[x]
  BY <1>0 DEF WithoutName, Heaps
<1> HIDE DEF g
<1>12. \A x \in DOMAIN h : Translated(n, x) = Translated(m, x)
  BY <1>10 DEF Translated
<1>13. \A c, q, d : OnDisk(n, c, q, d) = OnDisk(m, c, q, d)
  BY <1>10, FileKept
<1>14. UsedInv(n, g, Y)
  <2>1. ASSUME NEW k \in DOMAIN u
        PROVE  /\ \E x \in DOMAIN g : /\ u[k].b = Translated(n, x)
                                      /\ u[k].pages = g[x].pages /\ u[k].data = g[x].data
               /\ u[k].b < 0 => u[k].dirty
               /\ u[k].dirty \/ u[k].b \in Y \/ OnDisk(n, u[k].b, u[k].pages, u[k].data)
    <3>1. PICK l \in DOMAIN s \ {i} : u[k] = s[l]
      BY <1>6
    <3> DEFINE old == s[l]
    <3>2. /\ old.b < 0 => old.dirty
          /\ old.dirty \/ old.b \in X \/ OnDisk(m, old.b, old.pages, old.data)
      BY DEF MemInv, UsedInv
    <3>3. PICK x \in DOMAIN h : /\ old.b = Translated(m, x)
                                /\ old.pages = h[x].pages /\ old.data = h[x].data
      BY NameOf
    <3>4. old.b # b
      BY <1>0, <1>1
    <3> HIDE DEF old
    <3>5. x # b
      BY <1>2, <3>3, <3>4
    <3>6. x \in DOMAIN g /\ g[x] = h[x] /\ Translated(n, x) = Translated(m, x)
      BY <1>11, <1>12, <3>5
    <3>7. OnDisk(n, old.b, old.pages, old.data) = OnDisk(m, old.b, old.pages, old.data)
      BY <1>13
    <3>8. u[k] = old
      BY <3>1 DEF old
    <3>9. QED
      BY <3>2, <3>3, <3>4, <3>6, <3>7, <3>8
  <2>2. ASSUME NEW k \in DOMAIN u, NEW l \in DOMAIN u, k # l
        PROVE  u[k].b # u[l].b
    <3>1. PICK c \in DOMAIN s \ {i}, d \in DOMAIN s \ {i} : c # d /\ u[k] = s[c] /\ u[l] = s[d]
      BY <1>6, <2>2
    <3>2. s[c].b # s[d].b
      BY <1>0, <3>1
    <3>3. QED
      BY <3>1, <3>2
  <2>3. QED
    BY <1>10, <2>1, <2>2 DEF UsedInv
<1>15. \A c : InMemory(m, c) /\ c # b => InMemory(n, c)
  <2> SUFFICES ASSUME NEW c, InMemory(m, c), c # b PROVE InMemory(n, c)
    OBVIOUS
  <2>1. PICK l \in DOMAIN s \ {i} : s[l].b = c
    BY <1>1 DEF InMemory
  <2>2. PICK k \in DOMAIN u : u[k] = s[l]
    BY <1>6
  <2>3. QED
    BY <1>10, <2>1, <2>2 DEF InMemory
<1>16. SavedInv(n, g)
  <2> SUFFICES ASSUME NEW x \in DOMAIN g
               PROVE  \/ InMemory(n, Translated(n, x))
                      \/ OnDisk(n, Translated(n, x), g[x].pages, g[x].data)
    BY DEF SavedInv
  <2>1. x \in DOMAIN h /\ x # b /\ g[x] = h[x] /\ Translated(n, x) = Translated(m, x)
    BY <1>11, <1>12
  <2>2. Translated(m, x) # b
    BY <1>2, <2>1, NameFacts
  <2>3. \/ InMemory(m, Translated(m, x)) \/ OnDisk(m, Translated(m, x), h[x].pages, h[x].data)
    BY <2>1 DEF MemInv, SavedInv
  <2>4. QED
    BY <1>13, <1>15, <2>1, <2>2, <2>3
<1>17. NumbersInv(n, g)
  <2>1. DOMAIN n.trans \subseteq {x \in DOMAIN g : x < 0} /\ n.blocknr_min < 0
    BY <1>0, <1>10, <1>11 DEF MemInv, NumbersInv
  <2>2. \A x \in DOMAIN g : /\ x > n.blocknr_min /\ Clear(m, Translated(n, x), g[x].pages)
                            /\ Separate(Translated(n, x), g[x].pages, b, h[b].pages)
                            /\ Separate(b, h[b].pages, Translated(n, x), g[x].pages)
    BY <1>2, <1>10, <1>11, <1>12 DEF MemInv, NumbersInv
  <2>3. \A x, y \in DOMAIN g :
           x # y => Separate(Translated(n, x), g[x].pages, Translated(n, y), g[y].pages)
    BY <1>11, <1>12 DEF MemInv, NumbersInv
  <2>4. FreeInv(n) /\ \A x \in DOMAIN g : Clear(n, Translated(n, x), g[x].pages)
    <3>1. CASE b < 0
      <4>1. FreeInv(n)
        BY <1>10, <3>1 DEF FreeInv, MemInv, NumbersInv
      <4>2. \A c, q : Clear(n, c, q) = Clear(m, c, q)
        BY <1>10, <3>1 DEF Clear
      <4>3. QED
        BY <2>2, <4>1, <4>2
    <3>2. CASE b >= 0
      <4>1. /\ n.free = free /\ free[1] = hole /\ Len(m.free) \in Nat
            /\ DOMAIN m.free = 1 .. Len(m.free) /\ DOMAIN free = 1 .. Len(m.free) + 1
        BY <1>0, <1>9, <1>10, <3>2
      <4>2. \A k \in DOMAIN free : k = 1 \/ (k - 1 \in DOMAIN m.free /\ free[k] = m.free[k - 1])
        BY <1>9, <3>2, <4>1
      <4>3. \A k, l \in DOMAIN free : k # 1 /\ l # 1 /\ k # l => k - 1 # l - 1
        BY <4>1
      <4>4. Clear(m, b, h[b].pages)
        BY <1>2 DEF MemInv, NumbersInv
      <4>5. /\ b + h[b].pages <= m.blocknr_max
            /\ \A k \in DOMAIN m.free : Separate(b, h[b].pages, m.free[k].b, m.free[k].pages)
        BY <1>0, <3>2, <4>4 DEF Clear
      <4>6. \A k \in DOMAIN m.free : Separate(m.free[k].b, m.free[k].pages, b, h[b].pages)
        <5> SUFFICES ASSUME NEW k \in DOMAIN m.free
                     PROVE  Separate(m.free[k].b, m.free[k].pages, b, h[b].pages)
          OBVIOUS
        <5>1. m.free[k].b \in Nat /\ m.free[k].pages \in Nat \ {0}
          BY <1>0, MemFields
        <5>2. Separate(b, h[b].pages, m.free[k].b, m.free[k].pages)
          BY <4>5
        <5>3. QED
          BY <1>0, <5>1, <5>2 DEF Separate
      <4>7. FreeInv(m)
        BY DEF MemInv, NumbersInv
      <4>8. \A k \in DOMAIN free :
              /\ free[k].b + free[k].pages <= m.blocknr_max
              /\ \A l \in DOMAIN free :
                   k # l => Separate(free[k].b, free[k].pages, free[l].b, free[l].pages)
        <5> SUFFICES ASSUME NEW k \in DOMAIN free
                     PROVE  /\ free[k].b + free[k].pages <= m.blocknr_max
                            /\ \A l \in DOMAIN free :
                                 k # l => Separate(free[k].b, free[k].pages, free[l].b, free[l].pages)
          OBVIOUS
        <5>1. free[k].b + free[k].pages <= m.blocknr_max
          BY <1>8, <4>1, <4>2, <4>5, <4>7 DEF FreeInv
        <5>2. ASSUME NEW l \in DOMAIN free, k # l
              PROVE  Separate(free[k].b, free[k].pages, free[l].b, free[l].pages)
          <6>1. CASE k = 1
            BY <1>8, <4>1, <4>2, <4>5, <5>2, <6>1
          <6>2. CASE l = 1
            BY <1>8, <4>1, <4>2, <4>6, <5>2, <6>2
          <6>3. CASE k # 1 /\ l # 1
            BY <4>2, <4>3, <4>7, <5>2, <6>3 DEF FreeInv
          <6>4. QED
            BY <6>1, <6>2, <6>3
        <5>3. QED
          BY <5>1, <5>2
      <4>9. FreeInv(n)
        BY <1>10, <4>1, <4>8 DEF FreeInv
      <4>10. ASSUME NEW x \in DOMAIN g PROVE Clear(n, Translated(n, x), g[x].pages)
        <5> DEFINE c == Translated(n, x)
                   q == g[x].pages
        <5>1. Clear(m, c, q) /\ Separate(c, q, b, h[b].pages)
          BY <2>2
        <5> HIDE DEF c, q
        <5>2. \A k \in DOMAIN free : Separate(c, q, free[k].b, free[k].pages)
          BY <1>8, <4>1, <4>2, <5>1 DEF Clear
        <5>3. Clear(n, c, q)
          BY <1>10, <4>1, <5>1, <5>2 DEF Clear
        <5>4. QED
          BY <5>3 DEF c, q
      <4>11. QED
        BY <4>9, <4>10
    <3>3. QED
      BY <1>0, <3>1, <3>2
  <2>5. n.neg_count = Cardinality({x \in DOMAIN g : x < 0})
    <3> DEFINE N == {x \in DOMAIN h : x < 0}
    <3>1. m.neg_count = Cardinality(N)
      BY DEF MemInv, NumbersInv
    <3>2. CASE b < 0
      <4>1. {x \in DOMAIN g : x < 0} = N \ {b}
        BY <1>11, <3>2
      <4>2. IsFiniteSet(N) /\ b \in N
        BY <1>0, <3>2, FS_Subset
      <4> HIDE DEF N
      <4>3. Cardinality(N \ {b}) = Cardinality(N) - 1
        BY <4>2, FS_RemoveElement
      <4>4. QED
        BY <1>10, <3>1, <3>2, <4>1, <4>3
    <3>3. CASE b >= 0
      <4>1. {x \in DOMAIN g : x < 0} = N
        BY <1>0, <1>11, <3>3
      <4>2. QED
        BY <1>10, <3>1, <3>3, <4>1
    <3>4. QED
      BY <1>0, <3>2, <3>3
  <2>6. QED
    BY <2>1, <2>2, <2>3, <2>4, <2>5 DEF NumbersInv
<1>18. MemInv(n, g, Y)
  <2>1. n.infile_count <= n.blocknr_max /\ (~n.fd => n.infile_count = 0)
    BY <1>10 DEF SameFile, MemInv
  <2>2. DOMAIN g \subseteq Int /\ IsFiniteSet(DOMAIN g)
    BY <1>0, <1>11, FS_Subset
  <2>3. QED
    BY <1>10, <1>11, <1>14, <1>16, <1>17, <2>1, <2>2 DEF MemInv
<1>19. \A c : Holds(m, c) /\ c # b => Holds(n, c)
  <2> SUFFICES ASSUME NEW c, Holds(m, c), c # b PROVE Holds(n, c)
    OBVIOUS
  <2>1. PICK l \in DOMAIN s \ {i} : s[l].b = c /\ s[l].locked
    BY <1>1 DEF Holds
  <2>2. PICK k \in DOMAIN u : u[k] = s[l]
    BY <1>6
  <2>3. QED
    BY <1>10, <2>1, <2>2 DEF Holds
<1>20. QED
  BY <1>12, <1>18, <1>19 DEF Freed, g
=============================================================================
