------------------------------ MODULE VimSwap ------------------------------
(***************************************************************************)
(* The text of a buffer and its swap file: memfile.c, which keeps numbered *)
(* blocks in memory and in a file, and the parts of memline.c that keep    *)
(* the lines of a buffer in such blocks and recover them after a crash.    *)
(*                                                                         *)
(* Block 0 says whose swap file it is, block 1 is the root of the tree and *)
(* points at the data blocks, each of which holds some lines.  A data      *)
(* block of a file just read gets a negative number: it need not be in the *)
(* swap file, its lines are in the original file.  When it is changed, or  *)
(* its memory is wanted, it gets a positive number, and the pointer to it  *)
(* is corrected when it is next followed (mf_trans).                       *)
(*                                                                         *)
(* Lines are numbers.  A crash needs no action: what ml_recover would make *)
(* of the file in any state is an operator, Recovered.  Bounds: one        *)
(* pointer block of MaxPtr entries (it never splits), PageLines short      *)
(* lines to a page, MaxUsed pages of memory, MaxChanges changes.  Failing  *)
(* writes: in each call the disk has room for the file's first "room"      *)
(* pages, and a write beyond them fails.                                   *)
(***************************************************************************)
EXTENDS Integers, Sequences, SequencesExt, FiniteSetsExt

CONSTANTS
    FileLines,      \* lines of the original file
    PageLines,      \* short lines that fit in a page
    LongLines,      \* the lines that need a block of two pages
    MaxUsed,        \* mf_used_count_max: pages of memory, 'maxmem'
    MaxPtr,         \* bound on the entries of block 1
    MaxChanges,     \* bound on the changes to the text
    Rooms,          \* the pages the disk may have room for
    Stops           \* after how many writes a key, or CTRL-C, is typed; 0: none is

ASSUME SwapAssumption ==
    /\ FileLines \in Nat \ {0} /\ PageLines \in Nat \ {0, 1}
    /\ MaxUsed \in Nat /\ MaxPtr \in Nat \ {0} /\ MaxChanges \in Nat
    /\ LongLines \subseteq 1 .. (FileLines + MaxChanges)
    /\ Rooms \subseteq Nat /\ Stops \subseteq Nat

EmptyLine == 0      \* the line a buffer starts with
Missing == -1       \* a line of question marks in a recovered text
LineNumbers == 0 .. (FileLines + MaxChanges)

VARIABLES
    mf,         \* the memory file, memfile_T
    locked,     \* the data block ml_find_line left locked, ml_locked*
    next,       \* the next line readfile reads; 0: all is read
    changes,    \* changes made so far; line FileLines + k is new in the k-th
    original,   \* the original file is as it was read
    kept,       \* what the swap file should hold: "no", "synced", "whole"
    text        \* the lines as the editor would find them, Text(mf)

vars == <<mf, locked, next, changes, original, kept, text>>

-----------------------------------------------------------------------------
(* Blocks *)

\* The sums of the first k numbers of s
Sums(s) ==
    LET upto[k \in 0 .. Len(s)] == IF k = 0 THEN 0 ELSE upto[k - 1] + s[k]
    IN  upto

Size(line) == IF line \in LongLines THEN PageLines + 1 ELSE 1
SpaceFor(lines) == Sums([k \in 1 .. Len(lines) |-> Size(lines[k])])[Len(lines)]

NoBlock == [id |-> "none", lines |-> <<>>, ptrs |-> <<>>, behind |-> <<>>]
ZeroBlock == [NoBlock EXCEPT !.id = "zero"]
DataBlock(lines) == [NoBlock EXCEPT !.id = "data", !.lines = lines]

\* An entry of block 1: pe_bnum, pe_page_count, pe_line_count, pe_old_lnum.
\* Deleted entries stay in the slots behind the last one; "behind" has the
\* pe_old_lnum of those, and a slot never used has 0.
Entry(b, pages, count, old) ==
    [b |-> b, pages |-> pages, count |-> count, old |-> old]
RootBlock == [NoBlock EXCEPT !.id = "ptr", !.ptrs = <<Entry(2, 1, 1, 1)>>]
CorrectEntry(root, i, b, add) ==
    [root EXCEPT !.ptrs[i] = Entry(b, @.pages, @.count + add, @.old)]
RemoveEntry(root, i) ==
    [root EXCEPT !.ptrs = RemoveAt(@, i), !.behind = <<Last(root.ptrs).old>> \o @]
OldInSlot(root, i) ==
    IF i <= Len(root.ptrs) THEN root.ptrs[i].old
    ELSE IF root.behind = <<>> THEN 0 ELSE Head(root.behind)
SplitEntry(root, i, left, right) ==
    [root EXCEPT
        !.ptrs = SubSeq(@, 1, i - 1) \o <<left, right>> \o SubSeq(@, i + 1, Len(@)),
        !.behind = IF @ = <<>> THEN @ ELSE Tail(@)]

\* A page of the file: the k-th of a block that had so many.
Page(data, k, pages) == [data |-> data, k |-> k, pages |-> pages]
Hole == Page(NoBlock, 0, 0)

-----------------------------------------------------------------------------
(* memfile.c.  An operator takes the memory file and returns it changed;   *)
(* one that can fail returns a record with it and ok.  The used list is a  *)
(* sequence, the block used last in front; the hash lists find in it.      *)

\* mf_find_hash: where block b is in the used list, 0 if it is not there
Position(m, b) ==
    IF \E i \in DOMAIN m.used : m.used[i].b = b
    THEN CHOOSE i \in DOMAIN m.used : m.used[i].b = b ELSE 0
UsedPages(m) == Sums([i \in 1 .. Len(m.used) |-> m.used[i].pages])[Len(m.used)]

\* A number for a block: the first of the free list if its pages suffice.
Reuse(m, pages) == m.free # <<>> /\ Head(m.free).pages >= pages
NewNumber(m, pages) == IF Reuse(m, pages) THEN Head(m.free).b ELSE m.blocknr_max
\* Wrong: the rest of a free block keeps its number.
TakeNumberAgain(m, pages) ==
    IF ~Reuse(m, pages) THEN [m EXCEPT !.blocknr_max = @ + pages]
    ELSE [m EXCEPT !.free =
            IF Head(@).pages > pages
            THEN <<[b |-> Head(@).b, pages |-> Head(@).pages - pages]>> \o Tail(@) ELSE Tail(@)]

TakeNumber(m, pages) ==
    IF ~Reuse(m, pages) THEN [m EXCEPT !.blocknr_max = @ + pages]
    ELSE [m EXCEPT !.free =
            IF Head(@).pages > pages
            THEN <<[b |-> Head(@).b + pages, pages |-> Head(@).pages - pages]>> \o Tail(@)
            ELSE Tail(@)]

\* The block at place i gets number nr instead of its negative one.
Renumber(m, i, nr) ==
    [m EXCEPT !.used[i].b = nr,
              !.trans = [x \in DOMAIN @ \cup {m.used[i].b} |->
                            IF x = m.used[i].b THEN nr ELSE @[x]]]
TransAddAt(m, i) ==
    Renumber(TakeNumber(m, m.used[i].pages), i, NewNumber(m, m.used[i].pages))
mf_trans_add(m, b) == IF b >= 0 THEN m ELSE TransAddAt(m, Position(m, b))

\* Wrong: infile_count is not raised when the file grows.
WritePagesUncounted(m, b, data, pages) ==
    [m EXCEPT
        !.disk = [p \in DOMAIN @ \cup 0 .. (b + pages - 1) |->
                    IF p \in b .. (b + pages - 1) THEN Page(data, p - b, pages)
                    ELSE IF p \in DOMAIN @ THEN @[p] ELSE Hole]]

\* The pages of one write; the file grows to hold them.
WritePages(m, b, data, pages) ==
    [m EXCEPT
        !.disk = [p \in DOMAIN @ \cup 0 .. (b + pages - 1) |->
                    IF p \in b .. (b + pages - 1) THEN Page(data, p - b, pages)
                    ELSE IF p \in DOMAIN @ THEN @[p] ELSE Hole],
        !.infile_count = IF b + pages > @ THEN b + pages ELSE @]

\* Wrong: the block is clean before it is written.
WriteNumberClean(m, i, nr, j, room) ==
    LET pages == IF j = 0 THEN 1 ELSE m.used[j].pages
        c == IF j = 0 THEN m ELSE [m EXCEPT !.used[j].dirty = FALSE]
    IN  IF nr + pages > room THEN [m |-> c, ok |-> FALSE, done |-> TRUE]
        ELSE [m |-> WritePages(c, nr, m.used[IF j = 0 THEN i ELSE j].data, pages),
              ok |-> TRUE, done |-> nr = m.used[i].b]

\* One turn of the loop of mf_write for the block at place i, at number nr:
\* the block that has the number, at place j, or for a number that is free
\* (j = 0) a page of the block at i as a dummy.
WriteNumber(m, i, nr, j, room) ==
    LET pages == IF j = 0 THEN 1 ELSE m.used[j].pages
        w == WritePages(m, nr, m.used[IF j = 0 THEN i ELSE j].data, pages)
    IN  IF nr + pages > room THEN [m |-> m, ok |-> FALSE, done |-> TRUE]
        ELSE [m |-> IF j = 0 THEN w ELSE [w EXCEPT !.used[j].dirty = FALSE],
              ok |-> TRUE, done |-> nr = m.used[i].b]

\* The number that is written next: the block's own, or while the file does
\* not reach to it the one that comes next in the file.
NextNumber(m, i) == IF m.used[i].b > m.infile_count THEN m.infile_count ELSE m.used[i].b
WriteOne(r, i, room) ==
    IF r.done THEN r
    ELSE WriteNumber(r.m, i, NextNumber(r.m, i), Position(r.m, NextNumber(r.m, i)), room)

WriteUpTo(m, i, room) ==
    LET Turn[n \in 0 .. (m.used[i].b + 1)] ==
            IF n = 0 THEN [m |-> m, ok |-> TRUE, done |-> FALSE]
            ELSE WriteOne(Turn[n - 1], i, room)
    IN  Turn[m.used[i].b + 1]
mf_write(m, i, room) ==
    IF m.fd THEN WriteUpTo(mf_trans_add(m, m.used[i].b), i, room)
    ELSE [m |-> m, ok |-> FALSE]

\* mf_sync from the block used least on, zero being MFS_ZERO; "stop" is the
\* number of writes after which the loop is left with the status as it is
\* (0: it is not): a character is typed (MFS_STOP), or without MFS_STOP
\* CTRL-C, which sets got_int.  A second failure leaves the loop before it
\* looks.  "end": the whole list has been gone through.
Wanted(r, hp, all, zero) ==
    /\ ~r.quit /\ hp.dirty /\ (hp.b >= 0 \/ all)
    /\ r.ok \/ hp.b \in 0 .. (r.m.infile_count - 1)
    /\ zero => hp.b = 0
WroteOne(r, w, stop) ==
    LET failed == ~r.ok /\ ~w.ok
    IN  [m |-> w.m, ok |-> r.ok /\ w.ok, n |-> r.n + 1,
         quit |-> failed \/ r.n + 1 = stop, got_int |-> ~failed /\ r.n + 1 = stop]
SyncOne(r, i, all, zero, stop, room) ==
    IF Wanted(r, r.m.used[i], all, zero) THEN WroteOne(r, mf_write(r.m, i, room), stop) ELSE r
Synced(s) ==
    [m |-> IF s.quit /\ s.ok THEN s.m ELSE [s.m EXCEPT !.dirty = FALSE],
     ok |-> s.ok, end |-> ~s.quit, got_int |-> s.got_int]
mf_sync(m, all, zero, stop, room) ==
    LET Scan[n \in 0 .. Len(m.used)] ==      \* the last n blocks of the list
            IF n = 0 THEN [m |-> m, ok |-> TRUE, n |-> 0, quit |-> FALSE, got_int |-> FALSE]
            ELSE SyncOne(Scan[n - 1], Len(m.used) + 1 - n, all, zero, stop, room)
    IN  IF m.fd THEN Synced(Scan[Len(m.used)])
        ELSE [m |-> [m EXCEPT !.dirty = FALSE], ok |-> FALSE, end |-> FALSE, got_int |-> FALSE]

\* The swap file is removed; infile_count stays what it was.
CloseFile(m) == [m EXCEPT !.fd = FALSE, !.disk = <<>>]

\* ml_open_file with mf_open_file: block 0 is written at once, and if that
\* fails there is no swap file (the other directories are as full).
\* CTRL-C after that one write would only leave mf_dirty set; it is left out.
Opened(s) == [IF s.ok THEN s.m ELSE CloseFile(s.m) EXCEPT !.may_swap = FALSE]
ml_open_file(m, room) ==
    IF m.fd THEN m
    ELSE Opened(mf_sync([m EXCEPT !.fd = TRUE, !.dirty = TRUE, !.disk = <<>>],
                        FALSE, TRUE, 0, room))

MayOpen(m, room) == IF ~m.fd /\ m.may_swap THEN ml_open_file(m, room) ELSE m

\* Wrong: a block that could not be written goes too.
GoneAnyway(w, i) == [w.m EXCEPT !.used = RemoveAt(@, i)]

\* The block at place i goes, after it has been written if it is dirty.
Gone(w, i) == IF w.ok THEN [w.m EXCEPT !.used = RemoveAt(@, i)] ELSE w.m
Evict(m, i, room) ==
    Gone(IF m.used[i].dirty THEN mf_write(m, i, room) ELSE [m |-> m, ok |-> TRUE], i)

\* mf_release: when too much memory is used, the block used least that is
\* not locked goes.
Unlocked(m) == {i \in 1 .. Len(m.used) : ~m.used[i].locked}
EvictOne(m, room) ==
    IF m.fd /\ Unlocked(m) # {} THEN Evict(m, Max(Unlocked(m)), room) ELSE m
mf_release(m, room) ==
    IF UsedPages(m) < MaxUsed THEN m ELSE EvictOne(MayOpen(m, room), room)

\* mf_new: the new block is in front of the used list, locked and dirty
Created(m, negative, pages, data) ==
    LET b == IF negative THEN m.blocknr_min ELSE NewNumber(m, pages)
        t == IF negative
             THEN [m EXCEPT !.blocknr_min = @ - 1, !.neg_count = @ + 1]
             ELSE TakeNumber(m, pages)
    IN  [t EXCEPT !.dirty = TRUE,
                  !.used = <<[b |-> b, pages |-> pages, locked |-> TRUE,
                              dirty |-> TRUE, data |-> data]>> \o @]
mf_new(m, negative, pages, data, room) == Created(mf_release(m, room), negative, pages, data)

\* mf_read: what the file holds of a block, if it holds it
InFile(m, b, pages) == m.fd /\ b .. (b + pages - 1) \subseteq DOMAIN m.disk
ReadBlock(m, b, pages) ==
    IF \A p \in b .. (b + pages - 1) :
            m.disk[p].data = m.disk[b].data /\ m.disk[p].k = p - b
    THEN m.disk[b].data ELSE NoBlock

\* The block comes to the front of the used list, locked
mf_read(m, b, pages) ==
    IF ~InFile(m, b, pages) THEN [m |-> m, ok |-> FALSE]
    ELSE [m |-> [m EXCEPT !.used =
                    <<[b |-> b, pages |-> pages, locked |-> TRUE, dirty |-> FALSE,
                       data |-> ReadBlock(m, b, pages)]>> \o @], ok |-> TRUE]
GetAt(m, i, b, pages, room) ==
    IF i # 0
    THEN [m |-> [m EXCEPT !.used = <<[@[i] EXCEPT !.locked = TRUE]>> \o RemoveAt(@, i)],
          ok |-> TRUE]
    ELSE IF b \notin 0 .. (m.infile_count - 1) \/ b >= m.blocknr_max
         THEN [m |-> m, ok |-> FALSE]
    ELSE mf_read(mf_release(m, room), b, pages)
mf_get(m, b, pages, room) == GetAt(m, Position(m, b), b, pages, room)

PutHeader(hp, dirty) == [hp EXCEPT !.locked = FALSE, !.dirty = @ \/ dirty]
PutAt(m, i, dirty) == [m EXCEPT !.used[i] = PutHeader(@, dirty), !.dirty = @ \/ dirty]
mf_put(m, b, dirty, infile) ==
    IF infile THEN mf_trans_add(PutAt(m, Position(m, b), dirty), b)
    ELSE PutAt(m, Position(m, b), dirty)

mf_free(m, b) ==
    LET i == Position(m, b)
        f == [m EXCEPT !.used = RemoveAt(@, i)]
    IN  IF b < 0 THEN [f EXCEPT !.neg_count = @ - 1]
        ELSE [f EXCEPT !.free = <<[b |-> b, pages |-> m.used[i].pages]>> \o @]

\* mf_release_all, when there is no memory left
ReleaseUnlocked(m, room) ==
    LET Scan[n \in 0 .. Len(m.used)] ==
            IF n = 0 THEN m
            ELSE LET r == Scan[n - 1]
                     i == Len(m.used) + 1 - n
                 IN  IF r.used[i].locked THEN r ELSE Evict(r, i, room)
    IN  IF m.fd THEN Scan[Len(m.used)] ELSE m
mf_release_all(m, room) == ReleaseUnlocked(MayOpen(m, room), room)

\* mf_trans_del
Translated(m, b) == IF b \in DOMAIN m.trans THEN m.trans[b] ELSE b
mf_trans_del(m, b) ==
    IF b \notin DOMAIN m.trans THEN m
    ELSE [m EXCEPT !.neg_count = @ - 1,
                   !.trans = [x \in DOMAIN @ \ {b} |-> @[x]]]

-----------------------------------------------------------------------------
(* memline.c.  An operator takes and returns a record of the memory file m,*)
(* the locked block l and ok: whether the blocks needed were found.        *)

\* ml_locked: its place in block 1, its number, the flags ML_LOCKED_DIRTY
\* and ML_LOCKED_POS, and ml_locked_lineadd.
Lock(i, b) == [at |-> i, b |-> b, dirty |-> FALSE, pos |-> FALSE, add |-> 0]
NotLocked == Lock(0, 0)

\* A block as the editor would find it now, without a trace of the look.
Look(m, b, pages) ==
    LET i == Position(m, b)
    IN  IF i # 0 THEN m.used[i].data
        ELSE IF b \in 0 .. (m.infile_count - 1) /\ InFile(m, b, pages)
             THEN ReadBlock(m, b, pages)
        ELSE NoBlock
Pointers(m) == Look(m, 1, 1).ptrs
LinesOf(m, pe) ==
    LET data == Look(m, Translated(m, pe.b), pe.pages)
    IN  IF data.id = "data" THEN data.lines ELSE <<Missing>>
Text(m) ==
    LET ptrs == Pointers(m)
    IN  FlattenSeq([i \in 1 .. Len(ptrs) |-> LinesOf(m, ptrs[i])])

\* Line counts, as block 1 and the locked block have them.
Counts(s) ==
    LET ptrs == Pointers(s.m)
    IN  [i \in 1 .. Len(ptrs) |-> ptrs[i].count + (IF s.l.at = i THEN s.l.add ELSE 0)]
LineCount(s) == Sums(Counts(s))[Len(Counts(s))]
Before(s, i) == Sums(Counts(s))[i - 1]
BlockWith(s, n) ==
    CHOOSE i \in DOMAIN Counts(s) : Before(s, i) < n /\ n <= Before(s, i) + Counts(s)[i]

SetLines(m, b, lines) == [m EXCEPT !.used[Position(m, b)].data.lines = lines]
LockedLines(s) == s.m.used[Position(s.m, s.l.b)].data.lines
FreeSpace(s) ==     \* db_free
    LET hp == s.m.used[Position(s.m, s.l.b)]
    IN  hp.pages * PageLines - SpaceFor(hp.data.lines)

\* ml_lineadd, the stack being block 1 alone
AddTo(g, i, add) ==
    IF g.ok THEN mf_put([g.m EXCEPT !.used[1].data = CorrectEntry(@, i, @.ptrs[i].b, add)],
                        1, TRUE, FALSE)
    ELSE g.m
ml_lineadd(m, i, add, room) == AddTo(mf_get(m, 1, 1, room), i, add)

\* ml_find_line, ML_FLUSH: the locked block is put back and may get its
\* positive number; block 1 learns how many lines came or went.
AddLines(m, l, room) == IF l.add = 0 THEN m ELSE ml_lineadd(m, l.at, l.add, room)
Flush(s, room) ==
    IF s.l.at = 0 THEN s
    ELSE [s EXCEPT !.m = AddLines(mf_put(@, s.l.b, s.l.dirty, s.l.pos), s.l, room),
                   !.l = NotLocked]

\* The data block has been looked for: it is locked, or there is an error
\* and the line that block 1 counts already does not come or go.
Uncounted(m, i, add, room) == IF add = 0 THEN m ELSE ml_lineadd(m, i, -add, room)
Locks(f, block, i, b, add, room) ==
    IF block.ok /\ block.m.used[1].data.id = "data"
    THEN [f EXCEPT !.m = block.m, !.l = Lock(i, b)]
    ELSE [f EXCEPT !.m = Uncounted(IF block.ok THEN mf_put(block.m, b, FALSE, FALSE) ELSE block.m,
                                   i, add, room),
                   !.ok = FALSE]

\* Block 1 has been got: the entry has the number the block has now, and
\* counts the line that is to come or go.
Corrected(m, pe, i, b, add) ==
    mf_put([mf_trans_del(m, pe.b) EXCEPT !.used[1].data = CorrectEntry(@, i, b, add)],
           1, b # pe.b \/ add # 0, FALSE)
Follow(f, root, i, add, room) ==
    LET pe == root.m.used[1].data.ptrs[i]
        b == Translated(root.m, pe.b)
    IN  IF ~root.ok THEN [f EXCEPT !.m = root.m, !.ok = FALSE]
        ELSE Locks(f, mf_get(Corrected(root.m, pe, i, b, add), b, pe.pages, room),
                   i, b, add, room)
FollowFromRoot(f, i, add, room) == Follow(f, mf_get(f.m, 1, 1, room), i, add, room)

\* ml_find_line for the block at place i of block 1; add is 0 for ML_FIND,
\* 1 for ML_INSERT, -1 for ML_DELETE.
ml_find_line(s, i, add, room) ==
    IF s.l.at = i THEN [s EXCEPT !.l.add = @ + add]
    ELSE FollowFromRoot(Flush(s, room), i, add, room)

\* The new line does not fit in the locked block: a new data block is made
\* to the left of it (x = 0: the line goes above its first) or to the right,
\* and gets the lines behind the new one, the new one, or both.
SplitLines(s, x, line) ==
    LET lines == LockedLines(s)
        moved == SubSeq(lines, x + 1, Len(lines))
        inLeft == moved # <<>> /\ FreeSpace(s) + SpaceFor(moved) >= Size(line)
    IN  IF x = 0 THEN [new |-> <<line>>, old |-> lines, moved |-> FALSE, inLeft |-> TRUE]
        ELSE [new |-> IF inLeft THEN moved ELSE <<line>> \o moved,
              old |-> SubSeq(lines, 1, x) \o (IF inLeft THEN <<line>> ELSE <<>>),
              moved |-> moved # <<>>, inLeft |-> inLeft]
PagesFor(lines) == (SpaceFor(lines) + PageLines - 1) \div PageLines

\* The entries of the two blocks replace that of the old one.
SplitRoot(root, l, x, n, sp, nb, oldPages) ==
    LET fresh(at) == Entry(nb, PagesFor(sp.new), Len(sp.new), at)
        rest(at) == Entry(l.b, oldPages, Len(sp.old), at)
    IN  IF x = 0 THEN SplitEntry(root, l.at, fresh(n + 1), rest(OldInSlot(root, l.at + 1)))
        ELSE SplitEntry(root, l.at, rest(root.ptrs[l.at].old),
                        fresh(IF sp.inLeft THEN n + 2 ELSE n + 1))
EnterSplit(f, root, l, x, n, sp, nb, oldPages) ==
    IF ~root.ok THEN [f EXCEPT !.m = root.m, !.ok = FALSE]
    ELSE [f EXCEPT !.m =
            mf_put([root.m EXCEPT !.used[1].data = SplitRoot(@, l, x, n, sp, nb, oldPages)],
                   1, TRUE, FALSE)]
SplitFlushed(f, l, x, n, sp, nb, oldPages, room) ==
    EnterSplit(f, mf_get(f.m, 1, 1, room), l, x, n, sp, nb, oldPages)
SplitMade(s, made, x, n, sp, newfile, room) ==
    SplitFlushed(
        Flush([s EXCEPT !.m = mf_put(SetLines(made, s.l.b, sp.old), made.used[1].b, TRUE, FALSE),
                        !.l.add = 0,
                        !.l.dirty = @ \/ sp.moved \/ sp.inLeft,
                        !.l.pos = @ \/ (~newfile /\ x # 0 /\ sp.inLeft)], room),
        s.l, x, n, sp, made.used[1].b, made.used[Position(made, s.l.b)].pages, room)
SplitAs(s, x, n, sp, newfile, room) ==
    SplitMade(s, mf_new(s.m, newfile, PagesFor(sp.new), DataBlock(sp.new), room),
              x, n, sp, newfile, room)
Split(s, x, line, n, newfile, room) == SplitAs(s, x, n, SplitLines(s, x, line), newfile, room)

PutLine(f, x, line, n, newfile, room) ==
    IF ~f.ok THEN f
    ELSE IF FreeSpace(f) < Size(line) THEN Split(f, x, line, n, newfile, room)
    ELSE [f EXCEPT !.m = SetLines(@, f.l.b, InsertAt(LockedLines(f), x + 1, line)),
                   !.l.dirty = TRUE, !.l.pos = @ \/ ~newfile]

\* When the block with line n is full and n its last line, the new line goes
\* above the first of the next block.  LineCount(f) counts the new line.
AppendIn(f, i, x, line, n, newfile, room) ==
    LET onward == /\ FreeSpace(f) < Size(line) /\ n < LineCount(f) - 1
                  /\ n # 0 /\ x = Len(LockedLines(f))
    IN  IF ~f.ok THEN f
        ELSE PutLine(IF onward THEN ml_find_line([f EXCEPT !.l.add = @ - 1], i + 1, 1, room)
                     ELSE f,
                     IF onward THEN 0 ELSE x, line, n, newfile, room)

\* ml_append_int: a line below line n
ml_append_int(s, n, line, newfile, room) ==
    LET i == IF n = 0 THEN 1 ELSE BlockWith(s, n)
        x == IF n = 0 THEN 0 ELSE n - Before(s, i)
    IN  AppendIn(ml_find_line(s, i, 1, room), i, x, line, n, newfile, room)

\* ml_delete_int: with its last line the block goes too.  (The last line of the
\* buffer, which is replaced by an empty one, is left out: Delete.)
BlockGone(f, i, root) ==
    [f EXCEPT !.l = NotLocked, !.ok = root.ok,
              !.m = IF ~root.ok THEN root.m
                    ELSE mf_put([root.m EXCEPT !.used[1].data = RemoveEntry(@, i)],
                                1, TRUE, FALSE)]
DeleteIn(f, i, x, room) ==
    IF ~f.ok THEN f
    ELSE IF Len(LockedLines(f)) > 1
         THEN [f EXCEPT !.m = SetLines(@, f.l.b, RemoveAt(LockedLines(f), x)),
                        !.l.dirty = TRUE, !.l.pos = TRUE]
    ELSE BlockGone(f, i, mf_get(mf_free(f.m, f.l.b), 1, 1, room))
ml_delete_int(s, n, room) ==
    LET i == BlockWith(s, n)
    IN  DeleteIn(ml_find_line(s, i, -1, room), i, n - Before(s, i), room)

\* ml_replace and the ml_flush_line that follows it.  A line that does not
\* fit is appended and the old one deleted, whether or not that went well.
DropOld(a, n, room) == ml_delete_int([a EXCEPT !.ok = TRUE], n, room)
ReplaceIn(f, x, n, line, room) ==
    IF ~f.ok THEN f
    ELSE IF FreeSpace(f) >= Size(line) - Size(LockedLines(f)[x])
         THEN [f EXCEPT !.m = SetLines(@, f.l.b, [LockedLines(f) EXCEPT ![x] = line]),
                        !.l.dirty = TRUE, !.l.pos = TRUE]
    ELSE DropOld(ml_append_int(f, n, line, FALSE, room), n, room)
ml_flush_line(s, n, line, room) ==
    LET i == BlockWith(s, n)
    IN  ReplaceIn(ml_find_line(s, i, 0, room), n - Before(s, i), n, line, room)

mf_need_trans(m) == m.fd /\ m.neg_count > 0

\* The data blocks are looked at in turn until none has a negative number.
VisitOne(r, i, room) ==
    IF r.ok /\ mf_need_trans(r.m) THEN ml_find_line(r, i, 0, room) ELSE r
VisitAll(s, room) ==
    LET Visit[i \in 0 .. Len(Pointers(s.m))] ==
            IF i = 0 THEN s ELSE VisitOne(Visit[i - 1], i, room)
    IN  Visit[Len(Pointers(s.m))]

\* Wrong: what following the pointers has corrected is not written.
WriteAgainNot(g, first, stop, room) == [g EXCEPT !.ok = first.ok]

\* What following the pointers has corrected is written too.
Rewritten(g, first, second) == [g EXCEPT !.m = second.m, !.ok = first.ok /\ second.ok]
WriteAgain(g, first, stop, room) == Rewritten(g, first, mf_sync(g.m, TRUE, FALSE, stop, room))
PreserveVisited(v, first, stop, room) ==
    IF v.ok THEN WriteAgain(Flush(v, room), first, stop, room) ELSE v
PreserveWritten(f, first, stop, room) ==
    IF mf_need_trans(first.m) /\ ~first.got_int
    THEN PreserveVisited(VisitAll([f EXCEPT !.m = first.m], room), first, stop, room)
    ELSE [f EXCEPT !.m = first.m, !.ok = first.ok]
PreserveFlushed(f, stops, room) ==
    PreserveWritten(f, mf_sync(f.m, TRUE, FALSE, stops[1], room), stops[2], room)

\* ml_preserve; ok says that it succeeded, "stops" after how many writes of
\* its two syncs CTRL-C is typed (at the end, if there are fewer).
ml_preserve(s, stops, room) ==
    IF s.m.fd THEN PreserveFlushed(Flush(s, room), stops, room) ELSE [s EXCEPT !.ok = FALSE]
Uninterrupted(stops) == stops[1] = 0 /\ stops[2] = 0
\* After CTRL-C in the first sync there is no second one.
Interruptions == {stops \in Stops \X Stops : stops[1] = 0 \/ stops[2] = 0}

\* changed() after the first change: a swap file is opened if there is none,
\* and block 0 says that the buffer is changed (ml_setdirty).
SetDirty(m, room) ==
    LET i == Position(m, 0)
    IN  IF i = 0 THEN m
        ELSE mf_sync([m EXCEPT !.used[i].dirty = TRUE], FALSE, TRUE, 0, room).m
FirstChange(m, room) == SetDirty(IF m.may_swap THEN ml_open_file(m, room) ELSE m, room)

-----------------------------------------------------------------------------
(* ml_recover *)

\* The lines the pointer entry stands for, read with no more than the file
\* and, for a negative number, the original file.
RecoveredLines(pe) ==
    LET first == mf.disk[pe.b]
    IN  IF pe.b < 0
        THEN IF original /\ pe.old > 0 /\ pe.old + pe.count - 1 <= FileLines
             THEN [k \in 1 .. pe.count |-> pe.old + k - 1] ELSE <<Missing>>
        ELSE IF ~InFile(mf, pe.b, pe.pages) THEN <<Missing>>
        ELSE IF /\ first.data.id = "data" /\ first.pages = pe.pages
                /\ ReadBlock(mf, pe.b, pe.pages) = first.data
                /\ Len(first.data.lines) = pe.count
             THEN first.data.lines ELSE <<Missing>>

Recovered ==
    IF /\ InFile(mf, 0, 2)
       /\ mf.disk[0].data.id = "zero" /\ mf.disk[1].data.id = "ptr"
    THEN LET ptrs == mf.disk[1].data.ptrs
         IN  FlattenSeq([i \in 1 .. Len(ptrs) |-> RecoveredLines(ptrs[i])])
    ELSE <<Missing>>

-----------------------------------------------------------------------------
(* The editor *)

Now == [m |-> mf, l |-> locked, ok |-> TRUE]
Becomes(s) == \E t \in {s} : mf' = t.m /\ locked' = t.l /\ text' = Text(t.m)

\* ml_open: blocks 0, 1 and 2, the last with an empty line; mf_new leaves
\* block 2 locked.
Init ==
    LET hp(b, data) == [b |-> b, pages |-> 1, locked |-> b = 2, dirty |-> TRUE, data |-> data]
    IN  /\ mf = [used |-> <<hp(2, DataBlock(<<EmptyLine>>)),
                            hp(1, RootBlock), hp(0, ZeroBlock)>>,
                 free |-> <<>>, blocknr_max |-> 3, blocknr_min |-> -1, infile_count |-> 0,
                 neg_count |-> 0, trans |-> <<>>, dirty |-> TRUE, fd |-> FALSE,
                 disk |-> <<>>, may_swap |-> TRUE]
        /\ locked = NotLocked
        /\ next = 1
        /\ changes = 0
        /\ original = TRUE
        /\ kept = "no"
        /\ text = <<EmptyLine>>

\* readfile: a swap file is opened unless the file is read-only, then the
\* lines are appended in front of the empty one, which is deleted at the end.
ReadFirst ==
    /\ next = 1
    /\ \E room \in Rooms, readonly \in BOOLEAN :
        LET m == IF readonly THEN mf ELSE ml_open_file(mf, room)
        IN  Becomes(ml_append_int([Now EXCEPT !.m = m], 0, 1, TRUE, room))
    /\ next' = 2
    /\ UNCHANGED <<changes, original, kept>>

ReadLine ==
    /\ next \in 2 .. FileLines
    /\ \E room \in Rooms : Becomes(ml_append_int(Now, next - 1, next, TRUE, room))
    /\ next' = next + 1
    /\ UNCHANGED <<changes, original, kept>>

ReadEnd ==
    /\ next = FileLines + 1
    /\ \E room \in Rooms : Becomes(ml_delete_int(Now, next, room))
    /\ next' = 0
    /\ UNCHANGED <<changes, original, kept>>

\* A change to the text; the first has more to do.
Changed(s, room) ==
    /\ Becomes(IF changes = 0 THEN [s EXCEPT !.m = FirstChange(s.m, room)] ELSE s)
    /\ changes' = changes + 1
    /\ kept' = "no"
    /\ UNCHANGED <<next, original>>

MayChange == next = 0 /\ changes < MaxChanges
NewLine == FileLines + changes + 1

Insert ==
    /\ MayChange /\ Len(Pointers(mf)) < MaxPtr
    /\ \E n \in 0 .. LineCount(Now), room \in Rooms :
        Changed(ml_append_int(Now, n, NewLine, FALSE, room), room)

Replace ==
    /\ MayChange /\ Len(Pointers(mf)) < MaxPtr
    /\ \E n \in 1 .. LineCount(Now), room \in Rooms :
        Changed(ml_flush_line(Now, n, NewLine, room), room)

Delete ==
    /\ MayChange /\ LineCount(Now) > 1
    /\ \E n \in 1 .. LineCount(Now), room \in Rooms :
        Changed(ml_delete_int(Now, n, room), room)

\* ml_get, of a line in any block
Get ==
    /\ next = 0
    /\ \E i \in 1 .. Len(Pointers(mf)), room \in Rooms : Becomes(ml_find_line(Now, i, 0, room))
    /\ UNCHANGED <<next, changes, original, kept>>

\* mf_release_all
OutOfMemory ==
    /\ next = 0
    /\ \E room \in Rooms : Becomes([Now EXCEPT !.m = mf_release_all(mf, room)])
    /\ UNCHANGED <<next, changes, original, kept>>

\* What the user may count on: a whole text in the swap file, or all that a
\* sync without ml_preserve is to write.
Keeps(whole) == IF whole \/ kept = "whole" THEN "whole" ELSE "synced"

\* :preserve, and before the original file is overwritten.  When it is broken
\* off with CTRL-C it still says that it succeeded.
Preserve ==
    /\ next = 0 /\ mf.fd
    /\ \E room \in Rooms, stops \in Interruptions :
        \E s \in {ml_preserve(Now, stops, room)} :
            Becomes(s) /\ kept' = IF s.ok /\ Uninterrupted(stops) THEN "whole" ELSE kept
    /\ UNCHANGED <<next, changes, original>>

\* ml_sync_all, for the one buffer; it stops when a character is typed, or
\* when vim is killed (without MFS_STOP) at CTRL-C.  Blocks with negative
\* numbers are preserved if the original file was changed; after CTRL-C in that
\* the sync ends with its first write, because got_int is still set.
Overtaken(f) == changes > 0 /\ ~original /\ mf_need_trans(f.m)
SyncDirty(p, preserved, stop, room) ==
    IF ~p.m.dirty THEN Becomes(p) /\ kept' = Keeps(preserved)
    ELSE \E s \in {mf_sync(p.m, FALSE, FALSE, stop, room)} :
            /\ Becomes([p EXCEPT !.m = s.m])
            /\ kept' = IF (s.ok /\ s.end) \/ preserved THEN Keeps(p.m.neg_count = 0) ELSE kept
SyncAll ==
    /\ next = 0 /\ mf.fd
    /\ \E room \in Rooms : \E f \in {Flush(Now, room)} :
        IF ~Overtaken(f) THEN \E stop \in Stops : SyncDirty(f, FALSE, stop, room)
        ELSE \E stops \in Interruptions : \E p \in {ml_preserve(f, stops, room)} :
             \E stop \in IF Uninterrupted(stops) THEN Stops ELSE {1} :
                SyncDirty(p, p.ok /\ Uninterrupted(stops), stop, room)
    /\ UNCHANGED <<next, changes, original>>

\* Another program writes the original file.
Overwritten ==
    /\ next = 0 /\ original
    /\ original' = FALSE
    /\ kept' = IF kept = "whole" THEN kept ELSE "no"
    /\ UNCHANGED <<mf, locked, next, changes, text>>

Next ==
    \/ ReadFirst \/ ReadLine \/ ReadEnd
    \/ Insert \/ Replace \/ Delete
    \/ Get \/ OutOfMemory \/ Preserve \/ SyncAll
    \/ Overwritten

Spec == Init /\ [][Next]_vars

-----------------------------------------------------------------------------
(* Properties *)

Entries == [b : Int, pages : Nat \ {0}, count : Int, old : Nat]
Blocks == [id : {"none", "zero", "ptr", "data"}, lines : Seq(LineNumbers),
           ptrs : Seq(Entries), behind : Seq(Nat)]
Headers == [b : Int, pages : Nat \ {0}, locked : BOOLEAN, dirty : BOOLEAN, data : Blocks]
FreeRanges == [b : Nat, pages : Nat \ {0}]
FilePages == [data : Blocks, k : Nat, pages : Nat]
MemTypes(m) ==
    /\ m \in [used : Seq(Headers), free : Seq(FreeRanges), blocknr_max : Nat, blocknr_min : Int,
              infile_count : Nat, neg_count : Int, trans : {m.trans}, dirty : BOOLEAN,
              fd : BOOLEAN, disk : {m.disk}, may_swap : BOOLEAN]
    /\ m.trans \in [DOMAIN m.trans -> Nat] /\ DOMAIN m.trans \subseteq Int
    /\ m.disk \in [0 .. (m.infile_count - 1) -> FilePages]

\* The data is of the types the operators above take it to be, and the numbers of the
\* blocks in memory are numbers given out.
TypeOK ==
    /\ MemTypes(mf)
    /\ \A i \in 1 .. Len(mf.used) :
            mf.used[i].b \in (mf.blocknr_min + 1) .. (mf.blocknr_max - 1)
    /\ mf.infile_count <= mf.blocknr_max
    /\ locked \in [at : 0 .. Len(Pointers(mf)), b : Int, dirty : BOOLEAN, pos : BOOLEAN, add : Int]
    /\ next \in 0 .. (FileLines + 1) /\ changes \in 0 .. MaxChanges
    /\ original \in BOOLEAN /\ kept \in {"no", "synced", "whole"}

\* The pages of a block in the file; a negative number stands for itself.
Pages(b, pages) == IF b < 0 THEN {b} ELSE b .. (b + pages - 1)
EntryB(pe) == Translated(mf, pe.b)

\* No page of the file has two owners: the blocks the tree points at, the
\* blocks in memory and the blocks of the free list, which mf_new and
\* mf_trans_add draw on, never overlap.
Owners(ptrs) ==
    {Pages(0, 1), Pages(1, 1)}
    \cup {Pages(EntryB(ptrs[i]), ptrs[i].pages) : i \in 1 .. Len(ptrs)}
    \cup {Pages(mf.free[i].b, mf.free[i].pages) : i \in 1 .. Len(mf.free)}
NumbersDisjoint ==
    LET ptrs == Pointers(mf)
        owners == Owners(ptrs)
    IN  /\ \A P, Q \in owners : P # Q => P \cap Q = {}
        /\ Cardinality(owners) = 2 + Len(ptrs) + Len(mf.free)
        /\ \A i \in 1 .. Len(mf.used) : Pages(mf.used[i].b, mf.used[i].pages) \in owners

\* The count of negative numbers, which tells ml_preserve when it is done,
\* is that of the entries of block 1 that have one.
NegativesCounted ==
    mf.neg_count = Cardinality({i \in 1 .. Len(Pointers(mf)) : Pointers(mf)[i].b < 0})

\* Numbers are given out, exchanged and given back without a mistake.
BlockNumbers == NumbersDisjoint /\ NegativesCounted

\* A block in memory that is not dirty is in the file as it is: mf_release
\* gives it up without a write.  The block memline.c has changed becomes dirty
\* when it is put back.
CleanIsInFile ==
    \A i \in 1 .. Len(mf.used) :
        LET hp == mf.used[i]
        IN  hp.dirty \/ (locked.at # 0 /\ locked.b = hp.b /\ locked.dirty)
            \/ (hp.b >= 0 /\ InFile(mf, hp.b, hp.pages) /\ ReadBlock(mf, hp.b, hp.pages) = hp.data)

\* After a :preserve that succeeded and was not broken off with CTRL-C, and
\* after a sync that came to its end when no block had a negative number any
\* more, a crash loses nothing and the original file is not needed, until the
\* text is changed again, whatever other :preserve is broken off then.
Recoverable == kept = "whole" => Recovered = text

\* "the swap file is updated ... when you have not typed anything for four
\* seconds": after a sync that came to its end a crash loses nothing.
SyncedRecovers == kept # "no" => Recovered = text

\* The buffer is a text: finding, writing, evicting and reading blocks do
\* not change it, and a change to a line changes that line only.
Buffer == INSTANCE VimText WITH Lines <- LineNumbers
ImplementsText == Buffer!Spec
-----------------------------------------------------------------------------
(* The inductive invariant.  It speaks of the blocks by the names the tree *)
(* has for them: an entry of block 1 keeps the negative number of a block  *)
(* until it is followed.  h maps a name to the pages and the data of the   *)
(* block, wherever they are.                                               *)

Names(m) == {0, 1} \cup {Pointers(m)[i].b : i \in DOMAIN Pointers(m)}
PagesOf(m, x) ==
    IF x \in {0, 1} THEN 1
    ELSE Pointers(m)[CHOOSE i \in DOMAIN Pointers(m) : Pointers(m)[i].b = x].pages
Heap(m) == [x \in Names(m) |-> [pages |-> PagesOf(m, x),
                                data |-> Look(m, Translated(m, x), PagesOf(m, x))]]
Heaps(S) == [S -> [pages : Nat \ {0}, data : Blocks]]

InMemory(m, b) == \E i \in DOMAIN m.used : m.used[i].b = b
OnDisk(m, b, pages, data) ==
    /\ m.fd /\ b >= 0 /\ b + pages <= m.infile_count
    /\ \A p \in b .. (b + pages - 1) : m.disk[p] = Page(data, p - b, pages)
Separate(a, pages, b, more) ==
    IF a < 0 \/ b < 0 THEN a # b ELSE a + pages <= b \/ b + more <= a

\* What is in memory is a block of the tree, once, and will be written if the
\* file does not have it; X are the blocks that are about to become dirty.
UsedInv(m, h, X) ==
    /\ \A i \in DOMAIN m.used : \E x \in DOMAIN h :
            /\ m.used[i].b = Translated(m, x)
            /\ m.used[i].pages = h[x].pages /\ m.used[i].data = h[x].data
    /\ \A i, k \in DOMAIN m.used : m.used[i].b = m.used[k].b => i = k
    /\ \A i \in DOMAIN m.used :
            /\ m.used[i].b < 0 => m.used[i].dirty
            /\ m.used[i].dirty \/ m.used[i].b \in X
                 \/ OnDisk(m, m.used[i].b, m.used[i].pages, m.used[i].data)

\* What is not in memory is in the file.
SavedInv(m, h) ==
    \A x \in DOMAIN h : \/ InMemory(m, Translated(m, x))
                        \/ OnDisk(m, Translated(m, x), h[x].pages, h[x].data)

\* The free ranges do not overlap; pages that are given out and clear of them.
FreeInv(m) ==
    \A i \in DOMAIN m.free :
        /\ m.free[i].b + m.free[i].pages <= m.blocknr_max
        /\ \A k \in DOMAIN m.free :
                i # k => Separate(m.free[i].b, m.free[i].pages, m.free[k].b, m.free[k].pages)
Clear(m, b, pages) ==
    /\ b < 0 \/ b + pages <= m.blocknr_max
    /\ \A i \in DOMAIN m.free : Separate(b, pages, m.free[i].b, m.free[i].pages)

\* Numbers given out do not overlap, with each other and with the free ones.
NumbersInv(m, h) ==
    /\ DOMAIN m.trans \subseteq {x \in DOMAIN h : x < 0} /\ m.blocknr_min < 0
    /\ \A x \in DOMAIN h : x > m.blocknr_min /\ Clear(m, Translated(m, x), h[x].pages)
    /\ \A x, y \in DOMAIN h :
            x # y => Separate(Translated(m, x), h[x].pages, Translated(m, y), h[y].pages)
    /\ FreeInv(m)
    /\ m.neg_count = Cardinality({x \in DOMAIN h : x < 0})

MemInv(m, h, X) ==
    /\ MemTypes(m)
    /\ h \in Heaps(DOMAIN h) /\ DOMAIN h \subseteq Int /\ IsFiniteSet(DOMAIN h)
    /\ UsedInv(m, h, X) /\ SavedInv(m, h) /\ NumbersInv(m, h)
    /\ m.infile_count <= m.blocknr_max /\ (~m.fd => m.infile_count = 0)

\* The blocks are block 0, block 1 and the data blocks block 1 points at.
Tree(h) ==
    LET ptrs == h[1].data.ptrs
    IN  /\ {0, 1} \subseteq DOMAIN h /\ h[0].pages = 1 /\ h[1].pages = 1
        /\ h[0].data.id = "zero" /\ h[1].data.id = "ptr" /\ ptrs # <<>>
        /\ DOMAIN h = {0, 1} \cup {ptrs[i].b : i \in DOMAIN ptrs}
        /\ \A i \in DOMAIN ptrs :
                /\ ptrs[i].b \notin {0, 1} /\ ptrs[i].pages = h[ptrs[i].b].pages
                /\ h[ptrs[i].b].data.id = "data" /\ h[ptrs[i].b].data.lines # <<>>
        /\ \A i, k \in DOMAIN ptrs : ptrs[i].b = ptrs[k].b => i = k

\* Block 1 and the locked block count the lines of each block; of block i
\* there is, or has been, a line less (d = 1) or more (d = -1) for the moment.
Counted(h, l, i, d) ==
    LET ptrs == h[1].data.ptrs
    IN  \A k \in DOMAIN ptrs :
            ptrs[k].count + (IF l.at = k THEN l.add ELSE 0)
                = Len(h[ptrs[k].b].data.lines) + (IF k = i THEN d ELSE 0)

\* A locked block stays where it is, under its name.
LockedInv(m, h, l) ==
    \/ l = NotLocked
    \/ /\ l.at \in DOMAIN h[1].data.ptrs
       /\ l \in [at : Nat \ {0}, b : Int, dirty : BOOLEAN, pos : BOOLEAN, add : Int]
       /\ l.b = h[1].data.ptrs[l.at].b /\ l.b \notin DOMAIN m.trans
       /\ \E k \in DOMAIN m.used : m.used[k].b = l.b /\ m.used[k].locked

Pending(l) == IF l.at # 0 /\ l.dirty THEN {l.b} ELSE {}
BufferInv(s, h, i, d) ==
    MemInv(s.m, h, Pending(s.l)) /\ Tree(h) /\ Counted(h, s.l, i, d) /\ LockedInv(s.m, h, s.l)

\* While the file is read there is the empty line after the lines read.
ReadInv ==
    /\ next \in 0 .. (FileLines + 1) /\ changes \in 0 .. MaxChanges
    /\ original \in BOOLEAN /\ kept \in {"no", "synced", "whole"}
    /\ next # 0 => LineCount(Now) = next /\ changes = 0
    /\ text = Text(mf)

SwapInv == BufferInv(Now, Heap(mf), 0, 0) /\ ReadInv

\* While the swap file is to hold the whole text every block has its positive number
\* and no block in memory is to be written, nor are there lines block 1 has yet to
\* count: what has been written is what there is.
Clean(m) == m.fd /\ m.neg_count = 0 /\ \A i \in DOMAIN m.used : ~m.used[i].dirty
WholeInv ==
    /\ next # 0 => kept = "no"
    /\ kept = "whole" => Clean(mf) /\ ~locked.dirty /\ locked.add = 0

\* What makes the text right in memory and, once preserved, in the swap file.
RecoveryInv == SwapInv /\ WholeInv
=============================================================================
