--------------------------- MODULE ZshJobs_proofs ---------------------------
(***************************************************************************)
(* Proofs about ZshJobs: types, the job table and its children, the waits  *)
(* and $?.  JobsInv is inductive; the properties follow from it.           *)
(***************************************************************************)
EXTENDS ZshJobs, FiniteSetTheorems, SequenceTheorems, TLAPS

-----------------------------------------------------------------------------
(* Numbers, and functions defined from one number to the next.             *)

\* Every set of natural numbers has a least one.
LEMMA Least ==
  ASSUME NEW S, S \subseteq Nat, S # {}
  PROVE  \E x \in S : \A y \in S : x <= y
<1> DEFINE Less == {ss \in Nat \X Nat : ss[1] < ss[2]}
<1>0. IsWellFoundedOn(Less, Nat)
  BY NatLessThanWellFounded DEF OpToRel
<1>1. PICK x \in S : \A y \in S : <<y, x>> \notin Less
  <2> HIDE DEF Less
  <2> QED BY <1>0, WFMin
<1>2. \A y \in S : ~(y < x)
  BY <1>1
<1>3. QED
  BY <1>2

\* Lowest and Highest choose from a set of jobs.
LEMMA LowestIn ==
  ASSUME NEW S, S \subseteq Jobs, S # {}
  PROVE  Lowest(S) \in S
<1>1. S \subseteq Nat
  BY JobsAssumption DEF Jobs
<1>2. QED
  BY <1>1, Least DEF Lowest

LEMMA HighestIn ==
  ASSUME NEW S, S \subseteq Jobs, S # {}
  PROVE  Highest(S) \in S
<1> DEFINE Above == {b \in Nat : \A i \in S : i <= b}
<1>1. S \subseteq Nat /\ MAXJOB \in Above
  BY JobsAssumption DEF Jobs
<1>2. PICK b \in Above : \A c \in Above : b <= c
  BY <1>1, Least
<1>3. b \in S
  <2> SUFFICES ASSUME b \notin S PROVE FALSE
    OBVIOUS
  <2>1. \A i \in S : i <= b - 1
    BY <1>1, <1>2
  <2>2. b # 0
    <3>1. PICK i \in S : TRUE
      OBVIOUS
    <3>2. i \in Nat /\ i <= b - 1
      BY <1>1, <2>1
    <3>3. QED
      BY <1>2, <3>2
  <2>3. b - 1 \in Above
    BY <1>2, <2>1, <2>2
  <2>4. QED
    BY <1>2, <2>3
<1>4. \E i \in S : \A k \in S : k <= i
  BY <1>2, <1>3
<1>5. QED
  BY <1>4 DEF Highest

\* What holds at 0 and goes on from each number to the next holds throughout.
LEMMA IteratedIn ==
  ASSUME NEW n \in Nat, NEW S, NEW f, f[0] \in S,
         \A i \in 1 .. n : f[i - 1] \in S => f[i] \in S
  PROVE  \A i \in 0 .. n : f[i] \in S
<1> DEFINE Out == {i \in 0 .. n : f[i] \notin S}
<1>1. SUFFICES ASSUME Out # {} PROVE FALSE
  OBVIOUS
<1>2. PICK x \in Out : \A y \in Out : x <= y
  <2>1. Out \subseteq Nat
    OBVIOUS
  <2> HIDE DEF Out
  <2>2. QED
    BY <1>1, <2>1, Least
<1>3. x \in 1 .. n /\ x - 1 \in 0 .. n /\ x - 1 \notin Out
  BY <1>2
<1>4. QED
  BY <1>2, <1>3

\* Such a function exists.
Iteration(n, S, t, g) ==
  \E f \in [0 .. n -> S] : f[0] = t /\ \A i \in 1 .. n : f[i] = g[<<f[i - 1], i>>]
LEMMA IterationExists ==
  ASSUME NEW n \in Nat, NEW S, NEW t \in S, NEW g \in [S \X (1 .. n) -> S]
  PROVE  Iteration(n, S, t, g)
<1> DEFINE Values0(m, f) == f[0] = t /\ \A i \in 1 .. m : f[i] = g[<<f[i - 1], i>>]
           Good(m) == \E f \in [0 .. m -> S] : Values0(m, f)
           Bad == {m \in 0 .. n : ~Good(m)}
<1>1. Good(0)
  <2>1. Values0(0, [i \in 0 .. 0 |-> t]) /\ [i \in 0 .. 0 |-> t] \in [0 .. 0 -> S]
    OBVIOUS
  <2>2. QED
    BY <2>1
<1>2. ASSUME NEW m \in 1 .. n, Good(m - 1)
      PROVE  Good(m)
  <2>1. PICK f \in [0 .. m - 1 -> S] : Values0(m - 1, f)
    BY <1>2
  <2>2. m - 1 \in 0 .. m - 1 /\ f[m - 1] \in S /\ g[<<f[m - 1], m>>] \in S
    BY <2>1
  <2> DEFINE h == [i \in 0 .. m |-> IF i < m THEN f[i] ELSE g[<<f[m - 1], m>>]]
  <2>3. h \in [0 .. m -> S]
    BY <2>1, <2>2
  <2>4. h[0] = t
    BY <2>1
  <2>5. ASSUME NEW i \in 1 .. m
        PROVE  h[i] = g[<<h[i - 1], i>>]
    <3>1. i - 1 \in 0 .. m - 1 /\ h[i - 1] = f[i - 1]
      BY <2>5
    <3>2. CASE i = m
      <4>1. h[m] = g[<<f[m - 1], m>>]
        OBVIOUS
      <4> HIDE DEF h
      <4>2. QED
        BY <3>1, <3>2, <4>1
    <3>3. CASE i # m
      <4>1. i \in 1 .. m - 1 /\ h[i] = f[i]
        BY <2>5, <3>3
      <4>2. QED
        BY <2>1, <3>1, <4>1
    <3>4. QED
      BY <3>2, <3>3
  <2> HIDE DEF h
  <2>6. QED
    BY <2>3, <2>4, <2>5
<1> HIDE DEF Good
<1>3. Bad = {}
  <2> SUFFICES ASSUME Bad # {} PROVE FALSE
    OBVIOUS
  <2>1. PICK x \in Bad : \A y \in Bad : x <= y
    <3>1. Bad \subseteq Nat
      OBVIOUS
    <3> HIDE DEF Bad
    <3>2. QED
      BY <3>1, Least
  <2>2. x # 0
    BY <1>1
  <2>3. x \in 1 .. n /\ x - 1 \in 0 .. n /\ x - 1 \notin Bad
    BY <2>1, <2>2
  <2>4. QED
    BY <1>2, <2>1, <2>3
<1>4. Good(n)
  BY <1>3
<1>5. QED
  BY <1>4 DEF Good, Iteration

-----------------------------------------------------------------------------
(* Tables.  Each function of jobs.c returns a table; what it has changed.  *)

LEMMA TableParts ==
  ASSUME NEW t \in Tables
  PROVE  /\ t.jobtab \in [Jobs -> Entries]
         /\ t.lastval \in Values /\ t.lastval2 \in Values
         /\ t.thisjob \in Jobs \cup {None} /\ t.curjob \in Jobs \cup {None}
         /\ t.prevjob \in Jobs \cup {None}
         /\ \A j \in Jobs : /\ t.jobtab[j] \in Entries /\ Stat(t, j) = t.jobtab[j].stat
                            /\ Stat(t, j) \subseteq Flags /\ t.jobtab[j].procs \in Seq(Processes)
BY DEF Tables, Entries, Stat

\* Two tables with the same names of jobs and statuses.
SameNames(t, u) == /\ u.thisjob = t.thisjob /\ u.curjob = t.curjob /\ u.prevjob = t.prevjob
                   /\ u.lastval = t.lastval /\ u.lastval2 = t.lastval2

\* A table with another entry for job j.
LEMMA EntryReplaced ==
  ASSUME NEW t \in Tables, NEW j \in Jobs, NEW e \in Entries
  PROVE  LET u == [t EXCEPT !.jobtab[j] = e]
         IN  /\ u \in Tables /\ u.jobtab = [t.jobtab EXCEPT ![j] = e] /\ SameNames(t, u)
             /\ u.jobtab[j] = e /\ \A k \in Jobs \ {j} : u.jobtab[k] = t.jobtab[k]
BY DEF Tables, SameNames

LEMMA FreeEntryType == FreeEntry \in Entries /\ FreeEntry.stat = {} /\ FreeEntry.procs = <<>>
BY DEF FreeEntry, Entries

LEMMA Deleted ==
  ASSUME NEW t \in Tables, NEW j \in Jobs
  PROVE  LET u == deletejob(t, j)
         IN  /\ u \in Tables /\ SameNames(t, u)
             /\ u.jobtab[j] = FreeEntry /\ \A k \in Jobs \ {j} : u.jobtab[k] = t.jobtab[k]
<1>1. deletejob(t, j) = [t EXCEPT !.jobtab[j] = FreeEntry]
  BY DEF deletejob
<1>2. QED
  BY <1>1, EntryReplaced, FreeEntryType

LEMMA FlagsSet ==
  ASSUME NEW t \in Tables, NEW j \in Jobs, NEW flags \in SUBSET Flags
  PROVE  LET u == SetFlags(t, j, flags)
         IN  /\ u \in Tables /\ SameNames(t, u)
             /\ u.jobtab[j] = [t.jobtab[j] EXCEPT !.stat = @ \cup flags]
             /\ \A k \in Jobs \ {j} : u.jobtab[k] = t.jobtab[k]
<1> DEFINE e == [t.jobtab[j] EXCEPT !.stat = @ \cup flags]
<1>1. e \in Entries
  BY TableParts DEF Entries
<1>2. SetFlags(t, j, flags) = [t EXCEPT !.jobtab[j] = e]
  BY TableParts DEF SetFlags, Tables, Entries
<1> HIDE DEF e
<1>3. LET u == SetFlags(t, j, flags)
      IN  /\ u \in Tables /\ SameNames(t, u) /\ u.jobtab[j] = e
          /\ \A k \in Jobs \ {j} : u.jobtab[k] = t.jobtab[k]
  BY <1>1, <1>2, EntryReplaced
<1>4. QED
  BY <1>3 DEF e

LEMMA FlagsCleared ==
  ASSUME NEW t \in Tables, NEW j \in Jobs, NEW flags
  PROVE  LET u == ClearFlags(t, j, flags)
         IN  /\ u \in Tables /\ SameNames(t, u)
             /\ u.jobtab[j] = [t.jobtab[j] EXCEPT !.stat = @ \ flags]
             /\ \A k \in Jobs \ {j} : u.jobtab[k] = t.jobtab[k]
<1> DEFINE e == [t.jobtab[j] EXCEPT !.stat = @ \ flags]
<1>1. e \in Entries
  BY TableParts DEF Entries
<1>2. ClearFlags(t, j, flags) = [t EXCEPT !.jobtab[j] = e]
  BY TableParts DEF ClearFlags, Tables, Entries
<1> HIDE DEF e
<1>3. LET u == ClearFlags(t, j, flags)
      IN  /\ u \in Tables /\ SameNames(t, u) /\ u.jobtab[j] = e
          /\ \A k \in Jobs \ {j} : u.jobtab[k] = t.jobtab[k]
  BY <1>1, <1>2, EntryReplaced
<1>4. QED
  BY <1>3 DEF e

\* Only the names of jobs have changed.
Renamed(t, u) == /\ u \in Tables /\ u.jobtab = t.jobtab /\ u.thisjob = t.thisjob
                 /\ u.lastval = t.lastval /\ u.lastval2 = t.lastval2

LEMMA NewNames ==
  ASSUME NEW t \in Tables, NEW c \in Jobs \cup {None}, NEW p \in Jobs \cup {None}
  PROVE  /\ Renamed(t, [t EXCEPT !.curjob = c]) /\ [t EXCEPT !.curjob = c].curjob = c
         /\ Renamed(t, [t EXCEPT !.prevjob = c]) /\ [t EXCEPT !.prevjob = c].prevjob = c
         /\ [t EXCEPT !.prevjob = c].curjob = t.curjob
         /\ Renamed(t, [t EXCEPT !.curjob = c, !.prevjob = p])
         /\ Renamed(t, [t EXCEPT !.prevjob = p, !.curjob = c])
BY DEF Renamed, Tables

\* setprevjob finds a job in use that is neither the current one nor the one at work.
LEMMA PrevjobSet ==
  ASSUME NEW t \in Tables
  PROVE  LET u == setprevjob(t)
         IN  /\ Renamed(t, u) /\ u.curjob = t.curjob
             /\ u.prevjob # None =>
                  u.prevjob \in Jobs \ {t.thisjob} /\ "INUSE" \in Stat(t, u.prevjob)
<1> DEFINE others == {i \in Jobs \ {t.curjob, t.thisjob} : "INUSE" \in Stat(t, i)}
           stopped == {i \in others : "STOPPED" \in Stat(t, i)}
           new == IF stopped # {} THEN Highest(stopped)
                  ELSE IF others # {} THEN Highest(others) ELSE None
<1>1. others \subseteq Jobs /\ stopped \subseteq Jobs /\ stopped \subseteq others
  OBVIOUS
<1>2. new = None \/ new \in others
  <2>1. CASE stopped # {}
    <3> HIDE DEF stopped, others
    <3>1. QED
      BY <1>1, <2>1, HighestIn
  <2>2. CASE stopped = {} /\ others # {}
    <3> HIDE DEF stopped, others
    <3>1. QED
      BY <1>1, <2>2, HighestIn
  <2>3. CASE stopped = {} /\ others = {}
    BY <2>3
  <2>4. QED
    BY <2>1, <2>2, <2>3
<1>3. setprevjob(t) = [t EXCEPT !.prevjob = new]
  BY DEF setprevjob
<1>4. new \in Jobs \cup {None} /\ (new # None => new \in others)
  BY <1>1, <1>2
<1> HIDE DEF new
<1>5. Renamed(t, [t EXCEPT !.prevjob = new]) /\ [t EXCEPT !.prevjob = new].prevjob = new
      /\ [t EXCEPT !.prevjob = new].curjob = t.curjob
  BY <1>4, NewNames
<1>6. QED
  BY <1>3, <1>4, <1>5

LEMMA RenamedOn ==
  ASSUME NEW t, NEW u, NEW w, Renamed(t, u), Renamed(u, w)
  PROVE  Renamed(t, w)
BY DEF Renamed

\* The flags of every job are those of its processes.
Sound(t) == t \in Tables /\ \A j \in Jobs : FlagsInv(t.jobtab[j])

\* Finished jobs and marks of a change have been taken out of the table, nothing else.
Trimmed(t, u) ==
  /\ Sound(u) /\ u.thisjob = t.thisjob /\ u.lastval = t.lastval /\ u.lastval2 = t.lastval2
  /\ \A j \in Jobs :
       \/ /\ u.jobtab[j] = FreeEntry
          /\ \A i \in DOMAIN t.jobtab[j].procs : t.jobtab[j].procs[i].status \in Exits
       \/ /\ u.jobtab[j].procs = t.jobtab[j].procs
          /\ u.jobtab[j].stat \ {"CHANGED"} = t.jobtab[j].stat \ {"CHANGED"}

LEMMA EntryEqual ==
  ASSUME NEW e \in Entries, NEW f \in Entries, e.stat = f.stat, e.procs = f.procs
  PROVE  e = f
BY DEF Entries

LEMMA TrimmedSame ==
  ASSUME NEW t, Sound(t)
  PROVE  Trimmed(t, t)
BY DEF Trimmed

LEMMA TrimmedFree ==
  ASSUME NEW e \in Entries, FlagsInv(e), e.stat \ {"CHANGED"} = {}
  PROVE  e = FreeEntry
<1>1. e.stat = {} /\ e.procs = <<>>
  BY DEF FlagsInv
<1>2. QED
  BY <1>1, EntryEqual, FreeEntryType

LEMMA TrimmedOn ==
  ASSUME NEW t, NEW u, NEW w, Sound(t), Trimmed(t, u), Trimmed(u, w)
  PROVE  Trimmed(t, w)
<1>1. ASSUME NEW j \in Jobs
      PROVE  \/ /\ w.jobtab[j] = FreeEntry
                /\ \A i \in DOMAIN t.jobtab[j].procs : t.jobtab[j].procs[i].status \in Exits
             \/ /\ w.jobtab[j].procs = t.jobtab[j].procs
                /\ w.jobtab[j].stat \ {"CHANGED"} = t.jobtab[j].stat \ {"CHANGED"}
  <2>1. w.jobtab[j] \in Entries /\ FlagsInv(w.jobtab[j])
    BY TableParts DEF Trimmed, Sound
  <2>2. CASE u.jobtab[j] = FreeEntry
    <3>1. w.jobtab[j] = FreeEntry
      BY <2>1, <2>2, TrimmedFree, FreeEntryType DEF Trimmed
    <3>2. QED
      BY <2>2, <3>1 DEF Trimmed
  <2>3. CASE u.jobtab[j] # FreeEntry
    BY <2>3 DEF Trimmed
  <2>4. QED
    BY <2>2, <2>3
<1>2. QED
  BY <1>1 DEF Trimmed

\* Other names of jobs do not matter.
LEMMA TrimmedRenamed ==
  ASSUME NEW t, NEW u, NEW w, Trimmed(t, u), Renamed(u, w)
  PROVE  Trimmed(t, w)
BY DEF Trimmed, Renamed, Sound

\* A finished job is gone when it is reported, another keeps all but the mark.
LEMMA Printed1 ==
  ASSUME NEW t \in Tables, NEW j \in Jobs
  PROVE  LET u == printjob(t, j)
         IN  /\ u \in Tables /\ u.thisjob = t.thisjob
             /\ u.lastval = t.lastval /\ u.lastval2 = t.lastval2
             /\ u.jobtab[j] = IF "DONE" \in Stat(t, j) THEN FreeEntry
                              ELSE [t.jobtab[j] EXCEPT !.stat = @ \ {"CHANGED"}]
             /\ \A k \in Jobs \ {j} : u.jobtab[k] = t.jobtab[k]
<1>1. CASE "DONE" \notin Stat(t, j)
  <2>1. printjob(t, j) = ClearFlags(t, j, {"CHANGED"})
    BY <1>1 DEF printjob
  <2>2. QED
    BY <1>1, <2>1, FlagsCleared DEF SameNames
<1>2. CASE "DONE" \in Stat(t, j)
  <2> DEFINE d == deletejob(t, j)
             c == IF j = d.curjob THEN [d EXCEPT !.curjob = d.prevjob, !.prevjob = j] ELSE d
  <2>1. /\ d \in Tables /\ SameNames(t, d)
        /\ d.jobtab[j] = FreeEntry /\ \A k \in Jobs \ {j} : d.jobtab[k] = t.jobtab[k]
    BY Deleted
  <2>2. printjob(t, j) = IF j = c.prevjob THEN setprevjob(c) ELSE c
    BY <1>2 DEF printjob
  <2> HIDE DEF d
  <2>3. Renamed(d, c)
    <3>1. CASE j = d.curjob
      BY <2>1, <3>1, NewNames, TableParts
    <3>2. CASE j # d.curjob
      BY <2>1, <3>2 DEF Renamed
    <3>3. QED
      BY <3>1, <3>2
  <2> HIDE DEF c
  <2>4. c \in Tables
    BY <2>3 DEF Renamed
  <2>5. Renamed(d, printjob(t, j))
    <3>1. CASE j = c.prevjob
      <4>1. Renamed(c, setprevjob(c))
        BY <2>4, PrevjobSet
      <4>2. QED
        BY <2>2, <2>3, <3>1, <4>1, RenamedOn
    <3>2. CASE j # c.prevjob
      BY <2>2, <2>3, <3>2
    <3>3. QED
      BY <3>1, <3>2
  <2>6. QED
    BY <1>2, <2>1, <2>5 DEF Renamed, SameNames
<1>3. QED
  BY <1>1, <1>2

LEMMA UnmarkedFlags ==
  ASSUME NEW e \in Entries, FlagsInv(e)
  PROVE  FlagsInv([e EXCEPT !.stat = @ \ {"CHANGED"}])
<1> DEFINE f == [e EXCEPT !.stat = @ \ {"CHANGED"}]
<1>1. f.procs = e.procs /\ f.stat = e.stat \ {"CHANGED"}
  BY DEF Entries
<1> HIDE DEF f
<1>2. FlagsInv(f)
  BY <1>1 DEF FlagsInv
<1>3. QED
  BY <1>2 DEF f

LEMMA FreeFlags == FlagsInv(FreeEntry)
BY FreeEntryType DEF FlagsInv

LEMMA PrintjobTrims ==
  ASSUME NEW t, Sound(t), NEW j \in Jobs
  PROVE  Trimmed(t, printjob(t, j))
<1> DEFINE u == printjob(t, j)
<1>0. t \in Tables /\ t.jobtab[j] \in Entries /\ FlagsInv(t.jobtab[j])
  BY TableParts DEF Sound
<1>1. /\ u \in Tables /\ u.thisjob = t.thisjob
      /\ u.lastval = t.lastval /\ u.lastval2 = t.lastval2
      /\ u.jobtab[j] = IF "DONE" \in Stat(t, j) THEN FreeEntry
                       ELSE [t.jobtab[j] EXCEPT !.stat = @ \ {"CHANGED"}]
      /\ \A k \in Jobs \ {j} : u.jobtab[k] = t.jobtab[k]
  BY <1>0, Printed1
<1> HIDE DEF u
<1>2. FlagsInv(u.jobtab[j])
  BY <1>0, <1>1, UnmarkedFlags, FreeFlags
<1>3. Sound(u)
  BY <1>1, <1>2 DEF Sound
<1>4. \/ /\ u.jobtab[j] = FreeEntry
         /\ \A i \in DOMAIN t.jobtab[j].procs : t.jobtab[j].procs[i].status \in Exits
      \/ /\ u.jobtab[j].procs = t.jobtab[j].procs
         /\ u.jobtab[j].stat \ {"CHANGED"} = t.jobtab[j].stat \ {"CHANGED"}
  <2>1. CASE "DONE" \in Stat(t, j)
    BY <1>0, <1>1, <2>1 DEF FlagsInv, Stat
  <2>2. CASE "DONE" \notin Stat(t, j)
    BY <1>0, <1>1, <2>2 DEF Entries
  <2>3. QED
    BY <2>1, <2>2
<1>5. Trimmed(t, u)
  BY <1>1, <1>3, <1>4 DEF Trimmed
<1>6. QED
  BY <1>5 DEF u

\* The report of every changed job, from the first to the last.
LEMMA ScanjobsTrims ==
  ASSUME NEW t, Sound(t)
  PROVE  Trimmed(t, scanjobs(t))
<1> DEFINE n == MAXJOB - 1
           S == {u \in Tables : Trimmed(t, u)}
           g == [x \in S \X (1 .. n) |->
                   IF "CHANGED" \in Stat(x[1], x[2]) THEN printjob(x[1], x[2]) ELSE x[1]]
           Rounds(f) == [i \in 0 .. n |->
                           IF i = 0 THEN t
                           ELSE IF "CHANGED" \in Stat(f[i - 1], i) THEN printjob(f[i - 1], i)
                           ELSE f[i - 1]]
           scan == CHOOSE f : f = Rounds(f)
<1>1. n \in Nat /\ \A i \in 1 .. n : i \in Jobs
  BY JobsAssumption DEF Jobs
<1>2. t \in S
  BY TrimmedSame DEF Sound
<1>3. ASSUME NEW u \in S, NEW i \in 1 .. n
      PROVE  printjob(u, i) \in S
  <2>1. Trimmed(u, printjob(u, i))
    BY <1>1, PrintjobTrims DEF Trimmed
  <2>2. QED
    BY <2>1, TrimmedOn DEF Trimmed, Sound
<1>4. g \in [S \X (1 .. n) -> S]
  BY <1>3
<1>g. \A u \in S, i \in 1 .. n :
        g[<<u, i>>] = IF "CHANGED" \in Stat(u, i) THEN printjob(u, i) ELSE u
  OBVIOUS
<1>5. scanjobs(t) = scan[n]
  BY DEF scanjobs
<1> HIDE DEF S, g, n
<1>6. PICK f \in [0 .. n -> S] : f[0] = t /\ \A i \in 1 .. n : f[i] = g[<<f[i - 1], i>>]
  <2>1. Iteration(n, S, t, g)
    BY <1>1, <1>2, <1>4, IterationExists
  <2>2. QED
    BY <2>1 DEF Iteration
<1>7. f = Rounds(f)
  <2>1. ASSUME NEW i \in 0 .. n
        PROVE  f[i] = Rounds(f)[i]
    <3>1. CASE i = 0
      BY <1>1, <1>6, <3>1
    <3>2. CASE i # 0
      <4>1. i \in 1 .. n /\ i - 1 \in 0 .. n
        BY <1>1, <3>2
      <4>2. f[i - 1] \in S
        BY <1>6, <4>1
      <4>3. g[<<f[i - 1], i>>] = IF "CHANGED" \in Stat(f[i - 1], i)
                                 THEN printjob(f[i - 1], i) ELSE f[i - 1]
        BY <1>g, <4>1, <4>2
      <4>4. QED
        BY <1>6, <3>2, <4>1, <4>3
    <3>3. QED
      BY <3>1, <3>2
  <2>2. QED
    BY <1>6, <2>1
<1>8. scan = Rounds(scan)
  BY <1>7
<1> HIDE DEF scan
<1>9. scan[0] \in S
  BY <1>1, <1>2, <1>8
<1>10. ASSUME NEW i \in 1 .. n, scan[i - 1] \in S
       PROVE  scan[i] \in S
  <2>1. scan[i] = Rounds(scan)[i] /\ i \in 0 .. n /\ i # 0
    BY <1>1, <1>8
  <2>2. QED
    BY <1>3, <1>10, <2>1
<1>11. scan[n] \in S
  BY <1>1, <1>9, <1>10, IteratedIn
<1>12. QED
  BY <1>5, <1>11 DEF S, n

\* jobs reports every listed job.
LEMMA ListTrims ==
  ASSUME NEW t, Sound(t)
  PROVE  LET list[i \in 0 .. MAXJOB - 1] ==
               IF i = 0 THEN t
               ELSE IF i \in Listed(list[i - 1]) THEN printjob(list[i - 1], i) ELSE list[i - 1]
         IN  Trimmed(t, list[MAXJOB - 1])
<1> DEFINE n == MAXJOB - 1
           S == {u \in Tables : Trimmed(t, u)}
           g == [x \in S \X (1 .. n) |->
                   IF x[2] \in Listed(x[1]) THEN printjob(x[1], x[2]) ELSE x[1]]
           Rounds(f) == [i \in 0 .. n |->
                           IF i = 0 THEN t
                           ELSE IF i \in Listed(f[i - 1]) THEN printjob(f[i - 1], i)
                           ELSE f[i - 1]]
           list == CHOOSE f : f = Rounds(f)
<1>1. n \in Nat /\ \A i \in 1 .. n : i \in Jobs
  BY JobsAssumption DEF Jobs
<1>2. t \in S
  BY TrimmedSame DEF Sound
<1>3. ASSUME NEW u \in S, NEW i \in 1 .. n
      PROVE  printjob(u, i) \in S
  <2>1. Trimmed(u, printjob(u, i))
    BY <1>1, PrintjobTrims DEF Trimmed
  <2>2. QED
    BY <2>1, TrimmedOn DEF Trimmed, Sound
<1>4. g \in [S \X (1 .. n) -> S]
  BY <1>3
<1>g. \A u \in S, i \in 1 .. n :
        g[<<u, i>>] = IF i \in Listed(u) THEN printjob(u, i) ELSE u
  OBVIOUS
<1>5. SUFFICES Trimmed(t, list[n])
  OBVIOUS
<1> HIDE DEF S, g, n
<1>6. PICK f \in [0 .. n -> S] : f[0] = t /\ \A i \in 1 .. n : f[i] = g[<<f[i - 1], i>>]
  <2>1. Iteration(n, S, t, g)
    BY <1>1, <1>2, <1>4, IterationExists
  <2>2. QED
    BY <2>1 DEF Iteration
<1>7. f = Rounds(f)
  <2>1. ASSUME NEW i \in 0 .. n
        PROVE  f[i] = Rounds(f)[i]
    <3>1. CASE i = 0
      BY <1>1, <1>6, <3>1
    <3>2. CASE i # 0
      <4>1. i \in 1 .. n /\ i - 1 \in 0 .. n
        BY <1>1, <3>2
      <4>2. f[i - 1] \in S
        BY <1>6, <4>1
      <4>3. g[<<f[i - 1], i>>] = IF i \in Listed(f[i - 1])
                                 THEN printjob(f[i - 1], i) ELSE f[i - 1]
        BY <1>g, <4>1, <4>2
      <4>4. QED
        BY <1>6, <3>2, <4>1, <4>3
    <3>3. QED
      BY <3>1, <3>2
  <2>2. QED
    BY <1>6, <2>1
<1>8. list = Rounds(list)
  BY <1>7
<1> HIDE DEF list
<1>9. list[0] \in S
  BY <1>1, <1>2, <1>8
<1>10. ASSUME NEW i \in 1 .. n, list[i - 1] \in S
       PROVE  list[i] \in S
  <2>1. list[i] = Rounds(list)[i] /\ i \in 0 .. n /\ i # 0
    BY <1>1, <1>8
  <2>2. QED
    BY <1>3, <1>10, <2>1
<1>11. list[n] \in S
  BY <1>1, <1>9, <1>10, IteratedIn
<1>12. QED
  BY <1>11 DEF S, n

\* The current job that setcurjob leaves can be worked on.
LEMMA CurjobSet ==
  ASSUME NEW t, Sound(t)
  PROVE  LET u == setcurjob(t)
         IN  Renamed(t, u) /\ (u.curjob # None => u.curjob \in Jobs \ {t.thisjob} /\
                                                  "INUSE" \in Stat(t, u.curjob))
<1> DEFINE once == setprevjob([t EXCEPT !.curjob = t.prevjob])
           twice == setprevjob([once EXCEPT !.curjob = once.prevjob])
<1>1. t \in Tables
  BY DEF Sound
<1>2. Renamed(t, once)
  <2>1. Renamed(t, [t EXCEPT !.curjob = t.prevjob])
    BY <1>1, NewNames, TableParts
  <2>2. Renamed([t EXCEPT !.curjob = t.prevjob], once)
    BY <2>1, PrevjobSet DEF Renamed
  <2>3. QED
    BY <2>1, <2>2, RenamedOn
<1>3. /\ once.prevjob \in Jobs \cup {None}
      /\ once.prevjob # None => once.prevjob \in Jobs \ {t.thisjob} /\ "INUSE" \in Stat(t, once.prevjob)
  <2>1. Renamed(t, [t EXCEPT !.curjob = t.prevjob])
    BY <1>1, NewNames, TableParts
  <2>2. QED
    BY <1>2, <2>1, PrevjobSet, TableParts DEF Renamed, Stat
<1> HIDE DEF once
<1>4. once \in Tables
  BY <1>2 DEF Renamed
<1>5. Renamed(t, twice) /\ twice.curjob = once.prevjob
  <2> DEFINE named == [once EXCEPT !.curjob = once.prevjob]
  <2>1. Renamed(once, named) /\ named.curjob = once.prevjob
    BY <1>3, <1>4, NewNames
  <2>2. twice = setprevjob(named)
    OBVIOUS
  <2> HIDE DEF named, twice
  <2>3. Renamed(named, twice) /\ twice.curjob = named.curjob
    BY <2>1, <2>2, PrevjobSet DEF Renamed
  <2>4. QED
    BY <1>2, <2>1, <2>3, RenamedOn
<1>6. setcurjob(t) = IF ~Unusable(t, t.curjob) THEN t
                     ELSE IF ~Unusable(once, once.curjob) THEN once ELSE twice
  BY DEF setcurjob, once
<1> HIDE DEF twice
<1>7. CASE ~Unusable(t, t.curjob)
  BY <1>1, <1>6, <1>7, TableParts DEF Renamed, Unusable
<1>8. CASE Unusable(t, t.curjob) /\ ~Unusable(once, once.curjob)
  BY <1>2, <1>4, <1>6, <1>8, TableParts DEF Renamed, Unusable, Stat
<1>9. CASE Unusable(t, t.curjob) /\ Unusable(once, once.curjob)
  BY <1>3, <1>5, <1>6, <1>9
<1>10. QED
  BY <1>7, <1>8, <1>9

\* fg, bg and wait change names only.
LEMMA ShuffleRenames ==
  ASSUME NEW t \in Tables, NEW j \in Jobs, NEW command
  PROVE  Renamed(t, shuffle(t, j, command))
<1> DEFINE off == IF t.curjob # j THEN t
                  ELSE [t EXCEPT !.curjob = t.prevjob, !.prevjob = IF command = "bg" THEN None ELSE j]
           again == IF off.prevjob \in {j, None} THEN setprevjob(off) ELSE off
           last == IF again.curjob = None
                   THEN setprevjob([again EXCEPT !.curjob = again.prevjob]) ELSE again
<1>1. Renamed(t, off)
  <2>1. CASE t.curjob # j
    BY <2>1 DEF Renamed
  <2>2. CASE t.curjob = j
    BY <2>2, NewNames, TableParts
  <2>3. QED
    BY <2>1, <2>2
<1> HIDE DEF off
<1>2. Renamed(t, again)
  <2>1. off \in Tables
    BY <1>1 DEF Renamed
  <2>2. Renamed(off, again)
    <3>1. Renamed(off, off)
      BY <2>1 DEF Renamed
    <3>2. QED
      BY <2>1, <3>1, PrevjobSet
  <2> HIDE DEF again
  <2>3. QED
    BY <1>1, <2>2, RenamedOn
<1>3. shuffle(t, j, command) = last
  BY DEF shuffle, again, off
<1> HIDE DEF again
<1>4. again \in Tables
  BY <1>2 DEF Renamed
<1>5. CASE again.curjob = None
  <2> DEFINE named == [again EXCEPT !.curjob = again.prevjob]
  <2>1. Renamed(again, named)
    BY <1>4, NewNames, TableParts
  <2>2. last = setprevjob(named)
    BY <1>5
  <2> HIDE DEF named, last
  <2>3. Renamed(named, last)
    BY <2>1, <2>2, PrevjobSet DEF Renamed
  <2>4. QED
    BY <1>2, <1>3, <2>1, <2>3, RenamedOn
<1>6. CASE again.curjob # None
  BY <1>2, <1>3, <1>6
<1>7. QED
  BY <1>5, <1>6

\* The place a new job gets.
LEMMA Initjob ==
  ASSUME NEW t, Sound(t), FreeSlots(t) # {}
  PROVE  LET j == Lowest(FreeSlots(t))
             u == initjob(t)
         IN  /\ j \in Jobs /\ Stat(t, j) = {} /\ t.jobtab[j].procs = <<>>
             /\ Sound(u) /\ u.thisjob = j /\ u.lastval = t.lastval /\ u.lastval2 = t.lastval2
             /\ u.jobtab[j] = [stat |-> {"INUSE"}, procs |-> <<>>]
             /\ \A k \in Jobs \ {j} : u.jobtab[k] = t.jobtab[k]
<1> DEFINE j == Lowest(FreeSlots(t))
           e == [stat |-> {"INUSE"}, procs |-> <<>>]
           given == [t EXCEPT !.jobtab[j] = e]
           u == [given EXCEPT !.thisjob = j]
<1>1. j \in Jobs /\ Stat(t, j) = {}
  <2>1. FreeSlots(t) \subseteq Jobs
    BY DEF FreeSlots
  <2>2. j \in FreeSlots(t)
    BY <2>1, LowestIn
  <2>3. QED
    BY <2>2 DEF FreeSlots
<1>2. t \in Tables /\ FlagsInv(t.jobtab[j])
  BY <1>1 DEF Sound
<1>3. t.jobtab[j].procs = <<>>
  BY <1>1, <1>2 DEF FlagsInv, Stat
<1>4. e \in Entries /\ FlagsInv(e)
  BY DEF Entries, FlagsInv, Flags
<1>5. initjob(t) = u
  BY <1>2 DEF initjob, Tables
<1> HIDE DEF j, e
<1>6. /\ given \in Tables /\ SameNames(t, given) /\ given.jobtab[j] = e
      /\ \A k \in Jobs \ {j} : given.jobtab[k] = t.jobtab[k]
  BY <1>1, <1>2, <1>4, EntryReplaced
<1> HIDE DEF given
<1>7. /\ u \in Tables /\ u.jobtab = given.jobtab /\ u.thisjob = j
      /\ u.lastval = given.lastval /\ u.lastval2 = given.lastval2
  BY <1>1, <1>6 DEF Tables
<1> HIDE DEF u
<1>8. Sound(u)
  BY <1>4, <1>6, <1>7 DEF Sound
<1>9. QED
  BY <1>1, <1>3, <1>5, <1>6, <1>7, <1>8 DEF SameNames, j, e

\* Records have gone only with jobs all of whose processes have ended.
Reduced(t, u) ==
  /\ Sound(u)
  /\ \A j \in Jobs :
       \/ /\ u.jobtab[j].procs = <<>>
          /\ \A i \in DOMAIN t.jobtab[j].procs : t.jobtab[j].procs[i].status \in Exits
       \/ u.jobtab[j].procs = t.jobtab[j].procs

\* The table as a builtin finds it: its own place is new.
LEMMA EnteredTable ==
  ASSUME NEW t, Sound(t), FreeSlots(t) # {}
  PROVE  LET own == Lowest(FreeSlots(t))
             u == Entered(t)
         IN  /\ own \in Jobs /\ Stat(t, own) = {} /\ Reduced(t, u)
             /\ u.thisjob = own /\ u.lastval = t.lastval /\ u.lastval2 = t.lastval2
             /\ u.jobtab[own].procs = <<>>
             /\ \A j \in Jobs \ {own} : Stat(u, j) # {} =>
                  Stat(t, j) # {} /\ u.jobtab[j].procs = t.jobtab[j].procs
<1> DEFINE own == Lowest(FreeSlots(t))
           i0 == initjob(t)
           s == IF NOTIFY THEN i0 ELSE scanjobs(i0)
           u == setcurjob(s)
<1>1. /\ own \in Jobs /\ Stat(t, own) = {} /\ t.jobtab[own].procs = <<>>
      /\ Sound(i0) /\ i0.thisjob = own /\ i0.lastval = t.lastval /\ i0.lastval2 = t.lastval2
      /\ i0.jobtab[own].procs = <<>>
      /\ \A k \in Jobs \ {own} : i0.jobtab[k] = t.jobtab[k]
  <2>1. [stat |-> {"INUSE"}, procs |-> <<>>].procs = <<>>
    OBVIOUS
  <2>2. QED
    BY <2>1, Initjob
<1> HIDE DEF own, i0
<1>2. Trimmed(i0, s)
  BY <1>1, TrimmedSame, ScanjobsTrims
<1> HIDE DEF s
<1>3. Sound(s)
  BY <1>2 DEF Trimmed
<1>4. Renamed(s, u)
  BY <1>3, CurjobSet
<1>5. Trimmed(i0, u)
  BY <1>2, <1>4, TrimmedRenamed
<1>6. u = Entered(t)
  BY DEF Entered, s, i0
<1> HIDE DEF u
<1>7. u \in Tables /\ u.jobtab[own].procs = <<>>
  BY <1>1, <1>5, FreeEntryType DEF Trimmed, Sound
<1>8. ASSUME NEW j \in Jobs
      PROVE  \/ /\ u.jobtab[j].procs = <<>>
                /\ \A i \in DOMAIN t.jobtab[j].procs : t.jobtab[j].procs[i].status \in Exits
             \/ u.jobtab[j].procs = t.jobtab[j].procs
  <2>1. CASE j = own
    BY <1>1, <1>7, <2>1
  <2>2. CASE j # own
    BY <1>1, <1>5, <2>2, FreeEntryType DEF Trimmed
  <2>3. QED
    BY <2>1, <2>2
<1>9. ASSUME NEW j \in Jobs \ {own}, Stat(u, j) # {}
      PROVE  Stat(t, j) # {} /\ u.jobtab[j].procs = t.jobtab[j].procs
  <2>1. u.jobtab[j].stat # {} /\ i0.jobtab[j] = t.jobtab[j] /\ FlagsInv(u.jobtab[j])
    BY <1>1, <1>5, <1>9 DEF Stat, Trimmed, Sound
  <2>2. u.jobtab[j] # FreeEntry /\ "INUSE" \in u.jobtab[j].stat
    BY <2>1, FreeEntryType DEF FlagsInv
  <2>3. u.jobtab[j].procs = i0.jobtab[j].procs /\ "INUSE" \in i0.jobtab[j].stat
    BY <1>5, <2>2 DEF Trimmed
  <2>4. QED
    BY <2>1, <2>3 DEF Stat
<1>10. u.thisjob = own /\ u.lastval = t.lastval /\ u.lastval2 = t.lastval2 /\ Sound(u)
  BY <1>1, <1>5 DEF Trimmed
<1>11. Reduced(t, u)
  BY <1>8, <1>10 DEF Reduced
<1>12. QED
  BY <1>1, <1>6, <1>7, <1>9, <1>10, <1>11 DEF own

\* A table with another job at work and another $?.
LEMMA NewStatus ==
  ASSUME NEW t \in Tables, NEW status \in Values, NEW j \in Jobs \cup {None}
  PROVE  /\ LET u == [t EXCEPT !.thisjob = j]
            IN  /\ u \in Tables /\ u.jobtab = t.jobtab /\ u.thisjob = j
                /\ u.lastval = t.lastval /\ u.lastval2 = t.lastval2
         /\ LET u == [t EXCEPT !.lastval = status]
            IN  /\ u \in Tables /\ u.jobtab = t.jobtab /\ u.thisjob = t.thisjob
                /\ u.lastval = status /\ u.lastval2 = t.lastval2
         /\ LET u == [t EXCEPT !.thisjob = j, !.lastval = status]
            IN  /\ u \in Tables /\ u.jobtab = t.jobtab /\ u.thisjob = j
                /\ u.lastval = status /\ u.lastval2 = t.lastval2
BY DEF Tables

\* The table when the place of a builtin has been given back.
Left(t, own, status) == [deletejob(t, own) EXCEPT !.thisjob = None, !.lastval = status]
LEMMA LeftTable ==
  ASSUME NEW t, Sound(t), NEW own \in Jobs, NEW status \in Values
  PROVE  LET u == Left(t, own, status)
         IN  /\ Sound(u) /\ u.thisjob = None /\ u.lastval = status
             /\ u.jobtab[own] = FreeEntry /\ \A k \in Jobs \ {own} : u.jobtab[k] = t.jobtab[k]
<1> DEFINE d == deletejob(t, own)
           u == [d EXCEPT !.thisjob = None, !.lastval = status]
<1>1. /\ d \in Tables
      /\ d.jobtab[own] = FreeEntry /\ \A k \in Jobs \ {own} : d.jobtab[k] = t.jobtab[k]
  BY Deleted DEF Sound
<1> HIDE DEF d
<1>2. u \in Tables /\ u.jobtab = d.jobtab /\ u.thisjob = None /\ u.lastval = status
  BY <1>1 DEF Tables
<1> HIDE DEF u
<1>3. Sound(u)
  BY <1>1, <1>2, FreeFlags DEF Sound
<1>4. QED
  BY <1>1, <1>2, <1>3 DEF u, d, Left

\* The status of a process is written down; nothing else changes.
LEMMA Updated ==
  ASSUME NEW t \in Tables, NEW j \in Jobs, NEW p \in Pids, NEW status \in Values
  PROVE  LET u == update_process(t, j, p, status)
         IN  /\ u \in Tables /\ SameNames(t, u)
             /\ \A k \in Jobs \ {j} : u.jobtab[k] = t.jobtab[k]
             /\ u.jobtab[j].stat = t.jobtab[j].stat
             /\ DOMAIN u.jobtab[j].procs = DOMAIN t.jobtab[j].procs
             /\ \A i \in DOMAIN t.jobtab[j].procs :
                  u.jobtab[j].procs[i] = IF t.jobtab[j].procs[i].pid = p
                                         THEN [pid |-> p, status |-> status] ELSE t.jobtab[j].procs[i]
<1> DEFINE procs == t.jobtab[j].procs
           new == [i \in DOMAIN procs |-> IF procs[i].pid = p
                     THEN [procs[i] EXCEPT !.status = status] ELSE procs[i]]
           e == [t.jobtab[j] EXCEPT !.procs = new]
           u == [t EXCEPT !.jobtab[j] = e]
<1>1. t.jobtab[j] \in Entries /\ procs \in Seq(Processes)
  BY TableParts
<1>2. ASSUME NEW i \in DOMAIN procs
      PROVE  /\ procs[i] \in Processes /\ new[i] \in Processes
             /\ new[i] = IF procs[i].pid = p THEN [pid |-> p, status |-> status] ELSE procs[i]
  <2>1. procs[i] \in Processes
    BY <1>1, <1>2
  <2>2. QED
    BY <2>1 DEF Processes
<1>3. new \in Seq(Processes) /\ DOMAIN new = DOMAIN procs
  <2>1. Len(procs) \in Nat /\ DOMAIN procs = 1 .. Len(procs)
    BY <1>1
  <2>2. new \in [1 .. Len(procs) -> Processes]
    BY <1>2, <2>1
  <2> HIDE DEF new
  <2>3. QED
    BY <2>1, <2>2
<1>4. update_process(t, j, p, status) = u
  BY DEF update_process, Tables, Entries
<1> HIDE DEF new
<1>5. e \in Entries /\ e.stat = t.jobtab[j].stat /\ e.procs = new
  BY <1>1, <1>3 DEF Entries
<1> HIDE DEF e
<1>6. /\ u \in Tables /\ SameNames(t, u) /\ u.jobtab[j] = e
      /\ \A k \in Jobs \ {j} : u.jobtab[k] = t.jobtab[k]
  BY <1>5, EntryReplaced
<1> HIDE DEF u
<1>7. QED
  BY <1>2, <1>3, <1>4, <1>5, <1>6

LEMMA Statuses1 ==
  ASSUME NEW t \in Tables, NEW j \in Jobs
  PROVE  /\ \A i \in DOMAIN t.jobtab[j].procs :
              /\ t.jobtab[j].procs[i] \in Processes
              /\ t.jobtab[j].procs[i].pid \in Pids
              /\ t.jobtab[j].procs[i].status \in Exits \cup {"stopped", "running"}
              /\ t.jobtab[j].procs[i].status \in Statuses(t, j)
         /\ t.jobtab[j].procs # <<>> => LastProc(t, j).status \in Statuses(t, j)
         /\ Statuses(t, j) \subseteq Exits \cup {"stopped", "running"}
<1>1. t.jobtab[j].procs \in Seq(Processes)
  BY TableParts
<1>2. \A i \in DOMAIN t.jobtab[j].procs : t.jobtab[j].procs[i] \in Processes
  BY <1>1
<1>3. t.jobtab[j].procs # <<>> => Len(t.jobtab[j].procs) \in DOMAIN t.jobtab[j].procs
  BY <1>1
<1>4. QED
  BY <1>2, <1>3 DEF Statuses, LastProc, Processes, Values

\* update_job waits for the last of the processes to end or to stop.
Held(t, j) == \/ "running" \in Statuses(t, j)
              \/ "stopped" \in Statuses(t, j) /\ "STOPPED" \in Stat(t, j)
Flag(t, j) == IF "stopped" \in Statuses(t, j) THEN "STOPPED" ELSE "DONE"

LEMMA UpdateHeld ==
  ASSUME NEW t, NEW j, Held(t, j)
  PROVE  update_job(t, j) = t
BY DEF Held, update_job

\* Then it marks the job, and $? is the status of the last process of the job at work; a
\* finished job that is waited for, or any with NOTIFY, may go.
LEMMA UpdateMarks ==
  ASSUME NEW t \in Tables, NEW j \in Jobs, t.jobtab[j].procs # <<>>, ~Held(t, j)
  PROVE  LET u == update_job(t, j)
         IN  /\ u \in Tables /\ u.thisjob = t.thisjob
             /\ u.lastval = IF j = t.thisjob THEN LastProc(t, j).status ELSE t.lastval
             /\ \A k \in Jobs \ {j} : u.jobtab[k] = t.jobtab[k]
             /\ \/ /\ u.jobtab[j] = FreeEntry
                   /\ "LOCKED" \in Stat(t, j) /\ "DONE" \in Stat(t, j) \cup {Flag(t, j)}
                \/ /\ u.jobtab[j].procs = t.jobtab[j].procs
                   /\ u.jobtab[j].stat \ {"CHANGED"} = (Stat(t, j) \cup {Flag(t, j)}) \ {"CHANGED"}
<1> DEFINE val == LastProc(t, j).status
           flags == {"CHANGED", Flag(t, j)}
           valued == [t EXCEPT !.lastval2 = val, !.lastval = IF j = t.thisjob THEN val ELSE @]
           marked == SetFlags(valued, j, flags)
           current == IF Stat(marked, j) \cap {"DONE", "STOPPED"} = {"STOPPED"}
                      THEN [marked EXCEPT !.prevjob = marked.curjob, !.curjob = j] ELSE marked
           report == (NOTIFY \/ j = t.thisjob) /\ "LOCKED" \in Stat(t, j)
<1>1. val \in Values
  BY Statuses1 DEF Held, Values
<1>2. /\ valued \in Tables /\ valued.jobtab = t.jobtab /\ valued.thisjob = t.thisjob
      /\ valued.lastval = IF j = t.thisjob THEN val ELSE t.lastval
  BY <1>1 DEF Tables
<1>3. update_job(t, j) = IF report THEN printjob(current, j) ELSE current
  BY DEF update_job, Held, Flag
<1> HIDE DEF valued
<1>4. /\ marked \in Tables /\ SameNames(valued, marked)
      /\ marked.jobtab[j] = [t.jobtab[j] EXCEPT !.stat = @ \cup flags]
      /\ \A k \in Jobs \ {j} : marked.jobtab[k] = t.jobtab[k]
  <2>1. flags \in SUBSET Flags
    BY DEF Flags, Flag
  <2>2. QED
    BY <1>2, <2>1, FlagsSet
<1> HIDE DEF marked
<1>5. Renamed(marked, current)
  <2>1. CASE Stat(marked, j) \cap {"DONE", "STOPPED"} = {"STOPPED"}
    BY <1>4, <2>1, NewNames, TableParts
  <2>2. CASE Stat(marked, j) \cap {"DONE", "STOPPED"} # {"STOPPED"}
    BY <1>4, <2>2 DEF Renamed
  <2>3. QED
    BY <2>1, <2>2
<1> HIDE DEF current
<1>6. /\ current \in Tables /\ current.thisjob = t.thisjob
      /\ current.lastval = IF j = t.thisjob THEN val ELSE t.lastval
      /\ current.jobtab[j].stat = Stat(t, j) \cup flags
      /\ current.jobtab[j].procs = t.jobtab[j].procs
      /\ current.jobtab[j] \in Entries
      /\ \A k \in Jobs \ {j} : current.jobtab[k] = t.jobtab[k]
  <2>1. t.jobtab[j] \in Entries
    BY TableParts
  <2>2. /\ [t.jobtab[j] EXCEPT !.stat = @ \cup flags].stat = t.jobtab[j].stat \cup flags
        /\ [t.jobtab[j] EXCEPT !.stat = @ \cup flags].procs = t.jobtab[j].procs
    BY <2>1 DEF Entries
  <2>3. current \in Tables /\ current.jobtab = marked.jobtab
    BY <1>5 DEF Renamed
  <2>4. QED
    BY <1>2, <1>4, <1>5, <2>2, <2>3, TableParts DEF Renamed, SameNames, Stat
<1>7. CASE report /\ "DONE" \in Stat(current, j)
  <2> DEFINE u == printjob(current, j)
  <2>1. /\ u \in Tables /\ u.thisjob = current.thisjob /\ u.lastval = current.lastval
        /\ u.jobtab[j] = FreeEntry /\ \A k \in Jobs \ {j} : u.jobtab[k] = current.jobtab[k]
    BY <1>6, <1>7, Printed1
  <2> HIDE DEF u
  <2>2. update_job(t, j) = u
    BY <1>3, <1>7 DEF u
  <2>3. "DONE" \in Stat(t, j) \cup {Flag(t, j)} /\ "LOCKED" \in Stat(t, j)
    BY <1>6, <1>7 DEF Stat
  <2>4. QED
    BY <1>6, <2>1, <2>2, <2>3
<1>8. CASE report /\ "DONE" \notin Stat(current, j)
  <2> DEFINE u == printjob(current, j)
             e == [current.jobtab[j] EXCEPT !.stat = @ \ {"CHANGED"}]
  <2>1. e.stat = current.jobtab[j].stat \ {"CHANGED"} /\ e.procs = current.jobtab[j].procs
    BY <1>6 DEF Entries
  <2> HIDE DEF e
  <2>2. /\ u \in Tables /\ u.thisjob = current.thisjob /\ u.lastval = current.lastval
        /\ u.jobtab[j] = e /\ \A k \in Jobs \ {j} : u.jobtab[k] = current.jobtab[k]
    BY <1>6, <1>8, Printed1 DEF e
  <2> HIDE DEF u
  <2>3. update_job(t, j) = u
    BY <1>3, <1>8 DEF u
  <2>4. QED
    BY <1>6, <2>1, <2>2, <2>3
<1>9. CASE ~report
  BY <1>3, <1>6, <1>9
<1>10. QED
  BY <1>7, <1>8, <1>9

\* A job that is continued: its stopped processes count as running.
LEMMA MadeRunning ==
  ASSUME NEW t \in Tables, NEW j \in Jobs
  PROVE  LET u == makerunning(t, j)
         IN  /\ u \in Tables /\ SameNames(t, u)
             /\ \A k \in Jobs \ {j} : u.jobtab[k] = t.jobtab[k]
             /\ u.jobtab[j].stat = t.jobtab[j].stat \ {"STOPPED"}
             /\ DOMAIN u.jobtab[j].procs = DOMAIN t.jobtab[j].procs
             /\ \A i \in DOMAIN t.jobtab[j].procs :
                  /\ u.jobtab[j].procs[i].pid = t.jobtab[j].procs[i].pid
                  /\ u.jobtab[j].procs[i].status = IF t.jobtab[j].procs[i].status = "stopped"
                       THEN "running" ELSE t.jobtab[j].procs[i].status
<1> DEFINE c == ClearFlags(t, j, {"STOPPED"})
           procs == t.jobtab[j].procs
           new == [i \in DOMAIN procs |-> IF procs[i].status # "stopped" THEN procs[i]
                                          ELSE [procs[i] EXCEPT !.status = "running"]]
           e == [c.jobtab[j] EXCEPT !.procs = new]
           u == [c EXCEPT !.jobtab[j] = e]
<1>1. t.jobtab[j] \in Entries /\ procs \in Seq(Processes)
  BY TableParts
<1>2. /\ c \in Tables /\ SameNames(t, c)
      /\ c.jobtab[j] \in Entries /\ c.jobtab[j].procs = procs
      /\ c.jobtab[j].stat = t.jobtab[j].stat \ {"STOPPED"}
      /\ \A k \in Jobs \ {j} : c.jobtab[k] = t.jobtab[k]
  <2>1. /\ [t.jobtab[j] EXCEPT !.stat = @ \ {"STOPPED"}].procs = procs
        /\ [t.jobtab[j] EXCEPT !.stat = @ \ {"STOPPED"}].stat = t.jobtab[j].stat \ {"STOPPED"}
    BY <1>1 DEF Entries
  <2>2. /\ c \in Tables /\ SameNames(t, c)
        /\ c.jobtab[j] = [t.jobtab[j] EXCEPT !.stat = @ \ {"STOPPED"}]
        /\ \A k \in Jobs \ {j} : c.jobtab[k] = t.jobtab[k]
    BY FlagsCleared
  <2> HIDE DEF c
  <2>3. QED
    BY <2>1, <2>2, TableParts
<1>3. makerunning(t, j) = u
  <2>1. c.jobtab \in [Jobs -> Entries] /\ c.jobtab[j].procs = procs
    BY <1>2, TableParts
  <2>2. makerunning(t, j) = [c EXCEPT !.jobtab[j].procs =
          [i \in DOMAIN @ |-> IF @[i].status # "stopped" THEN @[i]
                              ELSE [@[i] EXCEPT !.status = "running"]]]
    BY DEF makerunning
  <2> HIDE DEF c
  <2>3. QED
    BY <1>2, <2>1, <2>2 DEF Tables, Entries
<1> HIDE DEF c
<1>4. ASSUME NEW i \in DOMAIN procs
      PROVE  /\ new[i] \in Processes /\ new[i].pid = procs[i].pid
             /\ new[i].status = IF procs[i].status = "stopped" THEN "running" ELSE procs[i].status
  <2>1. procs[i] \in Processes
    BY <1>1, <1>4
  <2>2. QED
    BY <2>1 DEF Processes
<1>5. new \in Seq(Processes) /\ DOMAIN new = DOMAIN procs
  <2>1. Len(procs) \in Nat /\ DOMAIN procs = 1 .. Len(procs)
    BY <1>1
  <2>2. new \in [1 .. Len(procs) -> Processes]
    BY <1>4, <2>1
  <2> HIDE DEF new
  <2>3. QED
    BY <2>1, <2>2
<1> HIDE DEF new
<1>6. e \in Entries /\ e.stat = t.jobtab[j].stat \ {"STOPPED"} /\ e.procs = new
  BY <1>2, <1>5 DEF Entries
<1> HIDE DEF e
<1>7. /\ u \in Tables /\ SameNames(c, u) /\ u.jobtab[j] = e
      /\ \A k \in Jobs \ {j} : u.jobtab[k] = c.jobtab[k]
  BY <1>2, <1>6, EntryReplaced
<1> HIDE DEF u
<1>8. QED
  BY <1>2, <1>3, <1>4, <1>5, <1>6, <1>7 DEF SameNames

\* A process is added to the job at work.
LEMMA ProcessAdded ==
  ASSUME NEW t \in Tables, t.thisjob \in Jobs, NEW p \in Pids
  PROVE  LET j == t.thisjob
             u == addproc(t, p)
         IN  /\ u \in Tables /\ SameNames(t, u)
             /\ \A k \in Jobs \ {j} : u.jobtab[k] = t.jobtab[k]
             /\ u.jobtab[j].stat = t.jobtab[j].stat \ {"DONE"}
             /\ u.jobtab[j].procs = Append(t.jobtab[j].procs, [pid |-> p, status |-> "running"])
<1> DEFINE j == t.thisjob
           c == ClearFlags(t, j, {"DONE"})
           new == Append(t.jobtab[j].procs, [pid |-> p, status |-> "running"])
           e == [c.jobtab[j] EXCEPT !.procs = new]
           u == [c EXCEPT !.jobtab[j] = e]
<1>1. t.jobtab[j] \in Entries /\ t.jobtab[j].procs \in Seq(Processes)
  BY TableParts
<1>2. /\ c \in Tables /\ SameNames(t, c)
      /\ c.jobtab[j] \in Entries /\ c.jobtab[j].procs = t.jobtab[j].procs
      /\ c.jobtab[j].stat = t.jobtab[j].stat \ {"DONE"}
      /\ \A k \in Jobs \ {j} : c.jobtab[k] = t.jobtab[k]
  <2>1. /\ [t.jobtab[j] EXCEPT !.stat = @ \ {"DONE"}].procs = t.jobtab[j].procs
        /\ [t.jobtab[j] EXCEPT !.stat = @ \ {"DONE"}].stat = t.jobtab[j].stat \ {"DONE"}
    BY <1>1 DEF Entries
  <2>2. /\ c \in Tables /\ SameNames(t, c)
        /\ c.jobtab[j] = [t.jobtab[j] EXCEPT !.stat = @ \ {"DONE"}]
        /\ \A k \in Jobs \ {j} : c.jobtab[k] = t.jobtab[k]
    BY FlagsCleared
  <2> HIDE DEF c
  <2>3. QED
    BY <2>1, <2>2, TableParts
<1>3. addproc(t, p) = u
  <2>1. addproc(t, p) = [c EXCEPT !.jobtab[j].procs = Append(@, [pid |-> p, status |-> "running"])]
    BY DEF addproc
  <2> HIDE DEF c
  <2>2. c.jobtab \in [Jobs -> Entries]
    BY <1>2, TableParts
  <2>3. QED
    BY <1>2, <2>1, <2>2 DEF Tables, Entries
<1>4. new \in Seq(Processes)
  <2>1. [pid |-> p, status |-> "running"] \in Processes
    BY DEF Processes
  <2>2. QED
    BY <1>1, <2>1
<1> HIDE DEF c, new
<1>5. e \in Entries /\ e.stat = t.jobtab[j].stat \ {"DONE"} /\ e.procs = new
  BY <1>2, <1>4 DEF Entries
<1> HIDE DEF e
<1>6. /\ u \in Tables /\ SameNames(c, u) /\ u.jobtab[j] = e
      /\ \A k \in Jobs \ {j} : u.jobtab[k] = c.jobtab[k]
  BY <1>2, <1>5, EntryReplaced
<1> HIDE DEF u
<1>7. QED
  BY <1>2, <1>3, <1>5, <1>6 DEF SameNames, new

\* A job put into the background keeps its processes; one without any is gone.
LEMMA Spawned ==
  ASSUME NEW t \in Tables, t.thisjob \in Jobs
  PROVE  LET j == t.thisjob
             u == spawnjob(t)
         IN  /\ u \in Tables /\ u.thisjob = None
             /\ \A k \in Jobs \ {j} : u.jobtab[k] = t.jobtab[k]
             /\ u.jobtab[j] = IF t.jobtab[j].procs = <<>> THEN FreeEntry
                              ELSE [t.jobtab[j] EXCEPT !.stat = @ \cup {"LOCKED"}]
<1> DEFINE j == t.thisjob
           named == IF t.curjob = None \/ "STOPPED" \notin Stat(t, t.curjob)
                    THEN setprevjob([t EXCEPT !.curjob = j])
                    ELSE IF t.prevjob = None \/ "STOPPED" \notin Stat(t, t.prevjob)
                    THEN [t EXCEPT !.prevjob = j] ELSE t
           kept == IF t.jobtab[j].procs = <<>> THEN deletejob(named, j)
                   ELSE SetFlags(named, j, {"LOCKED"})
           u == [kept EXCEPT !.thisjob = None]
<1>1. Renamed(t, [t EXCEPT !.curjob = j]) /\ Renamed(t, [t EXCEPT !.prevjob = j]) /\ Renamed(t, t)
  BY NewNames DEF Renamed
<1>2. Renamed([t EXCEPT !.curjob = j], setprevjob([t EXCEPT !.curjob = j]))
  BY <1>1, PrevjobSet DEF Renamed
<1>3. Renamed(t, setprevjob([t EXCEPT !.curjob = j]))
  BY <1>1, <1>2, RenamedOn
<1>4. Renamed(t, named)
  BY <1>1, <1>3
<1>5. spawnjob(t) = u
  BY DEF spawnjob
<1> HIDE DEF named
<1>6. /\ kept \in Tables
      /\ \A k \in Jobs \ {j} : kept.jobtab[k] = t.jobtab[k]
      /\ kept.jobtab[j] = IF t.jobtab[j].procs = <<>> THEN FreeEntry
                          ELSE [t.jobtab[j] EXCEPT !.stat = @ \cup {"LOCKED"}]
  <2>1. named \in Tables /\ named.jobtab = t.jobtab
    BY <1>4 DEF Renamed
  <2>2. CASE t.jobtab[j].procs = <<>>
    BY <2>1, <2>2, Deleted
  <2>3. CASE t.jobtab[j].procs # <<>>
    <3>1. {"LOCKED"} \in SUBSET Flags
      BY DEF Flags
    <3>2. QED
      BY <2>1, <2>3, <3>1, FlagsSet
  <2>4. QED
    BY <2>2, <2>3
<1> HIDE DEF kept
<1>7. u \in Tables /\ u.jobtab = kept.jobtab /\ u.thisjob = None
  BY <1>6 DEF Tables
<1>8. QED
  BY <1>5, <1>6, <1>7

-----------------------------------------------------------------------------
(* What a step leaves of the invariant.                                    *)

LEMMA Places ==
  ASSUME JobsInv
  PROVE  /\ Sound(table) /\ table \in Tables /\ shell \in Shells
         /\ handler \in BOOLEAN /\ sigchld \in BOOLEAN
         /\ os \in [Pids -> Values \cup {"none", "running"}] /\ news \subseteq Pids
         /\ cmdout.pid \in Pids \cup {NoPid} /\ cmdout.val \in Values /\ disowned \subseteq Pids
BY DEF JobsInv, TypeOK, EntriesInv, Sound

\* The processes in the table, before and after a step.
LEMMA KnownPids ==
  /\ \A p : p \in Known <=>
       \E k \in Jobs : \E i \in DOMAIN table.jobtab[k].procs : p = table.jobtab[k].procs[i].pid
  /\ \A p : p \in Known' <=>
       \E k \in Jobs : \E i \in DOMAIN table'.jobtab[k].procs : p = table'.jobtab[k].procs[i].pid
<1>1. \A p : p \in Known <=> \E k \in Jobs : p \in PidsOf(table, k)
  BY DEF Known
<1>2. \A p : p \in Known' <=> \E k \in Jobs : p \in PidsOf(table', k)
  BY DEF Known, PidsOf
<1>3. QED
  BY <1>1, <1>2 DEF PidsOf

\* No process changes, and records go only with their job.
LEMMA RecordsKept ==
  ASSUME JobsInv, Sound(table'), UNCHANGED <<os, news>>,
         \A j \in Jobs : \/ table'.jobtab[j].procs = <<>>
                         \/ table'.jobtab[j].procs = table.jobtab[j].procs
  PROVE  EntriesInv'
<1>1. ASSUME NEW j \in Jobs
      PROVE  /\ FlagsInv(table.jobtab[j])'
             /\ (\A i \in DOMAIN table.jobtab[j].procs : RecordInv(table.jobtab[j].procs[i]))'
  <2>1. FlagsInv(table.jobtab[j])'
    BY DEF Sound, FlagsInv
  <2>2. CASE table'.jobtab[j].procs = <<>>
    BY <2>1, <2>2, FreeEntryType
  <2>3. CASE table'.jobtab[j].procs = table.jobtab[j].procs
    BY <2>1, <2>3 DEF JobsInv, EntriesInv, RecordInv
  <2>4. QED
    BY <2>2, <2>3
<1>2. QED
  BY <1>1 DEF EntriesInv

\* A record with an end stands for no child.
LEMMA EndedIsGone ==
  ASSUME JobsInv, NEW j \in Jobs, NEW i \in DOMAIN table.jobtab[j].procs
  PROVE  /\ table.jobtab[j].procs[i].pid \in Pids
         /\ table.jobtab[j].procs[i].pid \in Known
         /\ table.jobtab[j].procs[i].pid \in PidsOf(table, j)
         /\ table.jobtab[j].procs[i].status \in Exits <=> os[table.jobtab[j].procs[i].pid] = "none"
<1>1. table.jobtab[j].procs[i].pid \in Pids
  BY Places, Statuses1
<1>2. QED
  BY <1>1 DEF Known, PidsOf, JobsInv, EntriesInv, RecordInv

\* A process that is taken out of the table is gone or given away.
LEMMA PidsKept ==
  ASSUME JobsInv, UNCHANGED <<os, cmdout.pid>>,
         \A j \in Jobs :
           \/ /\ table'.jobtab[j].procs = <<>>
              /\ \A i \in DOMAIN table.jobtab[j].procs :
                   \/ os[table.jobtab[j].procs[i].pid] = "none"
                   \/ table.jobtab[j].procs[i].pid \in disowned'
           \/ table'.jobtab[j].procs = table.jobtab[j].procs,
         \A p \in Pids : os[p] # "none" /\ p \in disowned \cup Substitution =>
                           p \in disowned' \cup Substitution'
  PROVE  PidsInv'
<1>1. ASSUME NEW j \in Jobs, NEW i \in DOMAIN table'.jobtab[j].procs
      PROVE  table'.jobtab[j].procs = table.jobtab[j].procs
  BY <1>1, FreeEntryType
<1>2. \A j, k \in Jobs : \A i \in DOMAIN table'.jobtab[j].procs, l \in DOMAIN table'.jobtab[k].procs :
        table'.jobtab[j].procs[i].pid = table'.jobtab[k].procs[l].pid => j = k /\ i = l
  BY <1>1 DEF JobsInv, PidsInv
<1>3. Known' \subseteq Known
  BY <1>1 DEF Known, PidsOf
<1>4. \A p \in Known : p \in Known' \/ os[p] = "none" \/ p \in disowned'
  <2> SUFFICES ASSUME NEW j \in Jobs, NEW i \in DOMAIN table.jobtab[j].procs
               PROVE  LET p == table.jobtab[j].procs[i].pid
                      IN  p \in Known' \/ os[p] = "none" \/ p \in disowned'
    BY DEF Known, PidsOf
  <2>1. CASE table'.jobtab[j].procs = table.jobtab[j].procs
    BY <2>1 DEF Known, PidsOf
  <2>2. CASE table'.jobtab[j].procs # table.jobtab[j].procs
    BY <2>2
  <2>3. QED
    BY <2>1, <2>2
<1>5. cmdout.pid # NoPid =>
        /\ cmdout.pid \notin Known' /\ os[cmdout.pid] # "none"
        /\ cmdout.pid \in disowned' \cup Substitution'
  BY <1>3, Places DEF JobsInv, PidsInv
<1>6. \A p \in Pids : os[p] # "none" => p \in Known' \cup disowned' \cup Substitution'
  BY <1>4 DEF JobsInv, PidsInv
<1>7. cmdout'.pid = cmdout.pid /\ os' = os
  OBVIOUS
<1>8. QED
  BY <1>2, <1>5, <1>6, <1>7 DEF PidsInv

LEMMA PidsReduced ==
  ASSUME JobsInv, UNCHANGED <<os, cmdout, disowned>>, Reduced(table, table'),
         \A p \in Pids : os[p] # "none" /\ p \in Substitution => p \in Substitution'
  PROVE  PidsInv'
<1>1. ASSUME NEW j \in Jobs
      PROVE  \/ /\ table'.jobtab[j].procs = <<>>
                /\ \A i \in DOMAIN table.jobtab[j].procs :
                     \/ os[table.jobtab[j].procs[i].pid] = "none"
                     \/ table.jobtab[j].procs[i].pid \in disowned'
             \/ table'.jobtab[j].procs = table.jobtab[j].procs
  BY EndedIsGone DEF Reduced
<1>2. QED
  BY <1>1, PidsKept

\* A step of the main program that leaves table and children alone.
LEMMA Quiet ==
  ASSUME JobsInv, UNCHANGED <<table, os, news, cmdout, disowned>>,
         shell'.command = shell.command, shell'.sub = shell.sub
  PROVE  EntriesInv' /\ PidsInv'
<1>1. Reduced(table, table')
  BY Places DEF Reduced
<1>2. EntriesInv'
  BY <1>1, RecordsKept DEF Reduced
<1>3. PidsInv'
  BY <1>1, PidsReduced DEF Substitution
<1>4. QED
  BY <1>2, <1>3

\* The main program goes to preprompt: no place is left without processes.
LEMMA AtPreprompt ==
  ASSUME JobsInv, Sound(table'), shell' = Preprompt, handler' = handler, sigchld' = sigchld,
         \A j \in Jobs : Stat(table', j) # {} => table'.jobtab[j].procs # <<>>
  PROVE  PlacesInv' /\ ResultInv' /\ table' \in Tables /\ shell' \in Shells
<1>1. shell' \in Shells
  <2>1. /\ None \in Jobs \cup {None} /\ NoPid \in Pids \cup {NoPid} /\ 0 \in 0 .. MaxPipe
        /\ FALSE \in BOOLEAN /\ "none" \in {"none", "run", "async", "disown"} \cup Builtins
    BY JobsAssumption
  <2>2. shell' = [pc |-> "scan", command |-> "none", job |-> None, own |-> None, left |-> 0,
                  sub |-> NoPid, errflag |-> FALSE]
    BY DEF Preprompt, AtPrompt
  <2>3. QED
    BY <2>1, <2>2 DEF Shells
<1>2. /\ shell'.pc = "scan" /\ shell'.command = "none" /\ shell'.job = None /\ shell'.sub = NoPid
      /\ shell'.own = None
  BY DEF Preprompt, AtPrompt
<1>3. PlacesInv'
  <2>1. \A j \in Jobs : Stat(table, j)' # {} /\ table'.jobtab[j].procs = <<>> => j \in Unfilled'
    BY DEF Stat
  <2>2. QED
    BY <1>2, <2>1 DEF PlacesInv, Builtins
<1>4. ResultInv'
  BY <1>2 DEF ResultInv
<1>5. QED
  BY <1>1, <1>3, <1>4 DEF Sound

-----------------------------------------------------------------------------
(* The steps that leave table and children alone.                          *)

LEMMA QuietStep ==
  ASSUME JobsInv, UNCHANGED <<table, os, news, cmdout, disowned>>,
         shell' \in Shells, shell'.command = shell.command, shell'.sub = shell.sub,
         handler' \in BOOLEAN, sigchld' \in BOOLEAN, news # {} => sigchld' \/ handler',
         PlacesInv', ResultInv'
  PROVE  JobsInv'
<1>1. EntriesInv' /\ PidsInv'
  BY Quiet
<1>2. TypeOK'
  BY DEF JobsInv, TypeOK
<1>3. ChildrenInv'
  BY DEF JobsInv, ChildrenInv
<1>4. QED
  BY <1>1, <1>2, <1>3 DEF JobsInv

LEMMA CatchStep ==
  ASSUME JobsInv, Catch
  PROVE  JobsInv'
<1>1. /\ shell \in Shells /\ shell' = [shell EXCEPT !.pc = shell'.pc]
      /\ shell'.pc = CASE shell.pc = "suspended" -> "loop" [] shell.pc = "pidwait" -> "pidloop"
                       [] OTHER -> shell.pc
  BY Places DEF Catch, Goto, Shells
<1>2. /\ shell' \in Shells /\ shell'.command = shell.command /\ shell'.job = shell.job
      /\ shell'.own = shell.own /\ shell'.sub = shell.sub
  BY <1>1 DEF Shells
<1>3. /\ shell.pc = "suspended" => shell'.pc = "loop"
      /\ shell.pc = "pidwait" => shell'.pc = "pidloop"
      /\ shell.pc \notin {"suspended", "pidwait"} => shell'.pc = shell.pc
  BY <1>1
<1>4. PlacesInv'
  BY <1>2, <1>3 DEF Catch, JobsInv, PlacesInv, Unfilled, Stat, PidsOf
<1>5. ResultInv'
  BY <1>2, <1>3 DEF Catch, JobsInv, ResultInv
<1>6. QED
  BY <1>2, <1>4, <1>5, QuietStep DEF Catch

LEMMA HandlerEndsStep ==
  ASSUME JobsInv, HandlerEnds
  PROVE  JobsInv'
<1>1. PlacesInv' /\ ResultInv'
  BY DEF HandlerEnds, children, JobsInv, PlacesInv, ResultInv, Unfilled, Stat, PidsOf, Unfinished
<1>2. QED
  BY <1>1, QuietStep, Places DEF HandlerEnds, children

LEMMA ForkFailsStep ==
  ASSUME JobsInv, ForkFails
  PROVE  JobsInv'
<1>1. /\ shell' \in Shells /\ shell'.command = shell.command /\ shell'.job = shell.job
      /\ shell'.own = shell.own /\ shell'.sub = shell.sub /\ shell'.pc = shell.pc
  <2>1. 0 \in 0 .. MaxPipe /\ TRUE \in BOOLEAN
    BY JobsAssumption
  <2>2. shell \in Shells /\ shell' = [shell EXCEPT !.left = 0, !.errflag = TRUE]
    BY Places DEF ForkFails
  <2>3. QED
    BY <2>1, <2>2 DEF Shells
<1>2. PlacesInv' /\ ResultInv'
  BY <1>1 DEF ForkFails, At, children, JobsInv, PlacesInv, ResultInv, Unfilled, Stat, PidsOf
<1>3. QED
  BY <1>1, <1>2, QuietStep, Places DEF ForkFails, children, JobsInv, ChildrenInv

LEMMA StartedStep ==
  ASSUME JobsInv, Started, shell.command = "run"
  PROVE  JobsInv'
<1>1. /\ shell' = [shell EXCEPT !.pc = "wait", !.job = table.thisjob]
      /\ UNCHANGED <<table, handler, children, cmdout, disowned, result>>
      /\ shell.pc = "build" /\ shell.job = None
  BY DEF Started, At, JobsInv, PlacesInv
<1>2. /\ shell' \in Shells /\ shell'.command = shell.command /\ shell'.job = table.thisjob
      /\ shell'.own = shell.own /\ shell'.sub = shell.sub /\ shell'.pc = "wait"
  BY <1>1, Places, TableParts DEF Shells
<1>3. table.thisjob \in Jobs /\ table.thisjob # None /\ result = "none" /\ shell.sub = NoPid
  BY <1>1 DEF JobsInv, PlacesInv, ResultInv, Jobs, None
<1>4. PlacesInv' /\ ResultInv'
  BY <1>1, <1>2, <1>3
  DEF children, JobsInv, PlacesInv, ResultInv, Unfilled, Stat, PidsOf, Builtins
<1>5. QED
  BY <1>1, <1>2, <1>4, QuietStep, Places DEF children, JobsInv, ChildrenInv

LEMMA LoopStep ==
  ASSUME JobsInv, Loop
  PROVE  JobsInv'
<1>1. /\ shell.pc = "loop" /\ ~handler
      /\ UNCHANGED <<table, handler, children, cmdout, disowned, result>>
      /\ \/ shell' = [shell EXCEPT !.pc = "waited"]
         \/ shell' = [shell EXCEPT !.pc = "suspended"] /\ Unfinished(shell.job)
  BY DEF Loop, At, Goto
<1>2. /\ shell' \in Shells /\ shell'.command = shell.command /\ shell'.job = shell.job
      /\ shell'.own = shell.own /\ shell'.sub = shell.sub
      /\ \/ shell'.pc = "waited"
         \/ shell'.pc = "suspended" /\ Unfinished(shell.job)
  <2>1. CASE shell' = [shell EXCEPT !.pc = "waited"]
    BY <2>1, Places DEF Shells
  <2>2. CASE shell' = [shell EXCEPT !.pc = "suspended"] /\ Unfinished(shell.job)
    BY <2>2, Places DEF Shells
  <2>3. QED
    BY <1>1, <2>1, <2>2
<1>3. PlacesInv' /\ ResultInv'
  BY <1>1, <1>2 DEF children, JobsInv, PlacesInv, ResultInv, Unfilled, Stat, PidsOf, Unfinished
<1>4. QED
  BY <1>1, <1>2, <1>3, QuietStep, Places DEF children, JobsInv, ChildrenInv

LEMMA StartPidWaitStep ==
  ASSUME JobsInv, StartPidWait
  PROVE  JobsInv'
<1>1. /\ shell.pc = "wait" /\ shell.sub # NoPid
      /\ UNCHANGED <<table, handler, children, cmdout, disowned, result>>
      /\ \/ shell' = [shell EXCEPT !.pc = "pidwait"]
         \/ shell' = [shell EXCEPT !.pc = "pidloop"]
  BY DEF StartPidWait, At, Goto
<1>2. /\ shell' \in Shells /\ shell'.command = shell.command /\ shell'.job = shell.job
      /\ shell'.own = shell.own /\ shell'.sub = shell.sub /\ shell'.pc \in {"pidwait", "pidloop"}
  BY <1>1, Places DEF Shells
<1>3. shell.job = None
  BY <1>1 DEF JobsInv, PlacesInv
<1>4. PlacesInv' /\ ResultInv'
  BY <1>1, <1>2, <1>3 DEF children, JobsInv, PlacesInv, ResultInv, Unfilled, Stat, PidsOf
<1>5. QED
  BY <1>1, <1>2, <1>4, QuietStep, Places DEF children, JobsInv, ChildrenInv

LEMMA InterruptStep ==
  ASSUME JobsInv, Interrupt
  PROVE  JobsInv'
<1>1. /\ UNCHANGED <<table, handler, children, cmdout, disowned, result>>
      /\ \/ shell.pc = "pidwait" /\ shell' = [shell EXCEPT !.pc = "pidloop", !.errflag = TRUE]
         \/ shell.pc = "suspended" /\ shell' = [shell EXCEPT !.pc = "loop", !.errflag = TRUE]
  BY DEF Interrupt
<1>2. /\ shell' \in Shells /\ shell'.command = shell.command /\ shell'.job = shell.job
      /\ shell'.own = shell.own /\ shell'.sub = shell.sub
      /\ \/ shell.pc = "pidwait" /\ shell'.pc = "pidloop"
         \/ shell.pc = "suspended" /\ shell'.pc = "loop"
  BY <1>1, Places DEF Shells
<1>3. PlacesInv' /\ ResultInv'
  BY <1>1, <1>2 DEF children, JobsInv, PlacesInv, ResultInv, Unfilled, Stat, PidsOf
<1>4. QED
  BY <1>1, <1>2, <1>3, QuietStep, Places DEF children, JobsInv, ChildrenInv

LEMMA ScanStep ==
  ASSUME JobsInv, Scan
  PROVE  JobsInv'
<1>1. /\ shell.pc = "scan" /\ ~handler /\ result' = "none"
      /\ UNCHANGED <<table, handler, children, cmdout, disowned>>
      /\ shell.command = "none" /\ shell.sub = NoPid
  BY DEF Scan, At, JobsInv, PlacesInv
<1>2. /\ shell' \in Shells /\ shell'.command = "none" /\ shell'.sub = NoPid
      /\ \/ shell'.pc = "prompt" /\ shell'.job = None
         \/ shell'.pc \in {"scan", "printed"} /\ shell'.job # None
  <2>1. CASE NOTIFY \/ shell.job = MAXJOB - 1
    <3>1. shell' = AtPrompt
      BY <2>1 DEF Scan
    <3>2. /\ None \in Jobs \cup {None} /\ NoPid \in Pids \cup {NoPid} /\ 0 \in 0 .. MaxPipe
          /\ FALSE \in BOOLEAN /\ "none" \in {"none", "run", "async", "disown"} \cup Builtins
      BY JobsAssumption
    <3>3. shell' \in Shells
      BY <3>1, <3>2 DEF AtPrompt, Shells
    <3>4. QED
      BY <3>1, <3>3 DEF AtPrompt
  <2>2. CASE ~(NOTIFY \/ shell.job = MAXJOB - 1)
    <3>1. shell.job + 1 \in Jobs /\ shell.job + 1 # None
      BY <2>2, Places, JobsAssumption DEF Shells, Jobs, None
    <3>2. \/ shell' = [shell EXCEPT !.job = @ + 1, !.pc = "printed"]
          \/ shell' = [shell EXCEPT !.job = @ + 1, !.pc = "scan"]
      BY <2>2 DEF Scan
    <3>3. QED
      BY <1>1, <3>1, <3>2, Places DEF Shells
  <2>3. QED
    BY <2>1, <2>2
<1>3. PlacesInv' /\ ResultInv'
  <2>1. Unfilled = {} /\ Unfilled' = {}
    BY <1>1, <1>2 DEF Unfilled, Builtins
  <2>2. QED
    BY <1>1, <1>2, <2>1 DEF children, JobsInv, PlacesInv, ResultInv, Stat, Builtins
<1>4. QED
  BY <1>1, <1>2, <1>3, QuietStep, Places DEF children, JobsInv, ChildrenInv

-----------------------------------------------------------------------------
(* The builtins.                                                           *)

LEMMA ReducedSame ==
  ASSUME NEW t, Sound(t)
  PROVE  Reduced(t, t)
BY DEF Reduced

LEMMA TrimmedReduced ==
  ASSUME NEW t, NEW u, Trimmed(t, u)
  PROVE  Reduced(t, u)
BY FreeEntryType DEF Trimmed, Reduced

LEMMA ReducedOn ==
  ASSUME NEW t, NEW u, NEW w, Reduced(t, u), Reduced(u, w)
  PROVE  Reduced(t, w)
<1>1. ASSUME NEW j \in Jobs
      PROVE  \/ /\ w.jobtab[j].procs = <<>>
                /\ \A i \in DOMAIN t.jobtab[j].procs : t.jobtab[j].procs[i].status \in Exits
             \/ w.jobtab[j].procs = t.jobtab[j].procs
  <2>1. CASE u.jobtab[j].procs = t.jobtab[j].procs
    BY <2>1 DEF Reduced
  <2>2. CASE u.jobtab[j].procs # t.jobtab[j].procs
    BY <2>2 DEF Reduced
  <2>3. QED
    BY <2>1, <2>2
<1>2. QED
  BY <1>1 DEF Reduced

\* What bin_fg finds: no place but its own is without processes.
LEMMA BuiltinFinds ==
  ASSUME JobsInv, BeginBuiltin
  PROVE  LET t == Entered(table)
         IN  /\ Own \in Jobs /\ Reduced(table, t) /\ Sound(t) /\ t \in Tables
             /\ t.thisjob = Own /\ t.jobtab[Own].procs = <<>>
             /\ \A j \in Jobs \ {Own} : Stat(t, j) # {} => t.jobtab[j].procs # <<>>
             /\ t.curjob # None => t.curjob \in Listed(t)
             /\ shell.command = "none" /\ shell.job = None /\ shell.sub = NoPid
             /\ shell.pc = "prompt" /\ result = "none" /\ ~handler
<1> DEFINE t == Entered(table)
           s == IF NOTIFY THEN initjob(table) ELSE scanjobs(initjob(table))
<1>1. /\ FreeSlots(table) # {} /\ shell.pc = "prompt" /\ ~handler /\ shell.command = "none"
      /\ shell.job = None /\ shell.sub = NoPid /\ result = "none"
  BY DEF BeginBuiltin, At, JobsInv, PlacesInv, ResultInv
<1>2. /\ Own \in Jobs /\ Stat(table, Own) = {} /\ Reduced(table, t) /\ t.thisjob = Own
      /\ t.jobtab[Own].procs = <<>>
      /\ \A j \in Jobs \ {Own} : Stat(t, j) # {} =>
           Stat(table, j) # {} /\ t.jobtab[j].procs = table.jobtab[j].procs
  BY <1>1, EnteredTable, Places DEF Own
<1>3. Unfilled = {}
  BY <1>1 DEF Unfilled, Builtins
<1>4. \A j \in Jobs \ {Own} : Stat(t, j) # {} => t.jobtab[j].procs # <<>>
  BY <1>2, <1>3 DEF JobsInv, PlacesInv
<1>5. Sound(s)
  BY <1>1, Initjob, ScanjobsTrims, Places DEF Trimmed
<1>6. t = setcurjob(s)
  BY DEF Entered
<1>7. t.curjob # None => t.curjob \in Listed(t)
  <2> HIDE DEF s
  <2>1. t.curjob # None => t.curjob \in Jobs \ {s.thisjob} /\ "INUSE" \in Stat(s, t.curjob)
    BY <1>5, <1>6, CurjobSet
  <2>2. t.thisjob = s.thisjob /\ t.jobtab = s.jobtab
    BY <1>5, <1>6, CurjobSet DEF Renamed
  <2>3. QED
    BY <2>1, <2>2 DEF Listed, Stat
<1>8. Sound(t) /\ t \in Tables
  BY <1>2 DEF Reduced, Sound
<1>9. QED
  BY <1>1, <1>2, <1>4, <1>7, <1>8

\* The table and the place when a builtin is left.
LEMMA Leaving ==
  ASSUME JobsInv, NEW t, Sound(t), NEW own \in Jobs, NEW status \in Values,
         t.jobtab[own].procs = <<>>,
         \A j \in Jobs \ {own} : Stat(t, j) # {} => t.jobtab[j].procs # <<>>,
         LeaveBuiltin(t, own, status), UNCHANGED <<handler, sigchld>>
  PROVE  /\ Sound(table') /\ table' \in Tables /\ shell' \in Shells
         /\ PlacesInv' /\ ResultInv' /\ Substitution' = {}
         /\ \A j \in Jobs : table'.jobtab[j] = FreeEntry \/ table'.jobtab[j] = t.jobtab[j]
         /\ \A j \in Jobs : table'.jobtab[j].procs = t.jobtab[j].procs
<1>1. table' = [deletejob(t, own) EXCEPT !.thisjob = None, !.lastval = status] /\ shell' = Preprompt
  BY DEF LeaveBuiltin
<1>2. /\ Sound(table') /\ table'.jobtab[own] = FreeEntry
      /\ \A k \in Jobs \ {own} : table'.jobtab[k] = t.jobtab[k]
  <2>1. table' = Left(t, own, status)
    BY <1>1 DEF Left
  <2>2. QED
    BY <2>1, LeftTable
<1>3. \A j \in Jobs : Stat(table', j) # {} => table'.jobtab[j].procs # <<>>
  BY <1>2, FreeEntryType DEF Stat
<1>4. Substitution' = {}
  BY <1>1 DEF Substitution, Preprompt, AtPrompt
<1>5. PlacesInv' /\ ResultInv' /\ table' \in Tables /\ shell' \in Shells
  BY <1>1, <1>2, <1>3, AtPreprompt
<1>6. \A j \in Jobs : table'.jobtab[j].procs = t.jobtab[j].procs
  BY <1>2, FreeEntryType
<1>7. QED
  BY <1>2, <1>4, <1>5, <1>6

\* A builtin that starts and ends at once, or has waited.
LEMMA Leaves ==
  ASSUME JobsInv, NEW t, Reduced(table, t), NEW own \in Jobs, NEW status \in Values,
         t.jobtab[own].procs = <<>>,
         \A j \in Jobs \ {own} : Stat(t, j) # {} => t.jobtab[j].procs # <<>>,
         LeaveBuiltin(t, own, status),
         UNCHANGED <<handler, children, cmdout, disowned, result>>,
         shell.command = "run" => shell.sub = NoPid
  PROVE  JobsInv'
<1>1. /\ Sound(table') /\ table' \in Tables /\ shell' \in Shells
      /\ PlacesInv' /\ ResultInv' /\ Substitution' = {}
      /\ \A j \in Jobs : table'.jobtab[j] = FreeEntry \/ table'.jobtab[j] = t.jobtab[j]
      /\ \A j \in Jobs : table'.jobtab[j].procs = t.jobtab[j].procs
  BY Leaving DEF Reduced, children
<1>2. Reduced(table, table')
  <2>1. Reduced(t, table')
    BY <1>1 DEF Reduced
  <2>2. QED
    BY <2>1, ReducedOn
<1>3. EntriesInv'
  BY <1>2, RecordsKept DEF Reduced, children
<1>4. \A p \in Pids : ~(p \in Substitution)
  BY JobsAssumption DEF Substitution
<1>5. PidsInv'
  BY <1>2, <1>4, PidsReduced DEF children
<1>6. TypeOK' /\ ChildrenInv'
  BY <1>1 DEF JobsInv, TypeOK, ChildrenInv, children
<1>7. QED
  BY <1>1, <1>3, <1>5, <1>6 DEF JobsInv

LEMMA StatusValues == Failure \in Values /\ "ok" \in Values
<1>1. Failure \in Exits
  BY JobsAssumption DEF Failure
<1>2. QED
  BY <1>1, JobsAssumption DEF Values

LEMMA NoSuchJobStep ==
  ASSUME JobsInv, NoSuchJob
  PROVE  JobsInv'
BY BuiltinFinds, Leaves, StatusValues DEF NoSuchJob

LEMMA BgRunningStep ==
  ASSUME JobsInv, BgRunning
  PROVE  JobsInv'
BY BuiltinFinds, Leaves, StatusValues DEF BgRunning

LEMMA JobsStep ==
  ASSUME JobsInv, jobs
  PROVE  JobsInv'
<1> DEFINE t == Entered(table)
           list == CHOOSE f : f = [i \in 0 .. MAXJOB - 1 |->
                     IF i = 0 THEN t
                     ELSE IF i \in Listed(f[i - 1]) THEN printjob(f[i - 1], i) ELSE f[i - 1]]
           u == list[MAXJOB - 1]
<1>1. /\ BeginBuiltin /\ LeaveBuiltin(u, Own, "ok")
      /\ UNCHANGED <<handler, children, cmdout, disowned, result>>
  BY DEF jobs
<1>2. /\ Own \in Jobs /\ Reduced(table, t) /\ Sound(t) /\ t.jobtab[Own].procs = <<>>
      /\ \A j \in Jobs \ {Own} : Stat(t, j) # {} => t.jobtab[j].procs # <<>>
      /\ shell.command = "none"
  BY <1>1, BuiltinFinds
<1> HIDE DEF t
<1>3. Trimmed(t, u)
  BY <1>2, ListTrims
<1> HIDE DEF u
<1>4. Reduced(table, u)
  BY <1>2, <1>3, TrimmedReduced, ReducedOn
<1>5. u.jobtab[Own].procs = <<>>
  BY <1>2, <1>3, FreeEntryType DEF Trimmed
<1>6. ASSUME NEW j \in Jobs \ {Own}, Stat(u, j) # {}
      PROVE  u.jobtab[j].procs # <<>>
  <2>1. u.jobtab[j] # FreeEntry /\ "INUSE" \in u.jobtab[j].stat
    BY <1>3, <1>6, FreeEntryType DEF Trimmed, Sound, FlagsInv, Stat
  <2>2. u.jobtab[j].procs = t.jobtab[j].procs /\ "INUSE" \in t.jobtab[j].stat
    BY <1>3, <2>1 DEF Trimmed
  <2>3. QED
    BY <1>2, <2>2 DEF Stat
<1>7. QED
  BY <1>1, <1>2, <1>4, <1>5, <1>6, Leaves, StatusValues

\* What %n, %% or %- stands for is a place of the table, perhaps the builtin's own.
LEMMA NamedPlaces ==
  ASSUME NEW t \in Tables, NEW j \in Named(t)
  PROVE  j \in Jobs /\ j # None
<1>1. t.curjob \in Jobs \cup {None} /\ t.prevjob \in Jobs \cup {None}
  BY TableParts
<1>2. j \in Jobs
  BY <1>1 DEF Named, Listed
<1>3. QED
  BY <1>2, JobsAssumption DEF Jobs, None

LEMMA DisownStep ==
  ASSUME JobsInv, disown
  PROVE  JobsInv'
<1> DEFINE t == Entered(table)
<1>1. PICK j \in Named(t) : /\ LeaveBuiltin(deletejob(t, j), Own, "ok")
                            /\ disowned' = disowned \cup PidsOf(t, j)
  BY DEF disown
<1>2. BeginBuiltin /\ UNCHANGED <<handler, children, cmdout, result>>
  BY DEF disown
<1>3. /\ Own \in Jobs /\ Reduced(table, t) /\ Sound(t) /\ t \in Tables
      /\ t.thisjob = Own /\ t.jobtab[Own].procs = <<>>
      /\ \A k \in Jobs \ {Own} : Stat(t, k) # {} => t.jobtab[k].procs # <<>>
      /\ t.curjob # None => t.curjob \in Listed(t)
      /\ shell.command = "none"
  BY <1>2, BuiltinFinds
<1> HIDE DEF t
<1>4. j \in Jobs
  BY <1>1, <1>3, NamedPlaces
<1> DEFINE d == deletejob(t, j)
<1>5. /\ d \in Tables /\ d.jobtab[j] = FreeEntry
      /\ \A k \in Jobs \ {j} : d.jobtab[k] = t.jobtab[k]
  BY <1>3, <1>4, Deleted
<1> HIDE DEF d
<1>6. Sound(d)
  BY <1>3, <1>5, FreeFlags DEF Sound
<1>7. d.jobtab[Own].procs = <<>>
  BY <1>3, <1>5, FreeEntryType
<1>8. \A k \in Jobs \ {Own} : Stat(d, k) # {} => d.jobtab[k].procs # <<>>
  BY <1>3, <1>5, FreeEntryType DEF Stat
<1>9. LeaveBuiltin(d, Own, "ok") /\ UNCHANGED <<handler, sigchld>>
  BY <1>1, <1>2 DEF d, children
<1>10. /\ Sound(table') /\ table' \in Tables /\ shell' \in Shells
       /\ PlacesInv' /\ ResultInv' /\ Substitution' = {}
       /\ \A k \in Jobs : table'.jobtab[k].procs = d.jobtab[k].procs
  BY <1>3, <1>6, <1>7, <1>8, <1>9, Leaving, StatusValues
<1>11. ASSUME NEW k \in Jobs
       PROVE  \/ /\ table'.jobtab[k].procs = <<>>
                 /\ \A i \in DOMAIN table.jobtab[k].procs :
                      \/ os[table.jobtab[k].procs[i].pid] = "none"
                      \/ table.jobtab[k].procs[i].pid \in disowned'
              \/ table'.jobtab[k].procs = table.jobtab[k].procs
  <2>1. CASE t.jobtab[k].procs # table.jobtab[k].procs
    <3>1. t.jobtab[k].procs = <<>>
      BY <1>3, <2>1 DEF Reduced
    <3>2. \A i \in DOMAIN table.jobtab[k].procs : os[table.jobtab[k].procs[i].pid] = "none"
      BY <1>3, <2>1, EndedIsGone DEF Reduced
    <3>3. table'.jobtab[k].procs = <<>>
      BY <1>4, <1>5, <1>10, <3>1, FreeEntryType
    <3>4. QED
      BY <3>2, <3>3
  <2>2. CASE t.jobtab[k].procs = table.jobtab[k].procs /\ k = j
    <3>1. \A i \in DOMAIN table.jobtab[k].procs : table.jobtab[k].procs[i].pid \in disowned'
      BY <1>1, <2>2 DEF PidsOf
    <3>2. QED
      BY <1>5, <1>10, <2>2, <3>1, FreeEntryType
  <2>3. CASE t.jobtab[k].procs = table.jobtab[k].procs /\ k # j
    BY <1>5, <1>10, <2>3
  <2>4. QED
    BY <2>1, <2>2, <2>3
<1>12. EntriesInv'
  BY <1>2, <1>10, <1>11, RecordsKept DEF children
<1>13. PidsInv'
  <2>1. \A p \in Pids : os[p] # "none" /\ p \in disowned \cup Substitution =>
                          p \in disowned' \cup Substitution'
    BY <1>1, <1>3 DEF Substitution
  <2>2. QED
    BY <1>2, <1>11, <2>1, PidsKept DEF children
<1>14. disowned' \subseteq Pids
  BY <1>1, <1>3, <1>4, Places, Statuses1 DEF PidsOf
<1>15. TypeOK' /\ ChildrenInv'
  BY <1>2, <1>10, <1>14 DEF JobsInv, TypeOK, ChildrenInv, children
<1>16. QED
  BY <1>10, <1>12, <1>13, <1>15 DEF JobsInv

LEMMA PidWaitedStep ==
  ASSUME JobsInv, PidWaited
  PROVE  JobsInv'
<1>1. /\ LeaveBuiltin(table, shell.own, table.lastval2) /\ shell.command = "pid"
      /\ UNCHANGED <<handler, children, cmdout, disowned, result>>
  BY DEF PidWaited
<1>2. /\ shell.own \in Jobs /\ table.jobtab[shell.own].procs = <<>> /\ Unfilled = {shell.own}
  BY <1>1 DEF JobsInv, PlacesInv, Unfilled, Builtins
<1>3. \A j \in Jobs \ {shell.own} : Stat(table, j) # {} => table.jobtab[j].procs # <<>>
  BY <1>2 DEF JobsInv, PlacesInv
<1>4. Reduced(table, table) /\ table.lastval2 \in Values
  BY ReducedSame, Places, TableParts
<1>5. QED
  BY <1>1, <1>2, <1>3, <1>4, Leaves

\* The main program goes to wait for a job or for a process.
LEMMA Waiting ==
  ASSUME JobsInv, Sound(table'), UNCHANGED <<handler, result>>,
         shell' \in Shells, shell'.pc = "wait", shell'.command \in Builtins,
         shell'.own \in Jobs, table'.jobtab[shell'.own].procs = <<>>,
         \A j \in Jobs \ {shell'.own} : Stat(table', j) # {} => table'.jobtab[j].procs # <<>>,
         shell'.job = None <=> shell'.sub # NoPid,
         shell'.sub # NoPid => shell'.command = "pid",
         shell'.job = None => result = "none",
         shell'.command = "fg" => shell'.job = table'.thisjob /\ result = "none"
  PROVE  PlacesInv' /\ ResultInv'
<1>1. \A j \in Jobs : Stat(table, j)' # {} /\ table'.jobtab[j].procs = <<>> => j \in Unfilled'
  BY DEF Stat, Unfilled
<1>2. shell'.command \in {"fg", "wait", "all", "pid"}
  BY DEF Builtins
<1>3. PlacesInv'
  BY <1>1, <1>2 DEF PlacesInv
<1>4. ResultInv'
  BY <1>2 DEF ResultInv
<1>5. QED
  BY <1>3, <1>4

\* The same when no process is changed by it.
LEMMA Waits1 ==
  ASSUME JobsInv, Reduced(table, table'), UNCHANGED <<handler, children, cmdout, disowned, result>>,
         shell' \in Shells, shell'.pc = "wait", shell'.command \in Builtins \ {"fg"},
         shell'.own \in Jobs, table'.jobtab[shell'.own].procs = <<>>,
         \A j \in Jobs \ {shell'.own} : Stat(table', j) # {} => table'.jobtab[j].procs # <<>>,
         shell'.job = None <=> shell'.sub # NoPid,
         shell'.sub # NoPid => shell'.command = "pid",
         shell'.job = None => result = "none",
         shell.command = "run" => shell.sub = NoPid
  PROVE  JobsInv'
<1>1. Sound(table')
  BY DEF Reduced
<1>2. PlacesInv' /\ ResultInv'
  BY <1>1, Waiting
<1>3. EntriesInv'
  BY <1>1, RecordsKept DEF Reduced, children
<1>4. \A p \in Pids : ~(p \in Substitution)
  BY JobsAssumption DEF Substitution
<1>5. PidsInv'
  BY <1>4, PidsReduced DEF children
<1>6. TypeOK' /\ ChildrenInv'
  BY <1>1 DEF JobsInv, TypeOK, ChildrenInv, children, Sound
<1>7. QED
  BY <1>2, <1>3, <1>5, <1>6 DEF JobsInv

LEMMA WaitPidStep ==
  ASSUME JobsInv, WaitPid
  PROVE  JobsInv'
<1> DEFINE t == Entered(table)
<1>0. PICK j \in Listed(t) : \E p \in PidsOf(t, j) :
        shell' = [shell EXCEPT !.pc = "wait", !.command = "pid", !.sub = p, !.own = Own]
  BY DEF WaitPid
<1>1. PICK p \in PidsOf(t, j) :
        shell' = [shell EXCEPT !.pc = "wait", !.command = "pid", !.sub = p, !.own = Own]
  BY <1>0
<1>2. BeginBuiltin /\ table' = t /\ UNCHANGED <<handler, children, cmdout, disowned, result>>
  BY DEF WaitPid
<1>3. /\ Own \in Jobs /\ Reduced(table, t) /\ Sound(t) /\ t \in Tables
      /\ t.jobtab[Own].procs = <<>>
      /\ \A k \in Jobs \ {Own} : Stat(t, k) # {} => t.jobtab[k].procs # <<>>
      /\ shell.command = "none" /\ shell.job = None /\ result = "none"
  BY <1>2, BuiltinFinds
<1> HIDE DEF t
<1>4. p \in Pids /\ p # NoPid
  <2>1. j \in Jobs
    BY DEF Listed
  <2>2. p \in Pids
    BY <1>3, <2>1, Statuses1 DEF PidsOf
  <2>3. QED
    BY <2>2, JobsAssumption
<1>5. /\ shell' \in Shells /\ shell'.pc = "wait" /\ shell'.command = "pid" /\ shell'.sub = p
      /\ shell'.own = Own /\ shell'.job = None
  BY <1>1, <1>3, <1>4, Places DEF Shells, Builtins
<1>6. QED
  BY <1>2, <1>3, <1>4, <1>5, Waits1 DEF Builtins

\* wait without argument goes on with the next job, or is over.
LEMMA WaitNextStep ==
  ASSUME JobsInv, NEW t, Reduced(table, t), NEW own \in Jobs, NEW from,
         t.jobtab[own].procs = <<>>,
         \A j \in Jobs \ {own} : Stat(t, j) # {} => t.jobtab[j].procs # <<>>,
         WaitNext(t, own, from), UNCHANGED <<handler, children, cmdout, disowned, result>>,
         shell.sub = NoPid
  PROVE  JobsInv'
<1> DEFINE rest == {j \in Listed(t) : j > from}
<1>1. CASE rest = {}
  <2>1. LeaveBuiltin(t, own, "ok")
    BY <1>1 DEF WaitNext
  <2>2. QED
    BY <2>1, Leaves, StatusValues
<1>2. CASE rest # {}
  <2>1. /\ table' = t
        /\ shell' = [shell EXCEPT !.pc = "wait", !.command = "all", !.job = Lowest(rest), !.own = own]
    BY <1>2 DEF WaitNext
  <2>2. rest \subseteq Jobs
    BY DEF Listed
  <2>3. Lowest(rest) \in Jobs /\ Lowest(rest) # None
    <3> HIDE DEF rest
    <3>1. Lowest(rest) \in Jobs
      BY <1>2, <2>2, LowestIn
    <3>2. QED
      BY <3>1, JobsAssumption DEF Jobs, None
  <2>4. /\ shell' \in Shells /\ shell'.pc = "wait" /\ shell'.command = "all" /\ shell'.sub = NoPid
        /\ shell'.own = own /\ shell'.job # None
    <3> HIDE DEF rest
    <3>1. QED
      BY <2>1, <2>3, Places DEF Shells, Builtins
  <2>5. QED
    BY <2>1, <2>4, Waits1 DEF Builtins
<1>3. QED
  BY <1>1, <1>2

LEMMA WaitAllStep ==
  ASSUME JobsInv, WaitAll
  PROVE  JobsInv'
BY BuiltinFinds, WaitNextStep DEF WaitAll

LEMMA WaitedStep ==
  ASSUME JobsInv, Waited
  PROVE  JobsInv'
<1>1. /\ shell.pc = "waited" /\ shell.sub = NoPid
      /\ UNCHANGED <<handler, children, cmdout, disowned, result>>
      /\ shell.command \in {"run"} \cup Builtins
  BY Places DEF Waited, At, JobsInv, PlacesInv, Shells
<1>2. Reduced(table, table) /\ table.lastval2 \in Values /\ table \in Tables /\ Sound(table)
  BY ReducedSame, Places, TableParts
<1>3. CASE shell.command = "run"
  <2>1. table' = [table EXCEPT !.thisjob = None] /\ shell' = Preprompt
    BY <1>3 DEF Waited
  <2>2. table' \in Tables /\ table'.jobtab = table.jobtab
    BY <1>2, <2>1 DEF Tables
  <2>3. Sound(table') /\ Reduced(table, table')
    BY <1>2, <2>2 DEF Sound, Reduced
  <2>4. Unfilled = {}
    BY <1>1, <1>3 DEF Unfilled, Builtins
  <2>5. \A j \in Jobs : Stat(table', j) # {} => table'.jobtab[j].procs # <<>>
    BY <2>2, <2>4 DEF Stat, JobsInv, PlacesInv
  <2>6. PlacesInv' /\ ResultInv' /\ shell' \in Shells
    BY <1>1, <2>1, <2>3, <2>5, AtPreprompt DEF children
  <2>7. EntriesInv'
    BY <1>1, <2>3, RecordsKept DEF Reduced, children
  <2>8. \A p \in Pids : ~(p \in Substitution)
    BY <1>1, JobsAssumption DEF Substitution
  <2>9. PidsInv'
    BY <1>1, <2>3, <2>8, PidsReduced DEF children
  <2>10. TypeOK' /\ ChildrenInv'
    BY <1>1, <2>2, <2>6 DEF JobsInv, TypeOK, ChildrenInv, children
  <2>11. QED
    BY <2>6, <2>7, <2>9, <2>10 DEF JobsInv
<1>4. CASE shell.command \in Builtins
  <2>1. /\ shell.own \in Jobs /\ table.jobtab[shell.own].procs = <<>> /\ Unfilled = {shell.own}
    BY <1>4 DEF JobsInv, PlacesInv, Unfilled
  <2>2. \A j \in Jobs \ {shell.own} : Stat(table, j) # {} => table.jobtab[j].procs # <<>>
    BY <2>1 DEF JobsInv, PlacesInv
  <2>3. CASE shell.command = "all"
    <3>1. WaitNext(table, shell.own, shell.job)
      BY <2>3 DEF Waited
    <3>2. QED
      BY <1>1, <1>2, <2>1, <2>2, <3>1, WaitNextStep
  <2>4. CASE shell.command # "all"
    <3>1. LeaveBuiltin(table, shell.own, table.lastval2)
      BY <1>4, <2>4 DEF Waited, Builtins
    <3>2. QED
      BY <1>1, <1>2, <2>1, <2>2, <3>1, Leaves
  <2>5. QED
    BY <2>3, <2>4
<1>5. QED
  BY <1>1, <1>3, <1>4

\* SIGCONT to the processes of a stopped job, which count as running again.
LEMMA Woken ==
  ASSUME JobsInv, NEW pids \in SUBSET Pids, Continue(pids)
  PROVE  /\ os' \in [Pids -> Values \cup {"none", "running"}] /\ news' \subseteq Pids
         /\ \A p \in Pids : os'[p] = IF p \in pids /\ os[p] = "stopped" THEN "running" ELSE os[p]
         /\ \A p \in Pids : p \in news' <=> p \in news /\ ~(p \in pids /\ os[p] = "stopped")
         /\ \A p \in Pids : os'[p] = "none" <=> os[p] = "none"
         /\ news' \subseteq news
<1>1. /\ os' = [p \in Pids |-> IF p \in {q \in pids : os[q] = "stopped"} THEN "running" ELSE os[p]]
      /\ news' = news \ {q \in pids : os[q] = "stopped"}
  BY DEF Continue
<1>2. QED
  BY <1>1, Places

LEMMA ChildrenWoken ==
  ASSUME JobsInv, NEW pids \in SUBSET Pids, Continue(pids), UNCHANGED <<sigchld, handler>>
  PROVE  ChildrenInv'
<1>1. /\ \A p \in Pids : os'[p] = IF p \in pids /\ os[p] = "stopped" THEN "running" ELSE os[p]
      /\ \A p \in Pids : p \in news' <=> p \in news /\ ~(p \in pids /\ os[p] = "stopped")
      /\ news' \subseteq news /\ news \subseteq Pids
  BY Woken, Places
<1>2. "running" \notin Exits
  BY JobsAssumption
<1>3. QED
  BY <1>1, <1>2 DEF JobsInv, ChildrenInv

\* makerunning keeps the flags right.
LEMMA MadeRunningSound ==
  ASSUME NEW t, Sound(t), NEW j \in Jobs
  PROVE  Sound(makerunning(t, j))
<1> DEFINE u == makerunning(t, j)
<1>1. /\ u \in Tables
      /\ \A k \in Jobs \ {j} : u.jobtab[k] = t.jobtab[k]
      /\ u.jobtab[j].stat = t.jobtab[j].stat \ {"STOPPED"}
      /\ DOMAIN u.jobtab[j].procs = DOMAIN t.jobtab[j].procs
      /\ \A i \in DOMAIN t.jobtab[j].procs :
           u.jobtab[j].procs[i].status = IF t.jobtab[j].procs[i].status = "stopped"
             THEN "running" ELSE t.jobtab[j].procs[i].status
  BY MadeRunning DEF Sound
<1> HIDE DEF u
<1>2. FlagsInv(t.jobtab[j]) /\ t.jobtab[j].procs \in Seq(Processes)
  BY TableParts DEF Sound
<1>3. u.jobtab[j].procs \in Seq(Processes)
  BY <1>1, TableParts
<1>4. u.jobtab[j].procs = <<>> <=> t.jobtab[j].procs = <<>>
  BY <1>1, <1>2, <1>3
<1>5. "stopped" \notin Exits
  BY JobsAssumption
<1>6. FlagsInv(u.jobtab[j])
  BY <1>1, <1>2, <1>4, <1>5 DEF FlagsInv
<1>7. Sound(u)
  BY <1>1, <1>6 DEF Sound
<1>8. QED
  BY <1>7 DEF u

\* The records and the children after fg, bg or wait has continued job j.
LEMMA Continued ==
  ASSUME JobsInv, NEW t, Reduced(table, t), NEW j \in Jobs, Continue(PidsOf(t, j)),
         Reduced(makerunning(t, j), table'), UNCHANGED <<sigchld, handler, cmdout, disowned>>,
         Substitution = {NoPid} \/ Substitution = {}
  PROVE  EntriesInv' /\ PidsInv' /\ ChildrenInv'
<1> DEFINE m == makerunning(t, j)
<1>1. Sound(t) /\ t \in Tables
  BY DEF Reduced, Sound
<1>2. PidsOf(t, j) \in SUBSET Pids
  BY <1>1, Statuses1 DEF PidsOf
<1>3. /\ \A p \in Pids : os'[p] = IF p \in PidsOf(t, j) /\ os[p] = "stopped" THEN "running" ELSE os[p]
      /\ \A p \in Pids : p \in news' <=> p \in news /\ ~(p \in PidsOf(t, j) /\ os[p] = "stopped")
      /\ \A p \in Pids : os'[p] = "none" <=> os[p] = "none"
  BY <1>2, Woken
<1>4. /\ \A k \in Jobs \ {j} : m.jobtab[k] = t.jobtab[k]
      /\ DOMAIN m.jobtab[j].procs = DOMAIN t.jobtab[j].procs
      /\ \A i \in DOMAIN t.jobtab[j].procs :
           /\ m.jobtab[j].procs[i].pid = t.jobtab[j].procs[i].pid
           /\ m.jobtab[j].procs[i].status = IF t.jobtab[j].procs[i].status = "stopped"
                THEN "running" ELSE t.jobtab[j].procs[i].status
  BY <1>1, MadeRunning
<1> HIDE DEF m
<1>5. ASSUME NEW k \in Jobs, NEW i \in DOMAIN table'.jobtab[k].procs
      PROVE  /\ table'.jobtab[k].procs = m.jobtab[k].procs
             /\ t.jobtab[k].procs = table.jobtab[k].procs
             /\ i \in DOMAIN table.jobtab[k].procs
             /\ table'.jobtab[k].procs[i].pid = table.jobtab[k].procs[i].pid
             /\ table'.jobtab[k].procs[i].status =
                  IF k = j /\ table.jobtab[k].procs[i].status = "stopped"
                  THEN "running" ELSE table.jobtab[k].procs[i].status
  <2>1. table'.jobtab[k].procs = m.jobtab[k].procs
    BY <1>5 DEF Reduced, m
  <2>2. i \in DOMAIN t.jobtab[k].procs
    BY <1>4, <1>5, <2>1
  <2>3. t.jobtab[k].procs = table.jobtab[k].procs
    BY <2>2 DEF Reduced
  <2>4. QED
    BY <1>4, <2>1, <2>2, <2>3
<1>6. ASSUME NEW k \in Jobs
      PROVE  (/\ FlagsInv(table.jobtab[k])
              /\ \A i \in DOMAIN table.jobtab[k].procs : RecordInv(table.jobtab[k].procs[i]))'
  <2>1. FlagsInv(table.jobtab[k])'
    BY DEF Reduced, Sound, FlagsInv
  <2>2. ASSUME NEW i \in DOMAIN table'.jobtab[k].procs
        PROVE  RecordInv(table.jobtab[k].procs[i])'
    <3> DEFINE old == table.jobtab[k].procs[i]
               new == table'.jobtab[k].procs[i]
    <3>1. /\ i \in DOMAIN table.jobtab[k].procs /\ t.jobtab[k].procs = table.jobtab[k].procs
          /\ new.pid = old.pid
          /\ new.status = IF k = j /\ old.status = "stopped" THEN "running" ELSE old.status
      BY <1>5, <2>2
    <3>2. /\ old.pid \in Pids /\ (old.status \in Exits <=> os[old.pid] = "none")
          /\ old.pid \notin news /\ old.status = "running" => os[old.pid] = "running"
          /\ old.pid \notin news /\ old.status = "stopped" => os[old.pid] \in {"stopped", "running"}
          /\ old.pid \in news => os[old.pid] \in Values
      BY <3>1, EndedIsGone DEF JobsInv, EntriesInv, RecordInv, ChildrenInv
    <3>3. "stopped" \notin Exits /\ "running" \notin Exits
      BY JobsAssumption
    <3>4. k = j => old.pid \in PidsOf(t, j)
      BY <3>1 DEF PidsOf
    <3> HIDE DEF old, new
    <3>5. /\ new.status \in Exits <=> os'[new.pid] = "none"
          /\ new.pid \notin news' /\ new.status = "running" => os'[new.pid] = "running"
          /\ new.pid \notin news' /\ new.status = "stopped" => os'[new.pid] \in {"stopped", "running"}
      BY <1>3, <3>1, <3>2, <3>3, <3>4
    <3>6. QED
      BY <3>5 DEF RecordInv, new
  <2>3. QED
    BY <2>1, <2>2
<1>7. EntriesInv'
  BY <1>6 DEF EntriesInv
<1>8. ChildrenInv'
  BY <1>2, ChildrenWoken
<1>9. \A k, n \in Jobs : \A i \in DOMAIN table'.jobtab[k].procs, l \in DOMAIN table'.jobtab[n].procs :
        table'.jobtab[k].procs[i].pid = table'.jobtab[n].procs[l].pid => k = n /\ i = l
  BY <1>5 DEF JobsInv, PidsInv
<1>10. Known' \subseteq Known
  <2> SUFFICES ASSUME NEW k \in Jobs, NEW i \in DOMAIN table'.jobtab[k].procs
               PROVE  table'.jobtab[k].procs[i].pid \in Known
    BY KnownPids
  <2>1. QED
    BY <1>5, EndedIsGone
<1>11. \A p \in Known : p \in Known' \/ os[p] = "none"
  <2> SUFFICES ASSUME NEW k \in Jobs, NEW i \in DOMAIN table.jobtab[k].procs,
                      os[table.jobtab[k].procs[i].pid] # "none"
               PROVE  table.jobtab[k].procs[i].pid \in Known'
    BY KnownPids
  <2>1. table.jobtab[k].procs[i].status \notin Exits
    BY EndedIsGone
  <2>2. t.jobtab[k].procs = table.jobtab[k].procs
    BY <2>1 DEF Reduced
  <2>3. i \in DOMAIN m.jobtab[k].procs /\ m.jobtab[k].procs[i].status \notin Exits
        /\ m.jobtab[k].procs[i].pid = table.jobtab[k].procs[i].pid
    BY <1>4, <2>1, <2>2, JobsAssumption
  <2>4. table'.jobtab[k].procs = m.jobtab[k].procs
    BY <2>3 DEF Reduced, m
  <2>5. QED
    BY <2>3, <2>4, KnownPids
<1>12. PidsInv'
  <2>1. \A p \in Pids : p \notin Substitution
    BY JobsAssumption
  <2>2. cmdout.pid # NoPid => /\ cmdout.pid \notin Known' /\ os'[cmdout.pid] # "none"
                              /\ cmdout.pid \in disowned
    BY <1>3, <1>10, <2>1, Places DEF JobsInv, PidsInv
  <2>3. \A p \in Pids : os'[p] # "none" => p \in Known' \cup disowned
    BY <1>3, <1>11, <2>1 DEF JobsInv, PidsInv
  <2>4. QED
    BY <1>9, <2>2, <2>3 DEF PidsInv
<1>13. QED
  BY <1>7, <1>8, <1>12

\* The table after fg, bg or wait has taken job j on.
LEMMA ResumedTable ==
  ASSUME NEW t, Sound(t), NEW j \in Jobs, NEW own \in Jobs, NEW command,
         t.jobtab[own].procs = <<>>,
         \A k \in Jobs \ {own} : Stat(t, k) # {} => t.jobtab[k].procs # <<>>
  PROVE  LET m == IF "STOPPED" \in Stat(t, j) THEN makerunning(t, j) ELSE t
             r == Resumed(t, j, command)
         IN  /\ Reduced(m, r) /\ r \in Tables /\ r.jobtab[own].procs = <<>>
             /\ \A k \in Jobs \ {own} : Stat(r, k) # {} => r.jobtab[k].procs # <<>>
<1> DEFINE m == IF "STOPPED" \in Stat(t, j) THEN makerunning(t, j) ELSE t
           u == shuffle(m, j, command)
           r == Resumed(t, j, command)
<1>1. t \in Tables
  BY DEF Sound
<1>2. Sound(m)
  BY MadeRunningSound
<1>3. /\ \A k \in Jobs \ {j} : m.jobtab[k] = t.jobtab[k]
      /\ m.jobtab[j].stat \subseteq t.jobtab[j].stat
      /\ DOMAIN m.jobtab[j].procs = DOMAIN t.jobtab[j].procs
  BY <1>1, MadeRunning
<1>4. r = IF command = "wait" THEN u ELSE printjob(u, j)
  BY DEF Resumed
<1> HIDE DEF m, r
<1>5. Trimmed(m, u)
  <2>1. Renamed(m, u)
    BY <1>2, ShuffleRenames DEF Sound
  <2>2. QED
    BY <1>2, <2>1, TrimmedSame, TrimmedRenamed
<1> HIDE DEF u
<1>6. Trimmed(m, r)
  <2>1. Sound(u)
    BY <1>5 DEF Trimmed
  <2>2. Trimmed(u, printjob(u, j))
    BY <2>1, PrintjobTrims
  <2>3. QED
    BY <1>2, <1>4, <1>5, <2>2, TrimmedOn
<1>7. Reduced(m, r) /\ r \in Tables
  BY <1>6, TrimmedReduced DEF Trimmed, Sound
<1>8. r.jobtab[own].procs = <<>>
  <2>1. m.jobtab[own].procs = <<>>
    BY <1>1, <1>2, <1>3, TableParts DEF Sound
  <2>2. QED
    BY <1>6, <2>1, FreeEntryType DEF Trimmed
<1>9. ASSUME NEW k \in Jobs \ {own}, Stat(r, k) # {}
      PROVE  r.jobtab[k].procs # <<>>
  <2>1. r.jobtab[k] # FreeEntry /\ "INUSE" \in r.jobtab[k].stat
    BY <1>6, <1>9, FreeEntryType DEF Trimmed, Sound, FlagsInv, Stat
  <2>2. r.jobtab[k].procs = m.jobtab[k].procs /\ "INUSE" \in m.jobtab[k].stat
    BY <1>6, <2>1 DEF Trimmed
  <2>3. t.jobtab[k].procs # <<>>
    BY <1>3, <2>2 DEF Stat
  <2>4. m.jobtab[k].procs # <<>>
    BY <1>1, <1>2, <1>3, <2>3, TableParts DEF Sound
  <2>5. QED
    BY <2>2, <2>4
<1>10. QED
  BY <1>7, <1>8, <1>9 DEF m, r

LEMMA ResumeJobStep ==
  ASSUME JobsInv, NEW command \in {"fg", "bg", "wait"}, ResumeJob(command)
  PROVE  JobsInv'
<1> DEFINE t == Entered(table)
<1>1. PICK j \in Named(t) :
        /\ IF "STOPPED" \in Stat(t, j) THEN Continue(PidsOf(t, j)) ELSE UNCHANGED <<os, news>>
        /\ IF command = "bg"
           THEN LeaveBuiltin(Resumed(t, j, command), Own, "ok")
           ELSE /\ table' = Foreground(Resumed(t, j, command), j, command)
                /\ shell' = [shell EXCEPT !.pc = "wait", !.command = command, !.job = j, !.own = Own]
  BY DEF ResumeJob
<1>2. BeginBuiltin /\ UNCHANGED <<handler, sigchld, cmdout, disowned, result>>
  BY DEF ResumeJob
<1>3. /\ Own \in Jobs /\ Reduced(table, t) /\ Sound(t) /\ t \in Tables
      /\ t.thisjob = Own /\ t.jobtab[Own].procs = <<>>
      /\ \A k \in Jobs \ {Own} : Stat(t, k) # {} => t.jobtab[k].procs # <<>>
      /\ t.curjob # None => t.curjob \in Listed(t)
      /\ shell.command = "none" /\ shell.job = None /\ shell.sub = NoPid /\ result = "none"
  BY <1>2, BuiltinFinds
<1> HIDE DEF t
<1>4. j \in Jobs /\ j # None
  BY <1>1, <1>3, NamedPlaces
<1> DEFINE m == IF "STOPPED" \in Stat(t, j) THEN makerunning(t, j) ELSE t
           r == Resumed(t, j, command)
<1>5. /\ Reduced(m, r) /\ Sound(r) /\ r \in Tables /\ r.jobtab[Own].procs = <<>>
      /\ \A k \in Jobs \ {Own} : Stat(r, k) # {} => r.jobtab[k].procs # <<>>
  BY <1>3, <1>4, ResumedTable DEF Reduced
<1> HIDE DEF m, r
<1>6. Reduced(m, table') /\ table' \in Tables /\ shell' \in Shells /\ PlacesInv' /\ ResultInv'
      /\ Substitution' = {}
  <2>1. CASE command = "bg"
    <3>1. LeaveBuiltin(r, Own, "ok")
      BY <1>1, <2>1 DEF r
    <3>2. /\ Sound(table') /\ table' \in Tables /\ shell' \in Shells
          /\ PlacesInv' /\ ResultInv' /\ Substitution' = {}
          /\ \A k \in Jobs : table'.jobtab[k].procs = r.jobtab[k].procs
      BY <1>2, <1>3, <1>5, <3>1, Leaving, StatusValues
    <3>3. Reduced(r, table')
      BY <3>2 DEF Reduced
    <3>4. QED
      BY <1>5, <3>2, <3>3, ReducedOn
  <2>2. CASE command # "bg"
    <3>1. /\ table' = Foreground(r, j, command)
          /\ shell' = [shell EXCEPT !.pc = "wait", !.command = command, !.job = j, !.own = Own]
      BY <1>1, <2>2 DEF r
    <3>2. /\ table' \in Tables /\ table'.jobtab = r.jobtab
          /\ command = "fg" => table'.thisjob = j
      <4>1. CASE command = "fg"
        BY <1>4, <1>5, <3>1, <4>1 DEF Foreground, Tables
      <4>2. CASE command # "fg"
        BY <1>5, <3>1, <4>2 DEF Foreground
      <4>3. QED
        BY <4>1, <4>2
    <3>3. Sound(table') /\ Reduced(r, table')
      BY <1>5, <3>2 DEF Sound, Reduced
    <3>4. /\ shell' \in Shells /\ shell'.pc = "wait" /\ shell'.command = command
          /\ shell'.job = j /\ shell'.own = Own /\ shell'.sub = NoPid /\ command \in Builtins
      <4>1. command \in Builtins
        BY <2>2 DEF Builtins
      <4>2. QED
        BY <1>3, <1>4, <3>1, <4>1, Places DEF Shells
    <3>5. \A k \in Jobs \ {Own} : Stat(table', k) # {} => table'.jobtab[k].procs # <<>>
      BY <1>5, <3>2 DEF Stat
    <3>6. PlacesInv' /\ ResultInv'
      BY <1>2, <1>3, <1>4, <1>5, <3>2, <3>3, <3>4, <3>5, Waiting
    <3>7. Substitution' = {}
      BY <3>4 DEF Substitution, Builtins
    <3>8. QED
      BY <1>5, <3>2, <3>3, <3>4, <3>6, <3>7, ReducedOn
  <2>3. QED
    BY <2>1, <2>2
<1>7. Substitution = {}
  BY <1>3 DEF Substitution
<1>8. CASE "STOPPED" \in Stat(t, j)
  <2>1. Continue(PidsOf(t, j)) /\ Reduced(makerunning(t, j), table')
    BY <1>1, <1>6, <1>8 DEF m
  <2>2. EntriesInv' /\ PidsInv' /\ ChildrenInv'
    BY <1>2, <1>3, <1>4, <1>7, <2>1, Continued
  <2>3. PidsOf(t, j) \in SUBSET Pids
    BY <1>3, <1>4, Statuses1 DEF PidsOf
  <2>4. TypeOK'
    BY <1>2, <1>6, <2>1, <2>3, Woken DEF JobsInv, TypeOK
  <2>5. QED
    BY <1>6, <2>2, <2>4 DEF JobsInv
<1>9. CASE "STOPPED" \notin Stat(t, j)
  <2>1. UNCHANGED <<os, news>> /\ Reduced(t, table')
    BY <1>1, <1>6, <1>9 DEF m
  <2>2. Reduced(table, table')
    BY <1>3, <2>1, ReducedOn
  <2>3. EntriesInv'
    BY <2>1, <2>2, RecordsKept DEF Reduced
  <2>4. PidsInv'
    BY <1>2, <1>7, <2>1, <2>2, PidsReduced
  <2>5. TypeOK' /\ ChildrenInv'
    BY <1>2, <1>6, <2>1 DEF JobsInv, TypeOK, ChildrenInv
  <2>6. QED
    BY <1>6, <2>3, <2>4, <2>5 DEF JobsInv
<1>10. QED
  BY <1>8, <1>9

-----------------------------------------------------------------------------
(* A pipeline.                                                             *)

LEMMA PipelineStep ==
  ASSUME JobsInv, NEW n \in 1 .. MaxPipe, NEW how \in {"run", "async", "disown"}, Pipeline(n, how)
  PROVE  JobsInv'
<1>1. /\ shell.pc = "prompt" /\ shell.command = "none" /\ shell.job = None /\ shell.sub = NoPid
      /\ result = "none" /\ UNCHANGED <<handler, children, cmdout, disowned, result>>
  BY DEF Pipeline, At, JobsInv, PlacesInv, ResultInv
<1>2. Unfilled = {}
  BY <1>1 DEF Unfilled, Builtins
<1>3. \A p \in Pids : ~(p \in Substitution)
  BY <1>1 DEF Substitution
<1>4. ASSUME Sound(table'), Reduced(table, table'), shell' \in Shells, PlacesInv', ResultInv'
      PROVE  JobsInv'
  <2>1. EntriesInv'
    BY <1>1, <1>4, RecordsKept DEF Reduced, children
  <2>2. PidsInv'
    BY <1>1, <1>3, <1>4, PidsReduced DEF children
  <2>3. TypeOK' /\ ChildrenInv'
    BY <1>1, <1>4 DEF JobsInv, TypeOK, ChildrenInv, children, Sound
  <2>4. QED
    BY <1>4, <2>1, <2>2, <2>3 DEF JobsInv
<1>5. CASE FreeSlots(table) = {}
  <2>1. shell' = Preprompt /\ table' = table
    BY <1>5 DEF Pipeline
  <2>2. Sound(table') /\ Reduced(table, table')
    BY <2>1, Places, ReducedSame
  <2>3. \A j \in Jobs : Stat(table', j) # {} => table'.jobtab[j].procs # <<>>
    BY <1>2, <2>1 DEF JobsInv, PlacesInv
  <2>4. QED
    BY <1>1, <1>4, <2>1, <2>2, <2>3, AtPreprompt DEF children
<1>6. CASE FreeSlots(table) # {}
  <2> DEFINE j == Lowest(FreeSlots(table))
  <2>1. /\ table' = initjob(table)
        /\ shell' = [shell EXCEPT !.pc = "build", !.command = how, !.left = n]
    BY <1>6 DEF Pipeline
  <2>2. /\ j \in Jobs /\ Stat(table, j) = {} /\ table.jobtab[j].procs = <<>>
        /\ Sound(table') /\ table'.thisjob = j
        /\ table'.jobtab[j].stat = {"INUSE"} /\ table'.jobtab[j].procs = <<>>
        /\ \A k \in Jobs \ {j} : table'.jobtab[k] = table.jobtab[k]
    <3>1. /\ [stat |-> {"INUSE"}, procs |-> <<>>].procs = <<>>
          /\ [stat |-> {"INUSE"}, procs |-> <<>>].stat = {"INUSE"}
      OBVIOUS
    <3>2. QED
      BY <1>6, <2>1, <3>1, Initjob, Places
  <2> HIDE DEF j
  <2>3. Reduced(table, table')
    BY <2>2 DEF Reduced
  <2>4. /\ shell' \in Shells /\ shell'.pc = "build" /\ shell'.command = how
        /\ shell'.job = None /\ shell'.sub = NoPid
    <3>1. n \in 0 .. MaxPipe
      BY JobsAssumption
    <3>2. QED
      BY <1>1, <2>1, <3>1, Places DEF Shells
  <2>5. Unfilled' = {j}
    BY <2>2, <2>4 DEF Unfilled, Builtins
  <2>6. PidsOf(table', j) = {}
    BY <2>2 DEF PidsOf
  <2>7. PlacesInv'
    <3>1. \A k \in Jobs : Stat(table, k)' # {} /\ table'.jobtab[k].procs = <<>> => k \in Unfilled'
      BY <1>2, <2>2, <2>5 DEF JobsInv, PlacesInv, Stat
    <3>2. /\ Stat(table', table'.thisjob) # {} /\ "LOCKED" \notin Stat(table', table'.thisjob)
          /\ table'.thisjob \in Jobs
      BY <2>2 DEF Stat
    <3>3. \A p \in PidsOf(table', table'.thisjob) : FALSE
      BY <2>2, <2>6
    <3>4. how \notin Builtins /\ how # "none"
      BY DEF Builtins
    <3>5. QED
      BY <2>4, <3>1, <3>2, <3>3, <3>4 DEF PlacesInv, Stat, PidsOf
  <2>8. ResultInv'
    BY <1>1, <2>4 DEF ResultInv
  <2>9. QED
    BY <1>4, <2>2, <2>3, <2>4, <2>7, <2>8
<1>7. QED
  BY <1>5, <1>6

\* The table without the job that was given away when it was started.
LEMMA StartedAsideStep ==
  ASSUME JobsInv, Started, shell.command # "run"
  PROVE  JobsInv'
<1> DEFINE j == table.thisjob
<1>1. /\ shell.pc = "build" /\ ~handler /\ shell.job = None /\ shell.sub = NoPid
      /\ shell' = Preprompt /\ UNCHANGED <<handler, children, cmdout, disowned, result>>
      /\ table' = IF shell.command = "async" THEN spawnjob(table)
                  ELSE [deletejob(table, j) EXCEPT !.thisjob = None]
  BY DEF Started, At, JobsInv, PlacesInv
<1>2. shell.command \in {"async", "disown"}
  BY <1>1, Places DEF JobsInv, PlacesInv, Shells
<1>3. j \in Jobs /\ Stat(table, j) # {} /\ Unfilled = {j}
  BY <1>1, <1>2 DEF JobsInv, PlacesInv, Unfilled, Builtins
<1>4. /\ Sound(table) /\ table \in Tables /\ table.jobtab[j] \in Entries
      /\ FlagsInv(table.jobtab[j])
  BY <1>3, Places, TableParts DEF Sound
<1>5. /\ table' \in Tables /\ \A k \in Jobs \ {j} : table'.jobtab[k] = table.jobtab[k]
      /\ \/ /\ table'.jobtab[j] = FreeEntry
            /\ table.jobtab[j].procs = <<>> \/ shell.command = "disown"
         \/ /\ table'.jobtab[j].procs = table.jobtab[j].procs /\ table.jobtab[j].procs # <<>>
            /\ table'.jobtab[j].stat = table.jobtab[j].stat \cup {"LOCKED"}
  <2>1. CASE shell.command = "async"
    <3>1. /\ table' \in Tables /\ \A k \in Jobs \ {j} : table'.jobtab[k] = table.jobtab[k]
          /\ table'.jobtab[j] = IF table.jobtab[j].procs = <<>> THEN FreeEntry
                                ELSE [table.jobtab[j] EXCEPT !.stat = @ \cup {"LOCKED"}]
      BY <1>1, <1>3, <1>4, <2>1, Spawned
    <3>2. /\ [table.jobtab[j] EXCEPT !.stat = @ \cup {"LOCKED"}].procs = table.jobtab[j].procs
          /\ [table.jobtab[j] EXCEPT !.stat = @ \cup {"LOCKED"}].stat
               = table.jobtab[j].stat \cup {"LOCKED"}
      BY <1>4 DEF Entries
    <3>3. QED
      BY <3>1, <3>2
  <2>2. CASE shell.command = "disown"
    <3> DEFINE d == deletejob(table, j)
    <3>1. /\ d \in Tables /\ d.jobtab[j] = FreeEntry
          /\ \A k \in Jobs \ {j} : d.jobtab[k] = table.jobtab[k]
      BY <1>3, <1>4, Deleted
    <3>2. table' = [d EXCEPT !.thisjob = None]
      BY <1>1, <2>2
    <3> HIDE DEF d
    <3>3. table' \in Tables /\ table'.jobtab = d.jobtab
      BY <3>1, <3>2 DEF Tables
    <3>4. QED
      BY <2>2, <3>1, <3>3
  <2>3. QED
    BY <1>2, <2>1, <2>2
<1>6. FlagsInv(table'.jobtab[j])
  <2>1. CASE table'.jobtab[j] = FreeEntry
    BY <2>1, FreeFlags
  <2>2. CASE table'.jobtab[j] # FreeEntry
    <3>1. "INUSE" \in table.jobtab[j].stat
      BY <1>3, <1>4 DEF FlagsInv, Stat
    <3>2. QED
      BY <1>4, <1>5, <2>2, <3>1 DEF FlagsInv
  <2>3. QED
    BY <2>1, <2>2
<1>7. Sound(table')
  BY <1>4, <1>5, <1>6 DEF Sound
<1>8. \A k \in Jobs : Stat(table', k) # {} => table'.jobtab[k].procs # <<>>
  BY <1>3, <1>5, FreeEntryType DEF Stat, JobsInv, PlacesInv
<1>9. ASSUME NEW k \in Jobs
      PROVE  \/ /\ table'.jobtab[k].procs = <<>>
                /\ \A i \in DOMAIN table.jobtab[k].procs :
                     \/ os[table.jobtab[k].procs[i].pid] = "none"
                     \/ table.jobtab[k].procs[i].pid \in disowned'
             \/ table'.jobtab[k].procs = table.jobtab[k].procs
  <2>1. shell.command = "disown" => \A i \in DOMAIN table.jobtab[j].procs :
          \/ os[table.jobtab[j].procs[i].pid] = "none"
          \/ table.jobtab[j].procs[i].pid \in disowned
    BY DEF JobsInv, PlacesInv, PidsOf
  <2>2. QED
    BY <1>1, <1>5, <2>1, FreeEntryType
<1>10. EntriesInv'
  BY <1>1, <1>7, <1>9, RecordsKept DEF children
<1>11. Substitution = {}
  BY <1>2 DEF Substitution
<1>12. PidsInv'
  BY <1>1, <1>9, <1>11, PidsKept DEF children
<1>13. PlacesInv' /\ ResultInv' /\ shell' \in Shells
  BY <1>1, <1>7, <1>8, AtPreprompt DEF children
<1>14. TypeOK' /\ ChildrenInv'
  BY <1>1, <1>5, <1>13 DEF JobsInv, TypeOK, ChildrenInv, children
<1>15. QED
  BY <1>10, <1>12, <1>13, <1>14 DEF JobsInv

\* Sequence a has one element more than s, which is e.
Longer(a, s, e) ==
  \E n \in DOMAIN a :
    /\ n \notin DOMAIN s /\ a[n] = e /\ a # <<>>
    /\ \A i \in DOMAIN a : i = n \/ (i \in DOMAIN s /\ a[i] = s[i])
    /\ \A i \in DOMAIN s : i \in DOMAIN a /\ a[i] = s[i]
LEMMA Appended ==
  ASSUME NEW s \in Seq(Processes), NEW e
  PROVE  Longer(Append(s, e), s, e)
<1> DEFINE n == Len(s) + 1
           a == Append(s, e)
<1>1. Len(s) \in Nat /\ DOMAIN s = 1 .. Len(s) /\ DOMAIN a = 1 .. n
  OBVIOUS
<1>2. a[n] = e /\ \A i \in 1 .. Len(s) : a[i] = s[i]
  BY <1>1
<1>3. n \in DOMAIN a /\ n \notin DOMAIN s
  BY <1>1
<1>4. a # <<>>
  <2>1. DOMAIN <<>> = {}
    OBVIOUS
  <2> HIDE DEF a
  <2>2. QED
    BY <1>3, <2>1
<1>5. \A i \in DOMAIN a : i = n \/ (i \in DOMAIN s /\ a[i] = s[i])
  BY <1>1, <1>2
<1>6. \A i \in DOMAIN s : i \in DOMAIN a /\ a[i] = s[i]
  BY <1>1, <1>2
<1> HIDE DEF n, a
<1>7. Longer(a, s, e)
  BY <1>2, <1>3, <1>4, <1>5, <1>6 DEF Longer
<1>8. QED
  BY <1>7 DEF a

LEMMA ForkStep ==
  ASSUME JobsInv, Fork
  PROVE  JobsInv'
<1> DEFINE j == table.thisjob
           e == table.jobtab[j]
           f == table'.jobtab[j]
<1>1. /\ shell.pc = "build" /\ ~handler /\ shell.left > 0 /\ shell.job = None /\ shell.sub = NoPid
      /\ shell' = [shell EXCEPT !.left = @ - 1]
      /\ UNCHANGED <<handler, sigchld, news, cmdout, result>>
      /\ shell.command \in {"run", "async", "disown"}
  BY Places DEF Fork, At, JobsInv, PlacesInv, Shells, Builtins
<1>2. PICK p \in FreePids :
        /\ os' = [os EXCEPT ![p] = "running"]
        /\ table' = addproc(table, p)
        /\ disowned' = IF shell.command = "disown" THEN disowned \cup {p} ELSE disowned
  BY DEF Fork
<1>3. p \in Pids /\ p \notin Known /\ os[p] = "none"
  BY DEF FreePids
<1>4. /\ j \in Jobs /\ Stat(table, j) # {} /\ "LOCKED" \notin Stat(table, j) /\ Unfilled = {j}
  BY <1>1 DEF JobsInv, PlacesInv, Unfilled, Builtins
<1>5. /\ table \in Tables /\ FlagsInv(e) /\ e.procs \in Seq(Processes) /\ "INUSE" \in e.stat
  BY <1>4, Places, TableParts DEF Sound, FlagsInv, Stat
<1> DEFINE new == [pid |-> p, status |-> "running"]
<1>6. /\ table' \in Tables /\ SameNames(table, table')
      /\ \A k \in Jobs \ {j} : table'.jobtab[k] = table.jobtab[k]
      /\ f.stat = e.stat \ {"DONE"} /\ f.procs = Append(e.procs, new)
  BY <1>2, <1>3, <1>4, <1>5, ProcessAdded
<1>7. PICK n \in DOMAIN f.procs :
        /\ n \notin DOMAIN e.procs /\ f.procs[n] = new /\ f.procs # <<>>
        /\ \A i \in DOMAIN f.procs : i = n \/ (i \in DOMAIN e.procs /\ f.procs[i] = e.procs[i])
        /\ \A i \in DOMAIN e.procs : i \in DOMAIN f.procs /\ f.procs[i] = e.procs[i]
  <2> HIDE DEF new, e, f
  <2>1. Longer(f.procs, e.procs, new)
    BY <1>5, <1>6, Appended
  <2>2. QED
    BY <2>1 DEF Longer
<1>8. new.pid = p /\ new.status = "running"
  OBVIOUS
<1> HIDE DEF new
<1>9. /\ os'[p] = "running" /\ \A q \in Pids \ {p} : os'[q] = os[q]
      /\ os' \in [Pids -> Values \cup {"none", "running"}]
  BY <1>2, <1>3, Places
<1>10. "running" \notin Exits /\ "none" \notin Values
  BY JobsAssumption DEF Values
<1>11. p \notin news
  BY <1>3, <1>10 DEF JobsInv, ChildrenInv
<1>12. ASSUME NEW k \in Jobs
       PROVE  (/\ FlagsInv(table.jobtab[k])
               /\ \A i \in DOMAIN table.jobtab[k].procs : RecordInv(table.jobtab[k].procs[i]))'
  <2>1. ASSUME NEW i \in DOMAIN table.jobtab[k].procs
        PROVE  RecordInv(table.jobtab[k].procs[i]) /\ table.jobtab[k].procs[i].pid \in Pids \ {p}
    BY <1>3, EndedIsGone DEF JobsInv, EntriesInv
  <2>2. CASE k # j
    <3>1. table'.jobtab[k] = table.jobtab[k] /\ FlagsInv(table.jobtab[k])
      BY <1>6, <2>2 DEF JobsInv, EntriesInv
    <3>2. FlagsInv(table.jobtab[k])'
      BY <3>1 DEF FlagsInv
    <3>3. ASSUME NEW i \in DOMAIN table'.jobtab[k].procs
          PROVE  RecordInv(table.jobtab[k].procs[i])'
      BY <1>1, <1>9, <2>1, <3>1 DEF RecordInv
    <3>4. QED
      BY <3>2, <3>3
  <2>3. CASE k = j
    <3>1. FlagsInv(f)
      <4> HIDE DEF e, f
      <4>1. QED
        BY <1>5, <1>6, <1>7, <1>8 DEF FlagsInv
    <3>2. ASSUME NEW i \in DOMAIN f.procs
          PROVE  /\ f.procs[i].status \in Exits <=> os'[f.procs[i].pid] = "none"
                 /\ f.procs[i].pid \notin news' /\ f.procs[i].status = "running" =>
                      os'[f.procs[i].pid] = "running"
                 /\ f.procs[i].pid \notin news' /\ f.procs[i].status = "stopped" =>
                      os'[f.procs[i].pid] \in {"stopped", "running"}
      <4>1. CASE i = n
        BY <1>7, <1>8, <1>9, <1>10, <4>1
      <4>2. CASE i # n
        <5>1. i \in DOMAIN e.procs /\ f.procs[i] = e.procs[i]
          BY <1>7, <4>2
        <5>2. RecordInv(e.procs[i]) /\ e.procs[i].pid \in Pids \ {p}
          BY <2>1, <2>3, <5>1
        <5> HIDE DEF e, f
        <5>3. QED
          BY <1>1, <1>9, <5>1, <5>2 DEF RecordInv
      <4>3. QED
        BY <4>1, <4>2
    <3>3. QED
      BY <2>3, <3>1, <3>2 DEF RecordInv, FlagsInv
  <2>4. QED
    BY <2>2, <2>3
<1>13. EntriesInv'
  BY <1>12 DEF EntriesInv
<1>14. \A k, m \in Jobs : \A i \in DOMAIN table'.jobtab[k].procs, l \in DOMAIN table'.jobtab[m].procs :
         table'.jobtab[k].procs[i].pid = table'.jobtab[m].procs[l].pid => k = m /\ i = l
  <2> SUFFICES ASSUME NEW k \in Jobs, NEW m \in Jobs, NEW i \in DOMAIN table'.jobtab[k].procs,
                      NEW l \in DOMAIN table'.jobtab[m].procs,
                      table'.jobtab[k].procs[i].pid = table'.jobtab[m].procs[l].pid
               PROVE  k = m /\ i = l
    OBVIOUS
  <2>1. \/ k = j /\ i = n
        \/ i \in DOMAIN table.jobtab[k].procs /\ table'.jobtab[k].procs[i] = table.jobtab[k].procs[i]
    BY <1>6, <1>7
  <2>2. \/ m = j /\ l = n
        \/ l \in DOMAIN table.jobtab[m].procs /\ table'.jobtab[m].procs[l] = table.jobtab[m].procs[l]
    BY <1>6, <1>7
  <2>3. CASE k = j /\ i = n
    <3>1. table'.jobtab[m].procs[l].pid = p
      BY <1>7, <1>8, <2>3
    <3>2. QED
      BY <1>3, <2>2, <2>3, <3>1, EndedIsGone
  <2>4. CASE m = j /\ l = n
    <3>1. table'.jobtab[k].procs[i].pid = p
      BY <1>7, <1>8, <2>4
    <3>2. QED
      BY <1>3, <2>1, <2>4, <3>1, EndedIsGone
  <2>5. CASE ~(k = j /\ i = n) /\ ~(m = j /\ l = n)
    BY <2>1, <2>2, <2>5 DEF JobsInv, PidsInv
  <2>6. QED
    BY <2>3, <2>4, <2>5
<1>15. \A q : q \in Known' <=> q \in Known \/ q = p
  <2>1. ASSUME NEW q \in Known
        PROVE  q \in Known'
    <3>0. PICK k \in Jobs : \E i \in DOMAIN table.jobtab[k].procs : q = table.jobtab[k].procs[i].pid
      BY <2>1, KnownPids
    <3>1. PICK i \in DOMAIN table.jobtab[k].procs : q = table.jobtab[k].procs[i].pid
      BY <3>0
    <3>2. i \in DOMAIN table'.jobtab[k].procs /\ table'.jobtab[k].procs[i] = table.jobtab[k].procs[i]
      BY <1>6, <1>7
    <3>3. QED
      BY <3>1, <3>2, KnownPids
  <2>2. p \in Known'
    BY <1>4, <1>7, <1>8, KnownPids
  <2>3. ASSUME NEW q, q \in Known', q # p
        PROVE  q \in Known
    <3>1. PICK k \in Jobs : \E i \in DOMAIN table'.jobtab[k].procs : q = table'.jobtab[k].procs[i].pid
      BY <2>3, KnownPids
    <3>2. PICK i \in DOMAIN table'.jobtab[k].procs : q = table'.jobtab[k].procs[i].pid
      BY <3>1
    <3>3. i \in DOMAIN table.jobtab[k].procs /\ table'.jobtab[k].procs[i] = table.jobtab[k].procs[i]
      BY <1>6, <1>7, <1>8, <2>3, <3>2
    <3>4. QED
      BY <3>2, <3>3, KnownPids
  <2>4. QED
    BY <2>1, <2>2, <2>3
<1>16. Substitution' = Substitution /\ shell' \in Shells /\ shell'.pc = "build"
       /\ shell'.command = shell.command /\ shell'.job = None /\ shell'.sub = NoPid
  <2>1. shell.left - 1 \in 0 .. MaxPipe
    BY <1>1, Places, JobsAssumption DEF Shells
  <2>2. shell' \in Shells /\ shell'.pc = "build"
        /\ shell'.command = shell.command /\ shell'.job = None /\ shell'.sub = NoPid
    BY <1>1, <2>1, Places DEF Shells
  <2>3. QED
    BY <1>1, <2>2 DEF Substitution
<1>17. disowned \subseteq disowned' /\ disowned' \subseteq Pids
       /\ (shell.command = "disown" => p \in disowned')
  BY <1>2, <1>3, Places
<1>18. PidsInv'
  <2>1. cmdout.pid # NoPid => /\ cmdout.pid \notin Known' /\ os'[cmdout.pid] # "none"
                              /\ cmdout.pid \in disowned' \cup Substitution'
    BY <1>3, <1>9, <1>15, <1>16, <1>17, Places DEF JobsInv, PidsInv
  <2>2. \A q \in Pids : os'[q] # "none" => q \in Known' \cup disowned' \cup Substitution'
    BY <1>9, <1>15, <1>16, <1>17 DEF JobsInv, PidsInv
  <2>3. QED
    BY <1>1, <1>14, <2>1, <2>2 DEF PidsInv
<1>19. PlacesInv'
  <2>1. table'.thisjob = j /\ Stat(table', j) # {} /\ "LOCKED" \notin Stat(table', j)
    BY <1>4, <1>5, <1>6 DEF SameNames, Stat
  <2>2. Unfilled' = {j}
    BY <1>1, <1>16, <2>1 DEF Unfilled, Builtins
  <2>3. \A k \in Jobs : Stat(table, k)' # {} /\ table'.jobtab[k].procs = <<>> => k \in Unfilled'
    BY <1>4, <1>6, <2>2 DEF JobsInv, PlacesInv, Stat
  <2>4. shell.command = "disown" => \A q \in PidsOf(table', j) : os'[q] = "none" \/ q \in disowned'
    <3> SUFFICES ASSUME shell.command = "disown", NEW i \in DOMAIN f.procs
                 PROVE  os'[f.procs[i].pid] = "none" \/ f.procs[i].pid \in disowned'
      BY DEF PidsOf
    <3>1. CASE i = n
      BY <1>7, <1>8, <1>17, <3>1
    <3>2. CASE i # n
      <4>1. i \in DOMAIN e.procs /\ f.procs[i] = e.procs[i]
        BY <1>7, <3>2
      <4>2. e.procs[i].pid \in Pids \ {p} /\ e.procs[i].pid \in PidsOf(table, j)
        BY <1>3, <1>4, <4>1, EndedIsGone
      <4>3. QED
        BY <1>9, <1>17, <4>1, <4>2 DEF JobsInv, PlacesInv
    <3>3. QED
      BY <3>1, <3>2
  <2>5. shell'.command \notin Builtins /\ shell'.command # "none"
    BY <1>1, <1>16 DEF Builtins
  <2>6. QED
    BY <1>4, <1>16, <2>1, <2>3, <2>4, <2>5 DEF PlacesInv, Stat, PidsOf
<1>20. ResultInv'
  BY <1>1, <1>16 DEF JobsInv, ResultInv
<1>21. ChildrenInv'
  BY <1>1, <1>9, <1>10, <1>11, Places DEF JobsInv, ChildrenInv
<1>22. TypeOK'
  BY <1>1, <1>6, <1>9, <1>16, <1>17 DEF JobsInv, TypeOK
<1>23. QED
  BY <1>13, <1>18, <1>19, <1>20, <1>21, <1>22 DEF JobsInv

\* $(...): the process has no record, but the shell waits for it.
LEMMA CommandSubstStep ==
  ASSUME JobsInv, CommandSubst
  PROVE  JobsInv'
<1>1. /\ shell.pc = "build" /\ ~handler /\ shell.job = None /\ shell.sub = NoPid
      /\ shell.command = "run" /\ UNCHANGED <<table, handler, sigchld, news, disowned, result>>
  BY DEF CommandSubst, At, JobsInv, PlacesInv
<1>2. PICK p \in FreePids : /\ os' = [os EXCEPT ![p] = "running"]
                            /\ shell' = [shell EXCEPT !.pc = "wait", !.sub = p]
                            /\ cmdout' = [pid |-> p, val |-> "ok"]
  BY DEF CommandSubst
<1>3. p \in Pids /\ p \notin Known /\ os[p] = "none" /\ p # NoPid
  BY JobsAssumption DEF FreePids
<1>4. /\ os'[p] = "running" /\ \A q \in Pids \ {p} : os'[q] = os[q]
      /\ os' \in [Pids -> Values \cup {"none", "running"}]
  BY <1>2, <1>3, Places
<1>5. "running" \notin Exits /\ "none" \notin Values
  BY JobsAssumption DEF Values
<1>6. p \notin news
  BY <1>3, <1>5 DEF JobsInv, ChildrenInv
<1>7. /\ shell' \in Shells /\ shell'.pc = "wait" /\ shell'.command = "run" /\ shell'.sub = p
      /\ shell'.job = None
  BY <1>1, <1>2, <1>3, Places DEF Shells
<1>8. cmdout'.pid = p /\ cmdout' \in [pid : Pids \cup {NoPid}, val : Values]
  BY <1>2, <1>3, StatusValues
<1>9. EntriesInv'
  <2>1. ASSUME NEW k \in Jobs, NEW i \in DOMAIN table.jobtab[k].procs
        PROVE  RecordInv(table.jobtab[k].procs[i])'
    <3>1. RecordInv(table.jobtab[k].procs[i]) /\ table.jobtab[k].procs[i].pid \in Pids \ {p}
      BY <1>3, EndedIsGone DEF JobsInv, EntriesInv
    <3>2. QED
      BY <1>1, <1>4, <3>1 DEF RecordInv
  <2>2. QED
    BY <1>1, <2>1 DEF JobsInv, EntriesInv, FlagsInv
<1>10. Substitution = {NoPid} /\ Substitution' = {p} /\ Known' = Known
  BY <1>1, <1>7 DEF Substitution, Known, PidsOf
<1>11. PidsInv'
  <2>1. \A q \in Pids : os'[q] # "none" => q \in Known' \cup disowned' \cup Substitution'
    BY <1>1, <1>3, <1>4, <1>10, JobsAssumption DEF JobsInv, PidsInv
  <2>2. cmdout'.pid \notin Known' /\ os'[cmdout'.pid] # "none" /\ cmdout'.pid \in Substitution'
    BY <1>3, <1>4, <1>8, <1>10
  <2>3. QED
    BY <1>1, <2>1, <2>2 DEF JobsInv, PidsInv
<1>12. PlacesInv'
  <2>1. Unfilled' = Unfilled
    BY <1>1, <1>7 DEF Unfilled, Builtins
  <2>2. QED
    BY <1>1, <1>3, <1>7, <2>1 DEF JobsInv, PlacesInv, Stat, Builtins
<1>13. ResultInv'
  BY <1>1, <1>7 DEF JobsInv, ResultInv
<1>14. ChildrenInv'
  BY <1>1, <1>4, <1>5, <1>6, Places DEF JobsInv, ChildrenInv
<1>15. TypeOK'
  BY <1>1, <1>4, <1>7, <1>8 DEF JobsInv, TypeOK
<1>16. QED
  BY <1>9, <1>11, <1>12, <1>13, <1>14, <1>15 DEF JobsInv

LEMMA SubstEndsStep ==
  ASSUME JobsInv, SubstEnds
  PROVE  JobsInv'
<1>1. /\ shell.pc = "pidloop" /\ shell.command = "run" /\ shell.job = None /\ result = "none"
      /\ shell.sub # NoPid /\ UNCHANGED <<handler, children, result>>
      /\ cmdout' = [cmdout EXCEPT !.val = "ok"]
      /\ table' = [table EXCEPT !.lastval = IF shell.errflag THEN Failure ELSE cmdout.val]
      /\ disowned' = IF Gone THEN disowned ELSE disowned \cup {shell.sub}
  BY DEF SubstEnds, At, JobsInv, PlacesInv, ResultInv
<1>2. /\ table' \in Tables /\ table'.jobtab = table.jobtab /\ table'.thisjob = table.thisjob
      /\ Sound(table') /\ Reduced(table, table')
  <2>1. (IF shell.errflag THEN Failure ELSE cmdout.val) \in Values
    BY Places, StatusValues
  <2>2. /\ table' \in Tables /\ table'.jobtab = table.jobtab /\ table'.thisjob = table.thisjob
    BY <1>1, <2>1, Places DEF Tables
  <2>3. QED
    BY <2>2, Places DEF Sound, Reduced
<1>3. /\ shell' \in Shells /\ shell'.pc = "build" /\ shell'.command = "run"
      /\ shell'.sub = NoPid /\ shell'.job = None
  <2>1. (IF shell.errflag THEN 0 ELSE shell.left) \in 0 .. MaxPipe
    BY Places, JobsAssumption DEF Shells
  <2>2. shell' = [shell EXCEPT !.pc = "build", !.sub = NoPid,
                               !.left = IF shell.errflag THEN 0 ELSE shell.left]
    BY DEF SubstEnds
  <2>3. QED
    BY <1>1, <2>1, <2>2, Places DEF Shells
<1>4. shell.sub \in Pids
  BY <1>1, Places DEF Shells
<1>5. cmdout'.pid = cmdout.pid /\ cmdout' \in [pid : Pids \cup {NoPid}, val : Values]
  BY <1>1, StatusValues DEF JobsInv, TypeOK
<1>6. EntriesInv'
  BY <1>1, <1>2, RecordsKept DEF Reduced, children
<1>7. PidsInv'
  <2>1. \A p \in Pids : os[p] # "none" /\ p \in disowned \cup Substitution =>
                          p \in disowned' \cup Substitution'
    BY <1>1 DEF Substitution, Gone
  <2>2. QED
    BY <1>1, <1>2, <1>5, <2>1, PidsKept DEF children
<1>8. PlacesInv'
  <2>1. Unfilled' = Unfilled
    BY <1>1, <1>2, <1>3 DEF Unfilled, Builtins
  <2>2. "run" \notin Builtins
    BY DEF Builtins
  <2>3. \A j \in Jobs : Stat(table, j)' # {} /\ table'.jobtab[j].procs = <<>> => j \in Unfilled'
    BY <1>2, <2>1 DEF JobsInv, PlacesInv, Stat
  <2>4. table'.thisjob \in Jobs /\ Stat(table', table'.thisjob) # {}
        /\ "LOCKED" \notin Stat(table', table'.thisjob)
    BY <1>1, <1>2 DEF JobsInv, PlacesInv, Stat
  <2>5. QED
    BY <1>3, <2>2, <2>3, <2>4 DEF PlacesInv, Stat
<1>9. ResultInv'
  BY <1>1, <1>3 DEF ResultInv
<1>10. TypeOK' /\ ChildrenInv'
  BY <1>1, <1>2, <1>3, <1>4, <1>5 DEF JobsInv, TypeOK, ChildrenInv, children
<1>11. QED
  BY <1>6, <1>7, <1>8, <1>9, <1>10 DEF JobsInv

LEMMA PidLoopStep ==
  ASSUME JobsInv, PidLoop
  PROVE  JobsInv'
<1>1. /\ shell.pc = "pidloop" /\ shell' = [shell EXCEPT !.pc = "pidwait"]
      /\ Continue({shell.sub}) /\ UNCHANGED <<table, handler, sigchld, cmdout, disowned, result>>
      /\ shell.sub # NoPid
  BY DEF PidLoop, At, Goto, JobsInv, PlacesInv
<1>2. {shell.sub} \in SUBSET Pids
  BY <1>1, Places DEF Shells
<1>3. /\ os' \in [Pids -> Values \cup {"none", "running"}] /\ news' \subseteq Pids
      /\ \A p \in Pids : os'[p] = IF p = shell.sub /\ os[p] = "stopped" THEN "running" ELSE os[p]
      /\ \A p \in Pids : p \in news' <=> p \in news /\ ~(p = shell.sub /\ os[p] = "stopped")
      /\ \A p \in Pids : os'[p] = "none" <=> os[p] = "none"
  BY <1>1, <1>2, Woken
<1>4. ChildrenInv'
  BY <1>1, <1>2, ChildrenWoken
<1>5. EntriesInv'
  <2>1. ASSUME NEW k \in Jobs, NEW i \in DOMAIN table.jobtab[k].procs
        PROVE  RecordInv(table.jobtab[k].procs[i])'
    <3> DEFINE proc == table.jobtab[k].procs[i]
    <3>1. /\ RecordInv(proc) /\ proc.pid \in Pids
          /\ proc.pid \in news => os[proc.pid] \in Values
      BY EndedIsGone DEF JobsInv, EntriesInv, ChildrenInv
    <3> HIDE DEF proc
    <3>2. /\ proc.status \in Exits <=> os'[proc.pid] = "none"
          /\ proc.pid \notin news' /\ proc.status = "running" => os'[proc.pid] = "running"
          /\ proc.pid \notin news' /\ proc.status = "stopped" => os'[proc.pid] \in {"stopped", "running"}
      BY <1>3, <3>1 DEF RecordInv
    <3>3. QED
      BY <1>1, <3>2 DEF RecordInv, proc
  <2>2. QED
    BY <1>1, <2>1 DEF JobsInv, EntriesInv, FlagsInv
<1>6. /\ shell' \in Shells /\ shell'.pc = "pidwait" /\ shell'.command = shell.command
      /\ shell'.sub = shell.sub /\ shell'.own = shell.own /\ shell'.job = shell.job
  BY <1>1, Places DEF Shells
<1>7. PidsInv'
  <2>1. Known' = Known /\ Substitution' = Substitution
    BY <1>1, <1>6 DEF Known, PidsOf, Substitution
  <2>2. QED
    BY <1>1, <1>3, <2>1, Places DEF JobsInv, PidsInv
<1>8. PlacesInv' /\ ResultInv'
  <2>1. Unfilled' = Unfilled
    BY <1>1, <1>6 DEF Unfilled
  <2>2. shell.command \in {"run", "pid"}
    BY <1>1 DEF JobsInv, PlacesInv
  <2>3. QED
    BY <1>1, <1>6, <2>1, <2>2 DEF JobsInv, PlacesInv, ResultInv, Stat
<1>9. TypeOK'
  BY <1>1, <1>3, <1>6 DEF JobsInv, TypeOK
<1>10. QED
  BY <1>4, <1>5, <1>7, <1>8, <1>9 DEF JobsInv

-----------------------------------------------------------------------------
(* The wait for a job, the reports before a prompt, the children.          *)

LEMMA StartWaitStep ==
  ASSUME JobsInv, StartWait
  PROVE  JobsInv'
<1> DEFINE j == shell.job
           t == SetFlags(table, j, {"LOCKED"})
           e == table.jobtab[j]
<1>1. /\ shell.pc = "wait" /\ ~handler /\ j # None /\ shell.sub = NoPid
      /\ UNCHANGED <<handler, children, cmdout, disowned, result>>
      /\ shell.command \notin {"none", "async", "disown"}
  BY DEF StartWait, At, JobsInv, PlacesInv
<1>2. j \in Jobs /\ shell.command \in {"run"} \cup Builtins
  BY <1>1, Places DEF Shells
<1>3. /\ table \in Tables /\ Sound(table) /\ e \in Entries /\ FlagsInv(e)
  BY <1>2, Places, TableParts DEF Sound
<1>4. /\ t \in Tables /\ SameNames(table, t)
      /\ t.jobtab[j].procs = e.procs /\ t.jobtab[j].stat = e.stat \cup {"LOCKED"}
      /\ \A k \in Jobs \ {j} : t.jobtab[k] = table.jobtab[k]
  <2>1. {"LOCKED"} \in SUBSET Flags
    BY DEF Flags
  <2>2. /\ t \in Tables /\ SameNames(table, t)
        /\ t.jobtab[j] = [e EXCEPT !.stat = @ \cup {"LOCKED"}]
        /\ \A k \in Jobs \ {j} : t.jobtab[k] = table.jobtab[k]
    BY <1>2, <1>3, <2>1, FlagsSet
  <2> HIDE DEF t
  <2>3. QED
    BY <1>3, <2>2 DEF Entries
<1> HIDE DEF t
<1>5. /\ Sound(table') /\ Reduced(table, table')
      /\ table'.thisjob = table.thisjob /\ table'.lastval = table.lastval
      /\ table'.jobtab[j].stat # {} => table'.jobtab[j].procs = e.procs
      /\ \A k \in Jobs \ {j} : table'.jobtab[k] = table.jobtab[k]
      /\ \/ e.procs = <<>> /\ shell' = [shell EXCEPT !.pc = "waited"]
            /\ table'.jobtab[j] = FreeEntry
         \/ e.procs # <<>> /\ shell' = [shell EXCEPT !.pc = "loop"]
  <2>1. CASE e.procs = <<>>
    <3>1. table' = deletejob(table, j) /\ shell' = [shell EXCEPT !.pc = "waited"]
      BY <2>1 DEF StartWait, Goto
    <3>2. /\ table' \in Tables /\ SameNames(table, table')
          /\ table'.jobtab[j] = FreeEntry /\ \A k \in Jobs \ {j} : table'.jobtab[k] = table.jobtab[k]
      BY <1>2, <1>3, <3>1, Deleted
    <3>3. Sound(table') /\ Reduced(table, table')
      BY <1>3, <2>1, <3>2, FreeFlags, FreeEntryType DEF Sound, Reduced
    <3>4. QED
      BY <2>1, <3>1, <3>2, <3>3, FreeEntryType DEF SameNames
  <2>2. CASE e.procs # <<>>
    <3>1. /\ table' = IF "CHANGED" \in Stat(t, j) THEN printjob(t, j) ELSE t
          /\ shell' = [shell EXCEPT !.pc = "loop"]
      BY <2>2 DEF StartWait, Goto, t
    <3>2. "INUSE" \in e.stat
      BY <1>3, <2>2 DEF FlagsInv
    <3>3. FlagsInv(t.jobtab[j])
      <4> HIDE DEF e
      <4>1. QED
        BY <1>3, <1>4, <3>2 DEF FlagsInv
    <3>4. Sound(t)
      BY <1>3, <1>4, <3>3 DEF Sound
    <3>5. Trimmed(t, table')
      BY <1>2, <3>1, <3>4, PrintjobTrims, TrimmedSame
    <3>6. Reduced(table, t) /\ Reduced(t, table')
      BY <1>4, <3>4, <3>5, TrimmedReduced DEF Reduced
    <3>7. Reduced(table, table')
      BY <3>6, ReducedOn
    <3>8. \A k \in Jobs \ {j} : table'.jobtab[k] = table.jobtab[k]
      BY <1>2, <1>4, <3>1, Printed1
    <3>9. table'.jobtab[j].stat # {} => table'.jobtab[j].procs = e.procs
      BY <1>2, <1>4, <3>5, FreeEntryType DEF Trimmed
    <3>10. Sound(table') /\ table'.thisjob = table.thisjob /\ table'.lastval = table.lastval
      BY <1>4, <3>5 DEF Trimmed, SameNames
    <3>11. QED
      BY <2>2, <3>1, <3>7, <3>8, <3>9, <3>10
  <2>3. QED
    BY <2>1, <2>2
<1>6. /\ shell' \in Shells /\ shell'.command = shell.command /\ shell'.sub = NoPid
      /\ shell'.job = j /\ shell'.own = shell.own
      /\ \/ e.procs = <<>> /\ shell'.pc = "waited" /\ table'.jobtab[j] = FreeEntry
         \/ e.procs # <<>> /\ shell'.pc = "loop"
  <2>1. CASE e.procs = <<>>
    BY <1>1, <1>5, <2>1, Places DEF Shells
  <2>2. CASE e.procs # <<>>
    BY <1>1, <1>5, <2>2, Places DEF Shells
  <2>3. QED
    BY <2>1, <2>2
<1>7. EntriesInv'
  BY <1>1, <1>5, RecordsKept DEF Reduced, children
<1>8. PidsInv'
  BY <1>1, <1>5, <1>6, PidsReduced DEF Substitution, children
<1>9. PlacesInv'
  <2>1. ASSUME NEW k \in Jobs, table'.jobtab[k].stat # {}, table'.jobtab[k].procs = <<>>
        PROVE  k \in Unfilled'
    <3>1. CASE shell.command = "run"
      <4>1. Unfilled = {j}
        BY <1>1, <3>1 DEF Unfilled, Builtins, JobsInv, ResultInv
      <4>2. k # j
        BY <1>5, <1>6, <2>1, FreeEntryType
      <4>3. QED
        BY <1>5, <2>1, <4>1, <4>2 DEF JobsInv, PlacesInv, Stat
    <3>2. CASE shell.command \in Builtins
      <4>1. Unfilled = {shell.own} /\ Unfilled' = {shell.own}
        BY <1>6, <3>2 DEF Unfilled
      <4>2. k # j
        BY <1>5, <1>6, <2>1, FreeEntryType
      <4>3. QED
        BY <1>5, <2>1, <4>1, <4>2 DEF JobsInv, PlacesInv, Stat
    <3>3. QED
      BY <1>2, <3>1, <3>2
  <2>2. shell.command \in Builtins => /\ shell.own \in Jobs /\ table'.jobtab[shell.own].procs = <<>>
    BY <1>5, FreeEntryType DEF JobsInv, PlacesInv, Reduced
  <2>3. QED
    BY <1>1, <1>2, <1>5, <1>6, <2>1, <2>2 DEF PlacesInv, Stat, Builtins
<1>10. ResultInv'
  BY <1>1, <1>5, <1>6 DEF JobsInv, ResultInv
<1>11. TypeOK' /\ ChildrenInv'
  BY <1>1, <1>5, <1>6 DEF JobsInv, TypeOK, ChildrenInv, children, Sound
<1>12. QED
  BY <1>7, <1>8, <1>9, <1>10, <1>11 DEF JobsInv

\* A report before the prompt takes no process of the shell out of the table.
LEMMA Reported ==
  ASSUME JobsInv, Trimmed(table, table'), shell.command = "none", shell' \in Shells,
         shell'.pc = "scan", shell'.command = "none", shell'.sub = NoPid,
         UNCHANGED <<handler, children, cmdout, disowned, result>>
  PROVE  JobsInv'
<1>1. Reduced(table, table') /\ Sound(table') /\ table' \in Tables
  BY TrimmedReduced DEF Trimmed, Sound
<1>2. EntriesInv'
  BY <1>1, RecordsKept DEF Reduced, children
<1>3. PidsInv'
  BY <1>1, PidsReduced DEF Substitution, children
<1>4. PlacesInv'
  <2>1. Unfilled = {}
    BY DEF Unfilled, Builtins, JobsInv, PlacesInv
  <2>2. ASSUME NEW k \in Jobs, Stat(table, k)' # {}
        PROVE  table'.jobtab[k].procs # <<>>
    <3>1. table'.jobtab[k] # FreeEntry /\ "INUSE" \in table'.jobtab[k].stat
      BY <1>1, <2>2, FreeEntryType DEF Sound, FlagsInv, Stat
    <3>2. table'.jobtab[k].procs = table.jobtab[k].procs /\ "INUSE" \in table.jobtab[k].stat
      BY <3>1 DEF Trimmed
    <3>3. QED
      BY <2>1, <3>2 DEF JobsInv, PlacesInv, Stat
  <2>3. QED
    BY <2>2 DEF PlacesInv, Builtins
<1>5. ResultInv'
  BY DEF ResultInv
<1>6. TypeOK' /\ ChildrenInv'
  BY <1>1 DEF JobsInv, TypeOK, ChildrenInv, children
<1>7. QED
  BY <1>2, <1>3, <1>4, <1>5, <1>6 DEF JobsInv

LEMMA PrintedStep ==
  ASSUME JobsInv, Printed
  PROVE  JobsInv'
<1>1. /\ shell.pc = "printed" /\ ~handler /\ shell.job # None /\ shell.sub = NoPid
      /\ shell.command = "none" /\ UNCHANGED <<handler, children, cmdout, disowned, result>>
      /\ shell.job \in Jobs
  BY Places DEF Printed, At, JobsInv, PlacesInv, Shells
<1>2. CASE "DONE" \in Stat(table, shell.job)
  <2>1. table' = printjob(table, shell.job) /\ shell' = [shell EXCEPT !.pc = "scan"]
    BY <1>2 DEF Printed, Goto
  <2>2. Trimmed(table, table')
    BY <1>1, <2>1, PrintjobTrims, Places
  <2>3. shell' \in Shells /\ shell'.pc = "scan" /\ shell'.command = "none" /\ shell'.sub = NoPid
    BY <1>1, <2>1, Places DEF Shells
  <2>4. QED
    BY <1>1, <2>2, <2>3, Reported
<1>3. CASE "DONE" \notin Stat(table, shell.job)
  <2>1. table' = table /\ shell' = [shell EXCEPT !.pc = "cleared"]
    BY <1>3 DEF Printed, Goto
  <2>2. /\ shell' \in Shells /\ shell'.pc = "cleared" /\ shell'.command = "none"
        /\ shell'.sub = NoPid /\ shell'.job = shell.job
    BY <1>1, <2>1, Places DEF Shells
  <2>3. Unfilled = {} /\ Unfilled' = {}
    BY <1>1, <2>2 DEF Unfilled, Builtins
  <2>4. PlacesInv' /\ ResultInv'
    BY <1>1, <2>1, <2>2, <2>3 DEF JobsInv, PlacesInv, ResultInv, Stat, Builtins
  <2>5. QED
    BY <1>1, <2>1, <2>2, <2>4, QuietStep, Places DEF children, JobsInv, ChildrenInv
<1>4. QED
  BY <1>2, <1>3

LEMMA ClearedStep ==
  ASSUME JobsInv, Cleared
  PROVE  JobsInv'
<1> DEFINE j == shell.job
<1>1. /\ shell.pc = "cleared" /\ j # None /\ shell.sub = NoPid /\ shell.command = "none"
      /\ UNCHANGED <<handler, children, cmdout, disowned, result>>
      /\ j \in Jobs /\ table' = ClearFlags(table, j, {"CHANGED"})
      /\ shell' = [shell EXCEPT !.pc = "scan"]
  BY Places DEF Cleared, Goto, At, JobsInv, PlacesInv, Shells
<1>2. /\ table \in Tables /\ Sound(table) /\ table.jobtab[j] \in Entries
      /\ FlagsInv(table.jobtab[j])
  BY <1>1, Places, TableParts DEF Sound
<1>3. /\ table' \in Tables /\ SameNames(table, table')
      /\ table'.jobtab[j] = [table.jobtab[j] EXCEPT !.stat = @ \ {"CHANGED"}]
      /\ \A k \in Jobs \ {j} : table'.jobtab[k] = table.jobtab[k]
  BY <1>1, <1>2, FlagsCleared
<1>4. FlagsInv(table'.jobtab[j])
  BY <1>2, <1>3, UnmarkedFlags
<1>5. Sound(table')
  BY <1>2, <1>3, <1>4 DEF Sound
<1>6. /\ table'.jobtab[j].procs = table.jobtab[j].procs
      /\ table'.jobtab[j].stat \ {"CHANGED"} = table.jobtab[j].stat \ {"CHANGED"}
  BY <1>2, <1>3 DEF Entries
<1>7. Trimmed(table, table')
  BY <1>3, <1>5, <1>6 DEF Trimmed, SameNames
<1>8. shell' \in Shells /\ shell'.pc = "scan" /\ shell'.command = "none" /\ shell'.sub = NoPid
  BY <1>1, Places DEF Shells
<1>9. QED
  BY <1>1, <1>7, <1>8, Reported

\* A child stops or ends, and the shell is going to be told.
LEMMA ChangeStep ==
  ASSUME JobsInv, NEW p \in Pids, NEW state \in Values, os[p] \in {"running", "stopped"},
         Change(p, state)
  PROVE  JobsInv'
<1>1. /\ news' = news \cup {p} /\ sigchld' = TRUE
      /\ UNCHANGED <<table, shell, handler, cmdout, disowned, result>>
      /\ os'[p] = state /\ \A q \in Pids \ {p} : os'[q] = os[q]
      /\ os' \in [Pids -> Values \cup {"none", "running"}]
  BY Places DEF Change
<1>2. /\ "none" \notin Values /\ Exits \subseteq Values
      /\ "running" \notin Exits /\ "stopped" \notin Exits
  BY JobsAssumption DEF Values
<1>3. ChildrenInv'
  BY <1>1, Places DEF JobsInv, ChildrenInv
<1>4. EntriesInv'
  <2>1. ASSUME NEW k \in Jobs, NEW i \in DOMAIN table.jobtab[k].procs
        PROVE  RecordInv(table.jobtab[k].procs[i])'
    <3>1. RecordInv(table.jobtab[k].procs[i]) /\ table.jobtab[k].procs[i].pid \in Pids
      BY EndedIsGone DEF JobsInv, EntriesInv
    <3>2. QED
      BY <1>1, <1>2, <3>1 DEF RecordInv
  <2>2. QED
    BY <1>1, <2>1 DEF JobsInv, EntriesInv, FlagsInv
<1>5. PidsInv'
  <2>1. Known' = Known /\ Substitution' = Substitution
    BY <1>1 DEF Known, PidsOf, Substitution
  <2>2. \A q \in Pids : os'[q] # "none" <=> os[q] # "none"
    BY <1>1, <1>2
  <2>3. QED
    BY <1>1, <2>1, <2>2, Places DEF JobsInv, PidsInv
<1>6. PlacesInv' /\ ResultInv'
  <2>1. Unfilled' = Unfilled
    BY <1>1 DEF Unfilled
  <2>2. shell.command = "disown" =>
          \A q \in PidsOf(table, table.thisjob) : os'[q] = "none" \/ q \in disowned
    <3> SUFFICES ASSUME shell.command = "disown", NEW i \in DOMAIN table.jobtab[table.thisjob].procs
                 PROVE  LET q == table.jobtab[table.thisjob].procs[i].pid
                        IN  os'[q] = "none" \/ q \in disowned
      BY DEF PidsOf
    <3>1. table.thisjob \in Jobs
      BY DEF JobsInv, PlacesInv
    <3>2. /\ table.jobtab[table.thisjob].procs[i].pid \in Pids
          /\ table.jobtab[table.thisjob].procs[i].pid \in PidsOf(table, table.thisjob)
      BY <3>1, EndedIsGone
    <3>3. QED
      BY <1>1, <3>2 DEF JobsInv, PlacesInv
  <2>3. QED
    BY <1>1, <2>1, <2>2 DEF JobsInv, PlacesInv, ResultInv, Stat, PidsOf, Unfinished
<1>7. TypeOK'
  BY <1>1, Places DEF JobsInv, TypeOK
<1>8. QED
  BY <1>3, <1>4, <1>5, <1>6, <1>7 DEF JobsInv

-----------------------------------------------------------------------------
(* The handler takes one report from wait3.                                *)

\* update_job on a job that did not count as done.
LEMMA UpdateFlags ==
  ASSUME NEW t \in Tables, NEW j \in Jobs, t.jobtab[j].procs # <<>>,
         "INUSE" \in t.jobtab[j].stat, "DONE" \notin t.jobtab[j].stat
  PROVE  LET u == update_job(t, j)
             e == t.jobtab[j]
             f == u.jobtab[j]
         IN  /\ u \in Tables /\ u.thisjob = t.thisjob /\ FlagsInv(f)
             /\ u.lastval = IF ~Held(t, j) /\ j = t.thisjob THEN LastProc(t, j).status ELSE t.lastval
             /\ \A k \in Jobs \ {j} : u.jobtab[k] = t.jobtab[k]
             /\ \/ /\ f = FreeEntry /\ "LOCKED" \in e.stat
                   /\ \A i \in DOMAIN e.procs : e.procs[i].status \in Exits
                \/ /\ f.procs = e.procs /\ e.stat \ {"CHANGED"} \subseteq f.stat
                   /\ "LOCKED" \in f.stat => "LOCKED" \in e.stat
<1> DEFINE u == update_job(t, j)
           e == t.jobtab[j]
           f == u.jobtab[j]
<1>1. /\ \A i \in DOMAIN e.procs : e.procs[i].status \in Exits \cup {"stopped", "running"}
      /\ \A i \in DOMAIN e.procs : e.procs[i].status \in Statuses(t, j)
      /\ \A s \in Statuses(t, j) : \E i \in DOMAIN e.procs : e.procs[i].status = s
      /\ Stat(t, j) = e.stat
  BY Statuses1 DEF Statuses, Stat
<1>2. CASE Held(t, j)
  <2>1. u = t
    BY <1>2, UpdateHeld
  <2> HIDE DEF u
  <2>2. \E i \in DOMAIN e.procs : \/ e.procs[i].status = "running"
                                  \/ e.procs[i].status = "stopped" /\ "STOPPED" \in e.stat
    BY <1>1, <1>2 DEF Held
  <2>3. FlagsInv(f)
    BY <2>1, <2>2 DEF FlagsInv
  <2>4. QED
    BY <1>2, <2>1, <2>3 DEF u
<1>3. CASE ~Held(t, j)
  <2>1. /\ u \in Tables /\ u.thisjob = t.thisjob
        /\ u.lastval = IF j = t.thisjob THEN LastProc(t, j).status ELSE t.lastval
        /\ \A k \in Jobs \ {j} : u.jobtab[k] = t.jobtab[k]
        /\ \/ f = FreeEntry /\ "LOCKED" \in e.stat /\ "DONE" \in e.stat \cup {Flag(t, j)}
           \/ /\ f.procs = e.procs
              /\ f.stat \ {"CHANGED"} = (e.stat \cup {Flag(t, j)}) \ {"CHANGED"}
    BY <1>1, <1>3, UpdateMarks
  <2> HIDE DEF u
  <2>2. \A i \in DOMAIN e.procs : e.procs[i].status \in Exits \cup {"stopped"}
    BY <1>1, <1>3 DEF Held
  <2>3. CASE f = FreeEntry /\ "LOCKED" \in e.stat /\ "DONE" \in e.stat \cup {Flag(t, j)}
    <3>1. "stopped" \notin Statuses(t, j)
      BY <2>3 DEF Flag
    <3>2. \A i \in DOMAIN e.procs : e.procs[i].status \in Exits
      BY <1>1, <2>2, <3>1
    <3>3. FlagsInv(f)
      BY <2>3, FreeFlags
    <3>4. QED
      BY <1>3, <2>1, <2>3, <3>2, <3>3 DEF u
  <2>4. CASE /\ f.procs = e.procs
             /\ f.stat \ {"CHANGED"} = (e.stat \cup {Flag(t, j)}) \ {"CHANGED"}
    <3>1. /\ e.stat \ {"CHANGED"} \subseteq f.stat /\ Flag(t, j) \in f.stat /\ "INUSE" \in f.stat
          /\ "DONE" \in f.stat => Flag(t, j) = "DONE"
          /\ "LOCKED" \in f.stat => "LOCKED" \in e.stat
      BY <2>4 DEF Flag
    <3>2. FlagsInv(f)
      <4>1. CASE Flag(t, j) = "DONE"
        <5>1. "stopped" \notin Statuses(t, j)
          BY <4>1 DEF Flag
        <5>2. \A i \in DOMAIN e.procs : e.procs[i].status \in Exits
          BY <1>1, <2>2, <5>1
        <5> HIDE DEF e, f
        <5>3. QED
          BY <2>4, <3>1, <4>1, <5>2 DEF FlagsInv
      <4>2. CASE Flag(t, j) # "DONE"
        <5>1. "stopped" \in Statuses(t, j) /\ "STOPPED" \in f.stat
          BY <3>1, <4>2 DEF Flag
        <5>2. \E i \in DOMAIN e.procs : e.procs[i].status = "stopped"
          BY <1>1, <5>1
        <5> HIDE DEF e, f
        <5>3. QED
          BY <2>4, <3>1, <4>2, <5>1, <5>2 DEF FlagsInv
      <4>3. QED
        BY <4>1, <4>2
    <3>3. QED
      BY <1>3, <2>1, <2>4, <3>1, <3>2 DEF u
  <2>5. QED
    BY <2>1, <2>3, <2>4
<1>4. QED
  BY <1>2, <1>3

\* What a report means for the children.
LEMMA ReapChildren ==
  ASSUME JobsInv, NEW p \in Pids, Reap(p)
  PROVE  /\ p \in news /\ news' = news \ {p} /\ os[p] \in Values /\ os[p] # "none" /\ handler
         /\ \A q \in Pids \ {p} : os'[q] = os[q] /\ (q \in disowned' <=> q \in disowned)
         /\ os[p] \in Exits => os'[p] = "none"
         /\ os[p] \notin Exits => os[p] = "stopped" /\ os'[p] = "stopped" /\ disowned' = disowned
         /\ os' \in [Pids -> Values \cup {"none", "running"}] /\ disowned' \subseteq Pids
         /\ UNCHANGED <<shell, handler, sigchld>> /\ shell.pc # "suspended"
         /\ ChildrenInv'
<1>1. /\ p \in news /\ news' = news \ {p} /\ handler /\ UNCHANGED <<shell, handler, sigchld>>
      /\ os' = IF os[p] \in Exits THEN [os EXCEPT ![p] = "none"] ELSE os
      /\ disowned' = IF os[p] \in Exits THEN disowned \ {p} ELSE disowned
  BY DEF Reap
<1>2. "none" \notin Values /\ "none" \notin Exits
  BY JobsAssumption DEF Values
<1>3. os[p] \in Values /\ os[p] # "none" /\ (os[p] \notin Exits => os[p] = "stopped")
  BY <1>1, <1>2 DEF JobsInv, ChildrenInv, Values
<1>4. /\ \A q \in Pids \ {p} : os'[q] = os[q] /\ (q \in disowned' <=> q \in disowned)
      /\ os[p] \in Exits => os'[p] = "none"
      /\ os[p] \notin Exits => os'[p] = "stopped" /\ disowned' = disowned
      /\ os' \in [Pids -> Values \cup {"none", "running"}] /\ disowned' \subseteq Pids
  BY <1>1, <1>3, Places
<1>5. shell.pc # "suspended"
  BY <1>1 DEF JobsInv, PlacesInv
<1>6. ChildrenInv'
  BY <1>1, <1>2, <1>3, <1>4, Places, JobsAssumption DEF JobsInv, ChildrenInv
<1>7. QED
  BY <1>1, <1>3, <1>4, <1>5, <1>6

\* A report of a process that has no record.
LEMMA ReapUnknown ==
  ASSUME JobsInv, NEW p \in Pids, Reap(p), p \notin Known
  PROVE  JobsInv'
<1>1. /\ p \in news /\ news' = news \ {p} /\ os[p] \in Values /\ os[p] # "none" /\ handler
      /\ \A q \in Pids \ {p} : os'[q] = os[q] /\ (q \in disowned' <=> q \in disowned)
      /\ os[p] \in Exits => os'[p] = "none"
      /\ os[p] \notin Exits => os[p] = "stopped" /\ os'[p] = "stopped" /\ disowned' = disowned
      /\ os' \in [Pids -> Values \cup {"none", "running"}] /\ disowned' \subseteq Pids
      /\ UNCHANGED <<shell, handler, sigchld>> /\ shell.pc # "suspended"
      /\ ChildrenInv'
  BY ReapChildren
<1>2. /\ UNCHANGED <<table, result>>
      /\ \/ cmdout' = [pid |-> NoPid, val |-> IF p = shell.sub THEN os[p] ELSE "ok"]
         \/ cmdout' = cmdout /\ p # cmdout.pid
  BY DEF Reap
<1>3. /\ cmdout' \in [pid : Pids \cup {NoPid}, val : Values]
      /\ \/ cmdout'.pid = NoPid
         \/ cmdout' = cmdout /\ p # cmdout.pid
  <2>1. CASE cmdout' = [pid |-> NoPid, val |-> IF p = shell.sub THEN os[p] ELSE "ok"]
    BY <1>1, <2>1, StatusValues
  <2>2. CASE cmdout' = cmdout /\ p # cmdout.pid
    BY <2>2 DEF JobsInv, TypeOK
  <2>3. QED
    BY <1>2, <2>1, <2>2
<1>4. EntriesInv'
  <2>1. ASSUME NEW k \in Jobs, NEW i \in DOMAIN table.jobtab[k].procs
        PROVE  RecordInv(table.jobtab[k].procs[i])'
    <3>1. RecordInv(table.jobtab[k].procs[i]) /\ table.jobtab[k].procs[i].pid \in Pids \ {p}
      BY EndedIsGone DEF JobsInv, EntriesInv
    <3>2. QED
      BY <1>1, <1>2, <3>1 DEF RecordInv
  <2>2. QED
    BY <1>2, <2>1 DEF JobsInv, EntriesInv, FlagsInv
<1>5. PidsInv'
  <2>1. Known' = Known /\ Substitution' = Substitution
    BY <1>1, <1>2 DEF Known, PidsOf, Substitution
  <2>2. cmdout'.pid # NoPid => /\ cmdout'.pid \notin Known' /\ os'[cmdout'.pid] # "none"
                               /\ cmdout'.pid \in disowned' \cup Substitution'
    BY <1>1, <1>3, <2>1, Places DEF JobsInv, PidsInv
  <2>3. \A q \in Pids : os'[q] # "none" => q \in Known' \cup disowned' \cup Substitution'
    BY <1>1, <2>1 DEF JobsInv, PidsInv
  <2>4. QED
    BY <1>2, <2>2, <2>3 DEF JobsInv, PidsInv
<1>6. PlacesInv'
  <2>1. Unfilled' = Unfilled
    BY <1>1, <1>2 DEF Unfilled
  <2>2. shell.command = "disown" =>
          \A q \in PidsOf(table, table.thisjob) : os'[q] = "none" \/ q \in disowned'
    <3> SUFFICES ASSUME shell.command = "disown", NEW i \in DOMAIN table.jobtab[table.thisjob].procs
                 PROVE  LET q == table.jobtab[table.thisjob].procs[i].pid
                        IN  os'[q] = "none" \/ q \in disowned'
      BY DEF PidsOf
    <3>1. table.thisjob \in Jobs
      BY DEF JobsInv, PlacesInv
    <3>2. /\ table.jobtab[table.thisjob].procs[i].pid \in Pids \ {p}
          /\ table.jobtab[table.thisjob].procs[i].pid \in PidsOf(table, table.thisjob)
      BY <3>1, EndedIsGone
    <3>3. QED
      BY <1>1, <3>2 DEF JobsInv, PlacesInv
  <2>3. QED
    BY <1>1, <1>2, <2>1, <2>2 DEF JobsInv, PlacesInv, Stat, PidsOf
<1>7. ResultInv'
  BY <1>1, <1>2 DEF JobsInv, ResultInv
<1>8. TypeOK'
  BY <1>1, <1>2, <1>3 DEF JobsInv, TypeOK
<1>9. QED
  BY <1>1, <1>4, <1>5, <1>6, <1>7, <1>8 DEF JobsInv

\* The record of a process that is in the table, before and after its report.
LEMMA ReapRecord ==
  ASSUME JobsInv, NEW p \in Pids, Reap(p), p \in Known
  PROVE  /\ cmdout' = cmdout /\ p # cmdout.pid /\ ResultInv'
         /\ table' \in Tables /\ table'.thisjob = table.thisjob
         /\ \E j \in Jobs : \E h \in DOMAIN table.jobtab[j].procs :
              LET e == table.jobtab[j]
                  f == table'.jobtab[j]
              IN  /\ e.procs[h].pid = p
                  /\ \A k \in Jobs : \A i \in DOMAIN table.jobtab[k].procs :
                       table.jobtab[k].procs[i].pid = p => k = j /\ i = h
                  /\ \A k \in Jobs \ {j} : table'.jobtab[k] = table.jobtab[k]
                  /\ "INUSE" \in e.stat /\ FlagsInv(f)
                  /\ \/ /\ f = FreeEntry /\ "LOCKED" \in e.stat /\ os[p] \in Exits
                        /\ \A i \in DOMAIN e.procs \ {h} : e.procs[i].status \in Exits
                     \/ /\ DOMAIN f.procs = DOMAIN e.procs
                        /\ f.procs[h] = [pid |-> p, status |-> os[p]]
                        /\ \A i \in DOMAIN e.procs \ {h} : f.procs[i] = e.procs[i]
                        /\ e.stat \ {"CHANGED"} \subseteq f.stat
                        /\ "LOCKED" \in f.stat => "LOCKED" \in e.stat
<1> DEFINE j == JobOf(p)
           t == update_process(table, j, p, os[p])
           e == table.jobtab[j]
<1>1. cmdout.pid # NoPid => cmdout.pid \notin Known
  BY DEF JobsInv, PidsInv
<1>2. p # NoPid
  BY JobsAssumption
<1>3. cmdout' = cmdout /\ p # cmdout.pid /\ table' = update_job(t, j)
  BY <1>1, <1>2 DEF Reap
<1>4. j \in Jobs /\ p \in PidsOf(table, j)
  BY DEF Known, JobOf
<1>5. PICK h \in DOMAIN e.procs : e.procs[h].pid = p
  BY <1>4 DEF PidsOf
<1>6. result' = IF shell.command # "none" /\ j = shell.job THEN Outcome(t) ELSE result
  BY DEF Reap
<1>7. os[p] \in Values /\ os[p] # "none" /\ UNCHANGED shell /\ (os[p] \in Exits \/ os[p] = "stopped")
  BY ReapChildren DEF Values
<1> HIDE DEF j
<1>8. /\ t \in Tables /\ SameNames(table, t)
      /\ \A k \in Jobs \ {j} : t.jobtab[k] = table.jobtab[k]
      /\ t.jobtab[j].stat = e.stat
      /\ DOMAIN t.jobtab[j].procs = DOMAIN e.procs
      /\ \A i \in DOMAIN e.procs :
           t.jobtab[j].procs[i] = IF e.procs[i].pid = p THEN [pid |-> p, status |-> os[p]] ELSE e.procs[i]
  BY <1>4, <1>7, Places, Updated
<1>9. \A k \in Jobs : \A i \in DOMAIN table.jobtab[k].procs :
        table.jobtab[k].procs[i].pid = p => k = j /\ i = h
  BY <1>4, <1>5 DEF JobsInv, PidsInv
<1>10. /\ t.jobtab[j].procs[h] = [pid |-> p, status |-> os[p]]
       /\ \A i \in DOMAIN e.procs \ {h} : t.jobtab[j].procs[i] = e.procs[i]
  BY <1>4, <1>5, <1>8, <1>9
<1>11. e.procs[h].status \notin Exits
  BY <1>4, <1>5, <1>7, EndedIsGone
<1>12. /\ "DONE" \notin t.jobtab[j].stat /\ "INUSE" \in t.jobtab[j].stat
       /\ t.jobtab[j].procs # <<>>
  <2>1. FlagsInv(e) /\ e.procs # <<>>
    BY <1>4, <1>5 DEF JobsInv, EntriesInv
  <2>2. DOMAIN t.jobtab[j].procs # {}
    BY <1>5, <1>8
  <2>3. QED
    BY <1>5, <1>8, <1>11, <2>1, <2>2 DEF FlagsInv
<1> HIDE DEF t
<1>13. /\ table' \in Tables /\ table'.thisjob = t.thisjob /\ FlagsInv(table'.jobtab[j])
       /\ table'.lastval = IF ~Held(t, j) /\ j = t.thisjob THEN LastProc(t, j).status ELSE t.lastval
       /\ \A k \in Jobs \ {j} : table'.jobtab[k] = t.jobtab[k]
       /\ \/ /\ table'.jobtab[j] = FreeEntry /\ "LOCKED" \in t.jobtab[j].stat
             /\ \A i \in DOMAIN t.jobtab[j].procs : t.jobtab[j].procs[i].status \in Exits
          \/ /\ table'.jobtab[j].procs = t.jobtab[j].procs
             /\ t.jobtab[j].stat \ {"CHANGED"} \subseteq table'.jobtab[j].stat
             /\ "LOCKED" \in table'.jobtab[j].stat => "LOCKED" \in t.jobtab[j].stat
  BY <1>3, <1>4, <1>8, <1>12, UpdateFlags
<1>14. ResultInv'
  <2>1. t.thisjob = table.thisjob /\ t.lastval = table.lastval
    BY <1>8 DEF SameNames
  <2>2. None \notin Jobs
    BY JobsAssumption DEF Jobs, None
  <2>3. j = shell.job => Outcome(t) = IF Held(t, j) THEN result ELSE LastProc(t, j).status
    BY DEF Outcome, Held
  <2>4. QED
    BY <1>4, <1>6, <1>7, <1>13, <2>1, <2>2, <2>3 DEF JobsInv, ResultInv
<1>15. \/ /\ table'.jobtab[j] = FreeEntry /\ "LOCKED" \in e.stat /\ os[p] \in Exits
          /\ \A i \in DOMAIN e.procs \ {h} : e.procs[i].status \in Exits
       \/ /\ DOMAIN table'.jobtab[j].procs = DOMAIN e.procs
          /\ table'.jobtab[j].procs[h] = [pid |-> p, status |-> os[p]]
          /\ \A i \in DOMAIN e.procs \ {h} : table'.jobtab[j].procs[i] = e.procs[i]
          /\ e.stat \ {"CHANGED"} \subseteq table'.jobtab[j].stat
          /\ "LOCKED" \in table'.jobtab[j].stat => "LOCKED" \in e.stat
  <2> HIDE DEF e
  <2>1. CASE /\ table'.jobtab[j] = FreeEntry /\ "LOCKED" \in t.jobtab[j].stat
             /\ \A i \in DOMAIN t.jobtab[j].procs : t.jobtab[j].procs[i].status \in Exits
    <3>1. os[p] \in Exits
      BY <1>5, <1>8, <1>10, <2>1
    <3>2. QED
      BY <1>8, <1>10, <2>1, <3>1
  <2>2. CASE /\ table'.jobtab[j].procs = t.jobtab[j].procs
             /\ t.jobtab[j].stat \ {"CHANGED"} \subseteq table'.jobtab[j].stat
             /\ "LOCKED" \in table'.jobtab[j].stat => "LOCKED" \in t.jobtab[j].stat
    BY <1>8, <1>10, <2>2
  <2>3. QED
    BY <1>13, <2>1, <2>2
<1>16. table'.thisjob = table.thisjob
  BY <1>8, <1>13 DEF SameNames
<1>17. \A k \in Jobs \ {j} : table'.jobtab[k] = table.jobtab[k]
  BY <1>8, <1>13
<1>18. QED
  BY <1>3, <1>4, <1>5, <1>8, <1>9, <1>12, <1>13, <1>14, <1>15, <1>16, <1>17

\* A report of a process that has a record.
LEMMA ReapKnown ==
  ASSUME JobsInv, NEW p \in Pids, Reap(p), p \in Known
  PROVE  JobsInv'
<1>1. /\ p \in news /\ news' = news \ {p} /\ os[p] \in Values /\ os[p] # "none" /\ handler
      /\ \A q \in Pids \ {p} : os'[q] = os[q] /\ (q \in disowned' <=> q \in disowned)
      /\ os[p] \in Exits => os'[p] = "none"
      /\ os[p] \notin Exits => os[p] = "stopped" /\ os'[p] = "stopped" /\ disowned' = disowned
      /\ os' \in [Pids -> Values \cup {"none", "running"}] /\ disowned' \subseteq Pids
      /\ UNCHANGED <<shell, handler, sigchld>> /\ shell.pc # "suspended"
      /\ ChildrenInv'
  BY ReapChildren
<1>2. /\ cmdout' = cmdout /\ p # cmdout.pid /\ ResultInv'
      /\ table' \in Tables /\ table'.thisjob = table.thisjob
  BY ReapRecord
<1>3. PICK j \in Jobs : \E h \in DOMAIN table.jobtab[j].procs :
        LET e == table.jobtab[j]
            f == table'.jobtab[j]
        IN  /\ e.procs[h].pid = p
            /\ \A k \in Jobs : \A i \in DOMAIN table.jobtab[k].procs :
                 table.jobtab[k].procs[i].pid = p => k = j /\ i = h
            /\ \A k \in Jobs \ {j} : table'.jobtab[k] = table.jobtab[k]
            /\ "INUSE" \in e.stat /\ FlagsInv(f)
            /\ \/ /\ f = FreeEntry /\ "LOCKED" \in e.stat /\ os[p] \in Exits
                  /\ \A i \in DOMAIN e.procs \ {h} : e.procs[i].status \in Exits
               \/ /\ DOMAIN f.procs = DOMAIN e.procs
                  /\ f.procs[h] = [pid |-> p, status |-> os[p]]
                  /\ \A i \in DOMAIN e.procs \ {h} : f.procs[i] = e.procs[i]
                  /\ e.stat \ {"CHANGED"} \subseteq f.stat
                  /\ "LOCKED" \in f.stat => "LOCKED" \in e.stat
  BY ReapRecord
<1> DEFINE e == table.jobtab[j]
           f == table'.jobtab[j]
<1>4. PICK h \in DOMAIN e.procs :
        /\ e.procs[h].pid = p
        /\ \A k \in Jobs : \A i \in DOMAIN table.jobtab[k].procs :
             table.jobtab[k].procs[i].pid = p => k = j /\ i = h
        /\ \A k \in Jobs \ {j} : table'.jobtab[k] = table.jobtab[k]
        /\ "INUSE" \in e.stat /\ FlagsInv(f)
        /\ \/ /\ f = FreeEntry /\ "LOCKED" \in e.stat /\ os[p] \in Exits
              /\ \A i \in DOMAIN e.procs \ {h} : e.procs[i].status \in Exits
           \/ /\ DOMAIN f.procs = DOMAIN e.procs
              /\ f.procs[h] = [pid |-> p, status |-> os[p]]
              /\ \A i \in DOMAIN e.procs \ {h} : f.procs[i] = e.procs[i]
              /\ e.stat \ {"CHANGED"} \subseteq f.stat
              /\ "LOCKED" \in f.stat => "LOCKED" \in e.stat
  BY <1>3
<1>5. FreeEntry.procs = <<>> /\ FreeEntry.stat = {} /\ DOMAIN FreeEntry.procs = {} /\ None \notin Jobs
  BY FreeEntryType, JobsAssumption DEF FreeEntry, Jobs, None
\* Every record of the new table is one of the old: that of p, or unchanged.
<1>6. ASSUME NEW k \in Jobs, NEW i \in DOMAIN table'.jobtab[k].procs
      PROVE  /\ i \in DOMAIN table.jobtab[k].procs
             /\ table'.jobtab[k].procs[i].pid = table.jobtab[k].procs[i].pid
             /\ \/ k = j /\ i = h /\ table'.jobtab[k].procs[i] = [pid |-> p, status |-> os[p]]
                \/ /\ table'.jobtab[k].procs[i] = table.jobtab[k].procs[i]
                   /\ table.jobtab[k].procs[i].pid \in Pids \ {p}
  <2>1. CASE k # j
    <3>1. table'.jobtab[k] = table.jobtab[k]
      BY <1>4, <2>1
    <3>2. QED
      BY <1>4, <1>6, <2>1, <3>1, EndedIsGone
  <2>2. CASE k = j
    <3>1. /\ DOMAIN f.procs = DOMAIN e.procs /\ i \in DOMAIN e.procs
          /\ f.procs[h] = [pid |-> p, status |-> os[p]]
          /\ \A l \in DOMAIN e.procs \ {h} : f.procs[l] = e.procs[l]
      BY <1>4, <1>5, <1>6, <2>2
    <3>2. CASE i = h
      BY <1>4, <2>2, <3>1, <3>2
    <3>3. CASE i # h
      BY <1>4, <2>2, <3>1, <3>3, EndedIsGone
    <3>4. QED
      BY <3>2, <3>3
  <2>3. QED
    BY <2>1, <2>2
\* A record that goes with its job is of a process that is gone.
<1>7. ASSUME NEW k \in Jobs, NEW i \in DOMAIN table.jobtab[k].procs
      PROVE  LET q == table.jobtab[k].procs[i].pid
             IN  \/ i \in DOMAIN table'.jobtab[k].procs /\ q = table'.jobtab[k].procs[i].pid
                 \/ os'[q] = "none"
  <2>1. CASE k # j
    BY <1>4, <2>1
  <2>2. CASE k = j /\ DOMAIN f.procs = DOMAIN e.procs
    BY <1>6, <2>2
  <2>3. CASE k = j /\ os[p] \in Exits /\ \A l \in DOMAIN e.procs \ {h} : e.procs[l].status \in Exits
    <3>1. CASE i = h
      BY <1>1, <1>4, <2>3, <3>1
    <3>2. CASE i # h
      <4>1. e.procs[i].pid \in Pids \ {p} /\ os[e.procs[i].pid] = "none"
        BY <1>4, <2>3, <3>2, EndedIsGone
      <4>2. QED
        BY <1>1, <2>3, <4>1
    <3>3. QED
      BY <3>1, <3>2
  <2>4. QED
    BY <1>4, <2>1, <2>2, <2>3
<1>8. EntriesInv'
  <2>1. ASSUME NEW k \in Jobs PROVE FlagsInv(table'.jobtab[k])
    BY <1>4 DEF JobsInv, EntriesInv
  <2>2. ASSUME NEW k \in Jobs, NEW i \in DOMAIN table'.jobtab[k].procs
        PROVE  RecordInv(table.jobtab[k].procs[i])'
    <3>1. CASE table'.jobtab[k].procs[i] = [pid |-> p, status |-> os[p]]
      <4>1. os[p] \in Exits => os[p] # "stopped" /\ os[p] # "running"
        BY JobsAssumption
      <4>2. QED
        BY <1>1, <3>1, <4>1, JobsAssumption DEF RecordInv
    <3>2. CASE /\ table'.jobtab[k].procs[i] = table.jobtab[k].procs[i]
               /\ table.jobtab[k].procs[i].pid \in Pids \ {p}
      <4>1. RecordInv(table.jobtab[k].procs[i])
        BY <1>6, <2>2 DEF JobsInv, EntriesInv
      <4>2. QED
        BY <1>1, <3>2, <4>1 DEF RecordInv
    <3>3. QED
      BY <1>6, <2>2, <3>1, <3>2
  <2>3. QED
    BY <2>1, <2>2 DEF EntriesInv, FlagsInv
<1>9. PidsInv'
  <2>1. \A k, m \in Jobs : \A i \in DOMAIN table'.jobtab[k].procs, l \in DOMAIN table'.jobtab[m].procs :
          table'.jobtab[k].procs[i].pid = table'.jobtab[m].procs[l].pid => k = m /\ i = l
    BY <1>6 DEF JobsInv, PidsInv
  <2>2. Substitution' = Substitution
    BY <1>1 DEF Substitution
  <2>3. cmdout.pid # NoPid => cmdout.pid \in Pids \ {p} /\ cmdout.pid \notin Known'
    <3>1. cmdout.pid # NoPid => cmdout.pid \in Pids \ {p} /\ cmdout.pid \notin Known
      BY <1>2, Places DEF JobsInv, PidsInv
    <3>2. \A q \in Known' : q \in Known
      BY <1>6, KnownPids
    <3>3. QED
      BY <3>1, <3>2
  <2>4. cmdout'.pid # NoPid => /\ cmdout'.pid \notin Known' /\ os'[cmdout'.pid] # "none"
                               /\ cmdout'.pid \in disowned' \cup Substitution'
    BY <1>1, <1>2, <2>2, <2>3 DEF JobsInv, PidsInv
  <2>5. \A q \in Pids : os'[q] # "none" => q \in Known' \cup disowned' \cup Substitution'
    <3> SUFFICES ASSUME NEW q \in Pids, os'[q] # "none"
                 PROVE  q \in Known' \cup disowned' \cup Substitution'
      OBVIOUS
    <3>1. CASE q \in Known
      BY <1>7, <3>1, KnownPids
    <3>2. CASE q \notin Known
      <4>1. q # p /\ os[q] # "none"
        BY <1>1, <3>2
      <4>2. QED
        BY <1>1, <2>2, <3>2, <4>1 DEF JobsInv, PidsInv
    <3>3. QED
      BY <3>1, <3>2
  <2>6. QED
    BY <2>1, <2>4, <2>5 DEF PidsInv
<1>10. e.procs # <<>> /\ (f.stat # {} => f.procs # <<>>)
  <2>1. DOMAIN e.procs # {}
    BY <1>4
  <2>2. f.stat # {} => DOMAIN f.procs # {}
    BY <1>4, <1>5
  <2>3. QED
    BY <2>1, <2>2
<1>11. PlacesInv'
  <2>1. Unfilled' = Unfilled
    BY <1>1, <1>2 DEF Unfilled
  <2>2. \A k \in Jobs : Stat(table, k)' # {} /\ table'.jobtab[k].procs = <<>> => k \in Unfilled'
    BY <1>4, <1>10, <2>1 DEF JobsInv, PlacesInv, Stat
  <2>3. shell.command \in Builtins =>
          /\ shell.pc # "build" /\ shell.own \in Jobs /\ table'.jobtab[shell.own].procs = <<>>
    BY <1>4, <1>10 DEF JobsInv, PlacesInv
  <2>4. shell.command \in {"run", "async", "disown"} /\ shell.job = None =>
          /\ table.thisjob \in Jobs /\ Stat(table, table.thisjob)' # {}
          /\ "LOCKED" \notin Stat(table, table.thisjob)'
    <3>1. CASE table.thisjob # j
      BY <1>2, <1>4, <3>1 DEF JobsInv, PlacesInv, Stat
    <3>2. CASE table.thisjob = j
      <4>1. "LOCKED" \notin e.stat => "INUSE" \in f.stat /\ "LOCKED" \notin f.stat
        BY <1>4
      <4> HIDE DEF e, f
      <4>2. QED
        BY <1>2, <3>2, <4>1 DEF JobsInv, PlacesInv, Stat, e, f
    <3>3. QED
      BY <3>1, <3>2
  <2>5. shell.command = "disown" =>
          \A q \in PidsOf(table', table.thisjob) : os'[q] = "none" \/ q \in disowned'
    <3> SUFFICES ASSUME shell.command = "disown", NEW i \in DOMAIN table'.jobtab[table.thisjob].procs
                 PROVE  LET q == table'.jobtab[table.thisjob].procs[i].pid
                        IN  os'[q] = "none" \/ q \in disowned'
      BY DEF PidsOf
    <3>1. table.thisjob \in Jobs
      BY DEF JobsInv, PlacesInv
    <3> DEFINE q == table.jobtab[table.thisjob].procs[i].pid
    <3>2. /\ i \in DOMAIN table.jobtab[table.thisjob].procs
          /\ table'.jobtab[table.thisjob].procs[i].pid = q
      BY <1>6, <3>1
    <3>3. q \in Pids /\ q \in PidsOf(table, table.thisjob)
      BY <3>1, <3>2, EndedIsGone
    <3> HIDE DEF q
    <3>4. os[q] = "none" \/ q \in disowned
      BY <3>3 DEF JobsInv, PlacesInv
    <3>5. os'[q] = "none" \/ q \in disowned'
      BY <1>1, <3>3, <3>4
    <3>6. QED
      BY <3>2, <3>5
  <2>6. shell.pc \in {"loop", "suspended"} /\ Stat(table, shell.job)' # {} =>
          table'.jobtab[shell.job].procs # <<>>
    <3> SUFFICES ASSUME shell.pc \in {"loop", "suspended"}, table'.jobtab[shell.job].stat # {}
                 PROVE  table'.jobtab[shell.job].procs # <<>>
      BY <1>1 DEF Stat
    <3>1. shell.job \in Jobs
      BY Places DEF JobsInv, PlacesInv, Shells
    <3>2. CASE shell.job = j
      BY <1>10, <3>2
    <3>3. CASE shell.job # j
      BY <1>4, <3>1, <3>3 DEF JobsInv, PlacesInv, Stat
    <3>4. QED
      BY <3>2, <3>3
  <2>7. table'.thisjob = table.thisjob /\ shell' = shell /\ handler' = handler
    BY <1>1, <1>2
  <2> HIDE DEF e, f
  <2>8. QED
    BY <1>1, <2>1, <2>2, <2>3, <2>4, <2>5, <2>6, <2>7 DEF JobsInv, PlacesInv
<1>12. TypeOK'
  BY <1>1, <1>2 DEF JobsInv, TypeOK
<1>13. QED
  BY <1>1, <1>2, <1>8, <1>9, <1>11, <1>12 DEF JobsInv

-----------------------------------------------------------------------------
(* The invariant holds in every state.                                     *)

LEMMA InitInv == Init => JobsInv
<1> SUFFICES ASSUME Init PROVE JobsInv
  OBVIOUS
<1>1. /\ table = EmptyTable /\ shell = AtPrompt /\ handler = FALSE /\ sigchld = FALSE
      /\ os = [p \in Pids |-> "none"] /\ news = {} /\ cmdout = [pid |-> NoPid, val |-> "ok"]
      /\ disowned = {} /\ result = "none"
  BY DEF Init
<1>2. /\ shell.pc = "prompt" /\ shell.command = "none" /\ shell.job = None /\ shell.own = None
      /\ shell.left = 0 /\ shell.sub = NoPid /\ shell.errflag = FALSE
  BY <1>1 DEF AtPrompt
<1>3. /\ \A j \in Jobs : table.jobtab[j] = FreeEntry
      /\ FreeEntry \in Entries /\ FreeEntry.stat = {} /\ FreeEntry.procs = <<>>
      /\ DOMAIN FreeEntry.procs = {}
  BY <1>1, FreeEntryType DEF EmptyTable
<1>4. table \in Tables
  BY <1>1, FreeEntryType, JobsAssumption DEF EmptyTable, Tables, Values
<1>5. shell \in Shells
  <2>1. /\ None \in Jobs \cup {None} /\ NoPid \in Pids \cup {NoPid} /\ 0 \in 0 .. MaxPipe
        /\ FALSE \in BOOLEAN /\ "none" \in {"none", "run", "async", "disown"} \cup Builtins
    BY JobsAssumption
  <2>2. QED
    BY <1>1, <2>1 DEF AtPrompt, Shells
<1>6. TypeOK
  BY <1>1, <1>4, <1>5, JobsAssumption DEF TypeOK, Values
<1>7. ChildrenInv
  BY <1>1, JobsAssumption DEF ChildrenInv
<1>8. EntriesInv
  BY <1>3, FreeFlags DEF EntriesInv
<1>9. PidsInv
  BY <1>1, <1>3 DEF PidsInv
<1>10. PlacesInv
  BY <1>1, <1>2, <1>3 DEF PlacesInv, Stat, Builtins
<1>11. ResultInv
  BY <1>1, <1>2 DEF ResultInv
<1>12. QED
  BY <1>6, <1>7, <1>8, <1>9, <1>10, <1>11 DEF JobsInv

LEMMA StepInv == JobsInv /\ [Next]_vars => JobsInv'
<1> SUFFICES ASSUME JobsInv, [Next]_vars PROVE JobsInv'
  OBVIOUS
<1>1. CASE Command
  <2>1. ASSUME NEW n \in 1 .. MaxPipe, NEW how \in {"run", "async", "disown"}, Pipeline(n, how)
        PROVE  JobsInv'
    BY <2>1, PipelineStep
  <2>2. ASSUME NEW command \in {"fg", "bg", "wait"}, ResumeJob(command)
        PROVE  JobsInv'
    BY <2>2, ResumeJobStep
  <2>3. CASE NoSuchJob
    BY <2>3, NoSuchJobStep
  <2>4. CASE jobs
    BY <2>4, JobsStep
  <2>5. CASE disown
    BY <2>5, DisownStep
  <2>6. CASE BgRunning
    BY <2>6, BgRunningStep
  <2>7. CASE WaitPid
    BY <2>7, WaitPidStep
  <2>8. CASE WaitAll
    BY <2>8, WaitAllStep
  <2>9. QED
    BY <1>1, <2>1, <2>2, <2>3, <2>4, <2>5, <2>6, <2>7, <2>8 DEF Command, Builtin
<1>2. CASE Building
  BY <1>2, ForkStep, ForkFailsStep, CommandSubstStep, StartedStep, StartedAsideStep DEF Building
<1>3. CASE Waits
  BY <1>3, StartWaitStep, LoopStep, StartPidWaitStep, PidLoopStep, SubstEndsStep, WaitedStep,
     PidWaitedStep DEF Waits
<1>4. CASE Interrupt
  BY <1>4, InterruptStep
<1>5. CASE Preprompting
  BY <1>5, ScanStep, PrintedStep, ClearedStep DEF Preprompting
<1>6. CASE Handler
  BY <1>6, CatchStep, HandlerEndsStep, ReapKnown, ReapUnknown DEF Handler
<1>7. CASE Child
  <2>1. PICK p \in Pids : Exit(p) \/ Stop(p)
    BY <1>7 DEF Child
  <2>2. CASE Exit(p)
    <3>1. PICK status \in Exits : Change(p, status)
      BY <2>2 DEF Exit
    <3>2. status \in Values /\ os[p] \in {"running", "stopped"}
      BY <2>2 DEF Exit, Values
    <3>3. QED
      BY <3>1, <3>2, ChangeStep
  <2>3. CASE Stop(p)
    <3>1. "stopped" \in Values /\ os[p] \in {"running", "stopped"} /\ Change(p, "stopped")
      BY <2>3 DEF Stop, Values
    <3>2. QED
      BY <3>1, ChangeStep
  <2>4. QED
    BY <2>1, <2>2, <2>3
<1>8. CASE UNCHANGED vars
  <2>1. UNCHANGED <<table, shell, handler, sigchld, os, news, cmdout, disowned, result>>
    BY <1>8 DEF vars
  <2>2. PlacesInv' /\ ResultInv'
    BY <2>1 DEF JobsInv, PlacesInv, ResultInv, Stat, PidsOf, Unfilled, Unfinished
  <2>3. QED
    BY <2>1, <2>2, QuietStep, Places DEF JobsInv, ChildrenInv
<1>9. QED
  BY <1>1, <1>2, <1>3, <1>4, <1>5, <1>6, <1>7, <1>8 DEF Next

-----------------------------------------------------------------------------
(* The theorems.                                                           *)

\* The inductive invariant of job control: the records of the table, its flags, the
\* children and the place of the main program fit together, whatever signals come when.
THEOREM JobsInvariance == Spec => []JobsInv
BY InitInv, StepInv, PTL DEF Spec

\* The variables of jobs.c keep their types, for tables and pipelines of any length.
THEOREM TypeCorrect == Spec => []TypeOK
<1>1. JobsInv => TypeOK
  BY DEF JobsInv
<1>2. QED
  BY <1>1, JobsInvariance, PTL

\* The job table matches the children: each is in exactly one job, alive, unless it was
\* given away; the records differ from what the processes do by untold changes only; and
\* no place of the table is lost.
THEOREM TableIsRight == Spec => []JobTable
<1>1. JobsInv => TableMatches
  <2> SUFFICES ASSUME JobsInv PROVE TableMatches
    OBVIOUS
  <2>1. ASSUME NEW p \in Pids, os[p] # "none", p \notin disowned \cup {shell.sub, cmdout.pid}
        PROVE  /\ Cardinality({j \in Jobs : p \in PidsOf(table, j)}) = 1
               /\ \E i \in DOMAIN table.jobtab[JobOf(p)].procs :
                    table.jobtab[JobOf(p)].procs[i] \in [pid : {p}, status : {"running", "stopped"}]
    <3>1. p \in Known
      BY <2>1 DEF JobsInv, PidsInv, Substitution
    <3> DEFINE k == JobOf(p)
    <3>2. k \in Jobs /\ p \in PidsOf(table, k)
      BY <3>1 DEF Known, JobOf
    <3> HIDE DEF k
    <3>3. {j \in Jobs : p \in PidsOf(table, j)} = {k}
      BY <3>2 DEF PidsOf, JobsInv, PidsInv
    <3>4. PICK i \in DOMAIN table.jobtab[k].procs : table.jobtab[k].procs[i].pid = p
      BY <3>2 DEF PidsOf
    <3>5. /\ table.jobtab[k].procs[i] \in Processes
          /\ table.jobtab[k].procs[i].status \in {"stopped", "running"}
      BY <2>1, <3>2, <3>4, EndedIsGone, Places, Statuses1
    <3>6. table.jobtab[k].procs[i] \in [pid : {p}, status : {"running", "stopped"}]
      BY <3>4, <3>5 DEF Processes
    <3>7. Cardinality({k}) = 1
      BY FS_Singleton
    <3>8. QED
      BY <3>3, <3>6, <3>7 DEF k
  <2>2. At("prompt") => \A j \in Jobs : Stat(table, j) # {} => table.jobtab[j].procs # <<>>
    BY DEF JobsInv, PlacesInv, At, Unfilled, Builtins
  <2>3. QED
    BY <2>1, <2>2 DEF TableMatches
<1>2. JobsInv => RecordsFresh
  <2> SUFFICES ASSUME JobsInv PROVE RecordsFresh
    OBVIOUS
  <2>1. ASSUME NEW j \in Jobs, NEW i \in DOMAIN table.jobtab[j].procs
        PROVE  LET proc == table.jobtab[j].procs[i]
               IN  \/ proc.pid \in news
                   \/ proc.status = os[proc.pid]
                   \/ proc.status \in Exits /\ os[proc.pid] = "none"
                   \/ proc.status = "stopped" /\ os[proc.pid] = "running"
    <3>1. table.jobtab[j].procs[i].status \in Exits \cup {"stopped", "running"}
      BY Places, Statuses1
    <3>2. RecordInv(table.jobtab[j].procs[i])
      BY DEF JobsInv, EntriesInv
    <3>3. QED
      BY <3>1, <3>2 DEF RecordInv
  <2>2. QED
    BY <2>1 DEF RecordsFresh, JobsInv, ChildrenInv
<1>3. QED
  BY <1>1, <1>2, JobsInvariance, PTL DEF JobTable

\* The shell sleeps in zwaitjob only while a process of the job runs or a signal is about
\* to wake it: no change is lost between the test and the suspension.
THEOREM WaitsForRunning == Spec => []WaitedForRuns
<1>1. JobsInv => WaitedForRuns
  <2> SUFFICES ASSUME JobsInv, shell.pc = "suspended", ~sigchld
               PROVE  \E p \in PidsOf(table, shell.job) : os[p] = "running"
    BY DEF WaitedForRuns
  <2> DEFINE e == table.jobtab[shell.job]
  <2>1. ~handler /\ Unfinished(shell.job) /\ shell.job \in Jobs /\ e.procs # <<>>
    BY Places DEF JobsInv, PlacesInv, Shells, Unfinished
  <2>2. news = {}
    BY <2>1 DEF JobsInv, ChildrenInv
  <2>3. "DONE" \notin e.stat /\ "STOPPED" \notin e.stat
    BY <2>1 DEF Unfinished, Stat
  <2>4. PICK i \in DOMAIN e.procs : e.procs[i].status = "running"
    BY <2>1, <2>3 DEF JobsInv, EntriesInv, FlagsInv
  <2>5. e.procs[i].pid \in PidsOf(table, shell.job) /\ RecordInv(e.procs[i])
    BY <2>1 DEF PidsOf, JobsInv, EntriesInv
  <2>6. QED
    BY <2>2, <2>4, <2>5 DEF RecordInv
<1>2. QED
  BY <1>1, JobsInvariance, PTL

\* When the wait for a pipeline started in the foreground is over, $? is the status of
\* its last process, whatever of it and whatever other job ended before or in between.
THEOREM ForegroundIsTold == Spec => []ForegroundStatus
<1>1. JobsInv => ForegroundStatus
  BY DEF JobsInv, PlacesInv, ResultInv, ForegroundStatus, At
<1>2. QED
  BY <1>1, JobsInvariance, PTL

\* fg, bg and disown without argument find a job of the table, never the place of the
\* builtin that asks.
THEOREM CurrentIsAJob == Spec => []CurrentNames
<1>1. JobsInv => CurrentNames
  BY BuiltinFinds DEF CurrentNames, BeginBuiltin
<1>2. QED
  BY <1>1, JobsInvariance, PTL
=============================================================================
