--------------------------- MODULE MakeUpdate_proofs ---------------------------
(*****************************************************************************)
(* Proofs about MakeUpdate: types, the walk over the graph, and when a       *)
(* target's commands are started.                                            *)
(*                                                                           *)
(* TypeOK and PlacesInv together are inductive. WalkInv is if no             *)
(* intermediate file depends on itself: there is a lemma for each of its     *)
(* conjuncts that the steps keep it, by what a step does to the stack        *)
(* (replace the call on top, make a call above it, return from it). MadeInv  *)
(* is inductive if, besides, no intermediate file is made by way of two      *)
(* others.                                                                   *)
(*****************************************************************************)
EXTENDS MakeUpdate, FiniteSetTheorems, SequenceTheorems, TLAPS

-----------------------------------------------------------------------------
(* Numbers.                                                                *)

\* Every set of natural numbers has a least one.
LEMMA Least ==
  ASSUME NEW S, S \subseteq Nat, S # {}
  PROVE  \E x \in S : \A y \in S : x <= y
<1> DEFINE Less == {ss \in Nat \X Nat : ss[1] < ss[2]}
<1>0. IsWellFoundedOn(Less, Nat)
  BY NatLessThanWellFounded DEF OpToRel
<1>1. PICK x \in S : \A y \in S : <<y, x>> \notin Less
  <2> HIDE DEF Less
  <2> QED BY <1>0, WFMin
<1>2. \A y \in S : ~(y < x)
  BY <1>1
<1>3. QED
  BY <1>2

\* Min is that one.
LEMMA MinIsLeast ==
  ASSUME NEW S, S \subseteq Nat, S # {}
  PROVE  Min(S) \in S /\ \A y \in S : Min(S) <= y
BY Least DEF Min

\* A finite set of natural numbers has an upper bound.
LEMMA Bounded ==
  ASSUME NEW S, IsFiniteSet(S), S \subseteq Nat
  PROVE  \E b \in Nat : \A y \in S : y <= b
<1> DEFINE N == Cardinality(S)
<1>1. N \in Nat /\ ExistsBijection(1 .. N, S)
  BY FS_CardinalityType
<1>2. PICK f \in [1 .. N -> S] : \A y \in S : \E i \in 1 .. N : f[i] = y
  BY <1>1 DEF ExistsBijection, Bijection, Surjection
<1> HIDE DEF N
<1>3. \A i \in 1 .. N : f[i] \in Nat
  BY <1>2
<1> DEFINE Bounds(m, b) == \A i \in 1 .. m : f[i] <= b
           Good(m) == \E b \in Nat : Bounds(m, b)
           Bad == {m \in 0 .. N : ~Good(m)}
<1>4. Good(0)
  <2>1. Bounds(0, 0)
    OBVIOUS
  <2>2. QED
    BY <2>1
<1>5. ASSUME NEW m \in 1 .. N, Good(m - 1)
      PROVE  Good(m)
  <2>1. PICK b \in Nat : Bounds(m - 1, b)
    BY <1>5
  <2>2. f[m] \in Nat /\ b + f[m] \in Nat
    BY <1>3
  <2>3. ASSUME NEW i \in 1 .. m
        PROVE  f[i] <= b + f[m]
    <3>1. f[i] \in Nat /\ (i = m \/ i \in 1 .. m - 1)
      BY <1>1, <1>3
    <3>2. QED
      BY <2>1, <2>2, <3>1
  <2>4. QED
    BY <2>2, <2>3
<1> HIDE DEF Good
<1>6. Bad = {}
  <2> SUFFICES ASSUME Bad # {} PROVE FALSE
    OBVIOUS
  <2>1. PICK m \in Bad : \A k \in Bad : m <= k
    BY <1>1, Least, Bad \subseteq Nat
  <2>2. m \in 1 .. N /\ m - 1 \in 0 .. N
    BY <1>1, <1>4, <2>1
  <2>3. Good(m - 1)
    BY <2>1, <2>2
  <2>4. QED
    BY <1>5, <2>1, <2>2, <2>3
<1>7. Good(N)
  BY <1>1, <1>6
<1>8. QED
  BY <1>2, <1>7 DEF Good

\* Max is the greatest element of a finite set that is not empty.
LEMMA MaxIsGreatest ==
  ASSUME NEW S, IsFiniteSet(S), S \subseteq Nat, S # {}
  PROVE  Max(S) \in S /\ \A y \in S : y <= Max(S)
<1> DEFINE B == {b \in Nat : \A y \in S : y <= b}
<1>1. B # {}
  BY Bounded
<1>2. PICK x \in B : \A b \in B : x <= b
  BY <1>1, Least
<1>3. x \in S
  <2> SUFFICES ASSUME x \notin S PROVE FALSE
    OBVIOUS
  <2>1. \A y \in S : y <= x - 1
    BY <1>2
  <2>2. x - 1 \in Nat
    <3>1. PICK y \in S : TRUE
      OBVIOUS
    <3>2. y \in Nat /\ x \in Nat /\ y <= x - 1
      BY <1>2, <2>1
    <3>3. QED
      BY <3>2
  <2>3. x - 1 \in B
    BY <2>1, <2>2
  <2>4. QED
    BY <1>2, <2>2, <2>3
<1>4. \E y \in S : \A z \in S : y >= z
  BY <1>2, <1>3
<1>5. Max(S) \in S /\ \A z \in S : Max(S) >= z
  BY <1>4 DEF Max
<1>6. QED
  BY <1>5

-----------------------------------------------------------------------------
(* Sequences.                                                              *)

\* The frame on top is replaced.
LEMMA Replaced ==
  ASSUME NEW T, NEW s \in Seq(T), s # <<>>, NEW a \in T
  PROVE  /\ <<a>> \o Tail(s) \in Seq(T) /\ Len(<<a>> \o Tail(s)) = Len(s)
         /\ (<<a>> \o Tail(s))[1] = a
         /\ \A k \in 2 .. Len(s) : (<<a>> \o Tail(s))[k] = s[k]
<1>1. /\ Tail(s) \in Seq(T) /\ Len(Tail(s)) = Len(s) - 1 /\ Len(s) \in Nat \ {0}
      /\ \A k \in 1 .. Len(s) - 1 : Tail(s)[k] = s[k + 1]
  OBVIOUS
<1>2. <<a>> \in Seq(T) /\ Len(<<a>>) = 1 /\ <<a>>[1] = a
  OBVIOUS
<1>3. QED
  BY <1>1, <1>2

\* A frame is pushed.
LEMMA Pushed ==
  ASSUME NEW T, NEW s \in Seq(T), s # <<>>, NEW a \in T, NEW b \in T
  PROVE  /\ <<b, a>> \o Tail(s) \in Seq(T) /\ Len(<<b, a>> \o Tail(s)) = Len(s) + 1
         /\ (<<b, a>> \o Tail(s))[1] = b /\ (<<b, a>> \o Tail(s))[2] = a
         /\ \A k \in 2 .. Len(s) : (<<b, a>> \o Tail(s))[k + 1] = s[k]
<1>1. /\ Tail(s) \in Seq(T) /\ Len(Tail(s)) = Len(s) - 1 /\ Len(s) \in Nat \ {0}
      /\ \A k \in 1 .. Len(s) - 1 : Tail(s)[k] = s[k + 1]
  OBVIOUS
<1>2. <<b, a>> \in Seq(T) /\ Len(<<b, a>>) = 2 /\ <<b, a>>[1] = b /\ <<b, a>>[2] = a
  OBVIOUS
<1>3. QED
  BY <1>1, <1>2

\* An element is removed.
LEMMA Removed ==
  ASSUME NEW T, NEW s \in Seq(T), NEW i \in 1 .. Len(s)
  PROVE  /\ RemoveAt(s, i) \in Seq(T) /\ Len(RemoveAt(s, i)) = Len(s) - 1
         /\ \A k \in 1 .. i - 1 : RemoveAt(s, i)[k] = s[k]
         /\ \A k \in i .. Len(s) - 1 : RemoveAt(s, i)[k] = s[k + 1]
<1> DEFINE a == SubSeq(s, 1, i - 1)
           b == SubSeq(s, i + 1, Len(s))
<1>1. /\ a \in Seq(T) /\ Len(a) = i - 1
      /\ \A k \in 1 .. i - 1 : a[k] = s[k]
  OBVIOUS
<1>2. /\ b \in Seq(T) /\ Len(b) = Len(s) - i
      /\ \A k \in 1 .. Len(s) - i : b[k] = s[k + i]
  OBVIOUS
<1>3. RemoveAt(s, i) = a \o b
  BY DEF RemoveAt
<1> HIDE DEF a, b
<1>4. /\ a \o b \in Seq(T) /\ Len(a \o b) = Len(s) - 1
      /\ \A k \in 1 .. i - 1 : (a \o b)[k] = a[k]
      /\ \A k \in i .. Len(s) - 1 : (a \o b)[k] = b[k - i + 1]
  <2>1. a \o b \in Seq(T) /\ Len(a \o b) = Len(a) + Len(b)
    BY <1>1, <1>2, ConcatProperties
  <2>2. \A k \in 1 .. Len(a) + Len(b) :
          (a \o b)[k] = IF k <= Len(a) THEN a[k] ELSE b[k - Len(a)]
    BY <1>1, <1>2, ConcatProperties
  <2>3. Len(a) + Len(b) = Len(s) - 1 /\ Len(s) \in Nat /\ Len(a) = i - 1
    BY <1>1, <1>2
  <2>4. ASSUME NEW k \in 1 .. i - 1
        PROVE  (a \o b)[k] = a[k]
    <3>1. k \in 1 .. Len(a) + Len(b) /\ k <= Len(a)
      BY <2>3
    <3>2. QED
      BY <2>2, <3>1
  <2>5. ASSUME NEW k \in i .. Len(s) - 1
        PROVE  (a \o b)[k] = b[k - i + 1]
    <3>1. k \in 1 .. Len(a) + Len(b) /\ ~(k <= Len(a)) /\ k - Len(a) = k - i + 1
      BY <2>3
    <3>2. QED
      BY <2>2, <3>1
  <2>6. QED
    BY <2>1, <2>3, <2>4, <2>5
<1>5. \A k \in i .. Len(s) - 1 : k - i + 1 \in 1 .. Len(s) - i /\ (k - i + 1) + i = k + 1
  OBVIOUS
<1>6. QED
  BY <1>1, <1>2, <1>3, <1>4, <1>5

\* What a sequence holds after an element is removed, it held before.
LEMMA RemovedRange ==
  ASSUME NEW T, NEW s \in Seq(T), NEW i \in 1 .. Len(s)
  PROVE  Range(RemoveAt(s, i)) \subseteq Range(s)
<1> DEFINE r == RemoveAt(s, i)
<1>1. /\ r \in Seq(T) /\ Len(r) = Len(s) - 1 /\ Len(s) \in Nat \ {0}
      /\ \A k \in 1 .. i - 1 : r[k] = s[k]
      /\ \A k \in i .. Len(s) - 1 : r[k] = s[k + 1]
  BY Removed
<1> HIDE DEF r
<1>2. ASSUME NEW k \in 1 .. Len(r)
      PROVE  \E m \in 1 .. Len(s) : r[k] = s[m]
  <2>1. CASE k < i
    BY <1>1, <1>2, <2>1
  <2>2. CASE k >= i
    BY <1>1, <1>2, <2>2
  <2>3. QED
    BY <2>1, <2>2
<1>3. DOMAIN r = 1 .. Len(r) /\ DOMAIN s = 1 .. Len(s)
  BY <1>1
<1>4. QED
  BY <1>2, <1>3 DEF Range, r

-----------------------------------------------------------------------------
(* Types.                                                                  *)

\* The frame on top.
LEMMA TopFrame ==
  ASSUME WalkTypes, stack # <<>>
  PROVE  /\ Top = stack[1] /\ Len(stack) \in Nat \ {0}
         /\ Top \in Frames
         /\ \A k \in 1 .. Len(stack) : stack[k] \in Frames
<1>1. stack \in Seq(Frames)
  BY DEF WalkTypes
<1>2. Len(stack) \in Nat \ {0} /\ \A k \in 1 .. Len(stack) : stack[k] \in Frames
  BY <1>1
<1>3. Top = stack[1]
  BY <1>1 DEF Top
<1>4. QED
  BY <1>2, <1>3

\* What is known of the parts of a frame.
LEMMA FrameParts ==
  ASSUME NEW fr \in Frames
  PROVE  /\ fr.fn \in {"update_file", "check_dep"} /\ fr.file \in Files
         /\ fr.i \in Nat \ {0} /\ fr.this_mtime \in Times /\ fr.must_make \in BOOLEAN
         /\ fr.dep_status \in Statuses /\ fr.running \in BOOLEAN
BY DEF Frames

\* A new frame is a frame.
LEMMA NewFrameType ==
  ASSUME NEW fn \in {"update_file", "check_dep"}, NEW f \in Files, NEW t \in Times
  PROVE  NewFrame(fn, f, t) \in Frames
BY DEF NewFrame, Frames, Statuses

\* Joined statuses are statuses.
LEMMA OrType ==
  ASSUME NEW s \in Statuses, NEW t \in Statuses
  PROVE  Or(s, t) \in Statuses
BY DEF Or, Statuses

\* The shapes of a walk's steps keep the types of the stack.
LEMMA ContinueTypes ==
  ASSUME WalkTypes, stack # <<>>, NEW fr \in Frames, Continue(fr)
  PROVE  WalkTypes'
BY Replaced DEF WalkTypes, Continue

LEMMA CallTypes ==
  ASSUME WalkTypes, stack # <<>>, NEW fr \in Frames, NEW callee \in Frames, Call(fr, callee)
  PROVE  WalkTypes'
<1>1. stack' \in Seq(Frames) /\ Len(stack') = Len(stack) + 1 /\ Len(stack) \in Nat
  BY Pushed DEF WalkTypes, Call
<1>2. stack' # <<>>
  BY <1>1
<1>3. QED
  BY <1>1, <1>2 DEF WalkTypes, Call

LEMMA ReturnTypes ==
  ASSUME WalkTypes, stack # <<>>, NEW st \in Statuses, NEW mm \in BOOLEAN, Return(st, mm)
  PROVE  WalkTypes'
<1>1. /\ stack \in Seq(Frames) /\ stack' = Tail(stack) /\ Len(stack) \in Nat \ {0}
      /\ pc' = IF Len(stack) = 1 THEN "considered" ELSE "walk"
      /\ ret' = [status |-> st, must_make |-> mm]
  BY DEF WalkTypes, Return
<1>2. stack' \in Seq(Frames) /\ Len(stack') = Len(stack) - 1
  BY <1>1
<1>3. Len(stack) # 1 => stack' # <<>>
  <2>1. stack' = <<>> => Len(stack') = 0
    OBVIOUS
  <2>2. Len(stack) \in Nat /\ Len(stack') = Len(stack) - 1
    BY <1>1, <1>2
  <2>3. QED
    BY <2>1, <2>2
<1>4. QED
  BY <1>1, <1>2, <1>3 DEF WalkTypes

\* A time asked for is a time.
LEMMA MtimeType ==
  ASSUME FileTypes
  PROVE  /\ \A f \in Files : file_mtime(f) \in Times
         /\ \A S : Remembered(S) \in [Files -> Times]
BY DEF FileTypes, file_mtime, Remembered

\* Noting a file as finished keeps the types of what it sets.
LEMMA NoticeTypes ==
  ASSUME FileTypes, NEW f \in Files, NEW st \in -1 .. 3, notice_finished_file(f, st)
  PROVE  /\ command_state' \in [Files -> States] /\ update_status' \in [Files -> -1..3]
         /\ updated' \subseteq Files /\ last_mtime' \in [Files -> Times]
BY DEF FileTypes, notice_finished_file, States, Times, Unknown

\* Every walk's step keeps the types of the stack.
LEMMA WalkTypesStep == TypeOK /\ PlacesInv /\ [Next]_vars => WalkTypes'
<1> SUFFICES ASSUME TypeOK, PlacesInv, [Next]_vars PROVE WalkTypes'
  OBVIOUS
<1>a. WalkTypes /\ FileTypes /\ GoalTypes
  BY DEF TypeOK
<1>b. ASSUME stack # <<>>
      PROVE  /\ Top \in Frames /\ File \in Files /\ File = Top.file
             /\ Top.fn \in {"update_file", "check_dep"}
             /\ Top.i \in Nat \ {0} /\ Top.this_mtime \in Times /\ Top.must_make \in BOOLEAN
             /\ Top.dep_status \in Statuses /\ Top.running \in BOOLEAN
  BY <1>a, <1>b, TopFrame, FrameParts DEF File
<1>c. ret.status \in Statuses /\ ret.must_make \in BOOLEAN
  BY <1>a DEF WalkTypes
<1>d. 0 \in Statuses /\ 2 \in Statuses /\ NoTime \in Times
  BY DEF Statuses, Times
<1>e. \A f \in Files : UpdateResult(f) \in Statuses
  BY <1>a, <1>d DEF UpdateResult, PlacesInv
<1>f. pc = "walk" => stack # <<>>
  BY <1>a DEF WalkTypes
<1>1. CASE AlreadyUpdated
  BY <1>1, <1>a, <1>b, <1>e, <1>f, ReturnTypes DEF AlreadyUpdated, Walking
<1>2. CASE StartUpdate
  <2>1. [Top EXCEPT !.at = "deps", !.this_mtime = file_mtime(File),
                    !.must_make = (file_mtime(File) = NoTime)] \in Frames
    BY <1>2, <1>a, <1>b, <1>f, MtimeType DEF StartUpdate, Walking, Frames
  <2>2. QED
    BY <1>2, <1>a, <1>f, <2>1, ContinueTypes DEF StartUpdate, Walking
<1>3. CASE DropCircular
  BY <1>3, <1>a DEF DropCircular, WalkTypes
<1>4. CASE CheckDep
  <2>1. pc = "walk" /\ Top.i \in 1 .. Len(deps[File]) /\ Dep \in Files
    BY <1>4, <1>a, <1>b, <1>f DEF CheckDep, MoreDeps, Dep, FileTypes
  <2>2. /\ [Top EXCEPT !.at = "checked"] \in Frames
        /\ NewFrame("check_dep", Dep, Top.this_mtime) \in Frames
    BY <1>b, <1>f, <2>1, NewFrameType DEF Frames
  <2>3. QED
    BY <1>4, <1>a, <1>f, <2>1, <2>2, CallTypes DEF CheckDep
<1>5. CASE DepChecked
  <2> DEFINE st == Or(Top.dep_status, ret.status)
             i == IF GivesUp(st) THEN Len(deps[File]) + 1 ELSE Top.i + 1
             mm == Top.must_make \/ ret.must_make
             running == Top.running \/ (Top.fn = "update_file" /\ BeingMade(Dep))
             fr == [Top EXCEPT !.at = "deps", !.dep_status = st, !.must_make = mm,
                               !.running = running, !.i = i]
  <2>1. pc = "walk" /\ Continue(fr)
    BY <1>5 DEF DepChecked
  <2>2. st \in Statuses /\ Top \in Frames /\ i \in Nat \ {0}
    BY <1>a, <1>b, <1>c, <1>f, <2>1, OrType DEF FileTypes
  <2>3. mm \in BOOLEAN /\ running \in BOOLEAN
    BY <1>b, <1>c, <1>f, <2>1 DEF BeingMade
  <2> HIDE DEF st, i, mm, running
  <2>4. fr \in Frames
    BY <2>2, <2>3 DEF Frames
  <2>5. QED
    BY <1>a, <1>f, <2>1, <2>4, ContinueTypes
<1>6. CASE DepsDone
  <2> DEFINE at == IF Top.must_make THEN "inter" ELSE "decide"
  <2>1. [Top EXCEPT !.at = at, !.i = 1] \in Frames
    <3>1. Top \in Frames /\ at \in {"inter", "decide"} /\ 1 \in Nat \ {0}
      BY <1>6, <1>b, <1>f DEF DepsDone, Walking
    <3> HIDE DEF at
    <3>2. QED
      BY <3>1 DEF Frames
  <2>2. QED
    BY <1>6, <1>a, <1>f, <2>1, ContinueTypes DEF DepsDone, Walking
<1>7. CASE UpdateIntermediate
  <2>1. RestIntermediate \subseteq Nat \ {0} /\ RestIntermediate # {} /\ pc = "walk"
    BY <1>7, <1>b, <1>f DEF UpdateIntermediate, RestIntermediate, Walking
  <2>2. PICK next \in RestIntermediate : next = Min(RestIntermediate)
    BY <2>1, MinIsLeast
  <2>3. next \in Nat \ {0} /\ deps[File][next] \in Files
    BY <1>a, <1>b, <1>f, <2>1, <2>2 DEF RestIntermediate, FileTypes
  <2>4. /\ [Top EXCEPT !.at = "inter_done", !.i = next] \in Frames
        /\ NewFrame("update_file", deps[File][next], NoTime) \in Frames
    BY <1>b, <1>d, <1>f, <2>1, <2>3, NewFrameType DEF Frames
  <2>5. QED
    BY <1>7, <1>a, <1>f, <2>1, <2>2, <2>4, CallTypes DEF UpdateIntermediate
<1>8. CASE IntermediateUpdated
  <2> DEFINE st == Or(Top.dep_status, ret.status)
             at == IF GivesUp(st) THEN "decide" ELSE "inter"
             running == Top.running \/ BeingMade(Dep)
             fr == [Top EXCEPT !.at = at, !.dep_status = st, !.i = Top.i + 1,
                               !.running = running]
  <2>1. pc = "walk" /\ Continue(fr)
    BY <1>8 DEF IntermediateUpdated, Walking
  <2>2. st \in Statuses /\ Top \in Frames /\ Top.i + 1 \in Nat \ {0} /\ at \in {"decide", "inter"}
    BY <1>a, <1>b, <1>c, <1>f, <2>1, OrType
  <2>3. running \in BOOLEAN
    BY <1>b, <1>f, <2>1 DEF BeingMade
  <2> HIDE DEF st, at, running
  <2>4. fr \in Frames
    BY <2>2, <2>3 DEF Frames
  <2>5. QED
    BY <1>a, <1>f, <2>1, <2>4, ContinueTypes
<1>9. CASE IntermediatesDone
  <2>1. [Top EXCEPT !.at = "decide"] \in Frames
    BY <1>9, <1>b, <1>f DEF IntermediatesDone, Walking, Frames
  <2>2. QED
    BY <1>9, <1>a, <1>f, <2>1, ContinueTypes DEF IntermediatesDone, Walking
<1>10. CASE WaitForDeps \/ GiveUpOnTarget
  BY <1>10, <1>a, <1>b, <1>d, <1>f, ReturnTypes DEF WaitForDeps, GiveUpOnTarget, Walking
<1>11. CASE DepsMade
  <2> DEFINE mm == Top.must_make \/ \E d \in Range(deps[File]) \ Intermediate :
                                       file_mtime(d) = NoTime
  <2>1. [Top EXCEPT !.at = "remake", !.must_make = mm] \in Frames
    BY <1>11, <1>b, <1>f DEF DepsMade, Walking, Frames
  <2>2. QED
    BY <1>11, <1>a, <1>f, <2>1, ContinueTypes DEF DepsMade, Walking
<1>12. CASE NoNeedToRemake \/ PretendRemade
  BY <1>12, <1>a, <1>d, <1>f, ReturnTypes DEF NoNeedToRemake, PretendRemade, Remaking, Walking
<1>13. CASE NoRule
  BY <1>13, <1>a, <1>d, <1>f, ReturnTypes DEF NoRule, Remaking, Walking, WalkTypes
<1>14. CASE RemakeFile
  <2>1. [Top EXCEPT !.at = "job"] \in Frames
    BY <1>14, <1>b, <1>f DEF RemakeFile, MustRun, Remaking, Walking, Frames
  <2>2. stack' \in Seq(Frames) /\ stack' # <<>> /\ pc' = "new_job" /\ ret' = ret
    BY <1>14, <1>a, <1>f, <2>1, Replaced DEF RemakeFile, MustRun, Remaking, Walking, WalkTypes
  <2>3. QED
    BY <1>a, <2>2 DEF WalkTypes
<1>15. CASE NewJobReturns
  <2>1. stack # <<>>
    BY <1>15, <1>a DEF NewJobReturns, WalkTypes
  <2>2. QED
    BY <1>15, <1>a, <1>b, <1>e, <2>1, ReturnTypes DEF NewJobReturns
<1>16. CASE CheckFile
  <2>1. /\ [Top EXCEPT !.at = "file"] \in Frames
        /\ NewFrame("update_file", File, NoTime) \in Frames
    BY <1>16, <1>b, <1>d, <1>f, NewFrameType DEF CheckFile, Walking, Frames
  <2>2. QED
    BY <1>16, <1>a, <1>f, <2>1, CallTypes DEF CheckFile, Walking
<1>17. CASE FileChecked
  <2> DEFINE mm == file_mtime(File) = NoTime \/ Newer(file_mtime(File))
  <2>1. mm \in BOOLEAN
    BY DEF Newer
  <2>2. QED
    BY <1>17, <1>a, <1>c, <1>f, <2>1, ReturnTypes DEF FileChecked, Walking
<1>18. CASE IntermediateIsNewer
  BY <1>18, <1>a, <1>d, <1>f, ReturnTypes DEF IntermediateIsNewer, Walking
<1>19. CASE CheckIntermediate
  <2>1. [Top EXCEPT !.at = "deps"] \in Frames
    BY <1>19, <1>b, <1>f DEF CheckIntermediate, Walking, Frames
  <2>2. QED
    BY <1>19, <1>a, <1>f, <2>1, ContinueTypes DEF CheckIntermediate, Walking
<1>20. CASE IntermediateChecked
  BY <1>20, <1>a, <1>b, <1>f, ReturnTypes DEF IntermediateChecked, Walking
<1>21. CASE ConsiderGoal
  <2>1. goals[g] \in Files
    BY <1>21, <1>a DEF ConsiderGoal, GoalTypes
  <2>2. NewFrame("update_file", goals[g], NoTime) \in Frames
    BY <1>d, <2>1, NewFrameType
  <2>3. QED
    BY <1>21, <1>a, <2>2 DEF ConsiderGoal, WalkTypes
<1>22. CASE StartRound \/ GoalConsidered \/ EndRound \/ Finish
  <2>1. NoResult \in [status : Statuses, must_make : BOOLEAN]
    BY <1>d DEF NoResult
  <2>2. /\ stack' = stack /\ (ret' = ret \/ ret' = NoResult)
        /\ pc' \in {"goal", "round", "exited", "aborted"}
    BY <1>22 DEF StartRound, GoalConsidered, TakeGoal, EndRound, Finish
  <2>3. QED
    BY <1>a, <2>1, <2>2 DEF WalkTypes
<1>23. CASE Commands
  BY <1>23, <1>a DEF Commands, NextLine, JobSucceeds, JobFails, NextLineFails, WalkTypes
<1>24. CASE Exited \/ UNCHANGED vars
  BY <1>24, <1>a DEF Exited, vars, WalkTypes
<1>25. QED
  BY <1>1, <1>2, <1>3, <1>4, <1>5, <1>6, <1>7, <1>8, <1>9, <1>10, <1>11, <1>12, <1>13, <1>14,
    <1>15, <1>16, <1>17, <1>18, <1>19, <1>20, <1>21, <1>22, <1>23, <1>24
    DEF Next, UpdateFile, CheckDeps, Rounds

\* Every step keeps the types of the files' fields.
LEMMA FileTypesStep == TypeOK /\ PlacesInv /\ [Next]_vars => FileTypes'
<1> SUFFICES ASSUME TypeOK, PlacesInv, [Next]_vars PROVE FileTypes'
  OBVIOUS
<1>a. WalkTypes /\ FileTypes /\ GoalTypes
  BY DEF TypeOK
<1>b. pc = "walk" => /\ stack # <<>> /\ Top \in Frames /\ File \in Files
                     /\ Top.dep_status \in Statuses /\ Top.i \in Nat \ {0}
  BY <1>a, TopFrame, FrameParts DEF File, WalkTypes
<1>c. \A S : Remembered(S) \in [Files -> Times]
  BY <1>a, MtimeType
<1>d. Statuses \subseteq -1 .. 3 /\ 0 \in Statuses /\ 1 \in Statuses /\ 2 \in Statuses
  BY DEF Statuses
<1>1. CASE StartUpdate \/ FileChecked \/ IntermediateIsNewer \/ CheckIntermediate
  BY <1>1, <1>a, <1>b, <1>c DEF StartUpdate, FileChecked, IntermediateIsNewer, CheckIntermediate,
    Walking, FileTypes, jobVars
<1>2. CASE DropCircular
  <2>1. pc = "walk" /\ Top.i \in 1 .. Len(deps[File]) /\ deps[File] \in Seq(Files)
    BY <1>2, <1>a, <1>b DEF DropCircular, MoreDeps, FileTypes
  <2>2. RemoveAt(deps[File], Top.i) \in Seq(Files)
    BY <2>1, Removed
  <2>3. deps' \in [Files -> Seq(Files)] /\ last_mtime' \in [Files -> Times]
    BY <1>2, <1>a, <1>b, <1>c, <2>2 DEF DropCircular, FileTypes
  <2>4. QED
    BY <1>2, <1>a, <2>3 DEF DropCircular, FileTypes, jobVars
<1>3. CASE CheckDep
  <2>1. Dep \in Files
    BY <1>3, <1>a, <1>b DEF CheckDep, MoreDeps, Dep, FileTypes
  <2>2. last_mtime' \in [Files -> Times]
    BY <1>3, <1>a, <1>c DEF CheckDep, FileTypes
  <2>3. QED
    BY <1>3, <1>a, <2>1, <2>2 DEF CheckDep, FileTypes, jobVars
<1>4. CASE DepChecked
  <2> DEFINE st == Or(Top.dep_status, ret.status)
  <2>1. last_mtime' \in [Files -> Times]
    BY <1>4, <1>a, <1>c DEF DepChecked, AskAgain, FileTypes
  <2>2. command_state' \in [Files -> States]
    BY <1>4, <1>a, <1>b DEF DepChecked, FileTypes, States
  <2>3. QED
    BY <1>4, <1>a, <2>1, <2>2 DEF DepChecked, FileTypes, jobVars
<1>5. CASE UpdateIntermediate
  BY <1>5, <1>a, <1>c DEF UpdateIntermediate, FileTypes, jobVars
<1>6. CASE IntermediateUpdated
  <2>1. last_mtime' \in [Files -> Times]
    BY <1>6, <1>a, <1>c DEF IntermediateUpdated, AskAgain, FileTypes
  <2>2. QED
    BY <1>6, <1>a, <2>1 DEF IntermediateUpdated, FileTypes, jobVars
<1>7. CASE WaitForDeps \/ DepsMade
  <2>1. /\ File \in Files /\ updating' = updating \ {File}
        /\ \/ command_state' = [command_state EXCEPT ![File] = "deps_running"]
           \/ command_state' = [command_state EXCEPT ![File] = "not_started"]
           \/ command_state' = command_state
        /\ last_mtime' = last_mtime \/ last_mtime' = Remembered(Range(deps[File]))
        /\ UNCHANGED <<update_status, updated, deps, jobVars>>
    BY <1>7, <1>b DEF WaitForDeps, DepsMade, Walking
  <2>2. command_state' \in [Files -> States] /\ last_mtime' \in [Files -> Times]
    BY <1>a, <1>c, <2>1 DEF FileTypes, States
  <2>3. QED
    BY <1>a, <2>1, <2>2 DEF FileTypes, jobVars
<1>8. CASE GiveUpOnTarget
  BY <1>8, <1>a, <1>b, <1>d, NoticeTypes DEF GiveUpOnTarget, Walking, FileTypes, jobVars
<1>9. CASE NoNeedToRemake
  BY <1>9, <1>a, <1>b, NoticeTypes DEF NoNeedToRemake, Walking, FileTypes, jobVars
<1>10. CASE PretendRemade
  BY <1>10, <1>a, <1>b, <1>d, NoticeTypes DEF PretendRemade, Remaking, Walking, FileTypes, jobVars
<1>11. CASE NoRule
  BY <1>11, <1>a, <1>b, <1>d, NoticeTypes DEF NoRule, Remaking, Walking, FileTypes, jobVars
<1>12. CASE RemakeFile
  <2>1. /\ pc = "walk" /\ File \in Files /\ children' \in {children, children \cup {File}}
        /\ UNCHANGED <<updating, deps, lines_left, disk, now>>
    BY <1>12, <1>b DEF RemakeFile, MustRun, Remaking, Walking
  <2>2. \/ /\ command_state' = [command_state EXCEPT ![File] = "running"]
           /\ UNCHANGED <<update_status, updated, last_mtime>>
        \/ \E st \in {1, 2} : notice_finished_file(File, st)
    BY <1>12 DEF RemakeFile
  <2>3. /\ command_state' \in [Files -> States] /\ update_status' \in [Files -> -1..3]
        /\ updated' \subseteq Files /\ last_mtime' \in [Files -> Times]
    <3>1. CASE \E st \in {1, 2} : notice_finished_file(File, st)
      BY <1>a, <1>d, <2>1, <3>1, NoticeTypes
    <3>2. CASE /\ command_state' = [command_state EXCEPT ![File] = "running"]
               /\ UNCHANGED <<update_status, updated, last_mtime>>
      BY <1>a, <2>1, <3>2 DEF FileTypes, States
    <3>3. QED
      BY <2>2, <3>1, <3>2
  <2>4. QED
    BY <1>a, <2>1, <2>3 DEF FileTypes
<1>13. CASE ConsiderGoal \/ GoalConsidered
  BY <1>13, <1>a, <1>c DEF ConsiderGoal, GoalConsidered, TakeGoal, FileTypes, jobVars
<1>14. CASE Commands
  <2>1. PICK f \in Files : NextLine(f) \/ JobSucceeds(f) \/ JobFails(f) \/ NextLineFails(f)
    BY <1>14 DEF Commands
  <2>2. CASE NextLine(f)
    BY <1>a, <2>2 DEF NextLine, FileTypes, States
  <2>3. ASSUME WriteFile(f) PROVE disk' \in [Files -> Times] /\ now' \in Nat
    <3>1. now \in Nat /\ now + 1 \in Nat /\ disk \in [Files -> Times] /\ Nat \subseteq Times
      BY <1>a DEF FileTypes, Times
    <3>2. CASE UNCHANGED <<disk, now>>
      BY <3>1, <3>2
    <3>3. CASE \E t \in {now, now + 1} : disk' = [disk EXCEPT ![f] = t] /\ now' = t
      BY <3>1, <3>3
    <3>4. QED
      BY <2>3, <3>2, <3>3 DEF WriteFile
  <2>4. CASE JobSucceeds(f)
    BY <1>a, <2>3, <2>4, NoticeTypes DEF JobSucceeds, FileTypes
  <2>5. CASE JobFails(f)
    BY <1>a, <2>3, <2>5, NoticeTypes DEF JobFails, FileTypes
  <2>6. CASE NextLineFails(f)
    BY <1>a, <2>3, <2>6, NoticeTypes DEF NextLineFails, FileTypes
  <2>7. QED
    BY <2>1, <2>2, <2>4, <2>5, <2>6
<1>15. CASE AlreadyUpdated \/ DepsDone \/ IntermediatesDone \/ NewJobReturns \/ CheckFile
            \/ IntermediateChecked \/ StartRound \/ EndRound \/ Finish \/ Exited \/ UNCHANGED vars
  <2>1. \/ UNCHANGED <<fileVars, jobVars>>
        \/ /\ updating' = updating \ {File}
           /\ UNCHANGED <<command_state, update_status, updated, last_mtime, deps, jobVars>>
    BY <1>15 DEF AlreadyUpdated, DepsDone, IntermediatesDone, NewJobReturns, CheckFile,
      IntermediateChecked, StartRound, EndRound, Finish, Exited, vars
  <2>2. QED
    BY <1>a, <2>1 DEF FileTypes, fileVars, jobVars
<1>16. QED
  BY <1>1, <1>2, <1>3, <1>4, <1>5, <1>6, <1>7, <1>8, <1>9, <1>10, <1>11, <1>12, <1>13, <1>14,
    <1>15 DEF Next, UpdateFile, CheckDeps, Rounds

\* Every step keeps the types of the goals and the switches.
LEMMA GoalTypesStep == TypeOK /\ PlacesInv /\ [Next]_vars => GoalTypes'
<1> SUFFICES ASSUME TypeOK, PlacesInv, [Next]_vars PROVE GoalTypes'
  OBVIOUS
<1>a. WalkTypes /\ FileTypes /\ GoalTypes
  BY DEF TypeOK
<1>b. 2 \in Statuses
  BY DEF Statuses
<1>1. CASE NoRule
  BY <1>1, <1>a, <1>b DEF NoRule, GoalTypes, switchVars
<1>2. CASE StartRound
  <2>1. goals \in Seq(Files) /\ Len(goals) \in Nat
    BY <1>a DEF GoalTypes
  <2>2. g' = 1 /\ goals' = goals /\ g' \in 1 .. Len(goals') + 1
    BY <1>2, <2>1 DEF StartRound
  <2>3. QED
    BY <1>2, <1>a, <2>1, <2>2 DEF StartRound, GoalTypes, switchVars
<1>3. CASE GoalConsidered
  <2>1. g \in 1 .. Len(goals) /\ goals \in Seq(Files)
    BY <1>3, <1>a DEF GoalConsidered, TakeGoal, PlacesInv, GoalTypes
  <2>2. RemoveAt(goals, g) \in Seq(Files) /\ Len(RemoveAt(goals, g)) = Len(goals) - 1
    BY <2>1, Removed
  <2>3. \/ goals' = RemoveAt(goals, g) /\ g' = g
        \/ goals' = goals /\ g' = g + 1
    BY <1>3 DEF GoalConsidered, TakeGoal
  <2>4. goals' \in Seq(Files) /\ g' \in 1 .. Len(goals') + 1
    BY <2>1, <2>2, <2>3
  <2>5. status' \in Statuses
    BY <1>3, <1>a DEF GoalConsidered, TakeGoal, GoalFinished, GoalTypes, PlacesInv
  <2>6. QED
    BY <1>3, <1>a, <2>4, <2>5 DEF GoalConsidered, TakeGoal, GoalTypes, switchVars
<1>4. CASE Commands
  <2>1. /\ status' \in {status, 2} /\ reaped' = (pc = "round")
        /\ UNCHANGED <<goals, g, switchVars>>
    BY <1>4 DEF Commands, NextLine, JobSucceeds, JobFails, NextLineFails, Reaping
  <2>2. QED
    BY <1>a, <1>b, <2>1 DEF GoalTypes, switchVars
<1>5. CASE UpdateFile /\ ~NoRule
  <2>1. UNCHANGED <<goalVars, switchVars>>
    BY <1>5 DEF UpdateFile, AlreadyUpdated, StartUpdate, DropCircular, CheckDep, DepChecked,
      DepsDone, UpdateIntermediate, IntermediateUpdated, IntermediatesDone, WaitForDeps,
      GiveUpOnTarget, DepsMade, NoNeedToRemake, PretendRemade, RemakeFile, NewJobReturns
  <2>2. QED
    BY <1>a, <2>1 DEF GoalTypes, goalVars, switchVars
<1>6. CASE CheckDeps
  BY <1>6, <1>a DEF CheckDeps, CheckFile, FileChecked, IntermediateIsNewer, CheckIntermediate,
    IntermediateChecked, GoalTypes, goalVars, switchVars
<1>7. CASE ConsiderGoal \/ EndRound \/ Finish \/ Exited \/ UNCHANGED vars
  BY <1>7, <1>a DEF ConsiderGoal, EndRound, Finish, Exited, vars, GoalTypes, goalVars, switchVars
<1>8. QED
  BY <1>1, <1>2, <1>3, <1>4, <1>5, <1>6, <1>7 DEF Next, Rounds

\* The initial states have the types.
LEMMA InitTypes == Init => TypeOK /\ PlacesInv
<1> SUFFICES ASSUME Init PROVE TypeOK /\ PlacesInv
  OBVIOUS
<1>1. /\ Goals \in Seq(Files) /\ Deps \in [Files -> Seq(Files)] /\ Lines \in [Files -> Nat]
      /\ StartTimes \subseteq Nat \ {0} /\ IsFiniteSet(StartTimes)
      /\ Switches \subseteq [job_slots : Nat, keep_going_flag : BOOLEAN, question_flag : BOOLEAN]
  BY GraphAssumption, StartAssumption, SwitchAssumption
<1>2. now \in Nat
  <2>1. IsFiniteSet(StartTimes \cup {1})
    BY <1>1, FS_AddElement
  <2>2. StartTimes \cup {1} \subseteq Nat /\ StartTimes \cup {1} # {}
    BY <1>1
  <2>3. Max(StartTimes \cup {1}) \in StartTimes \cup {1}
    BY <2>1, <2>2, MaxIsGreatest
  <2>4. QED
    BY <2>2, <2>3 DEF Init
<1>3. disk \in [Files -> Times]
  <2>1. StartTimes \cup {NoTime} \subseteq Times
    BY <1>1 DEF Times
  <2>2. disk \in [Files -> StartTimes \cup {NoTime}]
    BY DEF Init
  <2>3. QED
    BY <2>1, <2>2
<1>4. FileTypes
  BY <1>1, <1>2, <1>3 DEF Init, FileTypes, States, Times, Unknown
<1>5. WalkTypes
  BY DEF Init, WalkTypes, NoResult, Statuses
<1>6. GoalTypes
  <2>1. Len(goals) \in Nat /\ goals \in Seq(Files) /\ g = 1 /\ status = 0 /\ reaped = FALSE
    BY <1>1 DEF Init
  <2>2. job_slots \in Nat /\ {keep_going_flag, question_flag} \subseteq BOOLEAN
    BY <1>1 DEF Init
  <2>3. g \in 1 .. Len(goals) + 1
    BY <2>1
  <2>4. status \in Statuses /\ reaped \in BOOLEAN
    <3>1. status = 0 /\ 0 \in Statuses
      BY <2>1 DEF Statuses
    <3>2. QED
      BY <2>1, <3>1, Zenon
  <2>5. QED
    BY <2>1, <2>2, <2>3, <2>4, Zenon DEF GoalTypes
<1>7. PlacesInv
  BY DEF Init, PlacesInv
<1>8. QED
  BY <1>4, <1>5, <1>6, <1>7 DEF TypeOK

\* A call that returns leaves the walk when it was the goal's.
LEMMA ReturnPlaces ==
  ASSUME WalkTypes, stack # <<>>, NEW st, NEW mm, Return(st, mm)
  PROVE  pc' \in {"walk", "considered"} /\ (pc' = "considered" => stack' = <<>>)
<1>1. /\ stack \in Seq(Frames) /\ stack' = Tail(stack) /\ Len(stack) \in Nat \ {0}
      /\ pc' = IF Len(stack) = 1 THEN "considered" ELSE "walk"
  BY DEF WalkTypes, Return
<1>2. Len(stack) = 1 => Len(stack') = 0 /\ stack' \in Seq(Frames)
  BY <1>1
<1>3. QED
  BY <1>1, <1>2

\* A file noted as finished has a status.
LEMMA NoticeStatus ==
  ASSUME FileTypes, PlacesInv, NEW f \in Files, NEW st \in -1 .. 3, notice_finished_file(f, st)
  PROVE  \A d \in updated' : update_status'[d] \in Statuses
BY DEF FileTypes, PlacesInv, notice_finished_file, Statuses

\* Every step keeps PlacesInv.
LEMMA PlacesStep == TypeOK /\ PlacesInv /\ [Next]_vars => PlacesInv'
<1> SUFFICES ASSUME TypeOK, PlacesInv, [Next]_vars PROVE PlacesInv'
  OBVIOUS
<1>a. WalkTypes /\ FileTypes /\ GoalTypes
  BY DEF TypeOK
<1>b. pc = "walk" => /\ stack # <<>> /\ Top \in Frames /\ File \in Files
                     /\ Top.dep_status \in -1 .. 3 /\ Top.i \in Nat \ {0}
  BY <1>a, TopFrame, FrameParts DEF File, WalkTypes, Statuses
<1>c. pc = "new_job" => stack # <<>>
  BY <1>a DEF WalkTypes
<1> DEFINE Stacked == pc' \notin {"walk", "new_job", "died"} => stack' = <<>>
           Within == pc' \in {"walk", "new_job", "considered"} => g' <= Len(goals')
           Known == \A f \in updated' : update_status'[f] \in Statuses
           Fewer == \A f \in Files : Range(deps'[f]) \subseteq Range(Deps[f])
<1>d. UNCHANGED deps => Fewer
  BY DEF PlacesInv
<1>e. UNCHANGED <<updated, update_status>> => Known
  BY DEF PlacesInv
<1>f. pc \in {"walk", "new_job"} /\ UNCHANGED <<goals, g>> => Within
  BY DEF PlacesInv
<1>g. pc = "walk" /\ (pc' = "walk" \/ \E st, mm : Return(st, mm)) => Stacked
  BY <1>a, <1>b, ReturnPlaces
<1>h. Stacked /\ Within /\ Known /\ Fewer => PlacesInv'
  BY DEF PlacesInv
<1> HIDE DEF Stacked, Within, Known, Fewer
<1>1. CASE AlreadyUpdated
  BY <1>1, <1>d, <1>e, <1>f, <1>g, <1>h DEF AlreadyUpdated, Walking, fileVars, goalVars
<1>2. CASE StartUpdate
  BY <1>2, <1>d, <1>e, <1>f, <1>g, <1>h DEF StartUpdate, Walking, Continue, goalVars
<1>3. CASE DropCircular
  <2>1. pc = "walk" /\ File \in Files /\ Top.i \in 1 .. Len(deps[File]) /\ deps \in [Files -> Seq(Files)]
    BY <1>3, <1>a, <1>b DEF DropCircular, MoreDeps, FileTypes
  <2>2. deps' = [deps EXCEPT ![File] = RemoveAt(deps[File], Top.i)]
    BY <1>3 DEF DropCircular
  <2>3. Range(RemoveAt(deps[File], Top.i)) \subseteq Range(deps[File])
    BY <2>1, RemovedRange
  <2>4. Fewer
    BY <2>1, <2>2, <2>3 DEF PlacesInv, Fewer
  <2>5. QED
    BY <1>3, <2>4, <1>e, <1>f, <1>g, <1>h DEF DropCircular, goalVars
<1>4. CASE CheckDep
  BY <1>4, <1>d, <1>e, <1>f, <1>g, <1>h DEF CheckDep, Call, goalVars
<1>5. CASE DepChecked
  BY <1>5, <1>d, <1>e, <1>f, <1>g, <1>h DEF DepChecked, Continue, goalVars
<1>6. CASE DepsDone \/ IntermediatesDone
  BY <1>6, <1>d, <1>e, <1>f, <1>g, <1>h DEF DepsDone, IntermediatesDone, Walking, Continue, goalVars,
    fileVars
<1>7. CASE UpdateIntermediate
  BY <1>7, <1>d, <1>e, <1>f, <1>g, <1>h DEF UpdateIntermediate, Walking, Call, goalVars
<1>8. CASE IntermediateUpdated
  BY <1>8, <1>d, <1>e, <1>f, <1>g, <1>h DEF IntermediateUpdated, Walking, Continue, goalVars
<1>9. CASE WaitForDeps
  BY <1>9, <1>d, <1>e, <1>f, <1>g, <1>h DEF WaitForDeps, Walking, goalVars
<1>10. CASE GiveUpOnTarget
  <2>1. pc = "walk" /\ notice_finished_file(File, Top.dep_status)
    BY <1>10 DEF GiveUpOnTarget, Walking
  <2>2. Known
    BY <1>a, <1>b, <2>1, NoticeStatus DEF Known
  <2>3. QED
    BY <1>10, <2>2, <1>d, <1>f, <1>g, <1>h DEF GiveUpOnTarget, Walking, goalVars
<1>11. CASE DepsMade
  BY <1>11, <1>d, <1>e, <1>f, <1>g, <1>h DEF DepsMade, Walking, Continue, goalVars
<1>12. CASE NoNeedToRemake
  <2>1. pc = "walk" /\ notice_finished_file(File, update_status[File])
    BY <1>12 DEF NoNeedToRemake, Walking
  <2>2. Known
    BY <1>a, <1>b, <2>1, NoticeStatus DEF Known, FileTypes
  <2>3. QED
    BY <1>12, <2>2, <1>d, <1>f, <1>g, <1>h DEF NoNeedToRemake, Walking, goalVars
<1>13. CASE PretendRemade
  <2>1. pc = "walk" /\ notice_finished_file(File, 0)
    BY <1>13 DEF PretendRemade, Remaking, Walking
  <2>2. Known
    BY <1>a, <1>b, <2>1, NoticeStatus DEF Known
  <2>3. QED
    BY <1>13, <2>2, <1>d, <1>f, <1>g, <1>h DEF PretendRemade, Remaking, Walking, goalVars
<1>14. CASE NoRule
  <2>1. CASE notice_finished_file(File, 2) /\ Return(2, FALSE)
    <3>1. pc = "walk" /\ UNCHANGED <<goals, g, deps>>
      BY <1>14 DEF NoRule, Remaking, Walking
    <3>2. Known
      BY <1>a, <1>b, <2>1, <3>1, NoticeStatus DEF Known
    <3>3. QED
      BY <2>1, <3>1, <3>2, <1>d, <1>f, <1>g, <1>h
  <2>2. CASE pc' = "died" /\ UNCHANGED <<update_status, updated>>
    <3>1. Stacked
      BY <2>2 DEF Stacked
    <3>2. QED
      BY <1>14, <2>2, <3>1, <1>d, <1>e, <1>f, <1>h DEF NoRule, Remaking, Walking
  <2>3. QED
    BY <1>14, <2>1, <2>2 DEF NoRule
<1>15. CASE RemakeFile
  <2>1. pc = "walk" /\ pc' = "new_job" /\ UNCHANGED <<goals, g, deps>>
    BY <1>15 DEF RemakeFile, MustRun, Remaking, Walking, goalVars
  <2>2. Stacked
    BY <2>1 DEF Stacked
  <2>3. CASE \E st \in {1, 2} : notice_finished_file(File, st)
    <3>1. Known
      BY <1>a, <1>b, <2>1, <2>3, NoticeStatus DEF Known
    <3>2. QED
      BY <2>1, <2>2, <3>1, <1>d, <1>f, <1>h
  <2>4. CASE UNCHANGED <<updated, update_status>>
    BY <2>1, <2>2, <2>4, <1>d, <1>e, <1>f, <1>h
  <2>5. QED
    BY <1>15, <2>3, <2>4 DEF RemakeFile
<1>16. CASE NewJobReturns
  <2>1. pc = "new_job" /\ Return(UpdateResult(File), FALSE)
    BY <1>16 DEF NewJobReturns
  <2>2. Stacked
    BY <1>a, <1>c, <2>1, ReturnPlaces DEF Stacked
  <2>3. QED
    BY <1>16, <2>1, <2>2, <1>d, <1>e, <1>f, <1>h DEF NewJobReturns, fileVars, goalVars
<1>17. CASE CheckFile
  BY <1>17, <1>d, <1>e, <1>f, <1>g, <1>h DEF CheckFile, Walking, Call, goalVars, fileVars
<1>18. CASE FileChecked
  BY <1>18, <1>d, <1>e, <1>f, <1>g, <1>h DEF FileChecked, Walking, goalVars
<1>19. CASE IntermediateIsNewer
  BY <1>19, <1>d, <1>e, <1>f, <1>g, <1>h DEF IntermediateIsNewer, Walking, goalVars
<1>20. CASE CheckIntermediate
  BY <1>20, <1>d, <1>e, <1>f, <1>g, <1>h DEF CheckIntermediate, Walking, Continue, goalVars
<1>21. CASE IntermediateChecked
  BY <1>21, <1>d, <1>e, <1>f, <1>g, <1>h DEF IntermediateChecked, Walking, goalVars
<1>22. CASE Rounds
  <2>1. Known /\ Fewer
    BY <1>22, <1>d, <1>e DEF Rounds, StartRound, ConsiderGoal, GoalConsidered, TakeGoal, EndRound,
      Finish, fileVars
  <2>2. Within
    BY <1>22 DEF Rounds, StartRound, ConsiderGoal, GoalConsidered, TakeGoal, EndRound, Finish,
      Within, goalVars
  <2>3. Stacked
    BY <1>22 DEF Rounds, StartRound, ConsiderGoal, GoalConsidered, TakeGoal, EndRound, Finish,
      Stacked, PlacesInv
  <2>4. QED
    BY <2>1, <2>2, <2>3, <1>h
<1>23. CASE Commands
  <2>1. PICK f \in Files : NextLine(f) \/ JobSucceeds(f) \/ JobFails(f) \/ NextLineFails(f)
    BY <1>23 DEF Commands
  <2>2. /\ pc \in {"round", "new_job"} /\ pc' \in {pc, "died"} /\ UNCHANGED <<stack, goals, g, deps>>
        /\ \/ UNCHANGED <<updated, update_status>>
           \/ \E st \in {0, 2} : notice_finished_file(f, st)
    BY <2>1 DEF NextLine, JobSucceeds, JobFails, NextLineFails, Reaping
  <2>3. Known
    BY <1>a, <1>e, <2>2, NoticeStatus DEF Known
  <2>4. Stacked /\ Within
    BY <2>2 DEF Stacked, Within, PlacesInv
  <2>5. QED
    BY <2>2, <2>3, <2>4, <1>d, <1>h
<1>24. CASE Exited \/ UNCHANGED vars
  BY <1>24 DEF Exited, vars, fileVars, goalVars, PlacesInv
<1>25. QED
  BY <1>1, <1>2, <1>3, <1>4, <1>5, <1>6, <1>7, <1>8, <1>9, <1>10, <1>11, <1>12, <1>13, <1>14,
    <1>15, <1>16, <1>17, <1>18, <1>19, <1>20, <1>21, <1>22, <1>23, <1>24
    DEF Next, UpdateFile, CheckDeps

\* Types: every variable holds a value its C type and the code allow, whatever the makefile.
THEOREM TypeCorrect == Spec => []TypeOK
<1>1. Init => TypeOK /\ PlacesInv
  BY InitTypes
<1>2. TypeOK /\ PlacesInv /\ [Next]_vars => (TypeOK /\ PlacesInv)'
  BY WalkTypesStep, FileTypesStep, GoalTypesStep, PlacesStep DEF TypeOK
<1>3. QED
  BY <1>1, <1>2, PTL DEF Spec

-----------------------------------------------------------------------------
(* The walk.                                                               *)

\* What a file depends on, it depends on with everything that depends on in turn.
LEMMA DependsFacts ==
  ASSUME NEW f \in Files
  PROVE  /\ DependsOn[f] \subseteq Files
         /\ Range(Deps[f]) \subseteq DependsOn[f]
         /\ \A d \in DependsOn[f] : DependsOn[d] \subseteq DependsOn[f]
<1> DEFINE Closed(S, e) == /\ S \subseteq Files /\ Range(Deps[e]) \subseteq S
                           /\ \A d \in S : Range(Deps[d]) \subseteq S
<1>1. ASSUME NEW e \in Files
      PROVE  /\ DependsOn[e] \subseteq Files
             /\ \A d \in Files : d \in DependsOn[e] <=> \A S : Closed(S, e) => d \in S
  <2>1. DependsOn[e] = {d \in Files : \A S \in {S \in SUBSET Files :
                                                  /\ Range(Deps[e]) \subseteq S
                                                  /\ \A c \in S : Range(Deps[c]) \subseteq S} :
                                        d \in S}
    BY DEF DependsOn
  <2>2. QED
    BY <2>1
<1>2. \A e \in Files : Range(Deps[e]) \subseteq Files
  BY GraphAssumption DEF Range
<1>3. Range(Deps[f]) \subseteq DependsOn[f]
  BY <1>1, <1>2
<1>4. ASSUME NEW d \in DependsOn[f]
      PROVE  DependsOn[d] \subseteq DependsOn[f]
  <2>1. d \in Files
    BY <1>1, <1>4
  <2>2. ASSUME NEW S, Closed(S, f)
        PROVE  Closed(S, d)
    <3>1. d \in S
      BY <1>1, <1>4, <2>1, <2>2
    <3>2. QED
      BY <2>2, <3>1
  <2>3. QED
    BY <1>1, <2>1, <2>2
<1>5. QED
  BY <1>1, <1>3, <1>4

\* What the steps of the walk do to the stack.
LEMMA ContinueShape ==
  ASSUME WalkTypes, stack # <<>>, NEW fr \in Frames, stack' = <<fr>> \o Tail(stack)
  PROVE  /\ Len(stack') = Len(stack) /\ Len(stack) \in Nat \ {0}
         /\ stack' # <<>> /\ Top = stack[1] /\ Top' = fr /\ stack'[1] = fr
         /\ \A k \in 2 .. Len(stack) : stack'[k] = stack[k]
<1>1. /\ stack' \in Seq(Frames) /\ Len(stack') = Len(stack) /\ Len(stack) \in Nat \ {0}
      /\ stack'[1] = fr /\ \A k \in 2 .. Len(stack) : stack'[k] = stack[k]
  BY TopFrame, Replaced DEF WalkTypes
<1>2. stack' # <<>> /\ Head(stack') = stack'[1]
  BY <1>1
<1>3. Top = stack[1]
  BY TopFrame
<1>4. QED
  BY <1>1, <1>2, <1>3 DEF Top

LEMMA CallShape ==
  ASSUME WalkTypes, stack # <<>>, NEW fr \in Frames, NEW callee \in Frames, Call(fr, callee)
  PROVE  /\ WalkTypes' /\ Len(stack') = Len(stack) + 1 /\ Len(stack) \in Nat \ {0}
         /\ stack' # <<>> /\ Top = stack[1] /\ Top' = callee
         /\ stack'[1] = callee /\ stack'[2] = fr
         /\ \A k \in 2 .. Len(stack) : stack'[k + 1] = stack[k]
<1>1. /\ stack' \in Seq(Frames) /\ Len(stack') = Len(stack) + 1 /\ Len(stack) \in Nat \ {0}
      /\ stack'[1] = callee /\ stack'[2] = fr
      /\ \A k \in 2 .. Len(stack) : stack'[k + 1] = stack[k]
  BY TopFrame, Pushed DEF WalkTypes, Call
<1>2. stack' # <<>> /\ Head(stack') = stack'[1]
  BY <1>1
<1>3. WalkTypes' /\ Top = stack[1]
  BY CallTypes, TopFrame
<1>4. QED
  BY <1>1, <1>2, <1>3 DEF Top

LEMMA ReturnShape ==
  ASSUME WalkTypes, stack # <<>>, NEW st \in Statuses, NEW mm \in BOOLEAN, Return(st, mm)
  PROVE  /\ WalkTypes' /\ Len(stack') = Len(stack) - 1 /\ Len(stack) \in Nat \ {0}
         /\ pc' = (IF Len(stack) = 1 THEN "considered" ELSE "walk")
         /\ Top = stack[1] /\ (Len(stack) > 1 => Top' = stack[2])
         /\ \A k \in 1 .. Len(stack') : stack'[k] = stack[k + 1]
<1>1. /\ stack \in Seq(Frames) /\ stack' = Tail(stack) /\ Len(stack) \in Nat \ {0}
      /\ pc' = (IF Len(stack) = 1 THEN "considered" ELSE "walk")
  BY DEF WalkTypes, Return
<1>2. /\ Len(stack') = Len(stack) - 1 /\ stack' \in Seq(Frames)
      /\ \A k \in 1 .. Len(stack') : stack'[k] = stack[k + 1]
  BY <1>1
<1>3. Len(stack) > 1 => Head(stack') = stack[2]
  BY <1>1, <1>2
<1>4. WalkTypes' /\ Top = stack[1]
  BY ReturnTypes, TopFrame
<1>5. QED
  BY <1>1, <1>2, <1>3, <1>4 DEF Top

\* Below the top every call is a marked one: update_file only waits inside its loops.
LEMMA BelowMarked ==
  ASSUME WalkTypes, NestInv
  PROVE  \A k \in 2 .. Len(stack) : Marks(stack[k])
<1> SUFFICES ASSUME NEW k \in 2 .. Len(stack) PROVE Marks(stack[k])
  OBVIOUS
<1>1. stack \in Seq(Frames) /\ Len(stack) \in Nat /\ k \in 1 .. Len(stack)
  BY DEF WalkTypes
<1>2. stack[k] \in Frames
  BY <1>1
<1>3. stack[k].fn \in {"update_file", "check_dep"}
  BY <1>2, FrameParts
<1>4. stack[k].at \in Calling /\ Placed(stack[k])
  BY <1>1 DEF NestInv, Called
<1>5. QED
  BY <1>3, <1>4 DEF Marks, Placed, Calling, UpdatePlaces

\* While the call on top has neither reset its mark nor called update_file for its own
\* file, every mark is there.
LEMMA AllMarked ==
  ASSUME WalkTypes, UpdatingInv, stack # <<>>, Top.at \notin {"file", "remake", "job"}
  PROVE  \A k \in 1 .. Len(stack) : Marks(stack[k]) => stack[k].file \in updating
<1>1. Top = stack[1] /\ Len(stack) \in Nat \ {0}
  BY TopFrame
<1>2. \A k \in 1 .. Len(stack) : ~ResetAbove(k)
  BY <1>1 DEF ResetAbove
<1>3. QED
  BY <1>2 DEF UpdatingInv

\* A step inside a call.
LEMMA ContinueNests ==
  ASSUME TypeOK, StackInv, stack # <<>>, NEW fr \in Frames, stack' = <<fr>> \o Tail(stack),
         fr.file = File, fr.fn = Top.fn,
         fr.at \in IF fr.fn = "update_file" THEN UpdatePlaces ELSE CheckPlaces,
         fr.at \notin Calling,
         \/ pc' = "walk" /\ fr.at # "job"
         \/ pc' = "new_job" /\ fr.at = "job" /\ fr.fn = "update_file",
         UNCHANGED deps
  PROVE  TopInv' /\ NestInv' /\ DistinctInv'
<1>a. WalkTypes /\ TopInv /\ NestInv /\ DistinctInv
  BY DEF TypeOK, StackInv
<1>1. /\ Len(stack') = Len(stack) /\ Len(stack) \in Nat \ {0} /\ Top = stack[1] /\ Top' = fr
      /\ stack'[1] = fr /\ \A k \in 2 .. Len(stack) : stack'[k] = stack[k]
  BY <1>a, ContinueShape
<1>2. fr.file = stack[1].file /\ fr.fn = stack[1].fn
  BY <1>1 DEF File
<1>4. TopInv'
  BY <1>1 DEF TopInv
<1>5. ASSUME NEW k \in 1 .. Len(stack')
      PROVE  Placed(stack[k])' 
  <2>1. CASE k = 1
    BY <1>1, <2>1 DEF Placed, Calling
  <2>2. CASE k \in 2 .. Len(stack)
    BY <1>a, <1>1, <2>2 DEF Placed, NestInv
  <2>3. QED
    BY <1>1, <2>1, <2>2
<1>6. ASSUME NEW k \in 2 .. Len(stack')
      PROVE  Called(k)'
  <2>1. Called(k) /\ stack'[k] = stack[k] /\ k \in 2 .. Len(stack) /\ k \in Nat
    BY <1>a, <1>1 DEF NestInv
  <2>2. stack'[k - 1].fn = stack[k - 1].fn /\ stack'[k - 1].file = stack[k - 1].file
    <3>1. CASE k = 2
      BY <1>1, <1>2, <3>1
    <3>2. CASE k # 2
      BY <1>1, <2>1, <3>2
    <3>3. QED
      BY <3>1, <3>2
  <2>3. QED
    BY <2>1, <2>2 DEF Called
<1>7. NestInv'
  BY <1>5, <1>6 DEF NestInv
<1>8. DistinctInv'
  <2>1. \A k \in 1 .. Len(stack) : stack'[k].file = stack[k].file
    BY <1>1, <1>2
  <2>2. \A k, l \in 1 .. Len(stack) : k < l => stack'[l].at = stack[l].at
    BY <1>1
  <2>3. 1 .. Len(stack') = 1 .. Len(stack)
    BY <1>1
  <2>4. QED
    BY <1>a, <2>1, <2>2, <2>3 DEF DistinctInv
<1>9. QED
  BY <1>4, <1>7, <1>8

\* A call.
LEMMA CallNests ==
  ASSUME TypeOK, StackInv, stack # <<>>, pc = "walk",
         NEW fr \in Frames, NEW callee \in Frames, Call(fr, callee),
         fr.file = File, fr.fn = Top.fn,
         fr.at \in IF fr.fn = "update_file" THEN UpdatePlaces ELSE CheckPlaces,
         callee.at = "entry", UNCHANGED deps,
         \/ fr.at = "file" /\ callee.fn = "update_file" /\ callee.file = File
         \/ /\ fr.at \in {"checked", "inter_done"}
            /\ callee.fn = IF fr.at = "checked" THEN "check_dep" ELSE "update_file"
            /\ fr.i <= Len(deps[File]) /\ callee.file = deps[File][fr.i]
            /\ callee.file \in DependsOn[File] /\ callee.file # File,
         \A k \in 2 .. Len(stack) : stack[k].file # callee.file
  PROVE  TopInv' /\ NestInv' /\ DistinctInv'
<1>a. WalkTypes /\ TopInv /\ NestInv /\ DistinctInv
  BY DEF TypeOK, StackInv
<1>1. /\ Len(stack') = Len(stack) + 1 /\ Len(stack) \in Nat \ {0}
      /\ Top = stack[1] /\ Top' = callee /\ stack'[1] = callee /\ stack'[2] = fr
      /\ \A k \in 2 .. Len(stack) : stack'[k + 1] = stack[k]
  BY <1>a, CallShape
<1>2. fr.file = stack[1].file /\ fr.fn = stack[1].fn /\ File = stack[1].file
  BY <1>1 DEF File
<1>b. \A k \in 3 .. Len(stack') : k - 1 \in 2 .. Len(stack) /\ stack'[k] = stack[k - 1]
  BY <1>1
<1>3. pc' = "walk"
  BY DEF Call
<1>4. TopInv'
  BY <1>1, <1>3 DEF TopInv
<1>5. ASSUME NEW k \in 1 .. Len(stack')
      PROVE  Placed(stack[k])'
  <2>1. CASE k = 1
    BY <1>1, <2>1 DEF Placed, UpdatePlaces, CheckPlaces
  <2>2. CASE k = 2
    BY <1>1, <2>2 DEF Placed
  <2>3. CASE k \in 3 .. Len(stack')
    BY <1>a, <1>b, <2>3 DEF Placed, NestInv
  <2>4. QED
    BY <1>1, <2>1, <2>2, <2>3
<1>6. ASSUME NEW k \in 2 .. Len(stack')
      PROVE  Called(k)'
  <2>1. CASE k = 2
    BY <1>1, <1>2, <2>1 DEF Called, Calling
  <2>2. CASE k = 3
    <3>1. Called(2) /\ stack'[3] = stack[2] /\ stack'[2] = fr
      BY <1>a, <1>1, <1>b, <2>2 DEF NestInv
    <3>2. QED
      BY <1>2, <2>2, <3>1 DEF Called
  <2>3. CASE k \in 4 .. Len(stack')
    <3>1. Called(k - 1) /\ stack'[k] = stack[k - 1] /\ stack'[k - 1] = stack[k - 1 - 1]
      BY <1>a, <1>1, <1>b, <2>3 DEF NestInv
    <3>2. QED
      BY <3>1 DEF Called
  <2>4. QED
    BY <1>1, <2>1, <2>2, <2>3
<1>7. NestInv'
  BY <1>5, <1>6 DEF NestInv
<1>8. DistinctInv'
  <2> SUFFICES ASSUME NEW k \in 1 .. Len(stack'), NEW l \in 1 .. Len(stack'), k < l
               PROVE  /\ stack'[k].file = stack'[l].file => l = k + 1 /\ stack'[l].at = "file"
                      /\ stack'[k].file \in {stack'[l].file} \cup DependsOn[stack'[l].file]
    BY DEF DistinctInv
  <2>1. CASE k = 1 /\ l = 2
    BY <1>1, <1>2, <2>1
  <2>2. CASE k = 1 /\ l > 2
    <3>1. l - 1 \in 2 .. Len(stack) /\ stack'[l] = stack[l - 1] /\ 1 \in 1 .. Len(stack)
      BY <1>1, <1>b, <2>2
    <3>2. stack'[l].file # callee.file
      BY <3>1
    <3>3. File \in {stack[l - 1].file} \cup DependsOn[stack[l - 1].file]
      BY <1>a, <1>2, <3>1 DEF DistinctInv
    <3>4. stack[l - 1].file \in Files
      BY <1>a, <3>1, TopFrame, FrameParts
    <3>5. callee.file \in {stack[l - 1].file} \cup DependsOn[stack[l - 1].file]
      BY <1>1, <1>2, <3>3, <3>4, DependsFacts
    <3>6. QED
      BY <1>1, <2>2, <3>1, <3>2, <3>5
  <2>3. CASE k = 2
    <3>1. l - 1 \in 2 .. Len(stack) /\ stack'[l] = stack[l - 1] /\ 1 \in 1 .. Len(stack)
      BY <1>1, <1>b, <2>3
    <3>2. /\ stack[1].file = stack[l - 1].file => l - 1 = 2 /\ stack[l - 1].at = "file"
          /\ stack[1].file \in {stack[l - 1].file} \cup DependsOn[stack[l - 1].file]
      BY <1>a, <3>1 DEF DistinctInv
    <3>3. QED
      BY <1>1, <1>2, <2>3, <3>1, <3>2
  <2>4. CASE k > 2
    <3>1. /\ k - 1 \in 1 .. Len(stack) /\ l - 1 \in 1 .. Len(stack) /\ k - 1 < l - 1
          /\ stack'[k] = stack[k - 1] /\ stack'[l] = stack[l - 1]
      BY <1>1, <1>b, <2>4
    <3>2. QED
      BY <1>a, <3>1 DEF DistinctInv
  <2>5. QED
    BY <1>1, <2>1, <2>2, <2>3, <2>4
<1>9. QED
  BY <1>4, <1>7, <1>8

\* A return.
LEMMA ReturnNests ==
  ASSUME TypeOK, StackInv, stack # <<>>, NEW st \in Statuses, NEW mm \in BOOLEAN,
         Return(st, mm), UNCHANGED deps
  PROVE  TopInv' /\ NestInv' /\ DistinctInv'
<1>a. WalkTypes /\ TopInv /\ NestInv /\ DistinctInv
  BY DEF TypeOK, StackInv
<1>1. /\ Len(stack') = Len(stack) - 1 /\ Len(stack) \in Nat \ {0}
      /\ pc' = (IF Len(stack) = 1 THEN "considered" ELSE "walk")
      /\ Len(stack) > 1 => Top' = stack[2]
      /\ \A k \in 1 .. Len(stack') : stack'[k] = stack[k + 1]
  BY <1>a, ReturnShape
<1>2. TopInv'
  <2>1. CASE Len(stack) = 1
    BY <1>1, <2>1 DEF TopInv
  <2>2. CASE Len(stack) > 1
    <3>1. stack[2].at \in Calling
      BY <1>a, <1>1, <2>2 DEF NestInv, Called
    <3>2. QED
      BY <1>1, <2>2, <3>1 DEF TopInv, Calling
  <2>3. QED
    BY <1>1, <2>1, <2>2
<1>3. ASSUME NEW k \in 1 .. Len(stack')
      PROVE  Placed(stack[k])'
  <2>1. k + 1 \in 1 .. Len(stack) /\ stack'[k] = stack[k + 1]
    BY <1>1
  <2>2. QED
    BY <1>a, <2>1 DEF Placed, NestInv
<1>4. ASSUME NEW k \in 2 .. Len(stack')
      PROVE  Called(k)'
  <2>1. /\ k + 1 \in 2 .. Len(stack) /\ stack'[k] = stack[k + 1]
        /\ stack'[k - 1] = stack[k + 1 - 1]
    BY <1>1
  <2>2. Called(k + 1)
    BY <1>a, <2>1 DEF NestInv
  <2>3. QED
    BY <2>1, <2>2 DEF Called
<1>5. DistinctInv'
  <2> SUFFICES ASSUME NEW k \in 1 .. Len(stack'), NEW l \in 1 .. Len(stack'), k < l
               PROVE  /\ stack'[k].file = stack'[l].file => l = k + 1 /\ stack'[l].at = "file"
                      /\ stack'[k].file \in {stack'[l].file} \cup DependsOn[stack'[l].file]
    BY DEF DistinctInv
  <2>1. /\ k + 1 \in 1 .. Len(stack) /\ l + 1 \in 1 .. Len(stack) /\ k + 1 < l + 1
        /\ stack'[k] = stack[k + 1] /\ stack'[l] = stack[l + 1]
    BY <1>1
  <2>2. /\ stack[k + 1].file = stack[l + 1].file => l + 1 = k + 1 + 1 /\ stack[l + 1].at = "file"
        /\ stack[k + 1].file \in {stack[l + 1].file} \cup DependsOn[stack[l + 1].file]
    BY <1>a, <2>1 DEF DistinctInv
  <2>3. QED
    BY <2>1, <2>2
<1>6. QED
  BY <1>2, <1>3, <1>4, <1>5 DEF NestInv

\* A step's new frame is a frame if the new stack is one of frames.
LEMMA ContinueFrame ==
  ASSUME WalkTypes, WalkTypes', stack # <<>>, NEW fr, Continue(fr)
  PROVE  fr \in Frames
<1> DEFINE T == Frames \cup {fr}
<1>1. /\ stack \in Seq(Frames) /\ stack # <<>>
      /\ stack' = <<fr>> \o Tail(stack) /\ stack' \in Seq(Frames)
  BY DEF WalkTypes, Continue
<1>2. stack \in Seq(T) /\ fr \in T
  BY <1>1
<1>3. Len(stack') = Len(stack) /\ stack'[1] = fr /\ Len(stack) \in Nat \ {0}
  BY <1>1, <1>2, Replaced
<1>4. QED
  BY <1>1, <1>3

\* What the three shapes of a step do to the marks.
LEMMA ContinueMarks ==
  ASSUME TypeOK, StackInv, stack # <<>>, Top.at \notin {"file", "remake", "job"},
         NEW fr \in Frames, Continue(fr), fr.file = File, Marks(fr),
         updating' = updating \cup {File}
  PROVE  UpdatingInv'
<1>a. WalkTypes /\ NestInv /\ UpdatingInv
  BY DEF TypeOK, StackInv
<1>1. /\ Len(stack') = Len(stack) /\ Len(stack) \in Nat \ {0} /\ Top = stack[1]
      /\ stack'[1] = fr /\ \A k \in 2 .. Len(stack) : stack'[k] = stack[k]
  BY <1>a, ContinueShape DEF Continue
<1>2. \A k \in 1 .. Len(stack) : Marks(stack[k]) => stack[k].file \in updating
  BY <1>a, AllMarked
<1>3. \A k \in 1 .. Len(stack') : Marks(stack[k])' => stack'[k].file \in updating'
  <2> SUFFICES ASSUME NEW k \in 1 .. Len(stack'), Marks(stack[k])'
               PROVE  stack'[k].file \in updating'
    OBVIOUS
  <2>1. CASE k = 1
    BY <1>1, <2>1
  <2>2. CASE k \in 2 .. Len(stack)
    BY <1>1, <1>2, <2>2 DEF Marks
  <2>3. QED
    BY <1>1, <2>1, <2>2
<1>4. ASSUME NEW f \in updating'
      PROVE  \E k \in 1 .. Len(stack') : stack'[k].file = f /\ Marks(stack[k])'
  <2>1. CASE f = File
    BY <1>1, <2>1 DEF Marks
  <2>2. CASE f # File
    <3>1. PICK k \in 1 .. Len(stack) : stack[k].file = f /\ Marks(stack[k])
      BY <1>a, <2>2 DEF UpdatingInv
    <3>2. k \in 2 .. Len(stack)
      BY <1>1, <2>2, <3>1 DEF File
    <3>3. QED
      BY <1>1, <3>1, <3>2 DEF Marks
  <2>3. QED
    BY <2>1, <2>2
<1>5. QED
  BY <1>3, <1>4 DEF UpdatingInv

LEMMA CallMarks ==
  ASSUME TypeOK, StackInv, stack # <<>>, Top.at \notin {"file", "remake", "job"}, Marks(Top),
         NEW fr \in Frames, NEW callee \in Frames, Call(fr, callee),
         fr.file = File, Marks(fr),
         \/ updating' = updating \cup {callee.file} /\ Marks(callee)
         \/ updating' = updating /\ ~Marks(callee)
  PROVE  UpdatingInv'
<1>a. WalkTypes /\ NestInv /\ UpdatingInv
  BY DEF TypeOK, StackInv
<1>1. /\ Len(stack') = Len(stack) + 1 /\ Len(stack) \in Nat \ {0} /\ Top = stack[1]
      /\ stack'[1] = callee /\ stack'[2] = fr
      /\ \A k \in 2 .. Len(stack) : stack'[k + 1] = stack[k]
  BY <1>a, CallShape
<1>2. \A k \in 1 .. Len(stack) : Marks(stack[k]) => stack[k].file \in updating
  BY <1>a, AllMarked
<1>3. \A k \in 1 .. Len(stack') : Marks(stack[k])' => stack'[k].file \in updating'
  <2> SUFFICES ASSUME NEW k \in 1 .. Len(stack'), Marks(stack[k])'
               PROVE  stack'[k].file \in updating'
    OBVIOUS
  <2>1. CASE k = 1
    BY <1>1, <2>1 DEF Marks
  <2>2. CASE k = 2
    BY <1>1, <1>2, <2>2 DEF File
  <2>3. CASE k > 2
    <3>1. k - 1 \in 2 .. Len(stack) /\ stack'[k] = stack[k - 1] /\ k - 1 \in 1 .. Len(stack)
      BY <1>1, <2>3
    <3>2. QED
      BY <1>2, <3>1 DEF Marks
  <2>4. QED
    BY <1>1, <2>1, <2>2, <2>3
<1>4. ASSUME NEW f \in updating'
      PROVE  \E k \in 1 .. Len(stack') : stack'[k].file = f /\ Marks(stack[k])'
  <2>1. CASE f \in updating
    <3>1. PICK k \in 1 .. Len(stack) : stack[k].file = f /\ Marks(stack[k])
      BY <1>a, <2>1 DEF UpdatingInv
    <3>2. CASE k = 1
      <4>1. 2 \in 1 .. Len(stack') /\ stack'[2] = fr /\ fr.file = f
        BY <1>1, <3>1, <3>2 DEF File
      <4>2. QED
        BY <4>1 DEF Marks
    <3>3. CASE k \in 2 .. Len(stack)
      <4>1. k + 1 \in 1 .. Len(stack') /\ stack'[k + 1] = stack[k]
        BY <1>1, <3>3
      <4>2. QED
        BY <3>1, <4>1 DEF Marks
    <3>4. QED
      BY <1>1, <3>2, <3>3
  <2>2. CASE f \notin updating
    <3>1. f = callee.file /\ Marks(callee) /\ 1 \in 1 .. Len(stack')
      BY <1>1, <2>2
    <3>2. QED
      BY <1>1, <3>1 DEF Marks
  <2>3. QED
    BY <2>1, <2>2
<1>5. QED
  BY <1>3, <1>4 DEF UpdatingInv

LEMMA ReturnMarks ==
  ASSUME TypeOK, StackInv, stack # <<>>, NEW st \in Statuses, NEW mm \in BOOLEAN, Return(st, mm),
         \/ updating' = updating \ {File}
         \/ updating' = updating /\ ~Marks(Top)
  PROVE  UpdatingInv'
<1>a. WalkTypes /\ NestInv /\ UpdatingInv /\ DistinctInv
  BY DEF TypeOK, StackInv
<1>1. /\ Len(stack') = Len(stack) - 1 /\ Len(stack) \in Nat \ {0} /\ Top = stack[1]
      /\ \A k \in 1 .. Len(stack') : stack'[k] = stack[k + 1]
  BY <1>a, ReturnShape
<1>2. ASSUME NEW f \in updating'
      PROVE  \E k \in 1 .. Len(stack') : stack'[k].file = f /\ Marks(stack[k])'
  <2>1. PICK k \in 1 .. Len(stack) : stack[k].file = f /\ Marks(stack[k])
    BY <1>a DEF UpdatingInv
  <2>2. k # 1
    BY <1>1, <2>1 DEF File
  <2>3. k - 1 \in 1 .. Len(stack') /\ stack'[k - 1] = stack[k]
    BY <1>1, <2>2
  <2>4. QED
    BY <2>1, <2>3 DEF Marks
<1>3. ASSUME NEW k \in 1 .. Len(stack'), Marks(stack[k])'
      PROVE  stack'[k].file \in updating' \/ ResetAbove(k)'
  <2>1. /\ k + 1 \in 2 .. Len(stack) /\ stack'[k] = stack[k + 1] /\ k + 1 \in 1 .. Len(stack)
        /\ 1 \in 1 .. Len(stack)
    BY <1>1
  <2>2. Marks(stack[k + 1])
    BY <1>3, <2>1 DEF Marks
  <2>3. CASE ResetAbove(k + 1)
    BY <2>1, <2>3 DEF ResetAbove
  <2>4. CASE stack[k + 1].file \in updating /\ stack[k + 1].file = File
    <3>1. k + 1 = 2 /\ stack[k + 1].at = "file"
      BY <1>a, <1>1, <2>1, <2>4 DEF DistinctInv, File
    <3>2. QED
      BY <2>1, <3>1 DEF ResetAbove
  <2>5. CASE stack[k + 1].file \in updating /\ stack[k + 1].file # File
    BY <2>1, <2>5
  <2>6. QED
    BY <1>a, <2>1, <2>2, <2>3, <2>4, <2>5 DEF UpdatingInv
<1>4. QED
  BY <1>2, <1>3 DEF UpdatingInv

\* A step of the walk after which a call is at a place with no mark.
LEMMA ResetMarks ==
  ASSUME TypeOK, StackInv, stack # <<>>, NEW fr \in Frames, stack' = <<fr>> \o Tail(stack),
         fr.file = File, fr.at \in {"remake", "job"}, Top.fn = "update_file", fr.fn = Top.fn,
         \/ updating' = updating \ {File}
         \/ updating' = updating /\ Top.at = "remake"
  PROVE  UpdatingInv'
<1>a. WalkTypes /\ NestInv /\ UpdatingInv /\ DistinctInv /\ stack \in Seq(Frames)
  BY DEF TypeOK, StackInv, WalkTypes
<1>1. /\ Len(stack') = Len(stack) /\ Len(stack) \in Nat \ {0} /\ Top = stack[1]
      /\ stack'[1] = fr /\ \A k \in 2 .. Len(stack) : stack'[k] = stack[k]
  BY <1>a, TopFrame, Replaced
<1>2. ASSUME NEW f \in updating'
      PROVE  \E k \in 1 .. Len(stack') : stack'[k].file = f /\ Marks(stack[k])'
  <2>1. PICK k \in 1 .. Len(stack) : stack[k].file = f /\ Marks(stack[k])
    BY <1>a DEF UpdatingInv
  <2>2. k # 1
    BY <1>1, <2>1 DEF File, Marks
  <2>3. k \in 1 .. Len(stack') /\ stack'[k] = stack[k]
    BY <1>1, <2>2
  <2>4. QED
    BY <2>1, <2>3 DEF Marks
<1>3. ASSUME NEW k \in 1 .. Len(stack'), Marks(stack[k])'
      PROVE  stack'[k].file \in updating' \/ ResetAbove(k)'
  <2>1. k \in 2 .. Len(stack) /\ stack'[k] = stack[k] /\ k \in 1 .. Len(stack) /\ k # 1
    BY <1>1, <1>3 DEF Marks
  <2>2. Marks(stack[k]) /\ 1 \in 1 .. Len(stack)
    BY <1>1, <1>3, <2>1 DEF Marks
  <2>3. CASE ResetAbove(k)
    BY <1>1, <2>1, <2>3 DEF ResetAbove
  <2>4. CASE stack[k].file \in updating /\ stack[k].file = File
    <3>1. k = 2 /\ stack[k].at = "file"
      BY <1>a, <1>1, <2>1, <2>2, <2>4 DEF DistinctInv, File
    <3>2. QED
      BY <1>1, <2>1, <3>1 DEF ResetAbove
  <2>5. CASE stack[k].file \in updating /\ stack[k].file # File
    BY <2>1, <2>5
  <2>6. QED
    BY <1>a, <2>1, <2>2, <2>3, <2>4, <2>5 DEF UpdatingInv
<1>4. QED
  BY <1>2, <1>3 DEF UpdatingInv

\* A step that leaves the stack and the marks alone.
LEMMA StackUnchanged ==
  ASSUME StackInv, UNCHANGED <<stack, updating, deps>>, pc' = pc \/ pc' \notin {"walk", "new_job"}
  PROVE  StackInv'
<1>1. TopInv'
  BY DEF StackInv, TopInv, Top
<1>2. NestInv' /\ DistinctInv'
  BY DEF StackInv, NestInv, DistinctInv, Called, Placed
<1>3. UpdatingInv'
  BY DEF StackInv, UpdatingInv, ResetAbove, Marks
<1>4. QED
  BY <1>1, <1>2, <1>3 DEF StackInv

\* What is not marked is not on the stack, nor is an intermediate file on which no
\* intermediate file depends that is.
LEMMA NotOnStack ==
  ASSUME NoIntermediateCycle, WalkInv, stack # <<>>, NEW d \in Range(deps[File])
  PROVE  /\ Top.at = "deps" /\ d \notin updating =>
              \A k \in 1 .. Len(stack) : stack[k].file # d
         /\ d \in Intermediate => \A k \in 1 .. Len(stack) : stack[k].file # d
         /\ d \in DependsOn[File]
<1>a. WalkTypes /\ NestInv /\ UpdatingInv /\ DistinctInv /\ PlacesInv
  BY DEF WalkInv, TypeOK, StackInv
<1>1. Top = stack[1] /\ Len(stack) \in Nat \ {0} /\ File = stack[1].file /\ Top \in Frames
  BY <1>a, TopFrame DEF File
<1>2. File \in Files /\ Top.fn \in {"update_file", "check_dep"}
  BY <1>1, FrameParts DEF File
<1>3. d \in Range(Deps[File]) /\ d \in DependsOn[File]
  BY <1>a, <1>2, DependsFacts DEF PlacesInv
<1>4. ASSUME Top.at = "deps", d \notin updating, NEW k \in 1 .. Len(stack)
      PROVE  stack[k].file # d
  <2>1. Marks(stack[k])
    <3>1. k = 1 \/ k \in 2 .. Len(stack)
      BY <1>1
    <3>2. QED
      BY <1>a, <1>1, <1>4, <3>1, BelowMarked DEF Marks
  <2>2. QED
    BY <1>a, <1>4, <2>1, AllMarked
<1>5. ASSUME d \in Intermediate, NEW k \in 1 .. Len(stack)
      PROVE  stack[k].file # d
  <2>1. stack[k].file \in Files
    BY <1>a, TopFrame, FrameParts
  <2>2. File \in {stack[k].file} \cup DependsOn[stack[k].file]
    BY <1>a, <1>1 DEF DistinctInv
  <2>3. d \in DependsOn[stack[k].file]
    BY <1>3, <2>1, <2>2, DependsFacts
  <2>4. QED
    BY <1>5, <2>3 DEF NoIntermediateCycle
<1>6. QED
  BY <1>3, <1>4, <1>5

\* Every step keeps the shape of the stack, if no intermediate file depends on itself.
LEMMA StackStep == NoIntermediateCycle /\ WalkInv /\ [Next]_vars => StackInv'
<1> SUFFICES ASSUME NoIntermediateCycle, WalkInv, [Next]_vars PROVE StackInv'
  OBVIOUS
<1>a. /\ TypeOK /\ WalkTypes /\ FileTypes /\ GoalTypes /\ PlacesInv
      /\ StackInv /\ TopInv /\ NestInv /\ DistinctInv /\ UpdatingInv
  BY DEF WalkInv, TypeOK, StackInv
<1>b. pc \in {"walk", "new_job"} =>
        /\ stack # <<>> /\ Top \in Frames /\ Top = stack[1] /\ File \in Files /\ File = Top.file
        /\ Top.fn \in {"update_file", "check_dep"} /\ Top.i \in Nat \ {0} /\ Len(stack) \in Nat \ {0}
        /\ Placed(Top) /\ 1 \in 1 .. Len(stack)
  <2>1. pc \in {"walk", "new_job"} => stack # <<>>
    BY <1>a DEF WalkTypes
  <2>2. stack # <<>> => /\ Top = stack[1] /\ Top \in Frames /\ Len(stack) \in Nat \ {0}
                        /\ 1 \in 1 .. Len(stack)
    BY <1>a, TopFrame
  <2>3. QED
    BY <1>a, <2>1, <2>2, FrameParts DEF NestInv, File
<1>c. WalkTypes' /\ FileTypes'
  BY <1>a, WalkTypesStep, FileTypesStep
<1>d. TopInv' /\ NestInv' /\ DistinctInv' /\ UpdatingInv' => StackInv'
  BY DEF StackInv
<1>e. \A st \in Statuses, mm \in BOOLEAN :
        /\ pc \in {"walk", "new_job"} /\ Return(st, mm) /\ UNCHANGED deps
        /\ \/ updating' = updating \ {File}
           \/ updating' = updating /\ ~Marks(Top)
        => StackInv'
  BY <1>a, <1>b, <1>d, ReturnNests, ReturnMarks
<1>f. \A fr \in Frames :
        /\ pc = "walk" /\ Continue(fr) /\ fr.file = File /\ fr.fn = Top.fn /\ Marks(fr)
        /\ fr.at \in (IF fr.fn = "update_file" THEN UpdatePlaces ELSE CheckPlaces)
        /\ fr.at \notin Calling \cup {"job"} /\ Top.at \notin {"file", "remake", "job"}
        /\ UNCHANGED deps /\ updating' = updating \cup {File}
        => StackInv'
  BY <1>a, <1>b, <1>d, ContinueNests, ContinueMarks DEF Continue
<1>g. ret.status \in Statuses /\ ret.must_make \in BOOLEAN /\ {0, 2} \subseteq Statuses
  BY <1>a DEF WalkTypes, Statuses
<1>h. \A f \in Files : UpdateResult(f) \in Statuses
  BY <1>a, <1>g DEF UpdateResult, PlacesInv
<1>i. pc = "walk" /\ Marks(Top) /\ Top.at \notin {"file", "remake", "job"} => updating = updating \cup {File}
  BY <1>a, <1>b, AllMarked
<1>1. CASE AlreadyUpdated
  BY <1>1, <1>b, <1>e, <1>h DEF AlreadyUpdated, Walking, Marks, fileVars
<1>2. CASE StartUpdate
  <2> DEFINE fr == [Top EXCEPT !.at = "deps", !.this_mtime = file_mtime(File),
                               !.must_make = (file_mtime(File) = NoTime)]
  <2>1. pc = "walk" /\ Continue(fr) /\ Top.at = "entry" /\ Top.fn = "update_file"
    BY <1>2 DEF StartUpdate, Walking
  <2>2. fr \in Frames /\ fr.at = "deps" /\ fr.file = File /\ fr.fn = Top.fn
    BY <1>a, <1>b, <2>1, MtimeType DEF Frames
  <2> HIDE DEF fr
  <2>3. QED
    BY <1>2, <2>1, <2>2, <1>f DEF StartUpdate, Marks, Calling, UpdatePlaces
<1>3. CASE DropCircular
  <2>1. pc = "walk" /\ pc' = pc /\ stack' = stack /\ updating' = updating /\ Top.at = "deps"
    BY <1>3 DEF DropCircular
  <2>2. TopInv' /\ UpdatingInv' /\ DistinctInv'
    BY <1>a, <2>1 DEF TopInv, Top, UpdatingInv, ResetAbove, Marks, DistinctInv
  <2>3. \A f \in Files \ {File} : deps'[f] = deps[f]
    BY <1>3, <1>a, <1>b DEF DropCircular, FileTypes
  <2>4. ASSUME NEW k \in 1 .. Len(stack), stack[k].at \in {"checked", "inter_done"}
        PROVE  deps'[stack[k].file] = deps[stack[k].file]
    <3>1. k # 1 /\ stack[k].file \in Files
      BY <1>a, <1>b, <2>1, <2>4, TopFrame, FrameParts
    <3>2. stack[k].file # File
      <4>1. 1 < k
        BY <1>b, <2>1, <3>1
      <4>2. QED
        BY <1>a, <1>b, <2>1, <2>4, <4>1 DEF DistinctInv
    <3>3. QED
      BY <2>3, <3>1, <3>2
  <2>5. NestInv'
    <3>1. \A k \in 1 .. Len(stack) : Placed(stack[k])'
      BY <1>a, <2>1, <2>4 DEF NestInv, Placed
    <3>2. \A k \in 2 .. Len(stack) : Called(k)'
      <4>1. \A k \in 2 .. Len(stack) : k \in 1 .. Len(stack)
        BY <1>b, <2>1
      <4>2. QED
        BY <1>a, <2>1, <2>4, <4>1 DEF NestInv, Called
    <3>3. QED
      BY <2>1, <3>1, <3>2 DEF NestInv
  <2>6. QED
    BY <2>2, <2>5, <1>d
<1>4. CASE CheckDep
  <2> DEFINE fr == [Top EXCEPT !.at = "checked"]
             callee == NewFrame("check_dep", Dep, Top.this_mtime)
  <2>1. /\ pc = "walk" /\ Top.at = "deps" /\ Call(fr, callee) /\ UNCHANGED deps
        /\ updating' = updating \cup {Dep} /\ Dep \notin updating
        /\ Top.i \in 1 .. Len(deps[File]) /\ deps[File] \in Seq(Files) /\ Dep = deps[File][Top.i]
    BY <1>4, <1>a, <1>b DEF CheckDep, MoreDeps, FileTypes, Dep
  <2>2. Dep \in Files /\ Dep \in Range(deps[File])
    BY <2>1 DEF Range
  <2>3. fr \in Frames /\ fr.at = "checked" /\ fr.file = File /\ fr.fn = Top.fn /\ fr.i = Top.i
    BY <1>b, <2>1 DEF Frames
  <2>4. callee \in Frames /\ callee.at = "entry" /\ callee.fn = "check_dep" /\ callee.file = Dep
    BY <1>b, <2>1, <2>2, NewFrameType, FrameParts DEF NewFrame
  <2> HIDE DEF fr, callee
  <2>5. Dep \in DependsOn[File] /\ \A k \in 1 .. Len(stack) : stack[k].file # Dep
    BY <1>b, <2>1, <2>2, NotOnStack
  <2>6. \A k \in 2 .. Len(stack) : stack[k].file # callee.file
    BY <2>4, <2>5, <1>b, <2>1
  <2>7. TopInv' /\ NestInv' /\ DistinctInv'
    BY <1>a, <1>b, <2>1, <2>3, <2>4, <2>5, <2>6, CallNests DEF UpdatePlaces, CheckPlaces
  <2>8. UpdatingInv'
    BY <1>a, <1>b, <2>1, <2>3, <2>4, CallMarks DEF Marks
  <2>9. QED
    BY <2>7, <2>8, <1>d
<1>5. CASE DepChecked
  <2> DEFINE st == Or(Top.dep_status, ret.status)
             i == IF GivesUp(st) THEN Len(deps[File]) + 1 ELSE Top.i + 1
             mm == Top.must_make \/ ret.must_make
             running == Top.running \/ (Top.fn = "update_file" /\ BeingMade(Dep))
             fr == [Top EXCEPT !.at = "deps", !.dep_status = st, !.must_make = mm,
                               !.running = running, !.i = i]
  <2>1. /\ pc = "walk" /\ Continue(fr) /\ Top.at = "checked" /\ updating' = updating
        /\ UNCHANGED deps
    BY <1>5 DEF DepChecked
  <2> HIDE DEF st, i, mm, running
  <2>2. fr.at = "deps" /\ fr.file = File /\ fr.fn = Top.fn /\ Marks(Top)
    BY <1>b, <2>1 DEF Frames, Marks
  <2>3. fr \in Frames
    BY <1>a, <1>b, <1>c, <2>1, ContinueFrame
  <2> HIDE DEF fr
  <2>4. QED
    BY <1>b, <1>f, <1>i, <2>1, <2>2, <2>3 DEF Marks, Calling, UpdatePlaces, CheckPlaces
<1>6. CASE DepsDone
  <2> DEFINE at == IF Top.must_make THEN "inter" ELSE "decide"
             fr == [Top EXCEPT !.at = at, !.i = 1]
  <2>1. /\ pc = "walk" /\ Continue(fr) /\ Top.at = "deps" /\ Top.fn = "update_file"
        /\ updating' = updating /\ UNCHANGED deps /\ at \in {"inter", "decide"}
    BY <1>6 DEF DepsDone, Walking, fileVars
  <2> HIDE DEF at
  <2>2. fr.at = at /\ fr.file = File /\ fr.fn = Top.fn /\ Marks(Top)
    BY <1>b, <2>1 DEF Frames, Marks
  <2>3. fr \in Frames
    BY <1>a, <1>b, <1>c, <2>1, ContinueFrame
  <2> HIDE DEF fr
  <2>4. QED
    BY <1>b, <1>f, <1>i, <2>1, <2>2, <2>3 DEF Marks, Calling, UpdatePlaces
<1>7. CASE UpdateIntermediate
  <2>1. /\ RestIntermediate \subseteq Nat \ {0} /\ RestIntermediate # {} /\ pc = "walk"
        /\ Top.at = "inter" /\ Top.fn = "update_file"
    BY <1>7, <1>b DEF UpdateIntermediate, RestIntermediate, Walking
  <2>2. PICK next \in RestIntermediate : next = Min(RestIntermediate)
    BY <2>1, MinIsLeast
  <2> DEFINE d == deps[File][next]
             fr == [Top EXCEPT !.at = "inter_done", !.i = next]
             callee == NewFrame("update_file", d, NoTime)
  <2>3. /\ next \in 1 .. Len(deps[File]) /\ deps[File] \in Seq(Files) /\ d \in Intermediate
        /\ next \in Nat \ {0}
    BY <1>a, <1>b, <2>1, <2>2 DEF RestIntermediate, FileTypes
  <2>4. d \in Files /\ d \in Range(deps[File])
    BY <2>3 DEF Range
  <2>5. Call(fr, callee) /\ UNCHANGED deps /\ updating' = updating
    BY <1>7, <2>2 DEF UpdateIntermediate
  <2>6. /\ fr \in Frames /\ fr.at = "inter_done" /\ fr.file = File /\ fr.fn = Top.fn
        /\ fr.i = next
    BY <1>b, <2>1, <2>3 DEF Frames
  <2>7. /\ callee \in Frames /\ callee.at = "entry" /\ callee.fn = "update_file"
        /\ callee.file = d
    BY <2>4, NewFrameType DEF NewFrame, Times
  <2>8. d \in DependsOn[File] /\ \A k \in 1 .. Len(stack) : stack[k].file # d
    BY <1>b, <2>1, <2>3, <2>4, NotOnStack
  <2> HIDE DEF d, fr, callee
  <2>9. d = deps[File][next]
    BY DEF d
  <2>10. \A k \in 2 .. Len(stack) : stack[k].file # callee.file
    BY <2>7, <2>8, <1>b, <2>1
  <2>11. TopInv' /\ NestInv' /\ DistinctInv'
    BY <1>a, <1>b, <2>1, <2>3, <2>5, <2>6, <2>7, <2>8, <2>9, <2>10, CallNests DEF UpdatePlaces
  <2>12. UpdatingInv'
    BY <1>a, <1>b, <2>1, <2>5, <2>6, <2>7, CallMarks DEF Marks
  <2>13. QED
    BY <2>11, <2>12, <1>d
<1>8. CASE IntermediateUpdated
  <2> DEFINE st == Or(Top.dep_status, ret.status)
             at == IF GivesUp(st) THEN "decide" ELSE "inter"
             running == Top.running \/ BeingMade(Dep)
             fr == [Top EXCEPT !.at = at, !.dep_status = st, !.i = Top.i + 1,
                               !.running = running]
  <2>1. /\ pc = "walk" /\ Continue(fr) /\ Top.at = "inter_done" /\ Top.fn = "update_file"
        /\ updating' = updating /\ UNCHANGED deps /\ at \in {"inter", "decide"}
    BY <1>8 DEF IntermediateUpdated, Walking
  <2> HIDE DEF st, at, running
  <2>2. fr.at = at /\ fr.file = File /\ fr.fn = Top.fn /\ Marks(Top)
    BY <1>b, <2>1 DEF Frames, Marks
  <2>3. fr \in Frames
    BY <1>a, <1>b, <1>c, <2>1, ContinueFrame
  <2> HIDE DEF fr
  <2>4. QED
    BY <1>b, <1>f, <1>i, <2>1, <2>2, <2>3 DEF Marks, Calling, UpdatePlaces
<1>9. CASE IntermediatesDone
  <2> DEFINE fr == [Top EXCEPT !.at = "decide"]
  <2>1. /\ pc = "walk" /\ Continue(fr) /\ Top.at = "inter" /\ Top.fn = "update_file"
        /\ updating' = updating /\ UNCHANGED deps
    BY <1>9 DEF IntermediatesDone, Walking, fileVars
  <2>2. fr \in Frames /\ fr.at = "decide" /\ fr.file = File /\ fr.fn = Top.fn /\ Marks(Top)
    BY <1>b, <2>1 DEF Frames, Marks
  <2> HIDE DEF fr
  <2>3. QED
    BY <1>b, <1>f, <1>i, <2>1, <2>2 DEF Marks, Calling, UpdatePlaces
<1>10. CASE WaitForDeps
  BY <1>10, <1>b, <1>e, <1>g DEF WaitForDeps, Walking
<1>11. CASE GiveUpOnTarget
  BY <1>11, <1>b, <1>e, FrameParts DEF GiveUpOnTarget, Walking
<1>12. CASE DepsMade
  <2> DEFINE mm == Top.must_make \/ \E d \in Range(deps[File]) \ Intermediate :
                                       file_mtime(d) = NoTime
             fr == [Top EXCEPT !.at = "remake", !.must_make = mm]
  <2>1. /\ pc = "walk" /\ pc' = "walk" /\ Continue(fr) /\ Top.at = "decide" /\ Top.fn = "update_file"
        /\ updating' = updating \ {File} /\ UNCHANGED deps
    BY <1>12 DEF DepsMade, Walking, Continue
  <2> HIDE DEF mm
  <2>2. fr.at = "remake" /\ fr.file = File /\ fr.fn = Top.fn
    BY <1>b, <2>1 DEF Frames
  <2>3. fr \in Frames
    BY <1>a, <1>b, <1>c, <2>1, ContinueFrame
  <2> HIDE DEF fr
  <2>4. TopInv' /\ NestInv' /\ DistinctInv'
    BY <1>a, <1>b, <2>1, <2>2, <2>3, ContinueNests DEF Continue, Calling, UpdatePlaces
  <2>5. UpdatingInv'
    BY <1>a, <1>b, <2>1, <2>2, <2>3, ResetMarks DEF Continue
  <2>6. QED
    BY <2>4, <2>5, <1>d
<1>13. CASE NoNeedToRemake
  BY <1>13, <1>b, <1>e, <1>g DEF NoNeedToRemake, Walking, Marks
<1>14. CASE PretendRemade
  BY <1>14, <1>b, <1>e, <1>g DEF PretendRemade, Remaking, Walking, Marks
<1>15. CASE NoRule
  <2>1. pc = "walk" /\ Top.fn = "update_file" /\ Top.at = "remake" /\ UNCHANGED <<updating, deps>>
    BY <1>15 DEF NoRule, Remaking, Walking
  <2>2. CASE Return(2, FALSE)
    BY <1>b, <1>e, <1>g, <2>1, <2>2 DEF Marks
  <2>3. CASE pc' = "died" /\ UNCHANGED stack
    BY <1>a, <2>1, <2>3, StackUnchanged
  <2>4. QED
    BY <1>15, <2>2, <2>3 DEF NoRule
<1>16. CASE RemakeFile
  <2> DEFINE fr == [Top EXCEPT !.at = "job"]
  <2>1. /\ pc = "walk" /\ pc' = "new_job" /\ stack' = <<fr>> \o Tail(stack) /\ Top.at = "remake"
        /\ Top.fn = "update_file" /\ updating' = updating /\ UNCHANGED deps
    BY <1>16 DEF RemakeFile, MustRun, Remaking, Walking
  <2>2. fr \in Frames /\ fr.at = "job" /\ fr.file = File /\ fr.fn = Top.fn
    BY <1>b, <2>1 DEF Frames
  <2> HIDE DEF fr
  <2>3. TopInv' /\ NestInv' /\ DistinctInv'
    BY <1>a, <1>b, <2>1, <2>2, ContinueNests DEF Calling, UpdatePlaces
  <2>4. UpdatingInv'
    BY <1>a, <1>b, <2>1, <2>2, ResetMarks
  <2>5. QED
    BY <2>3, <2>4, <1>d
<1>17. CASE NewJobReturns
  <2>1. pc = "new_job" /\ Return(UpdateResult(File), FALSE) /\ UNCHANGED <<updating, deps>>
    BY <1>17 DEF NewJobReturns, fileVars
  <2>2. ~Marks(Top)
    BY <1>a, <2>1 DEF TopInv, Marks
  <2>3. QED
    BY <1>b, <1>e, <1>h, <2>1, <2>2
<1>18. CASE CheckFile
  <2> DEFINE fr == [Top EXCEPT !.at = "file"]
             callee == NewFrame("update_file", File, NoTime)
  <2>1. /\ pc = "walk" /\ Call(fr, callee) /\ Top.at = "entry" /\ Top.fn = "check_dep"
        /\ updating' = updating /\ UNCHANGED deps
    BY <1>18 DEF CheckFile, Walking, fileVars
  <2>2. fr \in Frames /\ fr.at = "file" /\ fr.file = File /\ fr.fn = Top.fn
    BY <1>b, <2>1 DEF Frames
  <2>3. callee \in Frames /\ callee.at = "entry" /\ callee.fn = "update_file" /\ callee.file = File
    BY <1>b, <2>1, NewFrameType DEF NewFrame, Times
  <2> HIDE DEF fr, callee
  <2>4. ASSUME NEW k \in 2 .. Len(stack)
        PROVE  stack[k].file # callee.file
    <3>1. k \in 1 .. Len(stack) /\ 1 < k
      BY <1>b, <2>1
    <3>2. stack[k].file = File => k = 2 /\ stack[k].at = "file"
      BY <1>a, <1>b, <2>1, <3>1 DEF DistinctInv
    <3>3. Called(k)
      BY <1>a DEF NestInv
    <3>4. QED
      BY <1>b, <2>1, <2>3, <3>2, <3>3 DEF Called
  <2>5. TopInv' /\ NestInv' /\ DistinctInv'
    BY <1>a, <1>b, <2>1, <2>2, <2>3, <2>4, CallNests DEF CheckPlaces
  <2>6. UpdatingInv'
    BY <1>a, <1>b, <2>1, <2>2, <2>3, CallMarks DEF Marks
  <2>7. QED
    BY <2>5, <2>6, <1>d
<1>19. CASE FileChecked
  <2> DEFINE mm == file_mtime(File) = NoTime \/ Newer(file_mtime(File))
  <2>1. mm \in BOOLEAN
    BY DEF Newer
  <2>2. pc = "walk" /\ Return(ret.status, mm) /\ updating' = updating \ {File} /\ UNCHANGED deps
    BY <1>19 DEF FileChecked, Walking
  <2> HIDE DEF mm
  <2>3. QED
    BY <1>e, <1>g, <2>1, <2>2
<1>20. CASE IntermediateIsNewer
  BY <1>20, <1>e, <1>g DEF IntermediateIsNewer, Walking
<1>21. CASE CheckIntermediate
  <2> DEFINE fr == [Top EXCEPT !.at = "deps"]
  <2>1. /\ pc = "walk" /\ Continue(fr) /\ Top.at = "entry" /\ Top.fn = "check_dep"
        /\ updating' = updating /\ UNCHANGED deps
    BY <1>21 DEF CheckIntermediate, Walking
  <2>2. fr \in Frames /\ fr.at = "deps" /\ fr.file = File /\ fr.fn = Top.fn /\ Marks(Top)
    BY <1>b, <2>1 DEF Frames, Marks
  <2> HIDE DEF fr
  <2>3. QED
    BY <1>b, <1>f, <1>i, <2>1, <2>2 DEF Marks, Calling, CheckPlaces
<1>22. CASE IntermediateChecked
  BY <1>22, <1>b, <1>e, FrameParts DEF IntermediateChecked, Walking
<1>23. CASE ConsiderGoal
  <2>1. pc = "goal" /\ goals[g] \in Files /\ UNCHANGED <<updating, deps>>
    BY <1>23, <1>a DEF ConsiderGoal, GoalTypes
  <2> DEFINE fr == NewFrame("update_file", goals[g], NoTime)
  <2>2. /\ stack' = <<fr>> /\ pc' = "walk" /\ stack = <<>>
        /\ fr.at = "entry" /\ fr.fn = "update_file"
    BY <1>23, <1>a, <2>1 DEF ConsiderGoal, PlacesInv, NewFrame
  <2> HIDE DEF fr
  <2>3. Len(stack) = 0 /\ Len(stack') = 1 /\ stack'[1] = fr /\ Head(stack') = fr
    BY <2>2
  <2>4. updating = {}
    BY <1>a, <2>3 DEF UpdatingInv
  <2>5. TopInv'
    BY <2>2, <2>3 DEF TopInv, Top
  <2>6. NestInv'
    BY <2>2, <2>3 DEF NestInv, Placed, UpdatePlaces
  <2>7. DistinctInv'
    BY <2>2, <2>3 DEF DistinctInv
  <2>8. UpdatingInv'
    BY <2>1, <2>2, <2>3, <2>4 DEF UpdatingInv, Marks
  <2>9. QED
    BY <2>5, <2>6, <2>7, <2>8, <1>d
<1>24. CASE StartRound \/ GoalConsidered \/ EndRound \/ Finish
  BY <1>24, <1>a, StackUnchanged DEF StartRound, GoalConsidered, TakeGoal, EndRound, Finish, fileVars
<1>25. CASE Commands
  <2>1. UNCHANGED <<stack, updating, deps>> /\ pc' \in {pc, "died"}
    BY <1>25 DEF Commands, NextLine, JobSucceeds, JobFails, NextLineFails
  <2>2. QED
    BY <1>a, <2>1, StackUnchanged
<1>26. CASE Exited \/ UNCHANGED vars
  BY <1>26, <1>a, StackUnchanged DEF Exited, vars, fileVars
<1>27. QED
  BY <1>1, <1>2, <1>3, <1>4, <1>5, <1>6, <1>7, <1>8, <1>9, <1>10, <1>11, <1>12, <1>13, <1>14,
    <1>15, <1>16, <1>17, <1>18, <1>19, <1>20, <1>21, <1>22, <1>23, <1>24, <1>25, <1>26
    DEF Next, UpdateFile, CheckDeps, Rounds

\* The inductive invariant of the walk holds of every reachable state, for every makefile in
\* which no intermediate file depends on itself.
THEOREM WalkInvariance == NoIntermediateCycle /\ Spec => []WalkInv
<1>1. Init => WalkInv
  <2> SUFFICES ASSUME Init PROVE WalkInv
    OBVIOUS
  <2>1. stack = <<>> /\ Len(stack) = 0 /\ pc = "round" /\ updating = {}
    BY DEF Init
  <2>2. StackInv
    BY <2>1 DEF StackInv, TopInv, NestInv, DistinctInv, UpdatingInv
  <2>3. QED
    BY <2>2, InitTypes DEF WalkInv
<1>2. NoIntermediateCycle /\ WalkInv /\ [Next]_vars => WalkInv'
  BY StackStep, WalkTypesStep, FileTypesStep, GoalTypesStep, PlacesStep DEF WalkInv, TypeOK
<1>3. CASE NoIntermediateCycle
  <2>1. WalkInv /\ [Next]_vars => WalkInv'
    BY <1>2, <1>3
  <2>2. Spec => []WalkInv
    BY <1>1, <2>1, PTL DEF Spec
  <2>3. QED
    BY <2>2
<1>4. QED
  BY <1>3

\* The walk is never in the middle of the same file twice, and leaves no mark behind.
THEOREM WalkedOnce == NoIntermediateCycle /\ Spec => []WalkMarked
<1>1. WalkInv => WalkMarked
  <2> SUFFICES ASSUME WalkInv PROVE WalkMarked
    OBVIOUS
  <2>a. WalkTypes /\ PlacesInv /\ NestInv /\ DistinctInv /\ UpdatingInv /\ stack \in Seq(Frames)
    BY DEF WalkInv, TypeOK, StackInv, WalkTypes
  <2>1. ASSUME NEW k \in 1 .. Len(stack), NEW l \in 1 .. Len(stack), k < l,
               stack[k].file = stack[l].file
        PROVE  l = k + 1 /\ stack[k].fn = "update_file" /\ stack[l].fn = "check_dep"
    <3>1. l = k + 1 /\ stack[l].at = "file"
      BY <2>a, <2>1 DEF DistinctInv
    <3>2. l \in 2 .. Len(stack) /\ l - 1 = k /\ stack[l] \in Frames
      BY <2>a, <3>1
    <3>3. Called(l) /\ Placed(stack[l])
      BY <2>a, <3>2 DEF NestInv
    <3>4. stack[k].fn = "update_file"
      BY <3>1, <3>2, <3>3 DEF Called
    <3>5. stack[l].fn = "check_dep"
      BY <3>1, <3>2, <3>3, FrameParts DEF Placed, UpdatePlaces
    <3>6. QED
      BY <3>1, <3>4, <3>5
  <2>2. pc \in {"round", "goal"} => updating = {}
    <3>1. pc \in {"round", "goal"} => Len(stack) = 0
      BY <2>a DEF PlacesInv
    <3>2. QED
      BY <2>a, <3>1 DEF UpdatingInv
  <2>3. QED
    BY <2>1, <2>2 DEF WalkMarked
<1>2. QED
  BY <1>1, WalkInvariance, PTL

-----------------------------------------------------------------------------
(* What a step does to the files.                                          *)

\* Nothing,
Still == UNCHANGED <<command_state, update_status, updated, children, disk, now>>
\* the file of the call on top is noted as finished,
Noted(st) ==
  /\ pc = "walk" /\ Top.fn = "update_file" /\ Top.at \in {"decide", "remake"}
  /\ st \in -1 .. 3 /\ (st \in {-1, 0} => Top.at = "remake")
  /\ notice_finished_file(File, st)
  /\ UNCHANGED <<children, disk, now, deps>>
\* or marked by check_dep,
Marked ==
  /\ Walking("check_dep", "checked") /\ BeingMade(Dep)
  /\ command_state' = [command_state EXCEPT ![File] = "deps_running"]
  /\ UNCHANGED <<update_status, updated, children, disk, now, deps>>
\* or found to wait or not to,
Restated(st) ==
  /\ Walking("update_file", "decide") /\ st \in {"deps_running", "not_started"}
  /\ command_state' = [command_state EXCEPT ![File] = st]
  /\ UNCHANGED <<update_status, updated, children, disk, now, deps>>
\* or its commands are started;
Begun ==
  /\ Walking("update_file", "remake") /\ Top.must_make
  /\ command_state' = [command_state EXCEPT ![File] = "running"]
  /\ children' = children \cup {File}
  /\ UNCHANGED <<update_status, updated, disk, now, deps>>
\* the commands of a target go on,
GoneOn(f) ==
  /\ pc \in {"round", "new_job"} /\ f \in children
  /\ command_state' = [command_state EXCEPT ![f] = "running"]
  /\ UNCHANGED <<update_status, updated, children, disk, now, deps>>
\* or end.
Ended(f, st) ==
  /\ pc \in {"round", "new_job"} /\ f \in children /\ st \in {0, 2}
  /\ children' = children \ {f}
  /\ WriteFile(f) /\ notice_finished_file(f, st)
  /\ UNCHANGED deps

\* What MadeInv says of the call on top.
LEMMA TopFacts ==
  ASSUME MadeInv, pc \in {"walk", "new_job"}
  PROVE  /\ stack # <<>> /\ Top = stack[1] /\ Top \in Range(stack) /\ Top \in Frames
         /\ Len(stack) \in Nat \ {0} /\ 1 \in 1 .. Len(stack)
         /\ File = Top.file /\ File \in Files
         /\ Top.fn \in {"update_file", "check_dep"} /\ Top.i \in Nat \ {0}
         /\ Top.this_mtime \in Times /\ Top.must_make \in BOOLEAN
         /\ Top.dep_status \in Statuses /\ Top.running \in BOOLEAN
         /\ Placed(Top) /\ UpdateInv(Top) /\ CheckInv(Top)
         /\ Top.at = "entry" => Top.i = 1 /\ ~Top.must_make
         /\ deps[File] \in Seq(Files)
<1>1. WalkTypes /\ FileTypes /\ NestInv /\ CallsInv
  BY DEF MadeInv, WalkInv, TypeOK, StackInv
<1>2. stack # <<>> /\ stack \in Seq(Frames)
  BY <1>1 DEF WalkTypes
<1>3. Top = stack[1] /\ Top \in Frames /\ Len(stack) \in Nat \ {0} /\ 1 \in 1 .. Len(stack)
  BY <1>1, <1>2, TopFrame
<1>4. DOMAIN stack = 1 .. Len(stack)
  BY <1>2
<1>5. Top \in Range(stack)
  BY <1>3, <1>4 DEF Range
<1>6. UpdateInv(Top) /\ CheckInv(Top) /\ (Top.at = "entry" => Top.i = 1 /\ ~Top.must_make)
  BY <1>1, <1>5 DEF CallsInv
<1>7. Placed(Top)
  BY <1>1, <1>3 DEF NestInv
<1>8. File \in Files /\ deps[File] \in Seq(Files)
  BY <1>1, <1>3, FrameParts DEF File, FileTypes
<1>9. QED
  BY <1>2, <1>3, <1>5, <1>6, <1>7, <1>8, FrameParts DEF File

\* Every step does one of those.
LEMMA Effects ==
  ASSUME MadeInv, [Next]_vars
  PROVE  \/ Still \/ \E st : Noted(st)
         \/ Marked
         \/ \E st : Restated(st)
         \/ Begun
         \/ \E f \in Files : GoneOn(f) \/ \E st : Ended(f, st)
<1>1. CASE DepChecked
  BY <1>1 DEF DepChecked, Still, Marked, Walking, jobVars
<1>2. CASE GiveUpOnTarget
  <2>1. Noted(Top.dep_status)
    <3>1. pc = "walk"
      BY <1>2 DEF GiveUpOnTarget, Walking
    <3>2. Top.dep_status \in Statuses
      BY <3>1, TopFacts
    <3>3. QED
      BY <1>2, <3>2 DEF GiveUpOnTarget, Walking, Noted, Statuses, jobVars
  <2>2. QED
    BY <2>1
<1>3. CASE NoNeedToRemake
  <2>1. Noted(update_status[File])
    <3>1. pc = "walk" /\ FileTypes
      BY <1>3 DEF NoNeedToRemake, Walking, MadeInv, WalkInv, TypeOK
    <3>2. update_status[File] \in -1 .. 3
      BY <3>1, TopFacts DEF FileTypes
    <3>3. QED
      BY <1>3, <3>2 DEF NoNeedToRemake, Walking, Noted, jobVars
  <2>2. QED
    BY <2>1
<1>4. CASE PretendRemade
  <2>1. Noted(0)
    BY <1>4 DEF PretendRemade, Remaking, Walking, Noted, jobVars
  <2>2. QED
    BY <2>1
<1>5. CASE NoRule
  <2>1. CASE notice_finished_file(File, 2)
    <3>1. Noted(2)
      BY <1>5, <2>1 DEF NoRule, Remaking, Walking, Noted, jobVars
    <3>2. QED
      BY <3>1
  <2>2. CASE UNCHANGED <<command_state, update_status, updated>>
    BY <1>5, <2>2 DEF NoRule, Still, jobVars
  <2>3. QED
    BY <1>5, <2>1, <2>2 DEF NoRule
<1>6. CASE RemakeFile
  <2>1. CASE notice_finished_file(File, 1) /\ UNCHANGED children
    <3>1. Noted(1)
      BY <1>6, <2>1 DEF RemakeFile, MustRun, Remaking, Walking, Noted
    <3>2. QED
      BY <3>1
  <2>2. CASE notice_finished_file(File, 2) /\ UNCHANGED children
    <3>1. Noted(2)
      BY <1>6, <2>2 DEF RemakeFile, MustRun, Remaking, Walking, Noted
    <3>2. QED
      BY <3>1
  <2>3. CASE /\ command_state' = [command_state EXCEPT ![File] = "running"]
             /\ children' = children \cup {File}
             /\ UNCHANGED <<update_status, updated, last_mtime>>
    BY <1>6, <2>3 DEF RemakeFile, MustRun, Remaking, Walking, Begun
  <2>4. QED
    BY <1>6, <2>1, <2>2, <2>3 DEF RemakeFile
<1>7. CASE WaitForDeps
  <2>1. Restated("deps_running")
    BY <1>7 DEF WaitForDeps, Walking, Restated, jobVars
  <2>2. QED
    BY <2>1
<1>8. CASE DepsMade
  <2>1. Restated("not_started") \/ Still
    BY <1>8 DEF DepsMade, Walking, Restated, Still, jobVars
  <2>2. QED
    BY <2>1
<1>9. CASE Commands
  <2>1. PICK f \in Files : NextLine(f) \/ JobSucceeds(f) \/ JobFails(f) \/ NextLineFails(f)
    BY <1>9 DEF Commands
  <2>2. CASE NextLine(f)
    BY <2>2 DEF NextLine, Reaping, GoneOn
  <2>3. CASE JobSucceeds(f)
    <3>1. Ended(f, 0)
      BY <2>3 DEF JobSucceeds, Reaping, Ended
    <3>2. QED
      BY <3>1
  <2>4. CASE JobFails(f) \/ NextLineFails(f)
    <3>1. Ended(f, 2)
      BY <2>4 DEF JobFails, NextLineFails, Reaping, Ended
    <3>2. QED
      BY <3>1
  <2>5. QED
    BY <2>1, <2>2, <2>3, <2>4
<1>10. CASE AlreadyUpdated \/ StartUpdate \/ DropCircular \/ CheckDep
  BY <1>10 DEF AlreadyUpdated, StartUpdate, DropCircular, CheckDep, Still, fileVars, jobVars
<1>11. CASE DepsDone \/ UpdateIntermediate \/ IntermediateUpdated \/ IntermediatesDone
            \/ NewJobReturns
  BY <1>11 DEF DepsDone, UpdateIntermediate, IntermediateUpdated, IntermediatesDone,
    NewJobReturns, Still, fileVars, jobVars
<1>12. CASE CheckDeps
  BY <1>12 DEF CheckDeps, CheckFile, FileChecked, IntermediateIsNewer, CheckIntermediate,
    IntermediateChecked, Still, fileVars, jobVars
<1>13. CASE Rounds \/ Exited \/ UNCHANGED vars
  BY <1>13 DEF Rounds, StartRound, ConsiderGoal, GoalConsidered, TakeGoal, EndRound, Finish,
    Exited, vars, Still, fileVars, jobVars
<1>14. QED
  BY <1>1, <1>2, <1>3, <1>4, <1>5, <1>6, <1>7, <1>8, <1>9, <1>10, <1>11, <1>12, <1>13
    DEF Next, UpdateFile

\* Dependencies are only dropped from the file of the call on top, and never from an
\* intermediate one: one that is being updated would depend on it.
LEMMA DepsStep ==
  ASSUME NoIntermediateCycle, MadeInv, [Next]_vars
  PROVE  /\ \A f \in Files : Range(deps'[f]) \subseteq Range(deps[f])
         /\ \A f \in Files : deps'[f] # deps[f] => DropCircular /\ f = File /\ f \notin Intermediate
<1>a. FileTypes /\ WalkTypes /\ PlacesInv /\ UpdatingInv /\ DistinctInv
  BY DEF MadeInv, WalkInv, TypeOK, StackInv
<1>1. CASE ~DropCircular
  <2>1. UNCHANGED deps
    BY <1>1 DEF Next, UpdateFile, AlreadyUpdated, StartUpdate, CheckDep, DepChecked,
      DepsDone, UpdateIntermediate, IntermediateUpdated, IntermediatesDone, WaitForDeps,
      GiveUpOnTarget, DepsMade, NoNeedToRemake, PretendRemade, NoRule, RemakeFile, NewJobReturns,
      CheckDeps, CheckFile, FileChecked, IntermediateIsNewer, CheckIntermediate,
      IntermediateChecked, Rounds, StartRound, ConsiderGoal, GoalConsidered, TakeGoal, EndRound,
      Finish, Commands, NextLine, JobSucceeds, JobFails, NextLineFails, Exited, vars, fileVars
  <2>2. QED
    BY <2>1
<1>2. CASE DropCircular
  <2>1. /\ pc = "walk" /\ Top.at = "deps" /\ MoreDeps /\ Dep \in updating
        /\ deps' = [deps EXCEPT ![File] = RemoveAt(deps[File], Top.i)]
    BY <1>2 DEF DropCircular
  <2>2. /\ Top = stack[1] /\ File \in Files /\ File = Top.file /\ deps[File] \in Seq(Files)
        /\ Top.i \in 1 .. Len(deps[File]) /\ Len(stack) \in Nat \ {0} /\ 1 \in 1 .. Len(stack)
    BY <2>1, TopFacts DEF MoreDeps
  <2>3. \A f \in Files : deps'[f] # deps[f] => f = File
    BY <1>a, <2>1, <2>2 DEF FileTypes
  <2>4. Range(RemoveAt(deps[File], Top.i)) \subseteq Range(deps[File])
    BY <2>2, RemovedRange
  <2>5. File \notin Intermediate
    <3>1. Dep \in Range(Deps[File]) /\ Dep \in Files
      <4>1. Dep = deps[File][Top.i] /\ DOMAIN deps[File] = 1 .. Len(deps[File])
        BY <2>2 DEF Dep
      <4>2. Dep \in Range(deps[File]) /\ Dep \in Files
        BY <2>2, <4>1 DEF Range
      <4>3. QED
        BY <1>a, <2>2, <4>2 DEF PlacesInv
    <3>2. PICK k \in 1 .. Len(stack) : stack[k].file = Dep
      BY <1>a, <2>1 DEF UpdatingInv
    <3>3. File \in {Dep} \cup DependsOn[Dep]
      BY <1>a, <2>2, <3>2 DEF DistinctInv
    <3>4. File \in DependsOn[File]
      BY <2>2, <3>1, <3>3, DependsFacts
    <3>5. QED
      BY <3>4 DEF NoIntermediateCycle
  <2>6. \A f \in Files : Range(deps'[f]) \subseteq Range(deps[f])
    BY <1>a, <2>1, <2>2, <2>3, <2>4 DEF FileTypes
  <2>7. QED
    BY <1>2, <2>3, <2>5, <2>6
<1>3. QED
  BY <1>1, <1>2

\* What is settled stays as it is, and so does its file on disk; files only get newer,
\* and only when their commands are being run.
LEMMA Frozen ==
  ASSUME MadeInv, [Next]_vars
  PROVE  /\ \A f \in updated : f \in updated' /\ update_status'[f] = update_status[f]
         /\ \A f \in Files : f \notin children => disk'[f] = disk[f]
         /\ \A f \in Files : disk[f] <= disk'[f] /\ disk[f] \in Times /\ disk'[f] \in Times
         /\ now <= now' /\ now \in Nat /\ now' \in Nat
         /\ \A f \in updated : f \notin children /\ f \in Files
<1>a. FileTypes /\ FileTypes' /\ TargetsInv /\ TimesInv
  BY FileTypesStep DEF MadeInv, WalkInv, TypeOK
<1>b. \A f \in updated : f \notin children /\ f \in Files
  BY <1>a DEF TargetsInv, FileTypes
<1>c. /\ disk \in [Files -> Times] /\ disk' \in [Files -> Times] /\ now \in Nat /\ now' \in Nat
      /\ update_status \in [Files -> -1 .. 3]
  BY <1>a DEF FileTypes
<1>d. UNCHANGED <<disk, now>> => /\ \A f \in Files : disk'[f] = disk[f] /\ disk[f] <= disk'[f]
                                 /\ now <= now'
  BY <1>c DEF Times, NoTime
<1>1. CASE Still
  BY <1>1, <1>b, <1>c, <1>d DEF Still
<1>2. CASE \E st : Noted(st)
  <2>1. pc = "walk" /\ File \notin updated
    BY <1>2, TopFacts DEF Noted, UpdateInv
  <2>2. QED
    BY <1>2, <1>b, <1>c, <1>d, <2>1 DEF Noted, notice_finished_file
<1>3. CASE Marked \/ (\E st : Restated(st)) \/ Begun
  BY <1>3, <1>b, <1>c, <1>d DEF Marked, Restated, Begun
<1>4. ASSUME NEW f \in Files, GoneOn(f)
      PROVE  /\ UNCHANGED <<updated, update_status, disk, now>>
  BY <1>4 DEF GoneOn
<1>5. ASSUME NEW f \in Files, NEW st, Ended(f, st)
      PROVE  /\ \A e \in updated : e \in updated' /\ update_status'[e] = update_status[e]
             /\ \A e \in Files : e \notin children => disk'[e] = disk[e]
             /\ \A e \in Files : disk[e] <= disk'[e]
             /\ now <= now'
  <2>1. f \in children /\ notice_finished_file(f, st) /\ WriteFile(f)
    BY <1>5 DEF Ended
  <2>2. \A e \in updated : e \in updated' /\ update_status'[e] = update_status[e]
    BY <1>b, <1>c, <2>1 DEF notice_finished_file
  <2>3. CASE UNCHANGED <<disk, now>>
    BY <2>2, <2>3, <1>d
  <2>4. CASE \E t \in {now, now + 1} : disk' = [disk EXCEPT ![f] = t] /\ now' = t
    <3>1. PICK t \in {now, now + 1} : disk' = [disk EXCEPT ![f] = t] /\ now' = t
      BY <2>4
    <3>2. t \in Nat /\ now <= t /\ disk[f] <= now
      BY <1>a, <1>c, <3>1 DEF TimesInv
    <3>3. \A e \in Files : disk'[e] = (IF e = f THEN t ELSE disk[e]) /\ disk[e] \in Int
      BY <1>c, <3>1 DEF Times, NoTime
    <3>4. QED
      BY <1>c, <2>1, <2>2, <3>1, <3>2, <3>3
  <2>5. QED
    BY <2>1, <2>3, <2>4 DEF WriteFile
<1>6. QED
  BY <1>1, <1>2, <1>3, <1>4, <1>5, <1>b, <1>c, <1>d, Effects

\* What is settled stays settled.
LEMMA SettledKept ==
  ASSUME MadeInv, [Next]_vars, NEW f
  PROVE  Settled(f) => Settled(f)'
BY Frozen DEF Settled

-----------------------------------------------------------------------------
(* The targets.                                                            *)

\* check_dep marks no file whose commands are running, and no settled one all of whose
\* dependencies are made for good.
LEMMA MarkedFile ==
  ASSUME NoLongChain, MadeInv, Marked
  PROVE  /\ File \in Intermediate /\ File \notin children
         /\ Settled(File) => Range(Deps[File]) \cap Intermediate # {}
<1>1. /\ pc = "walk" /\ Top.fn = "check_dep" /\ Top.at = "checked" /\ BeingMade(Dep)
      /\ TargetsInv /\ TimesInv /\ FileTypes /\ PlacesInv
  BY DEF Marked, Walking, MadeInv, WalkInv, TypeOK
<1>2. File \in Files /\ File \in Intermediate /\ deps[File] \in Seq(Files) /\ File = Top.file
  BY <1>1, TopFacts DEF CheckInv
<1>3. Top.i \in 1 .. Len(deps[File])
  BY <1>1, TopFacts DEF Placed
<1>4. Dep \in Range(deps[File]) /\ Dep \in Files
  BY <1>2, <1>3 DEF Dep, Range
<1>5. deps[File] = Deps[File] /\ Dep \in Range(Deps[File])
  BY <1>1, <1>2, <1>4 DEF TimesInv
<1>6. Settled(Dep) => Dep \in Intermediate
  BY <1>1 DEF TargetsInv, BeingMade, Settled
<1>7. Settled(Dep) => Range(Deps[Dep]) \cap Intermediate # {}
  BY <1>1, <1>4 DEF TargetsInv, BeingMade
<1>8. ~(Settled(Dep) /\ Dep \in Intermediate)
  BY <1>2, <1>5, <1>7 DEF NoLongChain
<1>9. ~Settled(Dep)
  BY <1>6, <1>8
<1>10. File \notin children
  BY <1>1, <1>4, <1>9 DEF TargetsInv
<1>11. Settled(File) => Dep \in Intermediate
  BY <1>1, <1>2, <1>4, <1>9 DEF TargetsInv
<1>12. QED
  BY <1>2, <1>5, <1>10, <1>11

\* What is noted as a success had all its dependencies settled.
LEMMA NotedFile ==
  ASSUME MadeInv, NEW st, Noted(st)
  PROVE  /\ File \in Files /\ File \notin updated /\ File \notin children
         /\ update_status[File] = -1
         /\ st \in {-1, 0} => \A d \in Range(deps[File]) \ Intermediate : Settled(d)
<1>1. /\ pc = "walk" /\ Top.fn = "update_file" /\ Top.at \in {"decide", "remake"}
      /\ st \in {-1, 0} => Top.at = "remake"
      /\ TargetsInv
  BY DEF Noted, MadeInv
<1>2. File \in Files /\ File \notin updated /\ File \notin children
  BY <1>1, TopFacts DEF UpdateInv
<1>3. Through(Top) = Range(deps[File])
  <2>1. deps[File] \in Seq(Files) /\ Top.at \notin {"deps", "checked"} /\ File = Top.file
    BY <1>1, TopFacts
  <2>2. QED
    BY <2>1 DEF Through, Range
<1>4. st \in {-1, 0} => \A d \in Range(deps[File]) \ Intermediate : Settled(d)
  BY <1>1, <1>3, TopFacts DEF UpdateInv
<1>5. QED
  BY <1>1, <1>2, <1>4 DEF TargetsInv

\* A target whose commands are started has settled dependencies.
LEMMA BegunFile ==
  ASSUME MadeInv, Walking("update_file", "remake"), Top.must_make
  PROVE  /\ File \in Files /\ File \notin updated /\ File \notin children
         /\ \A d \in Range(deps[File]) : Settled(d)
BY TopFacts DEF Walking, UpdateInv

\* Every step keeps what is known of the targets.
LEMMA TargetsStep ==
  NoIntermediateCycle /\ NoLongChain /\ MadeInv /\ [Next]_vars => TargetsInv'
<1> SUFFICES ASSUME NoIntermediateCycle, NoLongChain, MadeInv, [Next]_vars
             PROVE  TargetsInv'
  OBVIOUS
<1>a. TargetsInv /\ FileTypes /\ FileTypes'
  BY FileTypesStep DEF MadeInv, WalkInv, TypeOK
<1>b. \A f : Settled(f) => Settled(f)'
  BY SettledKept
<1>c. \A f \in Files : Range(deps'[f]) \subseteq Range(deps[f])
  BY DepsStep
<1>d. /\ command_state \in [Files -> States] /\ update_status \in [Files -> -1 .. 3]
      /\ updated \subseteq Files /\ children \subseteq Files
  BY <1>a DEF FileTypes
<1> DEFINE P1 == \A f \in updated' : /\ f \notin children'
                                     /\ command_state'[f] \in {"finished", "deps_running"}
                                     /\ f \notin Intermediate => command_state'[f] = "finished"
           P2 == \A f \in Files \ updated' : update_status'[f] = -1
           P3 == \A f \in children' : command_state'[f] = "running"
           P4(f) == /\ \A d \in Range(deps'[f]) \ Intermediate : Settled(d)'
                    /\ Range(Deps[f]) \cap Intermediate = {} => command_state'[f] = "finished"
<1>1. P1 /\ P2 /\ P3
  <2>1. CASE Still
    BY <1>a, <2>1 DEF Still, TargetsInv, StillRunning
  <2>2. ASSUME NEW st, Noted(st)
        PROVE  P1 /\ P2 /\ P3
    BY <1>a, <1>d, <2>2, NotedFile DEF Noted, notice_finished_file, TargetsInv, StillRunning
  <2>3. CASE Marked
    BY <1>a, <1>d, <2>3, MarkedFile DEF Marked, TargetsInv, StillRunning
  <2>4. ASSUME NEW st, Restated(st)
        PROVE  P1 /\ P2 /\ P3
    <3>1. File \notin updated /\ File \notin children
      BY <2>4, TopFacts DEF Restated, Walking, UpdateInv
    <3>2. QED
      BY <1>a, <1>d, <2>4, <3>1 DEF Restated, TargetsInv, StillRunning
  <2>5. CASE Begun
    BY <1>a, <1>d, <2>5, BegunFile DEF Begun, TargetsInv, StillRunning
  <2>6. ASSUME NEW f \in Files, GoneOn(f)
        PROVE  P1 /\ P2 /\ P3
    BY <1>a, <1>d, <2>6 DEF GoneOn, TargetsInv, StillRunning
  <2>7. ASSUME NEW f \in Files, NEW st, Ended(f, st)
        PROVE  P1 /\ P2 /\ P3
    BY <1>a, <1>d, <2>7 DEF Ended, notice_finished_file, TargetsInv, StillRunning
  <2>8. QED
    BY <2>1, <2>2, <2>3, <2>4, <2>5, <2>6, <2>7, Effects
<1>2. \A f \in children' : \A d \in Range(deps'[f]) : Settled(d)'
  <2>1. \A f \in children : \A d \in Range(deps'[f]) : Settled(d)'
    BY <1>a, <1>b, <1>c, <1>d DEF TargetsInv
  <2>2. CASE Begun
    <3>1. children' = children \cup {File} /\ UNCHANGED deps
      BY <2>2 DEF Begun
    <3>2. \A d \in Range(deps[File]) : Settled(d)'
      BY <1>b, <2>2, BegunFile DEF Begun
    <3>3. QED
      BY <2>1, <3>1, <3>2
  <2>3. CASE children' \subseteq children
    BY <2>1, <2>3
  <2>4. QED
    BY <2>2, <2>3, Effects DEF Still, Noted, Marked, Restated, GoneOn, Ended
<1>3. \A f \in Files : Settled(f)' => P4(f)
  <2> SUFFICES ASSUME NEW f \in Files, Settled(f)'
               PROVE  P4(f)
    OBVIOUS
  <2>a. Settled(f) => \A d \in Range(deps'[f]) \ Intermediate : Settled(d)'
    BY <1>a, <1>b, <1>c DEF TargetsInv
  <2>b. Settled(f) => f \notin children
    BY <1>a DEF TargetsInv, Settled
  <2>c. Settled(f) /\ Range(Deps[f]) \cap Intermediate = {} => command_state[f] = "finished"
    BY <1>a DEF TargetsInv
  <2>1. CASE Still
    BY <2>1, <2>a, <2>c DEF Still, Settled
  <2>2. ASSUME NEW st, Noted(st)
        PROVE  P4(f)
    <3>1. CASE f = File
      <4>1. st \in {-1, 0}
        BY <1>d, <2>2, <3>1 DEF Settled, Noted, notice_finished_file
      <4>2. command_state'[f] = "finished" /\ UNCHANGED deps
        BY <1>d, <2>2, <3>1 DEF Noted, notice_finished_file
      <4>3. QED
        BY <1>b, <2>2, <3>1, <4>1, <4>2, NotedFile
    <3>2. CASE f # File
      <4>1. Settled(f) /\ command_state'[f] = command_state[f]
        BY <1>d, <2>2, <3>2 DEF Settled, Noted, notice_finished_file
      <4>2. QED
        BY <2>a, <2>c, <4>1
    <3>3. QED
      BY <3>1, <3>2
  <2>3. CASE Marked
    <3>1. Settled(f)
      BY <2>3 DEF Marked, Settled
    <3>2. f = File => Range(Deps[f]) \cap Intermediate # {}
      BY <2>3, <3>1, MarkedFile
    <3>3. f # File => command_state'[f] = command_state[f]
      BY <1>d, <2>3 DEF Marked
    <3>4. QED
      BY <2>a, <2>c, <3>1, <3>2, <3>3
  <2>4. ASSUME NEW st, Restated(st)
        PROVE  P4(f)
    <3>1. File \notin updated
      BY <2>4, TopFacts DEF Restated, Walking, UpdateInv
    <3>2. Settled(f) /\ f # File
      BY <2>4, <3>1 DEF Restated, Settled
    <3>3. command_state'[f] = command_state[f]
      BY <1>d, <2>4, <3>2 DEF Restated
    <3>4. QED
      BY <2>a, <2>c, <3>2, <3>3
  <2>5. CASE Begun
    <3>1. Settled(f) /\ f # File
      BY <2>5, BegunFile DEF Begun, Settled
    <3>2. command_state'[f] = command_state[f]
      BY <1>d, <2>5, <3>1 DEF Begun
    <3>3. QED
      BY <2>a, <2>c, <3>1, <3>2
  <2>6. ASSUME NEW e \in Files, GoneOn(e)
        PROVE  P4(f)
    <3>1. Settled(f) /\ e \in children
      BY <2>6 DEF GoneOn, Settled
    <3>2. command_state'[f] = command_state[f]
      BY <1>d, <2>6, <2>b, <3>1 DEF GoneOn
    <3>3. QED
      BY <2>a, <2>c, <3>1, <3>2
  <2>7. ASSUME NEW e \in Files, NEW st, Ended(e, st)
        PROVE  P4(f)
    <3>0. e \in children /\ notice_finished_file(e, st) /\ UNCHANGED deps
      BY <2>7 DEF Ended
    <3>1. CASE f = e
      <4>1. \A d \in Range(deps[f]) : Settled(d)'
        BY <1>a, <1>b, <3>0, <3>1 DEF TargetsInv
      <4>2. command_state'[f] = "finished"
        BY <1>d, <3>0, <3>1 DEF notice_finished_file
      <4>3. QED
        BY <3>0, <4>1, <4>2
    <3>2. CASE f # e
      <4>1. Settled(f) /\ command_state'[f] = command_state[f]
        BY <1>d, <3>0, <3>2 DEF Settled, notice_finished_file
      <4>2. QED
        BY <2>a, <2>c, <4>1
    <3>3. QED
      BY <3>1, <3>2
  <2>8. QED
    BY <2>1, <2>2, <2>3, <2>4, <2>5, <2>6, <2>7, Effects
<1>4. QED
  BY <1>1, <1>2, <1>3 DEF TargetsInv, StillRunning

\* The time found for a file is that of the file.
LEMMA TimeIsRight ==
  ASSUME FileTypes, TimesInv, NEW f \in Files
  PROVE  /\ file_mtime(f) = disk[f]
         /\ \A S : Remembered(S)[f] \in {Unknown, disk[f]}
BY DEF FileTypes, TimesInv, file_mtime, Remembered

\* Every step that leaves the files as they are remembers no wrong time.
LEMMA TimesRemembered ==
  ASSUME FileTypes, TimesInv, [Next]_vars, UNCHANGED disk
  PROVE  \A f \in Files : last_mtime'[f] \in {Unknown, disk[f]}
<1>a. \A f \in Files : last_mtime[f] \in {Unknown, disk[f]}
  BY DEF TimesInv
<1>b. \A S : \A f \in Files : Remembered(S)[f] \in {Unknown, disk[f]}
  BY TimeIsRight
<1>c. \A f, st : notice_finished_file(f, st) =>
         \A e \in Files : last_mtime'[e] \in {Unknown, disk[e]}
  BY <1>a DEF notice_finished_file, FileTypes
<1>1. CASE AlreadyUpdated \/ DepsDone \/ IntermediatesDone \/ WaitForDeps \/ NewJobReturns
           \/ CheckFile \/ IntermediateChecked \/ StartRound \/ EndRound \/ Finish \/ Exited
           \/ UNCHANGED vars
  BY <1>1, <1>a DEF AlreadyUpdated, DepsDone, IntermediatesDone, WaitForDeps, NewJobReturns,
    CheckFile, IntermediateChecked, StartRound, EndRound, Finish, Exited, vars, fileVars
<1>2. CASE StartUpdate \/ DropCircular \/ CheckDep \/ UpdateIntermediate
  BY <1>2, <1>a, <1>b DEF StartUpdate, DropCircular, CheckDep, UpdateIntermediate
<1>3. CASE DepChecked \/ IntermediateUpdated
  BY <1>3, <1>a, <1>b DEF DepChecked, IntermediateUpdated, AskAgain
<1>4. CASE DepsMade \/ FileChecked \/ IntermediateIsNewer \/ CheckIntermediate \/ ConsiderGoal
  BY <1>4, <1>b DEF DepsMade, FileChecked, IntermediateIsNewer, CheckIntermediate, ConsiderGoal
<1>5. CASE GoalConsidered
  BY <1>5, <1>a, <1>b DEF GoalConsidered, TakeGoal
<1>6. CASE GiveUpOnTarget \/ NoNeedToRemake \/ PretendRemade
  BY <1>6, <1>c DEF GiveUpOnTarget, NoNeedToRemake, PretendRemade
<1>7. CASE NoRule \/ RemakeFile
  BY <1>7, <1>a, <1>c DEF NoRule, RemakeFile
<1>8. CASE Commands
  BY <1>8, <1>a, <1>c DEF Commands, NextLine, JobSucceeds, JobFails, NextLineFails
<1>9. QED
  BY <1>1, <1>2, <1>3, <1>4, <1>5, <1>6, <1>7, <1>8 DEF Next, UpdateFile, CheckDeps, Rounds

\* Every step keeps what is known of times and of the dependencies of intermediate files.
LEMMA TimesStep == NoIntermediateCycle /\ MadeInv /\ [Next]_vars => TimesInv'
<1> SUFFICES ASSUME NoIntermediateCycle, MadeInv, [Next]_vars
             PROVE  TimesInv'
  OBVIOUS
<1>a. FileTypes /\ FileTypes' /\ TimesInv /\ TargetsInv
  BY FileTypesStep DEF MadeInv, WalkInv, TypeOK
<1>b. \A f \in Intermediate : deps'[f] = Deps[f]
  BY <1>a, DepsStep, GraphAssumption DEF TimesInv
<1>c. /\ disk \in [Files -> Times] /\ disk' \in [Files -> Times] /\ now \in Nat /\ now' \in Nat
      /\ last_mtime \in [Files -> Times] /\ command_state \in [Files -> States]
  BY <1>a DEF FileTypes
<1>1. ASSUME UNCHANGED <<disk, now>>
      PROVE  TimesInv'
  BY <1>1, <1>a, <1>b, TimesRemembered DEF TimesInv
<1>2. ASSUME NEW f \in Files, NEW st, Ended(f, st), NEW t \in {now, now + 1},
             disk' = [disk EXCEPT ![f] = t], now' = t
      PROVE  TimesInv'
  <2>1. command_state[f] = "running"
    BY <1>a, <1>2 DEF Ended, TargetsInv, StillRunning
  <2>2. last_mtime' = [last_mtime EXCEPT ![f] = Unknown]
    BY <1>2, <2>1 DEF Ended, notice_finished_file
  <2>3. \A e \in Files : last_mtime'[e] \in {Unknown, disk'[e]}
    BY <1>a, <1>c, <1>2, <2>2 DEF TimesInv
  <2>4. \A e \in Files : disk[e] \in Int /\ disk[e] <= now
    BY <1>a, <1>c DEF TimesInv, Times, NoTime
  <2>5. \A e \in Files : disk'[e] <= now'
    BY <1>c, <1>2, <2>4
  <2>6. QED
    BY <1>b, <2>3, <2>5 DEF TimesInv
<1>3. QED
  BY <1>1, <1>2, Effects
    DEF Still, Noted, Marked, Restated, Begun, GoneOn, Ended, WriteFile

-----------------------------------------------------------------------------
(* What makes a target out of date.                                        *)

\* A file reaches itself, and an intermediate file what its dependencies reach.
LEMMA ReachFacts ==
  ASSUME NEW f \in Files
  PROVE  /\ Reach[f] \subseteq Files /\ f \in Reach[f]
         /\ f \in Intermediate => \A d \in Range(Deps[f]) : Reach[d] \subseteq Reach[f]
<1> DEFINE Closed(x) == {S \in SUBSET Files : x \in S /\ \A d \in S \cap Intermediate :
                                                         Range(Deps[d]) \subseteq S}
<1>1. \A x \in Files : Reach[x] = {d \in Files : \A S \in Closed(x) : d \in S}
  BY DEF Reach
<1>2. Reach[f] \subseteq Files /\ f \in Reach[f]
  BY <1>1
<1> HIDE DEF Closed
<1>3. ASSUME f \in Intermediate, NEW d \in Range(Deps[f])
      PROVE  Reach[d] \subseteq Reach[f]
  <2>1. d \in Files
    BY <1>3, GraphAssumption DEF Range
  <2>2. \A S \in Closed(f) : S \in Closed(d)
    BY <1>3 DEF Closed
  <2>3. QED
    BY <1>1, <2>1, <2>2
<1>4. QED
  BY <1>2, <1>3

\* What a dependency reaches is looked at for the target.
LEMMA ReachLookedAt ==
  ASSUME FileTypes, TimesInv, NEW f \in Files, NEW d \in Range(deps[f])
  PROVE  d \in Files /\ Reach[d] \subseteq LookedAt(f)
<1> DEFINE Closed(x) == {S \in SUBSET Files : x \in S /\ \A e \in S \cap Intermediate :
                                                         Range(Deps[e]) \subseteq S}
           Looked == {S \in SUBSET Files : /\ Range(deps[f]) \subseteq S
                                           /\ \A e \in S \cap Intermediate :
                                                Range(deps[e]) \subseteq S}
<1>1. d \in Files
  BY DEF FileTypes, Range
<1>2. Reach[d] = {e \in Files : \A S \in Closed(d) : e \in S}
  BY <1>1 DEF Reach
<1>3. LookedAt(f) = {e \in Files : \A S \in Looked : e \in S}
  BY DEF LookedAt
<1>4. \A S \in Looked : S \in Closed(d)
  BY DEF TimesInv
<1>5. QED
  BY <1>1, <1>2, <1>3, <1>4

\* What makes a target out of date goes on to do so.
LEMMA ShowsKept ==
  ASSUME MadeInv, [Next]_vars, NEW d \in Files, NEW t \in Times, Shows(d, t)
  PROVE  Shows(d, t)'
<1>1. PICK e \in Reach[d] : disk[e] > t \/ (disk[e] = NoTime /\ e \in updated \ Intermediate)
  BY DEF Shows
<1>2. e \in Files
  BY <1>1, ReachFacts
<1>3. disk[e] <= disk'[e] /\ disk[e] \in Times /\ disk'[e] \in Times
  BY <1>2, Frozen
<1>4. CASE disk[e] > t
  <2>1. disk'[e] > t
    BY <1>3, <1>4 DEF Times, NoTime
  <2>2. QED
    BY <1>1, <2>1 DEF Shows
<1>5. CASE disk[e] = NoTime /\ e \in updated \ Intermediate
  <2>1. disk'[e] = NoTime /\ e \in updated' \ Intermediate
    BY <1>2, <1>5, Frozen
  <2>2. QED
    BY <1>1, <2>1 DEF Shows
<1>6. QED
  BY <1>1, <1>4, <1>5

-----------------------------------------------------------------------------
(* The calls.                                                              *)

\* No step but one of the call on top changes what counts for another file.
LEMMA OtherFile ==
  ASSUME NoIntermediateCycle, MadeInv, [Next]_vars, NEW f \in Files, pc = "walk" => f # File
  PROVE  /\ deps'[f] = deps[f]
         /\ f \in updated' \cup children' <=> f \in updated \cup children
         /\ command_state[f] = "deps_running" => command_state'[f] = "deps_running"
<1>a. FileTypes /\ TargetsInv
  BY DEF MadeInv, WalkInv, TypeOK
<1>b. command_state \in [Files -> States]
  BY <1>a DEF FileTypes
<1>1. deps'[f] = deps[f]
  BY DepsStep DEF DropCircular
<1>2. /\ f \in updated' \cup children' <=> f \in updated \cup children
      /\ command_state[f] = "deps_running" => command_state'[f] = "deps_running"
  <2>1. CASE Still
    BY <2>1 DEF Still
  <2>2. CASE \E st : Noted(st)
    BY <1>b, <2>2 DEF Noted, notice_finished_file
  <2>3. CASE Marked \/ (\E st : Restated(st)) \/ Begun
    BY <1>b, <2>3 DEF Marked, Restated, Begun, Walking
  <2>4. ASSUME NEW e \in Files, GoneOn(e)
        PROVE  <1>2
    BY <1>a, <1>b, <2>4 DEF GoneOn, TargetsInv, StillRunning
  <2>5. ASSUME NEW e \in Files, NEW st, Ended(e, st)
        PROVE  <1>2
    BY <1>a, <1>b, <2>5 DEF Ended, notice_finished_file, TargetsInv, StillRunning
  <2>6. QED
    BY <2>1, <2>2, <2>3, <2>4, <2>5, Effects
<1>3. QED
  BY <1>1, <1>2

\* What is known of a call stays true as long as its file is left alone.
LEMMA CallKept ==
  ASSUME NoIntermediateCycle, MadeInv, [Next]_vars, NEW fr \in Frames, Placed(fr),
         UpdateInv(fr), CheckInv(fr),
         pc = "walk" => File # fr.file \/ fr.at \in {"entry", "file"}
  PROVE  UpdateInv(fr)' /\ CheckInv(fr)'
<1>0. CASE fr.at \in {"entry", "file"}
  BY <1>0 DEF UpdateInv, CheckInv, Placed, UpdatePlaces
<1> SUFFICES ASSUME fr.at \notin {"entry", "file"}
             PROVE  UpdateInv(fr)' /\ CheckInv(fr)'
  BY <1>0
<1>a. /\ fr.file \in Files /\ fr.this_mtime \in Times /\ fr.i \in Nat
      /\ deps[fr.file] \in Seq(Files)
  BY FrameParts DEF MadeInv, WalkInv, TypeOK, FileTypes
<1>1. /\ deps'[fr.file] = deps[fr.file]
      /\ fr.file \in updated' \cup children' <=> fr.file \in updated \cup children
      /\ command_state[fr.file] = "deps_running" => command_state'[fr.file] = "deps_running"
  BY <1>a, OtherFile
<1>2. Through(fr)' = Through(fr) /\ Through(fr) \subseteq Files
  BY <1>a, <1>1 DEF Through
<1>3. \A d \in Files : /\ Settled(d) => Settled(d)'
                       /\ disk[d] # NoTime => disk'[d] # NoTime
                       /\ Shows(d, fr.this_mtime) => Shows(d, fr.this_mtime)'
  <2> TAKE d \in Files
  <2>1. disk[d] <= disk'[d] /\ disk[d] \in Times /\ disk'[d] \in Times
    BY Frozen
  <2>2. disk[d] # NoTime => disk'[d] # NoTime
    BY <2>1 DEF Times, NoTime
  <2>3. QED
    BY <1>a, <2>2, SettledKept, ShowsKept
<1>4. (\E d \in Through(fr) : Shows(d, fr.this_mtime)) =>
        \E d \in Through(fr)' : Shows(d, fr.this_mtime)'
  BY <1>2, <1>3
<1>5. CheckInv(fr)'
  BY <1>1, <1>4 DEF CheckInv
<1>6. ASSUME fr.fn = "update_file", fr.at # "job"
      PROVE  UpdateInv(fr)'
  <2>1. fr.file \notin updated \cup children
    BY <1>6 DEF UpdateInv
  <2>2. disk'[fr.file] = disk[fr.file] /\ fr.file \notin updated' \cup children'
    BY <1>a, <1>1, <2>1, Frozen
  <2>3. ASSUME fr.dep_status = 0, ~fr.running
        PROVE  /\ \A d \in Through(fr)' \ Intermediate :
                    Settled(d)' /\ (fr.must_make \/ disk'[d] # NoTime)
               /\ fr.must_make => \/ disk'[fr.file] = NoTime
                                  \/ \E d \in Through(fr)' : Shows(d, fr.this_mtime)'
    BY <1>2, <1>3, <1>4, <1>6, <2>2, <2>3 DEF UpdateInv
  <2>4. ASSUME fr.dep_status = 0, ~fr.running, fr.at \in {"inter", "inter_done"}
        PROVE  /\ fr.must_make
               /\ (\A m \in 1 .. Len(deps[fr.file]) :
                      m < fr.i => Settled(deps[fr.file][m]))'
    <3>1. fr.must_make
      BY <1>6, <2>4 DEF UpdateInv
    <3>2. ASSUME NEW m \in 1 .. Len(deps[fr.file]), m < fr.i
          PROVE  deps[fr.file][m] \in updated' /\ update_status'[deps[fr.file][m]] = 0
      <4>1. PICK e \in Files : e = deps[fr.file][m]
        BY <1>a
      <4>2. Settled(e)
        BY <1>a, <1>6, <2>4, <3>2, <4>1 DEF UpdateInv
      <4>3. QED
        BY <1>3, <4>1, <4>2 DEF Settled
    <3>3. QED
      BY <1>1, <3>1, <3>2 DEF Settled
  <2>5. ASSUME fr.dep_status = 0, ~fr.running, fr.at \in {"decide", "remake"}, fr.must_make
        PROVE  \A d \in Range(deps'[fr.file]) : Settled(d)'
    <3>1. \A d \in Range(deps[fr.file]) : Settled(d) /\ d \in Files
      BY <1>a, <1>6, <2>5 DEF UpdateInv, Range
    <3>2. QED
      BY <1>1, <1>3, <3>1
  <2>6. /\ fr.at = "job" <=> fr.file \in updated' \cup children'
        /\ fr.this_mtime = disk'[fr.file] \/ fr.at = "job"
        /\ fr.at = "remake" => fr.dep_status = 0 /\ ~fr.running
    BY <1>6, <2>2 DEF UpdateInv
  <2>7. QED
    BY <2>3, <2>4, <2>5, <2>6 DEF UpdateInv
<1>7. ASSUME fr.fn = "update_file", fr.at = "job"
      PROVE  UpdateInv(fr)'
  BY <1>1, <1>7 DEF UpdateInv
<1>8. QED
  BY <1>5, <1>6, <1>7 DEF UpdateInv

\* What is known of the calls below the one on top stays true.
LEMMA BelowKept ==
  ASSUME NoIntermediateCycle, MadeInv, [Next]_vars, NEW k \in 2 .. Len(stack),
         NEW fr, fr = stack[k]
  PROVE  UpdateInv(fr)' /\ CheckInv(fr)' /\ (fr.at = "entry" => fr.i = 1 /\ ~fr.must_make)
<1>a. WalkTypes /\ NestInv /\ DistinctInv /\ CallsInv /\ PlacesInv
  BY DEF MadeInv, WalkInv, TypeOK, StackInv
<1>0. stack # <<>> /\ Len(stack) \in Nat
  BY <1>a DEF WalkTypes
<1>1. Top = stack[1] /\ fr \in Frames /\ k \in 1 .. Len(stack) /\ DOMAIN stack = 1 .. Len(stack)
  BY <1>a, <1>0, TopFrame DEF WalkTypes
<1>2. fr \in Range(stack)
  BY <1>1 DEF Range
<1>3. UpdateInv(fr) /\ CheckInv(fr) /\ (fr.at = "entry" => fr.i = 1 /\ ~fr.must_make)
  BY <1>a, <1>2 DEF CallsInv
<1>4. Placed(fr)
  BY <1>a, <1>1 DEF NestInv
<1>5. File = fr.file => fr.at = "file"
  <2>1. 1 \in 1 .. Len(stack) /\ 1 < k
    BY <1>0
  <2>2. QED
    BY <1>a, <1>1, <2>1 DEF DistinctInv, File
<1>6. QED
  BY <1>1, <1>3, <1>4, <1>5, CallKept

\* What CallsInv says of one call.
CallInv(frame) == /\ frame.at = "entry" => frame.i = 1 /\ ~frame.must_make
                  /\ UpdateInv(frame) /\ CheckInv(frame)

\* A step that replaces the frame on top.
LEMMA ContinueCalls ==
  ASSUME NoIntermediateCycle, MadeInv, [Next]_vars, stack # <<>>,
         NEW fr \in Frames, stack' = <<fr>> \o Tail(stack),
         fr.at # "entry", UpdateInv(fr)', CheckInv(fr)',
         fr.fn = Top.fn, fr.fn = "check_dep" => fr.this_mtime = Top.this_mtime
  PROVE  CallsInv'
<1>a. WalkTypes /\ NestInv /\ CallsInv
  BY DEF MadeInv, WalkInv, TypeOK, StackInv
<1>1. /\ Len(stack') = Len(stack) /\ Len(stack) \in Nat \ {0}
      /\ Top = stack[1] /\ stack'[1] = fr
      /\ \A k \in 2 .. Len(stack) : stack'[k] = stack[k]
  BY <1>a, ContinueShape
<1>2. ASSUME NEW frame \in Range(stack')
      PROVE  CallInv(frame)'
  <2>1. PICK k \in DOMAIN stack' : frame = stack'[k]
    BY <1>2 DEF Range
  <2>2. k \in 1 .. Len(stack')
    <3>1. stack' \in Seq(Frames)
      BY <1>a, Replaced DEF WalkTypes
    <3>2. QED
      BY <2>1, <3>1
  <2>3. CASE k = 1
    BY <1>1, <2>1, <2>3 DEF CallInv
  <2>4. CASE k # 1
    <3>1. k \in 2 .. Len(stack) /\ frame = stack[k]
      BY <1>1, <2>1, <2>2, <2>4
    <3>2. QED
      BY <3>1, BelowKept DEF CallInv
  <2>5. QED
    BY <2>3, <2>4
<1>3. ASSUME NEW k \in 2 .. Len(stack'), stack'[k].at = "checked"
      PROVE  stack'[k - 1].this_mtime = stack'[k].this_mtime
  <2>1. k \in 2 .. Len(stack) /\ stack[k].at = "checked" /\ stack'[k] = stack[k]
    BY <1>1, <1>3
  <2>2. stack[k - 1].fn = "check_dep" /\ stack[k - 1].this_mtime = stack[k].this_mtime
    BY <1>a, <2>1 DEF NestInv, Called, CallsInv
  <2>3. CASE k = 2
    BY <1>1, <2>1, <2>2, <2>3
  <2>4. CASE k # 2
    BY <1>1, <2>1, <2>2, <2>4
  <2>5. QED
    BY <2>3, <2>4
<1>4. QED
  BY <1>2, <1>3 DEF CallsInv, CallInv

\* A step that calls a function.
LEMMA CallCalls ==
  ASSUME NoIntermediateCycle, MadeInv, [Next]_vars, stack # <<>>,
         NEW fr \in Frames, NEW callee \in Frames, Call(fr, callee),
         fr.at # "entry", UpdateInv(fr)', CheckInv(fr)',
         fr.fn = Top.fn, fr.fn = "check_dep" => fr.this_mtime = Top.this_mtime,
         callee.at = "entry", callee.i = 1, ~callee.must_make,
         fr.at = "checked" => callee.this_mtime = fr.this_mtime
  PROVE  CallsInv'
<1>a. WalkTypes /\ NestInv /\ CallsInv
  BY DEF MadeInv, WalkInv, TypeOK, StackInv
<1>1. /\ WalkTypes' /\ Len(stack') = Len(stack) + 1 /\ Len(stack) \in Nat \ {0}
      /\ Top = stack[1] /\ stack'[1] = callee /\ stack'[2] = fr
      /\ \A k \in 2 .. Len(stack) : stack'[k + 1] = stack[k]
  BY <1>a, CallShape
<1>0. \A k \in 3 .. Len(stack') : k - 1 \in 2 .. Len(stack) /\ stack'[k] = stack[k - 1]
  <2> TAKE k \in 3 .. Len(stack')
  <2>1. k - 1 \in 2 .. Len(stack)
    BY <1>1
  <2>2. stack'[(k - 1) + 1] = stack[k - 1]
    BY <1>1, <2>1
  <2>3. QED
    BY <2>1, <2>2
<1>2. ASSUME NEW frame \in Range(stack')
      PROVE  CallInv(frame)'
  <2>1. PICK k \in DOMAIN stack' : frame = stack'[k]
    BY <1>2 DEF Range
  <2>2. k \in 1 .. Len(stack')
    BY <1>1, <2>1 DEF WalkTypes
  <2>3. CASE k = 1
    BY <1>1, <2>1, <2>3 DEF CallInv, UpdateInv, CheckInv
  <2>4. CASE k = 2
    BY <1>1, <2>1, <2>4 DEF CallInv
  <2>5. CASE k \notin {1, 2}
    <3>1. k \in 3 .. Len(stack')
      BY <1>1, <2>2, <2>5
    <3>2. PICK l \in 2 .. Len(stack) : frame = stack[l]
      BY <1>0, <2>1, <3>1
    <3>3. QED
      BY <3>2, BelowKept DEF CallInv
  <2>6. QED
    BY <2>3, <2>4, <2>5
<1>3. ASSUME NEW k \in 2 .. Len(stack'), stack'[k].at = "checked"
      PROVE  stack'[k - 1].this_mtime = stack'[k].this_mtime
  <2>1. CASE k = 2
    BY <1>1, <1>3, <2>1
  <2>2. CASE k = 3
    <3>1. 2 \in 2 .. Len(stack) /\ stack[2].at = "checked" /\ stack'[3] = stack[2]
      BY <1>0, <1>1, <1>3, <2>2
    <3>2. stack[1].fn = "check_dep" /\ stack[1].this_mtime = stack[2].this_mtime
      BY <1>a, <3>1 DEF NestInv, Called, CallsInv
    <3>3. QED
      BY <1>1, <2>2, <3>1, <3>2
  <2>3. CASE k \notin {2, 3}
    <3>1. k \in 3 .. Len(stack') /\ k - 1 \in 3 .. Len(stack')
      BY <1>1, <1>3, <2>3
    <3>2. k - 1 \in 2 .. Len(stack) /\ stack'[k] = stack[k - 1] /\ stack'[k - 1] = stack[k - 2]
      BY <1>0, <1>1, <3>1
    <3>3. stack[(k - 1) - 1].this_mtime = stack[k - 1].this_mtime
      BY <1>a, <1>3, <3>2 DEF CallsInv
    <3>4. QED
      BY <1>1, <3>1, <3>2, <3>3
  <2>4. QED
    BY <2>1, <2>2, <2>3
<1>4. QED
  BY <1>2, <1>3 DEF CallsInv, CallInv

\* A step that returns.
LEMMA ReturnCalls ==
  ASSUME NoIntermediateCycle, MadeInv, [Next]_vars, stack # <<>>,
         NEW st \in Statuses, NEW mm \in BOOLEAN, Return(st, mm)
  PROVE  CallsInv'
<1>a. WalkTypes /\ NestInv /\ CallsInv
  BY DEF MadeInv, WalkInv, TypeOK, StackInv
<1>1. /\ WalkTypes' /\ Len(stack') = Len(stack) - 1 /\ Len(stack) \in Nat \ {0}
      /\ \A k \in 1 .. Len(stack') : stack'[k] = stack[k + 1]
  BY <1>a, ReturnShape
<1>2. ASSUME NEW frame \in Range(stack')
      PROVE  CallInv(frame)'
  <2>1. PICK k \in DOMAIN stack' : frame = stack'[k]
    BY <1>2 DEF Range
  <2>2. k \in 1 .. Len(stack')
    BY <1>1, <2>1 DEF WalkTypes
  <2>3. k + 1 \in 2 .. Len(stack) /\ frame = stack[k + 1]
    BY <1>1, <2>1, <2>2
  <2>4. QED
    BY <2>3, BelowKept DEF CallInv
<1>3. ASSUME NEW k \in 2 .. Len(stack'), stack'[k].at = "checked"
      PROVE  stack'[k - 1].this_mtime = stack'[k].this_mtime
  <2>1. k + 1 \in 2 .. Len(stack) /\ stack'[k] = stack[k + 1]
    BY <1>1, <1>3
  <2>2. k - 1 \in 1 .. Len(stack')
    BY <1>1, <1>3
  <2>3. stack'[k - 1] = stack[(k - 1) + 1]
    BY <1>1, <2>2
  <2>4. stack[(k + 1) - 1].this_mtime = stack[k + 1].this_mtime
    BY <1>a, <1>3, <2>1 DEF CallsInv
  <2>5. QED
    BY <1>1, <1>3, <2>1, <2>3, <2>4
<1>4. QED
  BY <1>2, <1>3 DEF CallsInv, CallInv

\* A step that leaves the stack, whose top frame keeps what is known of it.
LEMMA SameCalls ==
  ASSUME NoIntermediateCycle, MadeInv, [Next]_vars, UNCHANGED stack,
         stack # <<>> => UpdateInv(Top)' /\ CheckInv(Top)'
  PROVE  CallsInv'
<1>a. WalkTypes /\ CallsInv
  BY DEF MadeInv, WalkInv, TypeOK
<1>1. ASSUME NEW frame \in Range(stack)
      PROVE  CallInv(frame)'
  <2>1. PICK k \in DOMAIN stack : frame = stack[k]
    BY <1>1 DEF Range
  <2>2. k \in 1 .. Len(stack) /\ Len(stack) \in Nat
    BY <1>a, <2>1 DEF WalkTypes
  <2>3. CASE k = 1
    <3>1. stack # <<>> /\ frame = Top /\ frame = Top'
      BY <1>a, <2>1, <2>2, <2>3, TopFrame DEF Top
    <3>2. UpdateInv(frame)' /\ CheckInv(frame)'
      BY <3>1
    <3>3. QED
      BY <1>a, <1>1, <3>2 DEF CallInv, CallsInv
  <2>4. CASE k # 1
    BY <2>1, <2>2, <2>4, BelowKept DEF CallInv
  <2>5. QED
    BY <2>3, <2>4
<1>2. QED
  BY <1>a, <1>1 DEF CallsInv, CallInv

\* What is known of a call does not change when nothing is made.
LEMMA Lifted ==
  ASSUME NEW fr, UNCHANGED <<update_status, updated, children, disk, deps>>,
         UpdateInv(fr), CheckInv(fr),
         \/ fr.fn = "update_file"
         \/ command_state'[fr.file] \in {command_state[fr.file], "deps_running"}
  PROVE  UpdateInv(fr)' /\ CheckInv(fr)'
<1>1. \A d : Settled(d)' <=> Settled(d)
  BY DEF Settled
<1>2. \A d, t : Shows(d, t)' <=> Shows(d, t)
  BY DEF Shows
<1>3. Through(fr)' = Through(fr)
  BY DEF Through
<1>4. UpdateInv(fr)'
  BY <1>1, <1>2, <1>3 DEF UpdateInv, Settled
<1>5. CheckInv(fr)'
  BY <1>2, <1>3 DEF CheckInv
<1>6. QED
  BY <1>4, <1>5

\* The same for the places of loops that a call comes to.
LEMMA ThroughFacts ==
  ASSUME MadeInv, pc \in {"walk", "new_job"}
  PROVE  /\ Top.at = "entry" \/ ~MoreDeps \/ Top.at \notin {"deps", "checked"} \/ Dep \in Files
         /\ \A fr : fr.file = File /\ fr.at \notin {"deps", "checked"} =>
                      Through(fr) = Range(deps[File])
         /\ \A fr : fr.file = File /\ fr.at \in {"deps", "checked"} /\ fr.i = 1 =>
                      Through(fr) = {}
         /\ \A fr : fr.file = File /\ fr.at \in {"deps", "checked"} /\ fr.i \in Nat
                      /\ fr.i > Len(deps[File]) => Through(fr) = Range(deps[File])
<1>1. deps[File] \in Seq(Files) /\ Top.i \in Nat \ {0}
  BY TopFacts
<1>2. Range(deps[File]) = {deps[File][m] : m \in 1 .. Len(deps[File])}
  BY <1>1 DEF Range
<1>3. MoreDeps => Dep \in Files
  BY <1>1 DEF MoreDeps, Dep
<1>4. ASSUME NEW fr, fr.file = File, fr.at \notin {"deps", "checked"}
      PROVE  Through(fr) = Range(deps[File])
  BY <1>2, <1>4 DEF Through
<1>5. ASSUME NEW fr, fr.file = File, fr.at \in {"deps", "checked"}, fr.i = 1
      PROVE  Through(fr) = {}
  BY <1>1, <1>5 DEF Through
<1>6. ASSUME NEW fr, fr.file = File, fr.at \in {"deps", "checked"}, fr.i \in Nat,
             fr.i > Len(deps[File])
      PROVE  Through(fr) = Range(deps[File])
  <2>1. {n \in 1 .. Len(deps[File]) : fr.at \in {"deps", "checked"} => n < fr.i}
          = 1 .. Len(deps[File])
    BY <1>1, <1>6
  <2>2. QED
    BY <1>2, <1>6, <2>1 DEF Through
<1>7. QED
  BY <1>3, <1>4, <1>5, <1>6

\* Nothing has been found when the walk of a file starts.
LEMMA StartUpdateCall ==
  ASSUME MadeInv, StartUpdate,
         NEW fr, fr = [Top EXCEPT !.at = "deps", !.this_mtime = file_mtime(File),
                                  !.must_make = (file_mtime(File) = NoTime)]
  PROVE  UpdateInv(fr) /\ CheckInv(fr) /\ fr.fn = Top.fn /\ fr.at = "deps" /\ fr.file = File
<1>1. /\ pc = "walk" /\ Top.fn = "update_file" /\ Top.at = "entry"
      /\ File \notin updated /\ command_state[File] # "running"
      /\ FileTypes /\ TimesInv /\ TargetsInv
  BY DEF StartUpdate, Walking, Considered, MadeInv, WalkInv, TypeOK
<1>2. File \in Files /\ Top \in Frames /\ Top.i = 1 /\ File = Top.file
  BY <1>1, TopFacts
<1>3. /\ fr.fn = "update_file" /\ fr.at = "deps" /\ fr.i = 1 /\ fr.file = File
      /\ fr.this_mtime = file_mtime(File) /\ fr.must_make = (file_mtime(File) = NoTime)
  BY <1>1, <1>2 DEF Frames
<1>4. File \notin children
  BY <1>1 DEF TargetsInv, StillRunning
<1>5. file_mtime(File) = disk[File]
  BY <1>1, <1>2, TimeIsRight
<1>6. Through(fr) = {}
  BY <1>1, <1>3, ThroughFacts
<1>7. QED
  BY <1>1, <1>3, <1>4, <1>5, <1>6 DEF UpdateInv, CheckInv

\* The loop over the dependencies starts.
LEMMA CheckIntermediateCall ==
  ASSUME MadeInv, CheckIntermediate, NEW fr, fr = [Top EXCEPT !.at = "deps"]
  PROVE  UpdateInv(fr) /\ CheckInv(fr) /\ fr.fn = Top.fn /\ fr.at = "deps" /\ fr.file = File
         /\ fr.this_mtime = Top.this_mtime
<1>1. pc = "walk" /\ Top.fn = "check_dep" /\ Top.at = "entry" /\ File \in Intermediate
  BY DEF CheckIntermediate, Walking
<1>2. Top \in Frames /\ ~Top.must_make /\ File = Top.file
  BY <1>1, TopFacts
<1>3. /\ fr.fn = "check_dep" /\ fr.at = "deps" /\ fr.file = File /\ ~fr.must_make
      /\ fr.this_mtime = Top.this_mtime
  BY <1>1, <1>2 DEF Frames
<1>4. QED
  BY <1>1, <1>3 DEF UpdateInv, CheckInv

\* A call is made from the loop.
LEMMA CheckDepCall ==
  ASSUME MadeInv, CheckDep, NEW fr, fr = [Top EXCEPT !.at = "checked"]
  PROVE  UpdateInv(fr) /\ CheckInv(fr) /\ fr.fn = Top.fn /\ fr.at = "checked" /\ fr.file = File
         /\ fr.this_mtime = Top.this_mtime /\ fr.i = Top.i
<1>1. pc = "walk" /\ Top.at = "deps"
  BY DEF CheckDep
<1>2. Top \in Frames /\ File = Top.file /\ UpdateInv(Top) /\ CheckInv(Top)
  BY <1>1, TopFacts
<1>3. /\ fr.fn = Top.fn /\ fr.at = "checked" /\ fr.file = Top.file /\ fr.must_make = Top.must_make
      /\ fr.i = Top.i /\ fr.this_mtime = Top.this_mtime /\ fr.dep_status = Top.dep_status
      /\ fr.running = Top.running
  BY <1>2 DEF Frames
<1>4. Through(fr) = Through(Top)
  BY <1>1, <1>3 DEF Through
<1>5. UpdateInv(fr)
  BY <1>1, <1>2, <1>3, <1>4 DEF UpdateInv
<1>6. CheckInv(fr)
  BY <1>1, <1>2, <1>3, <1>4 DEF CheckInv
<1>7. QED
  BY <1>2, <1>3, <1>5, <1>6

\* The first loop is over.
LEMMA DepsDoneCall ==
  ASSUME MadeInv, DepsDone,
         NEW fr, fr = [Top EXCEPT !.at = IF Top.must_make THEN "inter" ELSE "decide", !.i = 1]
  PROVE  UpdateInv(fr) /\ CheckInv(fr) /\ fr.fn = Top.fn /\ fr.at # "entry" /\ fr.file = File
<1>1. pc = "walk" /\ Top.fn = "update_file" /\ Top.at = "deps" /\ ~MoreDeps
  BY DEF DepsDone, Walking
<1>2. /\ Top \in Frames /\ File = Top.file /\ UpdateInv(Top) /\ Top.i \in Nat
      /\ deps[File] \in Seq(Files) /\ Top.must_make \in BOOLEAN
  BY <1>1, TopFacts
<1>3. /\ fr.fn = "update_file" /\ fr.file = Top.file /\ fr.must_make = Top.must_make
      /\ fr.i = 1 /\ fr.this_mtime = Top.this_mtime /\ fr.dep_status = Top.dep_status
      /\ fr.running = Top.running /\ fr.at = IF Top.must_make THEN "inter" ELSE "decide"
  BY <1>1, <1>2 DEF Frames
<1>4. Through(fr) = Range(deps[File])
  <2>1. fr.file = File /\ fr.at \notin {"deps", "checked"}
    BY <1>2, <1>3
  <2>2. QED
    BY <1>1, <2>1, ThroughFacts
<1>5. Through(Top) = Range(deps[File])
  <2>1. Top.i > Len(deps[File])
    BY <1>1, <1>2 DEF MoreDeps
  <2>2. QED
    BY <1>1, <1>2, <2>1, ThroughFacts
<1>6. UpdateInv(fr)
  BY <1>1, <1>2, <1>3, <1>4, <1>5 DEF UpdateInv
<1>7. QED
  BY <1>1, <1>2, <1>3, <1>6 DEF CheckInv

\* The frame once a dependency has been checked.
CheckedFrame(st) ==
  [Top EXCEPT !.at = "deps", !.dep_status = st, !.must_make = @ \/ ret.must_make,
              !.running = @ \/ (Top.fn = "update_file" /\ BeingMade(Dep)),
              !.i = IF GivesUp(st) THEN Len(deps[File]) + 1 ELSE @ + 1]

\* A dependency has been checked.
LEMMA DepCheckedCall ==
  ASSUME MadeInv, DepChecked,
         NEW st, st = Or(Top.dep_status, ret.status), NEW fr, fr = CheckedFrame(st)
  PROVE  /\ UpdateInv(fr)
         /\ command_state'[File] = "deps_running" \/ CheckInv(fr)
         /\ fr.fn = Top.fn /\ fr.at = "deps" /\ fr.file = File /\ fr.this_mtime = Top.this_mtime
<1>1. pc = "walk" /\ Top.at = "checked" /\ ret.status \in Statuses /\ ret.must_make \in BOOLEAN
      /\ RetInv /\ FileTypes
  BY DEF DepChecked, MadeInv, WalkInv, TypeOK, WalkTypes
<1>2. /\ Top \in Frames /\ File = Top.file /\ UpdateInv(Top) /\ CheckInv(Top) /\ Top.i \in Nat \ {0}
      /\ deps[File] \in Seq(Files) /\ Top.i <= Len(deps[File]) /\ File \in Files
      /\ Top.must_make \in BOOLEAN /\ Top.running \in BOOLEAN /\ Top.dep_status \in Statuses
      /\ Top.fn \in {"update_file", "check_dep"}
  BY <1>1, TopFacts DEF Placed
<1>3. /\ fr.fn = Top.fn /\ fr.at = "deps" /\ fr.file = Top.file /\ fr.dep_status = st
      /\ fr.this_mtime = Top.this_mtime
      /\ fr.i = IF GivesUp(st) THEN Len(deps[File]) + 1 ELSE Top.i + 1
  BY <1>2 DEF Frames, CheckedFrame
<1>4. fr.must_make = (Top.must_make \/ ret.must_make)
  BY <1>2 DEF Frames, CheckedFrame
<1>5. fr.running = (Top.running \/ (Top.fn = "update_file" /\ BeingMade(Dep)))
  BY <1>2 DEF Frames, CheckedFrame
<1>6. st = 0 => Top.dep_status = 0 /\ ret.status = 0 /\ ~GivesUp(st)
  BY <1>1, <1>2 DEF Or, GivesUp
<1>7. ASSUME st = 0
      PROVE  Through(fr) = Through(Top) \cup {Dep}
  <2>1. {n \in 1 .. Len(deps[File]) : fr.at \in {"deps", "checked"} => n < fr.i}
          = {n \in 1 .. Len(deps[File]) : Top.at \in {"deps", "checked"} => n < Top.i}
            \cup {Top.i}
    BY <1>1, <1>2, <1>3, <1>6, <1>7
  <2>2. QED
    BY <1>2, <1>3, <2>1 DEF Through, Dep
<1>8. ASSUME ~BeingMade(Dep), ret.status = 0
      PROVE  /\ Dep \notin Intermediate => Settled(Dep) /\ (ret.must_make \/ disk[Dep] # NoTime)
             /\ ret.must_make => Shows(Dep, Top.this_mtime)
  BY <1>1, <1>8 DEF RetInv
<1>9. ASSUME fr.fn = "update_file", st = 0, ~fr.running
      PROVE  /\ \A d \in Through(fr) \ Intermediate :
                  Settled(d) /\ (fr.must_make \/ disk[d] # NoTime)
             /\ fr.must_make => \/ disk[fr.file] = NoTime
                                \/ \E d \in Through(fr) : Shows(d, fr.this_mtime)
  <2>1. ~BeingMade(Dep) /\ ~Top.running /\ Top.dep_status = 0 /\ ret.status = 0
    BY <1>3, <1>5, <1>6, <1>9
  <2>2. /\ \A d \in Through(Top) \ Intermediate :
             Settled(d) /\ (Top.must_make \/ disk[d] # NoTime)
        /\ Top.must_make => \/ disk[Top.file] = NoTime
                            \/ \E d \in Through(Top) : Shows(d, Top.this_mtime)
    BY <1>1, <1>2, <1>3, <1>9, <2>1 DEF UpdateInv
  <2>3. \A d \in Through(fr) \ Intermediate : Settled(d) /\ (fr.must_make \/ disk[d] # NoTime)
    BY <1>4, <1>7, <1>8, <1>9, <2>1, <2>2
  <2>4. CASE Top.must_make
    BY <1>3, <1>7, <1>9, <2>2, <2>3, <2>4
  <2>5. CASE ret.must_make
    BY <1>3, <1>7, <1>8, <1>9, <2>1, <2>3, <2>5
  <2>6. QED
    BY <1>4, <2>3, <2>4, <2>5
<1>10. UpdateInv(fr)
  <2>1. fr.fn = "update_file" =>
          fr.file \notin updated \cup children /\ fr.this_mtime = disk[fr.file]
    BY <1>1, <1>2, <1>3 DEF UpdateInv
  <2>2. QED
    BY <1>3, <1>9, <2>1 DEF UpdateInv
<1>11. ASSUME fr.fn = "check_dep", command_state'[File] # "deps_running"
       PROVE  CheckInv(fr)
  <2>1. File \in Intermediate
    BY <1>1, <1>2, <1>3, <1>11 DEF CheckInv
  <2>2. ASSUME fr.must_make, st = 0
        PROVE  \E d \in Through(fr) : Shows(d, fr.this_mtime)
    <3>1. command_state' = IF BeingMade(Dep) /\ ~GivesUp(st)
                           THEN [command_state EXCEPT ![File] = "deps_running"]
                           ELSE command_state
      BY <1>3, <1>11 DEF DepChecked
    <3>2. ~BeingMade(Dep) /\ command_state[File] # "deps_running"
      BY <1>1, <1>2, <1>6, <1>11, <2>2, <3>1 DEF FileTypes
    <3>3. CASE Top.must_make
      BY <1>1, <1>2, <1>3, <1>6, <1>7, <1>11, <2>2, <3>2, <3>3 DEF CheckInv
    <3>4. CASE ret.must_make
      BY <1>3, <1>6, <1>7, <1>8, <2>2, <3>2, <3>4
    <3>5. QED
      BY <1>4, <2>2, <3>3, <3>4
  <2>3. QED
    BY <1>2, <1>3, <1>11, <2>1, <2>2 DEF CheckInv
<1>12. fr.fn = "update_file" => CheckInv(fr)
  BY DEF CheckInv
<1>13. QED
  BY <1>2, <1>3, <1>10, <1>11, <1>12

\* An intermediate file is updated; those before it were or are not intermediate.
LEMMA UpdateIntermediateCall ==
  ASSUME MadeInv, UpdateIntermediate,
         NEW fr, fr = [Top EXCEPT !.at = "inter_done", !.i = Min(RestIntermediate)]
  PROVE  /\ UpdateInv(fr) /\ CheckInv(fr) /\ fr.fn = Top.fn /\ fr.at = "inter_done"
         /\ fr.file = File
         /\ Min(RestIntermediate) \in 1 .. Len(deps[File])
<1>1. pc = "walk" /\ Top.fn = "update_file" /\ Top.at = "inter" /\ RestIntermediate # {}
  BY DEF UpdateIntermediate, Walking
<1>2. /\ Top \in Frames /\ File = Top.file /\ UpdateInv(Top) /\ Top.i \in Nat \ {0}
      /\ deps[File] \in Seq(Files)
  BY <1>1, TopFacts
<1> DEFINE next == Min(RestIntermediate)
<1>3. /\ next \in RestIntermediate /\ \A j \in RestIntermediate : next <= j
      /\ RestIntermediate \subseteq 1 .. Len(deps[File])
  <2>1. RestIntermediate \subseteq Nat /\ RestIntermediate \subseteq 1 .. Len(deps[File])
    BY <1>2 DEF RestIntermediate
  <2>2. QED
    BY <1>1, <2>1, MinIsLeast
<1> HIDE DEF next
<1>4. fr = [Top EXCEPT !.at = "inter_done", !.i = next]
  BY DEF next
<1>5. /\ fr.fn = "update_file" /\ fr.file = Top.file /\ fr.must_make = Top.must_make
      /\ fr.i = next /\ fr.this_mtime = Top.this_mtime /\ fr.dep_status = Top.dep_status
      /\ fr.running = Top.running /\ fr.at = "inter_done"
  BY <1>1, <1>2, <1>4 DEF Frames
<1>6. Through(fr) = Range(deps[File]) /\ Through(Top) = Range(deps[File])
  BY <1>1, <1>2, <1>5, ThroughFacts
<1>7. ASSUME fr.dep_status = 0, ~fr.running, NEW m \in 1 .. Len(deps[File]), m < next
      PROVE  Settled(deps[File][m])
  <2>1. CASE m < Top.i
    BY <1>1, <1>2, <1>5, <1>7, <2>1 DEF UpdateInv
  <2>2. CASE ~(m < Top.i)
    <3>1. m \notin RestIntermediate
      BY <1>2, <1>3, <1>7
    <3>2. m \in Top.i .. Len(deps[File])
      BY <1>2, <1>7, <2>2
    <3>3. deps[File][m] \in Range(deps[File]) \ Intermediate
      BY <1>2, <1>7, <3>1, <3>2 DEF RestIntermediate, Range
    <3>4. QED
      BY <1>1, <1>2, <1>5, <1>6, <1>7, <3>3 DEF UpdateInv
  <2>3. QED
    BY <2>1, <2>2
<1>8. UpdateInv(fr)
  BY <1>1, <1>2, <1>5, <1>6, <1>7 DEF UpdateInv
<1>9. QED
  BY <1>1, <1>2, <1>3, <1>5, <1>8 DEF CheckInv, next

\* An intermediate file has been updated.
LEMMA IntermediateUpdatedCall ==
  ASSUME MadeInv, IntermediateUpdated,
         NEW st, st = Or(Top.dep_status, ret.status),
         NEW fr, fr = [Top EXCEPT !.at = IF GivesUp(st) THEN "decide" ELSE "inter",
                                  !.dep_status = st, !.i = @ + 1,
                                  !.running = @ \/ BeingMade(Dep)]
  PROVE  UpdateInv(fr) /\ CheckInv(fr) /\ fr.fn = Top.fn /\ fr.at # "entry" /\ fr.file = File
<1>1. /\ pc = "walk" /\ Top.fn = "update_file" /\ Top.at = "inter_done"
      /\ ret.status \in Statuses /\ RetInv
  BY DEF IntermediateUpdated, Walking, MadeInv, WalkInv, TypeOK, WalkTypes
<1>2. /\ Top \in Frames /\ File = Top.file /\ UpdateInv(Top) /\ Top.i \in Nat \ {0}
      /\ deps[File] \in Seq(Files) /\ Top.running \in BOOLEAN /\ Top.dep_status \in Statuses
  BY <1>1, TopFacts
<1>3. /\ fr.fn = "update_file" /\ fr.file = Top.file /\ fr.must_make = Top.must_make
      /\ fr.i = Top.i + 1 /\ fr.this_mtime = Top.this_mtime /\ fr.dep_status = st
      /\ fr.at = IF GivesUp(st) THEN "decide" ELSE "inter"
  BY <1>1, <1>2 DEF Frames
<1>4. fr.running = (Top.running \/ BeingMade(Dep))
  BY <1>2 DEF Frames
<1>5. st = 0 => Top.dep_status = 0 /\ ret.status = 0 /\ ~GivesUp(st)
  BY <1>1, <1>2 DEF Or, GivesUp
<1>6. Through(fr) = Range(deps[File]) /\ Through(Top) = Range(deps[File])
  <2>1. fr.file = File /\ fr.at \notin {"deps", "checked"}
    BY <1>2, <1>3
  <2>2. QED
    BY <1>1, <1>2, <2>1, ThroughFacts
<1>7. ASSUME st = 0, ~fr.running
      PROVE  /\ fr.at = "inter" /\ fr.must_make
             /\ \A d \in Range(deps[File]) \ Intermediate : Settled(d)
             /\ disk[File] = NoTime \/ \E d \in Range(deps[File]) : Shows(d, fr.this_mtime)
             /\ \A m \in 1 .. Len(deps[File]) : m < fr.i => Settled(deps[File][m])
  <2>1. ~Top.running /\ ~BeingMade(Dep) /\ Top.dep_status = 0 /\ ret.status = 0
    BY <1>4, <1>5, <1>7
  <2>2. Settled(deps[File][Top.i])
    BY <1>1, <2>1 DEF RetInv, Dep
  <2>3. \A m \in 1 .. Len(deps[File]) : m < Top.i => Settled(deps[File][m])
    BY <1>1, <1>2, <2>1 DEF UpdateInv
  <2>4. \A m \in 1 .. Len(deps[File]) : m < fr.i => Settled(deps[File][m])
    <3> TAKE m \in 1 .. Len(deps[File])
    <3>1. m < fr.i => m < Top.i \/ m = Top.i
      BY <1>2, <1>3
    <3>2. QED
      BY <2>2, <2>3, <3>1
  <2>5. fr.must_make /\ fr.at = "inter"
    BY <1>1, <1>2, <1>3, <1>5, <1>7, <2>1 DEF UpdateInv
  <2>6. QED
    BY <1>1, <1>2, <1>3, <1>6, <2>1, <2>4, <2>5 DEF UpdateInv
<1>8. /\ fr.file \notin updated \cup children /\ fr.this_mtime = disk[fr.file]
      /\ fr.at \notin {"job", "remake", "entry"}
  BY <1>1, <1>2, <1>3 DEF UpdateInv
<1>9. UpdateInv(fr)
  BY <1>2, <1>3, <1>6, <1>7, <1>8 DEF UpdateInv
<1>10. QED
  BY <1>1, <1>2, <1>3, <1>8, <1>9 DEF CheckInv

\* All intermediate files have been updated.
LEMMA IntermediatesDoneCall ==
  ASSUME MadeInv, IntermediatesDone, NEW fr, fr = [Top EXCEPT !.at = "decide"]
  PROVE  UpdateInv(fr) /\ CheckInv(fr) /\ fr.fn = Top.fn /\ fr.at # "entry" /\ fr.file = File
<1>1. pc = "walk" /\ Top.fn = "update_file" /\ Top.at = "inter" /\ RestIntermediate = {}
  BY DEF IntermediatesDone, Walking
<1>2. /\ Top \in Frames /\ File = Top.file /\ UpdateInv(Top) /\ Top.i \in Nat \ {0}
      /\ deps[File] \in Seq(Files)
  BY <1>1, TopFacts
<1>3. /\ fr.fn = "update_file" /\ fr.file = Top.file /\ fr.must_make = Top.must_make
      /\ fr.i = Top.i /\ fr.this_mtime = Top.this_mtime /\ fr.dep_status = Top.dep_status
      /\ fr.running = Top.running /\ fr.at = "decide"
  BY <1>1, <1>2 DEF Frames
<1>4. Through(fr) = Range(deps[File]) /\ Through(Top) = Range(deps[File])
  BY <1>1, <1>2, <1>3, ThroughFacts
<1>5. ASSUME fr.dep_status = 0, ~fr.running, NEW d \in Range(deps[File])
      PROVE  Settled(d)
  <2>1. PICK m \in 1 .. Len(deps[File]) : d = deps[File][m]
    BY <1>2 DEF Range
  <2>2. CASE m < Top.i
    BY <1>1, <1>2, <1>3, <1>5, <2>1, <2>2 DEF UpdateInv
  <2>3. CASE ~(m < Top.i)
    <3>1. m \in Top.i .. Len(deps[File])
      BY <1>2, <2>1, <2>3
    <3>2. d \notin Intermediate
      BY <1>1, <2>1, <3>1 DEF RestIntermediate
    <3>3. QED
      BY <1>1, <1>2, <1>3, <1>4, <1>5, <3>2 DEF UpdateInv
  <2>4. QED
    BY <2>2, <2>3
<1>6. UpdateInv(fr)
  BY <1>1, <1>2, <1>3, <1>4, <1>5 DEF UpdateInv
<1>7. QED
  BY <1>1, <1>2, <1>3, <1>6 DEF CheckInv

\* When all dependencies are made no other reason to make the target turns up.
LEMMA NoOtherReason ==
  ASSUME MadeInv, DepsMade, NEW d \in Range(deps[File]) \ Intermediate, file_mtime(d) = NoTime
  PROVE  Top.must_make
<1>1. /\ pc = "walk" /\ Top.fn = "update_file" /\ Top.at = "decide" /\ ~Top.running
      /\ Top.dep_status = 0 /\ FileTypes /\ TimesInv
  BY DEF DepsMade, Walking, MadeInv, WalkInv, TypeOK
<1>2. File = Top.file /\ UpdateInv(Top) /\ deps[File] \in Seq(Files)
  BY <1>1, TopFacts
<1>3. Through(Top) = Range(deps[File])
  BY <1>1, <1>2, ThroughFacts
<1>4. d \in Files
  BY <1>2 DEF Range
<1>5. disk[d] = NoTime
  BY <1>1, <1>4, TimeIsRight
<1>6. QED
  BY <1>1, <1>2, <1>3, <1>5 DEF UpdateInv

\* All dependencies are made.
LEMMA DepsMadeCall ==
  ASSUME MadeInv, DepsMade,
         NEW fr, fr = [Top EXCEPT !.at = "remake",
                         !.must_make = @ \/ \E d \in Range(deps[File]) \ Intermediate :
                                              file_mtime(d) = NoTime]
  PROVE  UpdateInv(fr) /\ CheckInv(fr) /\ fr.fn = Top.fn /\ fr.at # "entry" /\ fr.file = File
<1>1. /\ pc = "walk" /\ Top.fn = "update_file" /\ Top.at = "decide" /\ ~Top.running
      /\ Top.dep_status = 0 /\ FileTypes /\ TimesInv
  BY DEF DepsMade, Walking, MadeInv, WalkInv, TypeOK
<1>2. /\ Top \in Frames /\ File = Top.file /\ UpdateInv(Top) /\ Top.must_make \in BOOLEAN
      /\ deps[File] \in Seq(Files)
  BY <1>1, TopFacts
<1>3. /\ fr.fn = "update_file" /\ fr.file = Top.file /\ fr.this_mtime = Top.this_mtime
      /\ fr.dep_status = Top.dep_status /\ fr.running = Top.running /\ fr.at = "remake"
  BY <1>1, <1>2 DEF Frames
<1>4. Through(fr) = Range(deps[File]) /\ Through(Top) = Range(deps[File])
  BY <1>1, <1>2, <1>3, ThroughFacts
<1>5. fr.must_make = Top.must_make
  <2>1. fr.must_make = (Top.must_make \/ \E d \in Range(deps[File]) \ Intermediate :
                                            file_mtime(d) = NoTime)
    BY <1>2 DEF Frames
  <2>2. QED
    BY <1>2, <2>1, NoOtherReason
<1>6. UpdateInv(fr)
  BY <1>1, <1>2, <1>3, <1>4, <1>5 DEF UpdateInv
<1>7. QED
  BY <1>1, <1>2, <1>3, <1>6 DEF CheckInv

\* The dependency dropped is one that the loop has not been through.
LEMMA DropCircularThrough ==
  ASSUME NoIntermediateCycle, MadeInv, [Next]_vars, DropCircular, NEW fr, fr = Top
  PROVE  /\ fr.file = File /\ File \in Files /\ fr.fn = "update_file" /\ fr.at = "deps"
         /\ Through(fr)' = Through(fr)
<1>1. /\ pc = "walk" /\ Top.at = "deps" /\ MoreDeps
      /\ deps' = [deps EXCEPT ![File] = RemoveAt(deps[File], Top.i)]
      /\ FileTypes
  BY DEF DropCircular, MadeInv, WalkInv, TypeOK
<1>2. /\ fr \in Frames /\ fr.file = File /\ File \in Files /\ fr.at = "deps"
      /\ fr.fn \in {"update_file", "check_dep"} /\ fr.i \in Nat \ {0}
      /\ CheckInv(fr) /\ deps[File] \in Seq(Files) /\ fr.i = Top.i
  BY <1>1, TopFacts
<1>3. fr.i \in 1 .. Len(deps[File]) /\ Len(deps[File]) \in Nat
  BY <1>1, <1>2 DEF MoreDeps
<1>4. deps'[fr.file] = RemoveAt(deps[fr.file], fr.i) /\ deps'[fr.file] # deps[fr.file]
  <2>1. deps'[fr.file] = RemoveAt(deps[fr.file], fr.i)
    BY <1>1, <1>2 DEF FileTypes
  <2>2. Len(RemoveAt(deps[fr.file], fr.i)) = Len(deps[fr.file]) - 1
    BY <1>2, <1>3, Removed
  <2>3. QED
    BY <1>2, <1>3, <2>1, <2>2
<1>5. fr.fn = "update_file"
  <2>1. File \notin Intermediate
    BY <1>2, <1>4, DepsStep
  <2>2. QED
    BY <1>2, <2>1 DEF CheckInv
<1>6. Len(deps'[fr.file]) = Len(deps[fr.file]) - 1
      /\ \A m \in 1 .. fr.i - 1 : deps'[fr.file][m] = deps[fr.file][m]
  BY <1>2, <1>3, <1>4, Removed
<1>7. {n \in 1 .. Len(deps'[fr.file]) : n < fr.i} = 1 .. fr.i - 1
      /\ {n \in 1 .. Len(deps[fr.file]) : n < fr.i} = 1 .. fr.i - 1
  BY <1>2, <1>3, <1>6
<1>8. {n \in 1 .. Len(deps'[fr.file]) : fr.at \in {"deps", "checked"} => n < fr.i}
        = 1 .. fr.i - 1
      /\ {n \in 1 .. Len(deps[fr.file]) : fr.at \in {"deps", "checked"} => n < fr.i}
        = 1 .. fr.i - 1
  BY <1>2, <1>7
<1>9. Through(fr)' = {deps'[fr.file][m] : m \in 1 .. fr.i - 1}
  BY <1>8 DEF Through
<1>10. Through(fr) = {deps[fr.file][m] : m \in 1 .. fr.i - 1}
  BY <1>8 DEF Through
<1>11. QED
  BY <1>2, <1>5, <1>6, <1>9, <1>10

LEMMA DropCircularCall ==
  ASSUME NoIntermediateCycle, MadeInv, [Next]_vars, DropCircular, NEW fr, fr = Top
  PROVE  UpdateInv(fr)' /\ CheckInv(fr)'
<1>1. pc = "walk" /\ UNCHANGED <<update_status, updated, children, disk>>
  BY DEF DropCircular, jobVars
<1>2. /\ fr.fn = "update_file" /\ fr.at = "deps" /\ UpdateInv(fr)
      /\ Through(fr)' = Through(fr)
  BY <1>1, TopFacts, DropCircularThrough
<1>3. \A d : (Settled(d)' <=> Settled(d)) /\ \A t : Shows(d, t)' <=> Shows(d, t)
  BY <1>1 DEF Settled, Shows
<1>4. /\ \A d \in Through(fr) \ Intermediate :
           Settled(d) /\ (fr.must_make \/ disk[d] # NoTime) <=>
             Settled(d)' /\ (fr.must_make \/ disk'[d] # NoTime)
      /\ (\E d \in Through(fr) : Shows(d, fr.this_mtime)) <=>
           \E d \in Through(fr)' : Shows(d, fr.this_mtime)'
  BY <1>1, <1>2, <1>3
<1>5. UpdateInv(fr)'
  BY <1>1, <1>2, <1>4 DEF UpdateInv
<1>6. QED
  BY <1>2, <1>5 DEF CheckInv

\* Every step keeps what is known of the calls.
LEMMA CallsStep == NoIntermediateCycle /\ MadeInv /\ [Next]_vars => CallsInv'
<1> SUFFICES ASSUME NoIntermediateCycle, MadeInv, [Next]_vars
             PROVE  CallsInv'
  OBVIOUS
<1>a. WalkTypes /\ WalkTypes' /\ FileTypes /\ (pc \in {"walk", "new_job"} => stack # <<>>)
  BY WalkTypesStep DEF MadeInv, WalkInv, TypeOK, WalkTypes
<1>1. CASE StartUpdate
  <2>1. PICK fr : fr = [Top EXCEPT !.at = "deps", !.this_mtime = file_mtime(File),
                                   !.must_make = (file_mtime(File) = NoTime)]
    OBVIOUS
  <2>2. /\ Continue(fr) /\ UNCHANGED <<update_status, updated, children, disk, deps>>
        /\ Top.fn = "update_file" /\ stack # <<>>
    BY <1>1, <1>a, <2>1 DEF StartUpdate, Walking, jobVars
  <2>3. UpdateInv(fr) /\ CheckInv(fr) /\ fr.fn = Top.fn /\ fr.at = "deps" /\ fr.file = File
    BY <1>1, <2>1, StartUpdateCall
  <2>4. UpdateInv(fr)' /\ CheckInv(fr)'
    BY <2>2, <2>3, Lifted
  <2>5. fr \in Frames /\ stack' = <<fr>> \o Tail(stack)
    BY <1>a, <2>2, ContinueFrame DEF Continue
  <2>6. QED
    BY <2>2, <2>3, <2>4, <2>5, ContinueCalls
<1>2. CASE CheckIntermediate
  <2>1. PICK fr : fr = [Top EXCEPT !.at = "deps"]
    OBVIOUS
  <2>2. /\ Continue(fr) /\ UNCHANGED <<update_status, updated, children, disk, deps>>
        /\ UNCHANGED command_state /\ stack # <<>>
    BY <1>2, <1>a, <2>1 DEF CheckIntermediate, Walking, jobVars
  <2>3. /\ UpdateInv(fr) /\ CheckInv(fr) /\ fr.fn = Top.fn /\ fr.at = "deps" /\ fr.file = File
        /\ fr.this_mtime = Top.this_mtime
    BY <1>2, <2>1, CheckIntermediateCall
  <2>4. UpdateInv(fr)' /\ CheckInv(fr)'
    BY <2>2, <2>3, Lifted
  <2>5. fr \in Frames /\ stack' = <<fr>> \o Tail(stack)
    BY <1>a, <2>2, ContinueFrame DEF Continue
  <2>6. QED
    BY <2>2, <2>3, <2>4, <2>5, ContinueCalls
<1>3. CASE DepChecked
  <2>1. PICK st : st = Or(Top.dep_status, ret.status)
    OBVIOUS
  <2>2. PICK fr : fr = CheckedFrame(st)
    OBVIOUS
  <2>3. /\ Continue(fr) /\ UNCHANGED <<update_status, updated, children, disk, deps>>
        /\ stack # <<>>
    BY <1>3, <1>a, <2>1, <2>2 DEF DepChecked, CheckedFrame, jobVars
  <2>4. /\ UpdateInv(fr)
        /\ command_state'[File] = "deps_running" \/ CheckInv(fr)
        /\ fr.fn = Top.fn /\ fr.at = "deps" /\ fr.file = File /\ fr.this_mtime = Top.this_mtime
    BY <1>3, <2>1, <2>2, DepCheckedCall
  <2>5. command_state'[File] \in {command_state[File], "deps_running"}
    <3>1. File \in Files
      BY <1>3, TopFacts DEF DepChecked
    <3>2. QED
      BY <1>3, <1>a, <3>1 DEF DepChecked, FileTypes
  <2>6. UpdateInv(fr)' /\ CheckInv(fr)'
    <3>1. CASE CheckInv(fr)
      BY <2>3, <2>4, <2>5, <3>1, Lifted
    <3>2. CASE command_state'[File] = "deps_running" /\ Top.fn = "check_dep"
      <4>1. fr.file \in Intermediate
        BY <1>3, <2>4, <3>2, TopFacts DEF DepChecked, CheckInv
      <4>2. CheckInv(fr)'
        BY <2>4, <3>2, <4>1 DEF CheckInv
      <4>3. UpdateInv(fr)'
        BY <2>4, <3>2 DEF UpdateInv
      <4>4. QED
        BY <4>2, <4>3
    <3>3. QED
      <4>1. CheckInv(fr) \/ Top.fn = "check_dep"
        BY <2>4 DEF CheckInv
      <4>2. QED
        BY <2>4, <3>1, <3>2, <4>1
  <2>7. fr \in Frames /\ stack' = <<fr>> \o Tail(stack)
    BY <1>a, <2>3, ContinueFrame DEF Continue
  <2>8. QED
    BY <2>3, <2>4, <2>6, <2>7, ContinueCalls
<1>4. CASE DepsDone
  <2>1. PICK fr : fr = [Top EXCEPT !.at = IF Top.must_make THEN "inter" ELSE "decide", !.i = 1]
    OBVIOUS
  <2>2. /\ Continue(fr) /\ UNCHANGED <<update_status, updated, children, disk, deps>>
        /\ Top.fn = "update_file" /\ stack # <<>>
    BY <1>4, <1>a, <2>1 DEF DepsDone, Walking, jobVars, fileVars
  <2>3. UpdateInv(fr) /\ CheckInv(fr) /\ fr.fn = Top.fn /\ fr.at # "entry"
    BY <1>4, <2>1, DepsDoneCall
  <2>4. UpdateInv(fr)' /\ CheckInv(fr)'
    BY <2>2, <2>3, Lifted
  <2>5. fr \in Frames /\ stack' = <<fr>> \o Tail(stack)
    BY <1>a, <2>2, ContinueFrame DEF Continue
  <2>6. QED
    BY <2>2, <2>3, <2>4, <2>5, ContinueCalls
<1>5. CASE IntermediateUpdated
  <2>1. PICK st : st = Or(Top.dep_status, ret.status)
    OBVIOUS
  <2>2. PICK fr : fr = [Top EXCEPT !.at = IF GivesUp(st) THEN "decide" ELSE "inter",
                          !.dep_status = st, !.i = @ + 1,
                          !.running = @ \/ BeingMade(Dep)]
    OBVIOUS
  <2>3. /\ Continue(fr) /\ UNCHANGED <<update_status, updated, children, disk, deps>>
        /\ Top.fn = "update_file" /\ stack # <<>>
    BY <1>5, <1>a, <2>1, <2>2 DEF IntermediateUpdated, Walking, jobVars
  <2>4. UpdateInv(fr) /\ CheckInv(fr) /\ fr.fn = Top.fn /\ fr.at # "entry"
    BY <1>5, <2>1, <2>2, IntermediateUpdatedCall
  <2>5. UpdateInv(fr)' /\ CheckInv(fr)'
    BY <2>3, <2>4, Lifted
  <2>6. fr \in Frames /\ stack' = <<fr>> \o Tail(stack)
    BY <1>a, <2>3, ContinueFrame DEF Continue
  <2>7. QED
    BY <2>3, <2>4, <2>5, <2>6, ContinueCalls
<1>6. CASE IntermediatesDone
  <2>1. PICK fr : fr = [Top EXCEPT !.at = "decide"]
    OBVIOUS
  <2>2. /\ Continue(fr) /\ UNCHANGED <<update_status, updated, children, disk, deps>>
        /\ Top.fn = "update_file" /\ stack # <<>>
    BY <1>6, <1>a, <2>1 DEF IntermediatesDone, Walking, jobVars, fileVars
  <2>3. UpdateInv(fr) /\ CheckInv(fr) /\ fr.fn = Top.fn /\ fr.at # "entry"
    BY <1>6, <2>1, IntermediatesDoneCall
  <2>4. UpdateInv(fr)' /\ CheckInv(fr)'
    BY <2>2, <2>3, Lifted
  <2>5. fr \in Frames /\ stack' = <<fr>> \o Tail(stack)
    BY <1>a, <2>2, ContinueFrame DEF Continue
  <2>6. QED
    BY <2>2, <2>3, <2>4, <2>5, ContinueCalls
<1>7. CASE DepsMade
  <2>1. PICK fr : fr = [Top EXCEPT !.at = "remake",
                          !.must_make = @ \/ \E d \in Range(deps[File]) \ Intermediate :
                                               file_mtime(d) = NoTime]
    OBVIOUS
  <2>2. /\ Continue(fr) /\ UNCHANGED <<update_status, updated, children, disk, deps>>
        /\ Top.fn = "update_file" /\ stack # <<>>
    BY <1>7, <1>a, <2>1 DEF DepsMade, Walking, jobVars
  <2>3. UpdateInv(fr) /\ CheckInv(fr) /\ fr.fn = Top.fn /\ fr.at # "entry"
    BY <1>7, <2>1, DepsMadeCall
  <2>4. UpdateInv(fr)' /\ CheckInv(fr)'
    BY <2>2, <2>3, Lifted
  <2>5. fr \in Frames /\ stack' = <<fr>> \o Tail(stack)
    BY <1>a, <2>2, ContinueFrame DEF Continue
  <2>6. QED
    BY <2>2, <2>3, <2>4, <2>5, ContinueCalls
<1>8. CASE RemakeFile
  <2>1. PICK fr : fr = [Top EXCEPT !.at = "job"]
    OBVIOUS
  <2>2. /\ stack' = <<fr>> \o Tail(stack) /\ Top.fn = "update_file" /\ pc = "walk"
        /\ stack # <<>>
    BY <1>8, <1>a, <2>1 DEF RemakeFile, MustRun, Remaking, Walking
  <2>3. Top \in Frames
    BY <2>2, TopFacts
  <2>4. /\ fr \in Frames /\ fr.fn = "update_file" /\ fr.at = "job" /\ fr.file = File
        /\ fr.fn = Top.fn
    BY <2>1, <2>2, <2>3 DEF Frames, File
  <2>5. File \in updated' \cup children'
    BY <1>8 DEF RemakeFile, notice_finished_file
  <2>6. UpdateInv(fr)' /\ CheckInv(fr)'
    BY <2>4, <2>5 DEF UpdateInv, CheckInv
  <2>7. QED
    BY <2>2, <2>4, <2>6, ContinueCalls
<1>9. CASE CheckDep
  <2>1. PICK fr : fr = [Top EXCEPT !.at = "checked"]
    OBVIOUS
  <2>2. PICK callee : callee = NewFrame("check_dep", Dep, Top.this_mtime)
    OBVIOUS
  <2>3. /\ Call(fr, callee) /\ UNCHANGED <<update_status, updated, children, disk, deps>>
        /\ UNCHANGED command_state /\ stack # <<>> /\ pc = "walk" /\ Top.at = "deps" /\ MoreDeps
    BY <1>9, <1>a, <2>1, <2>2 DEF CheckDep, jobVars
  <2>4. /\ UpdateInv(fr) /\ CheckInv(fr) /\ fr.fn = Top.fn /\ fr.at = "checked" /\ fr.file = File
        /\ fr.this_mtime = Top.this_mtime
    BY <1>9, <2>1, CheckDepCall
  <2>5. UpdateInv(fr)' /\ CheckInv(fr)'
    BY <2>3, <2>4, Lifted
  <2>6. Top \in Frames /\ Dep \in Files /\ Top.this_mtime \in Times
    BY <2>3, TopFacts, ThroughFacts
  <2>7. fr \in Frames /\ callee \in Frames
    BY <2>1, <2>2, <2>6, NewFrameType DEF Frames
  <2>8. /\ callee.at = "entry" /\ callee.i = 1 /\ ~callee.must_make
        /\ callee.this_mtime = Top.this_mtime
    BY <2>2 DEF NewFrame
  <2>9. QED
    BY <2>3, <2>4, <2>5, <2>7, <2>8, CallCalls
<1>10. CASE UpdateIntermediate
  <2>1. PICK fr : fr = [Top EXCEPT !.at = "inter_done", !.i = Min(RestIntermediate)]
    OBVIOUS
  <2>2. PICK callee : callee = NewFrame("update_file", deps[File][Min(RestIntermediate)], NoTime)
    OBVIOUS
  <2>3. /\ Call(fr, callee) /\ UNCHANGED <<update_status, updated, children, disk, deps>>
        /\ stack # <<>> /\ pc = "walk" /\ Top.fn = "update_file"
    BY <1>10, <1>a, <2>1, <2>2 DEF UpdateIntermediate, Walking, jobVars
  <2>4. /\ UpdateInv(fr) /\ CheckInv(fr) /\ fr.fn = Top.fn /\ fr.at = "inter_done"
        /\ Min(RestIntermediate) \in 1 .. Len(deps[File])
    BY <1>10, <2>1, UpdateIntermediateCall
  <2>5. UpdateInv(fr)' /\ CheckInv(fr)'
    BY <2>3, <2>4, Lifted
  <2>6. Top \in Frames /\ deps[File] \in Seq(Files)
    BY <2>3, TopFacts
  <2>7. fr \in Frames /\ callee \in Frames
    <3>1. deps[File][Min(RestIntermediate)] \in Files
      BY <2>4, <2>6
    <3>2. NoTime \in Times
      BY DEF Times
    <3>3. callee \in Frames
      BY <2>2, <3>1, <3>2, NewFrameType
    <3>4. Min(RestIntermediate) \in Nat \ {0}
      BY <2>4, <2>6
    <3>5. fr \in Frames
      <4> DEFINE n == Min(RestIntermediate)
      <4> HIDE DEF n
      <4>1. n \in Nat \ {0} /\ fr = [Top EXCEPT !.at = "inter_done", !.i = n]
        BY <2>1, <3>4 DEF n
      <4>2. QED
        BY <2>6, <4>1 DEF Frames
    <3>6. QED
      BY <3>3, <3>5
  <2>8. callee.at = "entry" /\ callee.i = 1 /\ ~callee.must_make
    BY <2>2 DEF NewFrame
  <2>9. QED
    BY <2>3, <2>4, <2>5, <2>7, <2>8, CallCalls
<1>11. CASE CheckFile
  <2>1. PICK fr : fr = [Top EXCEPT !.at = "file"]
    OBVIOUS
  <2>2. PICK callee : callee = NewFrame("update_file", File, NoTime)
    OBVIOUS
  <2>3. /\ Call(fr, callee) /\ stack # <<>> /\ pc = "walk" /\ Top.fn = "check_dep"
        /\ File \notin Intermediate
    BY <1>11, <1>a, <2>1, <2>2 DEF CheckFile, Walking
  <2>4. Top \in Frames /\ File \in Files /\ File = Top.file
    BY <2>3, TopFacts
  <2>5. /\ fr.fn = "check_dep" /\ fr.at = "file" /\ fr.file = File
        /\ fr.this_mtime = Top.this_mtime /\ fr \in Frames
    BY <2>1, <2>3, <2>4 DEF Frames
  <2>6. UpdateInv(fr)' /\ CheckInv(fr)'
    BY <2>3, <2>5 DEF UpdateInv, CheckInv
  <2>7. callee \in Frames
    BY <2>2, <2>4, NewFrameType DEF Times
  <2>8. callee.at = "entry" /\ callee.i = 1 /\ ~callee.must_make
    BY <2>2 DEF NewFrame
  <2>9. QED
    BY <2>3, <2>5, <2>6, <2>7, <2>8, CallCalls
<1>12. CASE DropCircular
  <2>1. PICK fr : fr = Top
    OBVIOUS
  <2>2. UpdateInv(fr)' /\ CheckInv(fr)'
    BY <1>12, <2>1, DropCircularCall
  <2>3. UNCHANGED stack
    BY <1>12 DEF DropCircular
  <2>4. Top' = fr
    BY <2>1, <2>3 DEF Top
  <2>5. UpdateInv(Top)' /\ CheckInv(Top)'
    BY <2>2, <2>4
  <2>6. QED
    BY <2>3, <2>5, SameCalls
<1>13. ASSUME stack # <<>>, \E st \in Statuses, mm \in BOOLEAN : Return(st, mm)
       PROVE  CallsInv'
  BY <1>13, ReturnCalls
<1>14. CASE AlreadyUpdated \/ NewJobReturns \/ WaitForDeps \/ GiveUpOnTarget
            \/ NoNeedToRemake \/ PretendRemade
  <2>1. pc \in {"walk", "new_job"}
    BY <1>14 DEF AlreadyUpdated, NewJobReturns, WaitForDeps, GiveUpOnTarget, NoNeedToRemake,
      PretendRemade, Remaking, Walking
  <2>2. stack # <<>>
    BY <1>a, <2>1
  <2>3. Top.dep_status \in Statuses
    BY <2>1, TopFacts
  <2>4. UpdateResult(File) \in Statuses
    <3>1. File \in Files
      BY <2>1, TopFacts
    <3>2. \A f \in updated : update_status[f] \in Statuses
      BY DEF MadeInv, WalkInv, PlacesInv
    <3>3. QED
      BY <3>1, <3>2 DEF UpdateResult, Statuses
  <2>5. 0 \in Statuses /\ FALSE \in BOOLEAN
    BY DEF Statuses
  <2>6. Return(UpdateResult(File), FALSE) \/ Return(Top.dep_status, FALSE) \/ Return(0, FALSE)
    BY <1>14 DEF AlreadyUpdated, NewJobReturns, WaitForDeps, GiveUpOnTarget, NoNeedToRemake,
      PretendRemade
  <2>7. QED
    BY <1>13, <2>2, <2>3, <2>4, <2>5, <2>6
<1>15. CASE FileChecked \/ IntermediateIsNewer \/ IntermediateChecked
  <2>1. pc = "walk"
    BY <1>15 DEF FileChecked, IntermediateIsNewer, IntermediateChecked, Walking
  <2>2. stack # <<>>
    BY <1>a, <2>1
  <2>3. Top.dep_status \in Statuses /\ Top.must_make \in BOOLEAN
    BY <2>1, TopFacts
  <2>4. ret.status \in Statuses /\ 0 \in Statuses
    BY <1>a DEF WalkTypes, Statuses
  <2>5. \/ Return(Top.dep_status, Top.must_make) \/ Return(0, TRUE)
        \/ Return(ret.status, file_mtime(File) = NoTime \/ Newer(file_mtime(File)))
    BY <1>15 DEF FileChecked, IntermediateIsNewer, IntermediateChecked
  <2>6. (file_mtime(File) = NoTime \/ Newer(file_mtime(File))) \in BOOLEAN
    BY DEF Newer
  <2>7. QED
    BY <1>13, <2>2, <2>3, <2>4, <2>5, <2>6
<1>16. CASE NoRule
  <2>1. pc = "walk" /\ stack # <<>>
    BY <1>16, <1>a DEF NoRule, Remaking, Walking
  <2>2. CASE Return(2, FALSE)
    <3>1. 2 \in Statuses /\ FALSE \in BOOLEAN
      BY DEF Statuses
    <3>2. QED
      BY <1>13, <2>1, <2>2, <3>1
  <2>3. CASE UNCHANGED <<stack, command_state, update_status, updated>>
    <3>1. PICK fr : fr = Top
      OBVIOUS
    <3>2. UpdateInv(fr) /\ CheckInv(fr)
      BY <2>1, <3>1, TopFacts
    <3>3. UpdateInv(fr)' /\ CheckInv(fr)'
      BY <1>16, <2>3, <3>2, Lifted DEF NoRule, jobVars
    <3>4. Top' = fr
      BY <2>3, <3>1 DEF Top
    <3>5. UpdateInv(Top)' /\ CheckInv(Top)'
      BY <3>3, <3>4
    <3>6. QED
      BY <2>3, <3>5, SameCalls
  <2>4. QED
    BY <1>16, <2>2, <2>3 DEF NoRule
<1>17. CASE UNCHANGED stack /\ pc # "walk"
  <2>1. ASSUME stack # <<>>
        PROVE  UpdateInv(Top)' /\ CheckInv(Top)'
    <3>1. PICK fr : fr = Top
      OBVIOUS
    <3>2. fr \in Frames /\ fr = stack[1] /\ 1 \in 1 .. Len(stack) /\ fr \in Range(stack)
      <4>1. fr \in Frames /\ fr = stack[1] /\ 1 \in 1 .. Len(stack)
        BY <1>a, <2>1, <3>1, TopFrame
      <4>2. QED
        BY <1>a, <4>1 DEF WalkTypes, Range
    <3>3. UpdateInv(fr) /\ CheckInv(fr) /\ Placed(fr)
      BY <3>2 DEF MadeInv, WalkInv, StackInv, NestInv, CallsInv
    <3>4. UpdateInv(fr)' /\ CheckInv(fr)'
      BY <1>17, <3>2, <3>3, CallKept
    <3>5. Top' = fr
      BY <1>17, <3>1 DEF Top
    <3>6. QED
      BY <3>4, <3>5
  <2>2. QED
    BY <1>17, <2>1, SameCalls
<1>18. CASE ConsiderGoal
  <2>1. PICK callee : callee = NewFrame("update_file", goals[g], NoTime)
    OBVIOUS
  <2>2. stack' = <<callee>> /\ callee.at = "entry" /\ callee.i = 1 /\ ~callee.must_make
    BY <1>18, <2>1 DEF ConsiderGoal, NewFrame
  <2>3. Len(stack') = 1 /\ Range(stack') = {callee}
    BY <2>2 DEF Range
  <2>4. UpdateInv(callee)' /\ CheckInv(callee)'
    BY <2>2 DEF UpdateInv, CheckInv
  <2>5. QED
    BY <2>2, <2>3, <2>4 DEF CallsInv
<1>19. CASE StartRound \/ GoalConsidered \/ EndRound \/ Finish \/ Exited \/ Commands
  BY <1>17, <1>19 DEF StartRound, GoalConsidered, TakeGoal, EndRound, Finish, Exited, vars,
    Over, Commands, NextLine, JobSucceeds, JobFails, NextLineFails, Reaping
<1>20. CASE UNCHANGED vars
  <2>1. UNCHANGED <<update_status, updated, children, disk, deps, command_state, stack>>
    BY <1>20 DEF vars, fileVars, jobVars
  <2>2. ASSUME stack # <<>>
        PROVE  UpdateInv(Top)' /\ CheckInv(Top)'
    <3>1. PICK fr : fr = Top
      OBVIOUS
    <3>2. fr \in Range(stack)
      BY <1>a, <2>2, <3>1, TopFrame DEF WalkTypes, Range
    <3>3. UpdateInv(fr) /\ CheckInv(fr)
      BY <3>2 DEF MadeInv, CallsInv
    <3>4. UpdateInv(fr)' /\ CheckInv(fr)'
      BY <2>1, <3>3, Lifted
    <3>5. Top' = fr
      BY <2>1, <3>1 DEF Top
    <3>6. QED
      BY <3>4, <3>5
  <2>3. QED
    BY <2>1, <2>2, SameCalls
<1>21. QED
  BY <1>1, <1>2, <1>3, <1>4, <1>5, <1>6, <1>7, <1>8, <1>9, <1>10, <1>11, <1>12, <1>14, <1>15,
    <1>16, <1>18, <1>19, <1>20 DEF Next, UpdateFile, CheckDeps, Rounds

-----------------------------------------------------------------------------
(* Results.                                                                *)

\* Who a call returns to.
LEMMA ReturnedTo ==
  ASSUME MadeInv, stack # <<>>, NEW st \in Statuses, NEW mm \in BOOLEAN, Return(st, mm),
         UNCHANGED deps, pc' = "walk", NEW f, f = File, NEW t, t = Top.this_mtime
  PROVE  /\ ret'.status = st /\ ret'.must_make = mm
         /\ Top'.at = "file" => Top.fn = "update_file" /\ File' = f
         /\ Top'.at = "inter_done" => Top.fn = "update_file" /\ Dep' = f
         /\ Top'.at = "checked" => Top.fn = "check_dep" /\ Dep' = f /\ Top'.this_mtime = t
<1>a. WalkTypes /\ NestInv /\ CallsInv
  BY DEF MadeInv, WalkInv, TypeOK, StackInv
<1>1. /\ Len(stack) \in Nat \ {0} /\ Top = stack[1]
      /\ pc' = (IF Len(stack) = 1 THEN "considered" ELSE "walk")
      /\ Len(stack) > 1 => Top' = stack[2]
  BY <1>a, ReturnShape
<1>2. 2 \in 2 .. Len(stack) /\ Top' = stack[2]
  BY <1>1
<1>3. Called(2)
  BY <1>a, <1>2 DEF NestInv
<1>4. ret'.status = st /\ ret'.must_make = mm
  BY DEF Return
<1>5. stack[2 - 1] = Top
  BY <1>1
<1>6. File' = stack[2].file /\ Dep' = deps[stack[2].file][stack[2].i]
  BY <1>2 DEF File, Dep
<1>7. stack[2].at = "checked" => Top.this_mtime = stack[2].this_mtime
  BY <1>a, <1>2, <1>5 DEF CallsInv
<1>8. QED
  BY <1>2, <1>3, <1>4, <1>5, <1>6, <1>7 DEF Called, File

\* update_file returns 0 for a file that is settled or being made.
LEMMA UpdateReturns ==
  ASSUME MadeInv, stack # <<>>, NEW st \in Statuses, NEW mm \in BOOLEAN, Return(st, mm),
         UNCHANGED deps, Top.fn = "update_file", NEW f, f = File,
         st = 0 => BeingMade(f)' \/ Settled(f)'
  PROVE  RetInv'
<1> SUFFICES ASSUME pc' = "walk"
             PROVE  RetInv'
  BY DEF RetInv
<1>1. PICK t : t = Top.this_mtime
  OBVIOUS
<1>2. /\ ret'.status = st
      /\ Top'.at = "file" => File' = f
      /\ Top'.at = "inter_done" => Dep' = f
      /\ Top'.at # "checked"
  BY <1>1, ReturnedTo
<1>3. CASE Top'.at = "file"
  <2>1. ret'.status = 0 => BeingMade(File)' \/ Settled(File)'
    BY <1>2, <1>3 DEF BeingMade, Settled
  <2>2. QED
    BY <1>2, <1>3, <2>1 DEF RetInv
<1>4. CASE Top'.at = "inter_done"
  <2>1. ret'.status = 0 => BeingMade(Dep)' \/ Settled(Dep)'
    BY <1>2, <1>4 DEF BeingMade, Settled
  <2>2. QED
    BY <1>2, <1>4, <2>1 DEF RetInv
<1>5. QED
  BY <1>2, <1>3, <1>4 DEF RetInv

\* What check_dep returns is true of the dependency, unless it is being made.
LEMMA CheckReturns ==
  ASSUME MadeInv, stack # <<>>, NEW st \in Statuses, NEW mm \in BOOLEAN, Return(st, mm),
         UNCHANGED deps, Top.fn = "check_dep", NEW f, f = File, NEW t, t = Top.this_mtime,
         st = 0 => \/ BeingMade(f)'
                   \/ /\ f \notin Intermediate => Settled(f)' /\ (mm \/ disk'[f] # NoTime)
                      /\ mm => Shows(f, t)'
  PROVE  RetInv'
<1> SUFFICES ASSUME pc' = "walk"
             PROVE  RetInv'
  BY DEF RetInv
<1>1. /\ ret'.status = st /\ ret'.must_make = mm
      /\ Top'.at \notin {"file", "inter_done"}
      /\ Top'.at = "checked" => Dep' = f /\ Top'.this_mtime = t
  BY ReturnedTo
<1>2. ASSUME Top'.at = "checked", ret'.status = 0, ~BeingMade(Dep)'
      PROVE  /\ Dep' \notin Intermediate =>
                  Settled(Dep)' /\ (ret'.must_make \/ disk'[Dep'] # NoTime)
             /\ ret'.must_make => Shows(Dep, Top.this_mtime)'
  <2>1. ~BeingMade(f)'
    BY <1>1, <1>2 DEF BeingMade
  <2>2. f \notin Intermediate => Settled(Dep)' /\ (mm \/ disk'[f] # NoTime)
    BY <1>1, <1>2, <2>1 DEF Settled
  <2>3. mm => Shows(Dep, Top.this_mtime)'
    BY <1>1, <1>2, <2>1 DEF Shows
  <2>4. QED
    BY <1>1, <1>2, <2>2, <2>3
<1>3. QED
  BY <1>1, <1>2 DEF RetInv

\* What update_file says of a file that has been considered.
LEMMA ResultIsTrue ==
  ASSUME MadeInv, NEW f \in Files, f \in updated \/ command_state[f] = "running",
         UpdateResult(f) = 0
  PROVE  BeingMade(f) \/ Settled(f)
<1>1. TargetsInv
  BY DEF MadeInv
<1>2. f \in updated => command_state[f] \in {"finished", "deps_running"}
  BY <1>1 DEF TargetsInv
<1>3. QED
  BY <1>2 DEF UpdateResult, BeingMade, Settled

\* The steps that do not return from a call.
Unreturned ==
  \/ StartUpdate \/ DepChecked \/ DepsDone \/ IntermediateUpdated \/ IntermediatesDone
  \/ DepsMade \/ CheckIntermediate \/ CheckDep \/ UpdateIntermediate \/ CheckFile
  \/ DropCircular \/ ConsiderGoal \/ RemakeFile
  \/ StartRound \/ GoalConsidered \/ EndRound \/ Finish \/ Exited \/ Commands

\* No result is looked at after them.
LEMMA UnreturnedFacts ==
  ASSUME MadeInv, [Next]_vars, Unreturned
  PROVE  pc' = "walk" => Top'.at \notin {"file", "inter_done", "checked"}
<1>a. WalkTypes /\ WalkTypes'
  BY WalkTypesStep DEF MadeInv, WalkInv, TypeOK
<1>1. CASE StartUpdate \/ DepChecked \/ DepsDone \/ IntermediateUpdated \/ IntermediatesDone
            \/ DepsMade \/ CheckIntermediate
  <2>1. pc \in {"walk", "new_job"}
    BY <1>1 DEF StartUpdate, DepChecked, DepsDone, IntermediateUpdated, IntermediatesDone,
      DepsMade, CheckIntermediate, Walking
  <2>2. Top \in Frames /\ stack # <<>>
    BY <2>1, TopFacts
  <2>3. PICK fr : Continue(fr) /\ fr.at \notin {"file", "inter_done", "checked"}
    <3>1. CASE StartUpdate
      <4>1. PICK fr : fr = [Top EXCEPT !.at = "deps", !.this_mtime = file_mtime(File),
                                     !.must_make = (file_mtime(File) = NoTime)]
        OBVIOUS
      <4>2. Continue(fr)
        BY <3>1, <4>1 DEF StartUpdate
      <4>3. fr.at \notin {"file", "inter_done", "checked"}
        BY <2>2, <4>1 DEF Frames
      <4>4. QED
        BY <4>2, <4>3
    <3>2. CASE CheckIntermediate
      <4>1. PICK fr : fr = [Top EXCEPT !.at = "deps"]
        OBVIOUS
      <4>2. Continue(fr)
        BY <3>2, <4>1 DEF CheckIntermediate
      <4>3. fr.at \notin {"file", "inter_done", "checked"}
        BY <2>2, <4>1 DEF Frames
      <4>4. QED
        BY <4>2, <4>3
    <3>3. CASE DepChecked
      <4>1. PICK fr : fr = CheckedFrame(Or(Top.dep_status, ret.status))
        OBVIOUS
      <4>2. Continue(fr)
        BY <3>3, <4>1 DEF DepChecked, CheckedFrame
      <4>3. fr.at \notin {"file", "inter_done", "checked"}
        BY <2>2, <4>1 DEF Frames, CheckedFrame
      <4>4. QED
        BY <4>2, <4>3
    <3>4. CASE DepsDone
      <4>1. PICK fr : fr = [Top EXCEPT !.at = IF Top.must_make THEN "inter" ELSE "decide", !.i = 1]
        OBVIOUS
      <4>2. Continue(fr)
        BY <3>4, <4>1 DEF DepsDone
      <4>3. fr.at \notin {"file", "inter_done", "checked"}
        BY <2>2, <4>1 DEF Frames
      <4>4. QED
        BY <4>2, <4>3
    <3>5. CASE IntermediateUpdated
      <4>1. PICK fr : fr = [Top EXCEPT
                          !.at = IF GivesUp(Or(Top.dep_status, ret.status)) THEN "decide" ELSE "inter",
                          !.dep_status = Or(Top.dep_status, ret.status), !.i = @ + 1,
                          !.running = @ \/ BeingMade(Dep)]
        OBVIOUS
      <4>2. Continue(fr)
        BY <3>5, <4>1 DEF IntermediateUpdated
      <4>3. fr.at \notin {"file", "inter_done", "checked"}
        BY <2>2, <4>1 DEF Frames
      <4>4. QED
        BY <4>2, <4>3
    <3>6. CASE IntermediatesDone
      <4>1. PICK fr : fr = [Top EXCEPT !.at = "decide"]
        OBVIOUS
      <4>2. Continue(fr)
        BY <3>6, <4>1 DEF IntermediatesDone
      <4>3. fr.at \notin {"file", "inter_done", "checked"}
        BY <2>2, <4>1 DEF Frames
      <4>4. QED
        BY <4>2, <4>3
    <3>7. CASE DepsMade
      <4>1. PICK fr : fr = [Top EXCEPT !.at = "remake",
                          !.must_make = @ \/ \E d \in Range(deps[File]) \ Intermediate :
                                               file_mtime(d) = NoTime]
        OBVIOUS
      <4>2. Continue(fr)
        BY <3>7, <4>1 DEF DepsMade
      <4>3. fr.at \notin {"file", "inter_done", "checked"}
        BY <2>2, <4>1 DEF Frames
      <4>4. QED
        BY <4>2, <4>3
    <3>8. QED
      BY <1>1, <3>1, <3>2, <3>3, <3>4, <3>5, <3>6, <3>7
  <2>4. fr \in Frames /\ stack' = <<fr>> \o Tail(stack)
    BY <1>a, <2>2, <2>3, ContinueFrame DEF Continue
  <2>5. Top' = fr
    BY <1>a, <2>2, <2>4, ContinueShape
  <2>6. QED
    BY <2>3, <2>5
<1>2. CASE CheckDep \/ UpdateIntermediate \/ CheckFile
  <2>1. pc = "walk"
    BY <1>2 DEF CheckDep, UpdateIntermediate, CheckFile, Walking
  <2>2. PICK fr, callee : Call(fr, callee) /\ callee.at = "entry"
    BY <1>2 DEF CheckDep, UpdateIntermediate, CheckFile, NewFrame
  <2>3. Top' = callee
    BY <2>2 DEF Call, Top
  <2>4. QED
    BY <2>2, <2>3
<1>3. CASE DropCircular
  <2>1. Top.at = "deps" /\ UNCHANGED stack
    BY <1>3 DEF DropCircular
  <2>2. Top' = Top
    BY <2>1 DEF Top
  <2>3. QED
    BY <2>1, <2>2
<1>4. CASE ConsiderGoal
  <2>1. stack' = <<NewFrame("update_file", goals[g], NoTime)>>
    BY <1>4 DEF ConsiderGoal
  <2>2. Top' = NewFrame("update_file", goals[g], NoTime)
    BY <2>1 DEF Top
  <2>3. QED
    BY <2>2 DEF NewFrame
<1>5. CASE RemakeFile \/ StartRound \/ GoalConsidered \/ EndRound \/ Finish \/ Exited \/ Commands
  <2>1. pc' # "walk"
    BY <1>5 DEF RemakeFile, StartRound, GoalConsidered, EndRound, Finish, Exited, Over, vars,
      Commands, NextLine, JobSucceeds, JobFails, NextLineFails, Reaping
  <2>2. QED
    BY <2>1
<1>6. QED
  BY <1>1, <1>2, <1>3, <1>4, <1>5 DEF Unreturned

\* Every step keeps what the last result says.
LEMMA RetStep == NoIntermediateCycle /\ MadeInv /\ [Next]_vars => RetInv'
<1> SUFFICES ASSUME NoIntermediateCycle, MadeInv, [Next]_vars
             PROVE  RetInv'
  OBVIOUS
<1>a. /\ WalkTypes /\ WalkTypes' /\ FileTypes /\ (pc \in {"walk", "new_job"} => stack # <<>>)
      /\ TargetsInv /\ TimesInv
  BY WalkTypesStep DEF MadeInv, WalkInv, TypeOK, WalkTypes
<1>b. /\ command_state \in [Files -> States] /\ update_status \in [Files -> -1 .. 3]
  BY <1>a DEF FileTypes
<1>c. PICK f : f = File
  OBVIOUS
<1>d. PICK t : t = Top.this_mtime
  OBVIOUS
<1>e. 0 \in Statuses /\ 2 \in Statuses /\ TRUE \in BOOLEAN /\ FALSE \in BOOLEAN
  BY DEF Statuses
<1>1. CASE AlreadyUpdated
  <2>1. /\ pc = "walk" /\ Top.fn = "update_file" /\ Considered(f) /\ Return(UpdateResult(f), FALSE)
        /\ UNCHANGED <<deps, updated, update_status, command_state>>
    BY <1>1, <1>c DEF AlreadyUpdated, Walking, fileVars
  <2>2. f \in Files /\ stack # <<>>
    BY <1>a, <1>c, <2>1, TopFacts
  <2>3. UpdateResult(f) \in Statuses
    BY <1>e, <2>2 DEF MadeInv, WalkInv, PlacesInv, UpdateResult
  <2>4. UpdateResult(f) = 0 => BeingMade(f)' \/ Settled(f)'
    <3>1. UpdateResult(f) = 0 => BeingMade(f) \/ Settled(f)
      BY <2>1, <2>2, ResultIsTrue DEF Considered
    <3>2. QED
      BY <2>1, <3>1 DEF BeingMade, Settled
  <2>5. QED
    BY <1>c, <1>e, <2>1, <2>2, <2>3, <2>4, UpdateReturns
<1>2. CASE NewJobReturns
  <2>1. /\ pc = "new_job" /\ Return(UpdateResult(f), FALSE)
        /\ UNCHANGED <<deps, updated, update_status, command_state>>
    BY <1>2, <1>c DEF NewJobReturns, fileVars
  <2>2. f \in Files /\ stack # <<>> /\ Top.fn = "update_file" /\ Top.at = "job"
    BY <1>a, <1>c, <2>1, TopFacts DEF MadeInv, WalkInv, StackInv, TopInv
  <2>3. f \in updated \/ command_state[f] = "running"
    <3>1. f \in updated \cup children
      BY <1>c, <2>1, <2>2, TopFacts DEF UpdateInv
    <3>2. QED
      BY <1>a, <3>1 DEF TargetsInv, StillRunning
  <2>4. UpdateResult(f) \in Statuses
    BY <1>e, <2>2 DEF MadeInv, WalkInv, PlacesInv, UpdateResult
  <2>5. UpdateResult(f) = 0 => BeingMade(f)' \/ Settled(f)'
    <3>1. UpdateResult(f) = 0 => BeingMade(f) \/ Settled(f)
      BY <2>2, <2>3, ResultIsTrue
    <3>2. QED
      BY <2>1, <3>1 DEF BeingMade, Settled
  <2>6. QED
    BY <1>c, <1>e, <2>1, <2>2, <2>4, <2>5, UpdateReturns
<1>3. CASE WaitForDeps
  <2>1. /\ pc = "walk" /\ Top.fn = "update_file" /\ Return(0, FALSE) /\ UNCHANGED deps
        /\ command_state' = [command_state EXCEPT ![f] = "deps_running"]
    BY <1>3, <1>c DEF WaitForDeps, Walking
  <2>2. f \in Files /\ stack # <<>>
    BY <1>a, <1>c, <2>1, TopFacts
  <2>3. BeingMade(f)'
    BY <1>b, <2>1, <2>2 DEF BeingMade
  <2>4. QED
    BY <1>c, <1>e, <2>1, <2>2, <2>3, UpdateReturns
<1>4. CASE GiveUpOnTarget
  <2>1. /\ pc = "walk" /\ Top.fn = "update_file" /\ Return(Top.dep_status, FALSE)
        /\ UNCHANGED deps /\ Top.dep_status # 0
    BY <1>4, <1>c DEF GiveUpOnTarget, Walking
  <2>2. Top.dep_status \in Statuses /\ stack # <<>>
    BY <1>a, <2>1, TopFacts
  <2>3. QED
    BY <1>c, <1>e, <2>1, <2>2, UpdateReturns
<1>5. CASE NoNeedToRemake \/ PretendRemade
  <2>1. /\ pc = "walk" /\ Top.fn = "update_file" /\ Top.at = "remake" /\ Return(0, FALSE)
        /\ UNCHANGED deps
        /\ notice_finished_file(f, update_status[f]) \/ notice_finished_file(f, 0)
    BY <1>5, <1>c DEF NoNeedToRemake, PretendRemade, Remaking, Walking
  <2>2. f \in Files /\ stack # <<>> /\ f \notin updated
    BY <1>a, <1>c, <2>1, TopFacts DEF UpdateInv
  <2>3. update_status[f] = -1
    BY <1>a, <2>2 DEF TargetsInv
  <2>4. Settled(f)'
    BY <1>b, <2>1, <2>2, <2>3 DEF notice_finished_file, Settled
  <2>5. QED
    BY <1>c, <1>e, <2>1, <2>2, <2>4, UpdateReturns
<1>6. CASE NoRule
  <2>1. pc = "walk" /\ Top.fn = "update_file" /\ UNCHANGED deps
    BY <1>6 DEF NoRule, Remaking, Walking
  <2>2. CASE Return(2, FALSE)
    <3>1. stack # <<>>
      BY <1>a, <2>1
    <3>2. PICK st \in Statuses : st = 2 /\ st # 0
      BY <1>e
    <3>3. QED
      BY <1>c, <1>e, <2>1, <2>2, <3>1, <3>2, UpdateReturns
  <2>3. CASE pc' = "died"
    BY <2>3 DEF RetInv
  <2>4. QED
    BY <1>6, <2>2, <2>3 DEF NoRule
<1>7. CASE FileChecked
  <2>1. /\ pc = "walk" /\ Top.fn = "check_dep" /\ Top.at = "file"
        /\ Return(ret.status, file_mtime(f) = NoTime \/ Newer(file_mtime(f)))
        /\ UNCHANGED <<deps, updated, update_status, command_state, disk>>
    BY <1>7, <1>c DEF FileChecked, Walking, jobVars
  <2>2. f \in Files /\ stack # <<>> /\ f \notin Intermediate /\ ret.status \in Statuses
    BY <1>a, <1>c, <2>1, TopFacts DEF CheckInv, WalkTypes
  <2>3. file_mtime(f) = disk[f]
    BY <1>a, <2>2, TimeIsRight
  <2>4. PICK mm : mm = (file_mtime(f) = NoTime \/ Newer(file_mtime(f)))
    OBVIOUS
  <2>5. mm \in BOOLEAN /\ (mm <=> disk[f] = NoTime \/ disk[f] > t)
    BY <1>d, <2>3, <2>4 DEF Newer
  <2>6. ret.status = 0 /\ ~BeingMade(f) => Settled(f)
    BY <1>c, <2>1 DEF MadeInv, RetInv
  <2>7. ASSUME ret.status = 0, ~BeingMade(f)'
        PROVE  /\ Settled(f)' /\ (mm \/ disk'[f] # NoTime)
               /\ mm => Shows(f, t)'
    <3>1. Settled(f)
      BY <2>1, <2>6, <2>7 DEF BeingMade
    <3>2. mm => Shows(f, t)
      BY <2>2, <2>5, <3>1, ReachFacts DEF Shows, Settled
    <3>3. QED
      BY <2>1, <2>5, <3>1, <3>2 DEF Shows, Settled
  <2>8. QED
    BY <1>c, <1>d, <2>1, <2>2, <2>4, <2>5, <2>7, CheckReturns
<1>8. CASE IntermediateIsNewer
  <2>1. /\ pc = "walk" /\ Top.fn = "check_dep" /\ f \in Intermediate
        /\ Newer(file_mtime(f)) /\ Return(0, TRUE) /\ UNCHANGED <<deps, disk, updated>>
    BY <1>8, <1>c DEF IntermediateIsNewer, Walking, jobVars
  <2>2. f \in Files /\ stack # <<>>
    BY <1>a, <1>c, <2>1, TopFacts
  <2>3. disk[f] > t
    BY <1>a, <1>d, <2>1, <2>2, TimeIsRight DEF Newer
  <2>4. Shows(f, t)'
    BY <2>1, <2>2, <2>3, ReachFacts DEF Shows
  <2>5. QED
    BY <1>c, <1>d, <1>e, <2>1, <2>2, <2>4, CheckReturns
<1>9. CASE IntermediateChecked
  <2>1. /\ pc = "walk" /\ Top.fn = "check_dep" /\ Top.at = "deps"
        /\ Return(Top.dep_status, Top.must_make)
        /\ UNCHANGED <<deps, updated, update_status, command_state, disk>>
    BY <1>9 DEF IntermediateChecked, Walking, jobVars
  <2>2. /\ f \in Files /\ stack # <<>> /\ f \in Intermediate /\ f = Top.file
        /\ Top.dep_status \in Statuses /\ Top.must_make \in BOOLEAN
        /\ deps[f] \in Seq(Files)
    BY <1>a, <1>c, <2>1, TopFacts DEF CheckInv
  <2>3. ASSUME Top.dep_status = 0, ~BeingMade(f)', Top.must_make
        PROVE  Shows(f, t)'
    <3>1. command_state[f] # "deps_running"
      BY <2>1, <2>3 DEF BeingMade
    <3>2. PICK d \in Through(Top) : Shows(d, t)
      BY <1>d, <2>1, <2>2, <2>3, <3>1, TopFacts DEF CheckInv
    <3>3. d \in Range(deps[f])
      BY <2>2, <3>2 DEF Through, Range
    <3>4. d \in Range(Deps[f])
      BY <1>a, <2>2, <3>3 DEF TimesInv
    <3>5. Reach[d] \subseteq Reach[f]
      BY <2>2, <3>4, ReachFacts
    <3>6. QED
      BY <2>1, <3>2, <3>5 DEF Shows
  <2>4. QED
    BY <1>c, <1>d, <2>1, <2>2, <2>3, CheckReturns
<1>10. CASE Unreturned
  BY <1>10, UnreturnedFacts DEF RetInv
<1>11. CASE UNCHANGED vars
  <2>1. UNCHANGED <<stack, pc, ret, deps, command_state, updated, update_status, disk>>
    BY <1>11 DEF vars, fileVars, jobVars
  <2>2. /\ Top' = Top /\ File' = File /\ Dep' = Dep
        /\ \A x : (BeingMade(x)' <=> BeingMade(x)) /\ (Settled(x)' <=> Settled(x))
        /\ \A x, y : Shows(x, y)' <=> Shows(x, y)
    BY <2>1 DEF Top, File, Dep, BeingMade, Settled, Shows
  <2>3. QED
    BY <2>1, <2>2 DEF RetInv, MadeInv, BeingMade, Settled, Shows
<1>12. QED
  BY <1>1, <1>2, <1>3, <1>4, <1>5, <1>6, <1>7, <1>8, <1>9, <1>10, <1>11
    DEF Next, UpdateFile, CheckDeps, Rounds, Unreturned

-----------------------------------------------------------------------------
(* The theorems.                                                           *)

\* At the start nothing is known, and nothing has been made.
LEMMA InitMade == Init => TargetsInv /\ TimesInv /\ CallsInv /\ RetInv
<1> SUFFICES ASSUME Init PROVE TargetsInv /\ TimesInv /\ CallsInv /\ RetInv
  OBVIOUS
<1>1. TargetsInv
  BY DEF Init, TargetsInv, StillRunning, Settled
<1>2. \A f \in Files : disk[f] <= now
  <2>1. StartTimes \subseteq Nat \ {0} /\ IsFiniteSet(StartTimes)
    BY StartAssumption
  <2>2. IsFiniteSet(StartTimes \cup {1})
    BY <2>1, FS_AddElement
  <2>3. StartTimes \cup {1} \subseteq Nat /\ StartTimes \cup {1} # {}
    BY <2>1
  <2>4. now \in Nat /\ \A t \in StartTimes \cup {1} : t <= now
    BY <2>2, <2>3, MaxIsGreatest DEF Init
  <2>5. \A f \in Files : disk[f] \in StartTimes \cup {NoTime}
    BY DEF Init
  <2>6. QED
    BY <2>4, <2>5 DEF NoTime
<1>3. TimesInv
  BY <1>2, GraphAssumption DEF Init, TimesInv
<1>4. CallsInv
  <2>1. stack = <<>> /\ Len(stack) = 0 /\ Range(stack) = {}
    BY DEF Init, Range
  <2>2. QED
    BY <2>1 DEF CallsInv
<1>5. RetInv
  BY DEF Init, RetInv
<1>6. QED
  BY <1>1, <1>3, <1>4, <1>5

\* Every step keeps MadeInv.
LEMMA MadeStep == NoIntermediateCycle /\ NoLongChain /\ MadeInv /\ [Next]_vars => MadeInv'
<1> SUFFICES ASSUME NoIntermediateCycle, NoLongChain, MadeInv, [Next]_vars
             PROVE  MadeInv'
  OBVIOUS
<1>1. WalkInv'
  BY StackStep, WalkTypesStep, FileTypesStep, GoalTypesStep, PlacesStep
    DEF MadeInv, WalkInv, TypeOK
<1>2. TargetsInv' /\ TimesInv' /\ CallsInv' /\ RetInv'
  BY TargetsStep, TimesStep, CallsStep, RetStep
<1>3. QED
  BY <1>1, <1>2 DEF MadeInv

\* The inductive invariant of the targets holds of every reachable state, for every makefile
\* in which no intermediate file depends on itself and none is made by way of two others.
THEOREM MadeInvariance == NoIntermediateCycle /\ NoLongChain /\ Spec => []MadeInv
<1>1. CASE NoIntermediateCycle /\ NoLongChain
  <2>1. NoIntermediateCycle /\ Spec => []WalkInv
    BY WalkInvariance
  <2>2. Spec => []WalkInv
    BY <1>1, <2>1
  <2>3. Init /\ WalkInv => MadeInv
    BY InitMade DEF MadeInv
  <2>4. MadeInv /\ [Next]_vars => MadeInv'
    BY <1>1, MadeStep
  <2>5. QED
    BY <2>2, <2>3, <2>4, PTL DEF Spec
<1>2. QED
  BY <1>1

\* A target with a child on the chain is still cs_running.
THEOREM RunningIsRunning == NoIntermediateCycle /\ NoLongChain /\ Spec => []StillRunning
BY MadeInvariance, PTL DEF MadeInv, TargetsInv

\* The commands that a step starts are those of the file on top, which must be made.
LEMMA StartsFile ==
  ASSUME MadeInv, [Next]_vars, NEW f \in Files, Starts(f)
  PROVE  Walking("update_file", "remake") /\ Top.must_make /\ File = f
<1>1. pc = "walk" /\ pc' = "new_job" /\ File = f
  BY DEF Starts
<1>2. RemakeFile
  BY <1>1 DEF Next, UpdateFile, AlreadyUpdated, StartUpdate, DropCircular, CheckDep, DepChecked,
    DepsDone, UpdateIntermediate, IntermediateUpdated, IntermediatesDone, WaitForDeps,
    GiveUpOnTarget, DepsMade, NoNeedToRemake, PretendRemade, NoRule, NewJobReturns,
    CheckDeps, CheckFile, FileChecked, IntermediateIsNewer, CheckIntermediate,
    IntermediateChecked, Rounds, StartRound, ConsiderGoal, GoalConsidered, TakeGoal, EndRound,
    Finish, Commands, NextLine, JobSucceeds, JobFails, NextLineFails, Reaping, Exited, Over,
    vars, Continue, Call, Return
<1>3. QED
  BY <1>1, <1>2 DEF RemakeFile, MustRun, Remaking

\* A target that must be made is missing or out of date.
LEMMA RemakingOutOfDate ==
  ASSUME MadeInv, Walking("update_file", "remake"), Top.must_make, NEW f, f = File
  PROVE  OutOfDate(f)
<1>a. FileTypes /\ TimesInv
  BY DEF MadeInv, WalkInv, TypeOK
<1>1. /\ pc = "walk" /\ Top.fn = "update_file" /\ Top.at = "remake" /\ f = Top.file
      /\ f \in Files
  BY TopFacts DEF Walking, File
<1>2. /\ Top.this_mtime = disk[f]
      /\ disk[f] = NoTime \/ \E d \in Through(Top) : Shows(d, Top.this_mtime)
  BY <1>1, TopFacts DEF UpdateInv
<1>3. ASSUME NEW d \in Through(Top), Shows(d, disk[f])
      PROVE  OutOfDate(f)
  <2>1. d \in Range(deps[f])
    BY <1>a, <1>1, <1>3 DEF Through, FileTypes, Range
  <2>2. Reach[d] \subseteq LookedAt(f)
    BY <1>a, <1>1, <2>1, ReachLookedAt
  <2>3. PICK e \in Reach[d] : disk[e] > disk[f] \/ (disk[e] = NoTime /\ e \notin Intermediate)
    BY <1>3 DEF Shows
  <2>4. QED
    BY <2>2, <2>3 DEF OutOfDate
<1>4. QED
  BY <1>2, <1>3 DEF OutOfDate

\* A target whose commands are started is missing or out of date.
LEMMA StartsOutOfDate ==
  ASSUME MadeInv, [Next]_vars, NEW f \in Files, Starts(f)
  PROVE  OutOfDate(f)
BY StartsFile, RemakingOutOfDate

\* The commands of a target start only when all its dependencies are finished with success.
THEOREM DependenciesFirst == NoIntermediateCycle /\ NoLongChain /\ Spec => DepsFirst
<1>1. ASSUME MadeInv, [Next]_vars
      PROVE  [\A f \in Files : Starts(f) =>
                \A d \in Range(deps[f]) : d \in updated /\ update_status[d] = 0]_vars
  <2>1. ASSUME NEW f \in Files, Starts(f), NEW d \in Range(deps[f])
        PROVE  d \in updated /\ update_status[d] = 0
    BY <1>1, <2>1, StartsFile, BegunFile DEF Settled
  <2>2. QED
    BY <2>1
<1>2. QED
  BY <1>1, MadeInvariance, PTL DEF Spec, DepsFirst

\* The commands of a target are run once, never beside themselves, and only if the target is
\* missing or out of date.
THEOREM CommandsRunOnce == NoIntermediateCycle /\ NoLongChain /\ Spec => RunOnce
<1>1. ASSUME MadeInv, [Next]_vars
      PROVE  [\A f \in Files :
                /\ f \in updated => f \in updated' /\ UNCHANGED update_status[f] /\ ~Starts(f)
                /\ f \in children => ~Starts(f)
                /\ Starts(f) => OutOfDate(f)]_vars
  <2>1. ASSUME NEW f \in Files
        PROVE  /\ f \in updated => f \in updated' /\ UNCHANGED update_status[f] /\ ~Starts(f)
               /\ f \in children => ~Starts(f)
               /\ Starts(f) => OutOfDate(f)
    <3>1. Starts(f) => f \notin updated /\ f \notin children
      BY <1>1, StartsFile, BegunFile
    <3>2. f \in updated => f \in updated' /\ update_status'[f] = update_status[f]
      BY <1>1, Frozen
    <3>3. Starts(f) => OutOfDate(f)
      BY <1>1, StartsOutOfDate
    <3>4. f \in updated => UNCHANGED update_status[f]
      BY <1>1, <3>2
    <3>5. QED
      BY <3>1, <3>2, <3>3, <3>4
  <2>2. QED
    BY <2>1
<1>2. QED
  BY <1>1, MadeInvariance, PTL DEF Spec, RunOnce
=============================================================================
