---------------------- MODULE MakeUpdate_result_proofs ----------------------
(***************************************************************************)
(* Proofs about MakeUpdate: what is true of the files when make is done.   *)
(*                                                                         *)
(* DoneInv is inductive for the makefiles for which MadeInv is.  What is   *)
(* known of a call lasts as long as nothing changes what it has been       *)
(* through; a step changes that of the call on top only.                   *)
(***************************************************************************)
EXTENDS MakeUpdate_proofs

-----------------------------------------------------------------------------
(* What a target is looked at for.                                         *)

\* No step changes a switch.
LEMMA SwitchesKept == [Next]_vars => UNCHANGED switchVars
BY DEF Next, UpdateFile, AlreadyUpdated, StartUpdate, DropCircular, CheckDep, DepChecked,
  DepsDone, UpdateIntermediate, IntermediateUpdated, IntermediatesDone, WaitForDeps,
  GiveUpOnTarget, DepsMade, NoNeedToRemake, PretendRemade, NoRule, RemakeFile, NewJobReturns,
  CheckDeps, CheckFile, FileChecked, IntermediateIsNewer, CheckIntermediate,
  IntermediateChecked, Rounds, StartRound, ConsiderGoal, GoalConsidered, TakeGoal, EndRound,
  Finish, Commands, NextLine, JobSucceeds, JobFails, NextLineFails, Exited, vars

\* A file that is not intermediate reaches itself only.
LEMMA ReachOfFile ==
  ASSUME NEW f \in Files, f \notin Intermediate
  PROVE  Reach[f] = {f}
<1> DEFINE Closed == {S \in SUBSET Files : f \in S /\ \A d \in S \cap Intermediate :
                                                      Range(Deps[d]) \subseteq S}
<1>1. {f} \in Closed
  OBVIOUS
<1>2. Reach[f] = {d \in Files : \A S \in Closed : d \in S}
  BY DEF Reach
<1>3. QED
  BY <1>1, <1>2, ReachFacts

\* A target is looked at for no more than its dependencies reach.
LEMMA LookedAtReach ==
  ASSUME FileTypes, TimesInv, NEW f \in Files, NEW e \in LookedAt(f)
  PROVE  e \in Files /\ \E d \in Range(deps[f]) : e \in Reach[d]
<1> DEFINE All == UNION {Reach[d] : d \in Range(deps[f])}
           Closed == {S \in SUBSET Files : /\ Range(deps[f]) \subseteq S
                                           /\ \A d \in S \cap Intermediate :
                                                Range(deps[d]) \subseteq S}
<1>1. Range(deps[f]) \subseteq Files
  BY DEF FileTypes, Range
<1>2. All \subseteq Files /\ Range(deps[f]) \subseteq All
  BY <1>1, ReachFacts
<1>3. ASSUME NEW c \in All \cap Intermediate
      PROVE  Range(deps[c]) \subseteq All
  <2>1. PICK d \in Range(deps[f]) : c \in Reach[d]
    BY <1>3
  <2>2. c \in Files /\ Range(deps[c]) \subseteq Files /\ deps[c] = Deps[c]
    BY <1>2, <1>3 DEF FileTypes, TimesInv, Range
  <2>3. Range(Deps[c]) \subseteq Reach[d]
    <3> DEFINE Of == {S \in SUBSET Files : d \in S /\ \A b \in S \cap Intermediate :
                                                      Range(Deps[b]) \subseteq S}
    <3>1. Reach[d] = {b \in Files : \A S \in Of : b \in S}
      BY <1>1, <2>1 DEF Reach
    <3>2. \A S \in Of : c \in S
      BY <2>1, <3>1
    <3>3. \A S \in Of : Range(Deps[c]) \subseteq S
      BY <1>3, <3>2
    <3>4. QED
      BY <2>2, <3>1, <3>3
  <2>4. QED
    BY <2>1, <2>2, <2>3
<1>4. All \in Closed
  BY <1>2, <1>3
<1>5. LookedAt(f) = {d \in Files : \A S \in Closed : d \in S}
  BY DEF LookedAt
<1>6. e \in Files /\ e \in All
  BY <1>4, <1>5
<1>7. QED
  BY <1>6

\* What a target was looked at for, in the words of ConsideredInv.
LEMMA ConsideredLookedAt ==
  ASSUME FileTypes, TimesInv
  PROVE  ConsideredInv <=>
           /\ \A f \in updated : update_status[f] = 0 \/ keep_going_flag =>
                \A e \in LookedAt(f) \ Intermediate :
                  e \in updated /\ (update_status[f] = 0 => update_status[e] = 0)
           /\ SettledCurrent
<1>1. updated \subseteq Files
  BY DEF FileTypes
<1>2. \A f \in updated : LookedAt(f) = UNION {Reach[d] : d \in Range(deps[f])}
  BY <1>1, LookedAtReach, ReachLookedAt
<1>3. QED
  BY <1>2 DEF ConsideredInv

\* An intermediate file reaches itself and what it is looked at for itself.
LEMMA ReachOfIntermediate ==
  ASSUME FileTypes, TimesInv, NEW f \in Intermediate, f \in Files, NEW e \in Reach[f], e # f
  PROVE  e \in Files /\ e \in LookedAt(f)
<1> DEFINE Of == {S \in SUBSET Files : f \in S /\ \A b \in S \cap Intermediate :
                                                  Range(Deps[b]) \subseteq S}
           Closed == {S \in SUBSET Files : /\ Range(deps[f]) \subseteq S
                                           /\ \A d \in S \cap Intermediate :
                                                Range(deps[d]) \subseteq S}
<1>1. Reach[f] = {d \in Files : \A S \in Of : d \in S}
  BY DEF Reach
<1>2. LookedAt(f) = {d \in Files : \A S \in Closed : d \in S}
  BY DEF LookedAt
<1>3. \A S \in Closed : S \cup {f} \in Of
  BY DEF TimesInv
<1> HIDE DEF Of, Closed
<1>4. e \in Files /\ \A S \in Closed : e \in S
  BY <1>1, <1>3
<1>5. QED
  BY <1>2, <1>4

\* The dependencies of other files stay the same, and so does what they are looked at for.
LEMMA LookedAtKept ==
  ASSUME NoIntermediateCycle, MadeInv, [Next]_vars, NEW f \in Files,
         DropCircular => f # File
  PROVE  LookedAt(f)' = LookedAt(f)
<1>1. deps'[f] = deps[f] /\ \A d \in Intermediate : deps'[d] = deps[d]
  BY DepsStep, GraphAssumption
<1>2. QED
  BY <1>1 DEF LookedAt

\* What need not be looked into any more never need be.
LEMMA UnneededKept ==
  ASSUME MadeInv, [Next]_vars, NEW d \in Files, NEW st, NEW t, Unneeded(d, st, t)
  PROVE  Unneeded(d, st, t)'
<1>1. \A e \in Reach[d] : e \in Files
  BY ReachFacts
<1>2. \A e \in Reach[d] \ Intermediate :
        e \in updated' /\ (st = 0 => update_status'[e] = 0 /\ disk'[e] <= t)
  BY <1>1, Frozen DEF Unneeded
<1>3. QED
  BY <1>2 DEF Unneeded

-----------------------------------------------------------------------------
(* What has been considered.                                               *)

\* What a target whose dependencies are finished is looked at for is finished, too.
LEMMA DoneDeps ==
  ASSUME MadeInv, ConsideredInv, NEW f \in Files,
         \A d \in Range(deps[f]) : d \in updated /\ (update_status[d] = 0 \/ keep_going_flag),
         NEW e \in LookedAt(f) \ Intermediate
  PROVE  /\ e \in Files /\ e \in updated
         /\ (\A d \in Range(deps[f]) : Settled(d)) => Settled(e)
<1>a. FileTypes /\ TimesInv
  BY DEF MadeInv, WalkInv, TypeOK
<1>1. PICK d \in Range(deps[f]) : e \in Reach[d]
  BY <1>a, LookedAtReach
<1>2. d \in Files /\ d \in updated /\ (update_status[d] = 0 \/ keep_going_flag) /\ e \in Files
  BY <1>a, LookedAtReach DEF FileTypes
<1>3. CASE d \notin Intermediate
  <2>1. e = d
    BY <1>1, <1>2, <1>3, ReachOfFile
  <2>2. QED
    BY <1>2, <2>1
<1>4. CASE d \in Intermediate
  <2>1. e \in LookedAt(d) \ Intermediate
    BY <1>a, <1>1, <1>2, <1>4, ReachOfIntermediate
  <2>2. e \in updated /\ (update_status[d] = 0 => update_status[e] = 0)
    BY <1>a, <1>2, <2>1, ConsideredLookedAt
  <2>3. QED
    BY <1>2, <2>2 DEF Settled
<1>5. QED
  BY <1>3, <1>4

\* Before a file is noted as finished all it is looked at for has been considered.
LEMMA TopLookedAt ==
  ASSUME MadeInv, ConsideredInv, LoopsInv, Walking("update_file", Top.at),
         Top.at \in {"decide", "remake"}, ~Top.running, Top.dep_status = 0 \/ keep_going_flag,
         NEW e \in LookedAt(File) \ Intermediate
  PROVE  /\ e \in updated
         /\ Top.dep_status = 0 => update_status[e] = 0
         /\ Top.dep_status = 0 /\ ~Top.must_make => disk[e] <= Top.this_mtime
<1>a. FileTypes /\ TimesInv /\ pc = "walk" /\ Top.fn = "update_file"
  BY DEF MadeInv, WalkInv, TypeOK, Walking
<1>b. /\ Top \in Range(stack) /\ File = Top.file /\ File \in Files /\ UpdateInv(Top)
      /\ deps[File] \in Seq(Files)
  BY <1>a, TopFacts
<1>1. LoopInv(Top) /\ ~Waits(Top)
  BY <1>a, <1>b DEF LoopsInv, Waits
<1>2. Through(Top) = Range(deps[File])
  BY <1>a, <1>b, ThroughFacts
<1>3. CASE ~Top.must_make
  <2>1. PICK d \in Range(deps[File]) : e \in Reach[d]
    BY <1>a, <1>b, LookedAtReach
  <2>2. Unneeded(d, Top.dep_status, Top.this_mtime)
    BY <1>1, <1>2, <1>3, <2>1 DEF LoopInv
  <2>3. QED
    BY <2>1, <2>2 DEF Unneeded
<1>4. CASE Top.must_make
  <2>1. Range(deps[File]) \subseteq updated
    BY <1>1, <1>b, <1>4 DEF LoopInv
  <2>2. Top.dep_status = 0 => \A d \in Range(deps[File]) : Settled(d)
    BY <1>a, <1>b, <1>4 DEF UpdateInv
  <2>3. \A d \in Range(deps[File]) : d \in updated /\ (update_status[d] = 0 \/ keep_going_flag)
    BY <2>1, <2>2 DEF Settled
  <2>4. e \in updated /\ ((\A d \in Range(deps[File]) : Settled(d)) => Settled(e))
    BY <1>b, <2>3, DoneDeps
  <2>5. QED
    BY <1>4, <2>2, <2>4 DEF Settled
<1>5. QED
  BY <1>3, <1>4

\* A target has succeeded because its commands have, or nothing had to be done.
LEMMA NewlySettled ==
  ASSUME MadeInv, [Next]_vars, NEW f \in Files, ~Settled(f), Settled(f)'
  PROVE  ((NoNeedToRemake \/ PretendRemade) /\ f = File) \/ JobSucceeds(f)
<1>a. FileTypes
  BY DEF MadeInv, WalkInv, TypeOK
<1>1. ASSUME NEW e \in Files, NEW st, st # -1, notice_finished_file(e, st)
      PROVE  f = e /\ st = 0
  BY <1>a, <1>1 DEF notice_finished_file, Settled, FileTypes
<1>2. ASSUME NEW e \in Files, NEW st, notice_finished_file(e, st)
      PROVE  f = e
  BY <1>a, <1>2 DEF notice_finished_file, Settled, FileTypes
<1>3. CASE UNCHANGED <<update_status, updated>>
  BY <1>3 DEF Settled
<1>4. CASE GiveUpOnTarget
  <2>1. File \in Files /\ Top.dep_status \in Statuses /\ Top.dep_status # 0
    BY <1>4, TopFacts DEF GiveUpOnTarget, Walking
  <2>2. QED
    BY <1>1, <1>4, <2>1 DEF GiveUpOnTarget, Statuses
<1>5. CASE NoNeedToRemake \/ PretendRemade
  <2>1. File \in Files
    BY <1>5, TopFacts DEF NoNeedToRemake, PretendRemade, Remaking, Walking
  <2>2. QED
    BY <1>2, <1>5, <2>1 DEF NoNeedToRemake, PretendRemade
<1>6. CASE NoRule \/ RemakeFile
  <2>1. File \in Files
    BY <1>6, TopFacts DEF NoRule, RemakeFile, MustRun, Remaking, Walking
  <2>2. \/ notice_finished_file(File, 1) \/ notice_finished_file(File, 2)
        \/ UNCHANGED <<update_status, updated>>
    BY <1>6 DEF NoRule, RemakeFile
  <2>3. CASE notice_finished_file(File, 1) \/ notice_finished_file(File, 2)
    <3>1. ~(1 = -1) /\ ~(2 = -1) /\ ~(1 = 0) /\ ~(2 = 0)
      OBVIOUS
    <3>2. QED
      BY <1>1, <2>1, <2>3, <3>1
  <2>4. QED
    BY <1>3, <2>2, <2>3
<1>7. CASE Commands
  <2>1. PICK e \in Files : NextLine(e) \/ JobSucceeds(e) \/ JobFails(e) \/ NextLineFails(e)
    BY <1>7 DEF Commands
  <2>2. CASE NextLine(e)
    BY <1>3, <2>2 DEF NextLine
  <2>3. CASE JobSucceeds(e)
    BY <1>2, <2>3 DEF JobSucceeds
  <2>4. CASE JobFails(e) \/ NextLineFails(e)
    BY <1>1, <2>4 DEF JobFails, NextLineFails
  <2>5. QED
    BY <2>1, <2>2, <2>3, <2>4
<1>8. QED
  BY <1>3, <1>4, <1>5, <1>6, <1>7
    DEF Next, UpdateFile, AlreadyUpdated, StartUpdate, DropCircular, CheckDep, DepChecked,
    DepsDone, UpdateIntermediate, IntermediateUpdated, IntermediatesDone, WaitForDeps,
    DepsMade, NewJobReturns, CheckDeps, CheckFile, FileChecked, IntermediateIsNewer,
    CheckIntermediate, IntermediateChecked, Rounds, StartRound, ConsiderGoal, GoalConsidered,
    TakeGoal, EndRound, Finish, Exited, vars, fileVars

\* A step keeps what is known of a file that has been considered before it.
LEMMA ConsideredKept ==
  ASSUME NoIntermediateCycle, MadeInv, ConsideredInv, [Next]_vars,
         NEW f \in updated, update_status[f] = 0 \/ keep_going_flag
  PROVE  /\ LookedAt(f)' = LookedAt(f) /\ f \in Files
         /\ \A e \in LookedAt(f) \ Intermediate :
              /\ e \in Files /\ e \in updated'
              /\ update_status[f] = 0 => update_status'[e] = 0
              /\ disk'[e] = disk[e]
         /\ disk'[f] = disk[f] /\ update_status'[f] = update_status[f]
<1>a. FileTypes /\ TimesInv
  BY DEF MadeInv, WalkInv, TypeOK
<1>1. f \in Files /\ disk'[f] = disk[f] /\ update_status'[f] = update_status[f]
  BY Frozen
<1>2. DropCircular => f # File
  <2>1. ASSUME DropCircular
        PROVE  File \notin updated
    <3>1. pc = "walk" /\ Top.fn = "update_file" /\ Top.at = "deps"
      BY <2>1, DropCircularThrough DEF DropCircular
    <3>2. QED
      BY <3>1, TopFacts DEF UpdateInv
  <2>2. QED
    BY <2>1
<1>3. LookedAt(f)' = LookedAt(f)
  BY <1>1, <1>2, LookedAtKept
<1>4. \A e \in LookedAt(f) \ Intermediate :
        e \in updated /\ (update_status[f] = 0 => update_status[e] = 0)
  BY <1>a, ConsideredLookedAt
<1>5. QED
  BY <1>1, <1>3, <1>4, Frozen

\* Every step keeps what is known of the files that have been considered.
LEMMA ConsideredStep ==
  NoIntermediateCycle /\ MadeInv /\ ConsideredInv /\ LoopsInv /\ [Next]_vars => ConsideredInv'
<1> SUFFICES ASSUME NoIntermediateCycle, MadeInv, ConsideredInv, LoopsInv, [Next]_vars
             PROVE  ConsideredInv'
  OBVIOUS
<1>a. FileTypes /\ FileTypes' /\ TimesInv /\ TargetsInv /\ UNCHANGED keep_going_flag
  BY FileTypesStep, SwitchesKept DEF MadeInv, WalkInv, TypeOK, switchVars
<1>b. /\ updated \subseteq Files /\ updated' \subseteq Files /\ children \subseteq Files
      /\ update_status \in [Files -> -1 .. 3] /\ now \in Nat /\ disk \in [Files -> Times]
  BY <1>a DEF FileTypes
<1> DEFINE Known(f) == update_status'[f] = 0 \/ keep_going_flag =>
                         \A e \in LookedAt(f)' \ Intermediate :
                           e \in updated' /\ (update_status'[f] = 0 => update_status'[e] = 0)
<1>1. ASSUME NEW f \in updated
      PROVE  Known(f)
  BY ConsideredKept, Frozen
<1>2. ASSUME NEW st, Noted(st), NEW f, f = File
      PROVE  Known(f) /\ updated' = updated \cup {f}
  <2>1. /\ Walking("update_file", Top.at) /\ Top.at \in {"decide", "remake"} /\ UNCHANGED deps
        /\ notice_finished_file(f, st) /\ (st \in {-1, 0} => Top.at = "remake")
    BY <1>2 DEF Noted, Walking
  <2>2. f \in Files /\ f \notin updated
    BY <1>2, NotedFile
  <2>3. updated' = updated \cup {f} /\ update_status'[f] = (IF st = -1 THEN 0 ELSE st)
    BY <1>b, <2>1, <2>2 DEF notice_finished_file
  <2>4. ~Top.running /\ (Top.at = "remake" => Top.dep_status = 0)
    <3>1. UpdateInv(Top) /\ Top.fn = "update_file"
      BY <2>1, TopFacts DEF Walking
    <3>2. CASE Top.at = "remake"
      BY <3>1, <3>2 DEF UpdateInv
    <3>3. CASE Top.at = "decide"
      <4>1. GiveUpOnTarget
        BY <2>1, <2>3, <2>2, <3>3
          DEF Next, UpdateFile, AlreadyUpdated, StartUpdate, DropCircular, CheckDep, DepChecked,
          DepsDone, UpdateIntermediate, IntermediateUpdated, IntermediatesDone, WaitForDeps,
          DepsMade, NoNeedToRemake, PretendRemade, NoRule, RemakeFile, MustRun, Remaking,
          NewJobReturns, CheckDeps, CheckFile, FileChecked, IntermediateIsNewer,
          CheckIntermediate, IntermediateChecked, Rounds, StartRound, ConsiderGoal,
          GoalConsidered, TakeGoal, EndRound, Finish, Commands, NextLine, JobSucceeds, JobFails,
          NextLineFails, Reaping, Exited, vars, fileVars, Walking
      <4>2. QED
        BY <3>3, <4>1 DEF GiveUpOnTarget
    <3>4. QED
      BY <2>1, <3>2, <3>3
  <2>5. LookedAt(f)' = LookedAt(f)
    BY <2>1 DEF LookedAt
  <2>6. ASSUME update_status'[f] = 0 \/ keep_going_flag, NEW e \in LookedAt(f) \ Intermediate
        PROVE  e \in updated' /\ (update_status'[f] = 0 => update_status'[e] = 0)
    <3>1. update_status'[f] = 0 => Top.dep_status = 0
      BY <2>1, <2>3, <2>4
    <3>2. e \in updated /\ (Top.dep_status = 0 => update_status[e] = 0)
      BY <1>2, <2>1, <2>4, <2>6, <3>1, TopLookedAt
    <3>3. QED
      BY <3>1, <3>2, Frozen
  <2>7. QED
    BY <2>3, <2>5, <2>6
<1>3. ASSUME NEW f \in Files, NEW st, Ended(f, st)
      PROVE  /\ Known(f) /\ updated' = updated \cup {f}
             /\ \A e \in LookedAt(f)' \ Intermediate : Settled(e) /\ e \in Files
  <2>1. f \in children /\ notice_finished_file(f, st) /\ UNCHANGED deps
    BY <1>3 DEF Ended
  <2>2. \A d \in Range(deps[f]) : Settled(d)
    BY <1>a, <2>1 DEF TargetsInv
  <2>3. LookedAt(f)' = LookedAt(f)
    BY <2>1 DEF LookedAt
  <2>4. \A e \in LookedAt(f) \ Intermediate : Settled(e) /\ e \in Files
    BY <2>2, DoneDeps DEF Settled
  <2>5. \A e \in LookedAt(f) \ Intermediate : Settled(e)'
    BY <2>4, SettledKept
  <2>6. QED
    BY <2>1, <2>3, <2>4, <2>5 DEF notice_finished_file, Settled
<1>4. \A f \in updated' : Known(f)
  <2>1. CASE updated' = updated
    BY <1>1, <2>1
  <2>2. ASSUME NEW st, Noted(st)
        PROVE  \A f \in updated' : Known(f)
    <3>1. PICK f : f = File
      OBVIOUS
    <3>2. Known(f) /\ updated' = updated \cup {f}
      BY <1>2, <2>2, <3>1
    <3>3. QED
      BY <1>1, <3>2
  <2>3. ASSUME NEW e \in Files, NEW st, Ended(e, st)
        PROVE  \A f \in updated' : Known(f)
    BY <1>1, <1>3, <2>3
  <2>4. QED
    BY <2>1, <2>2, <2>3, Effects DEF Still, Marked, Restated, Begun, GoneOn
<1>5. ASSUME NEW f \in WithCmds \ Quiet, Settled(f)', Lines[f] > 0
      PROVE  Current(f)'
  <2>1. CASE Settled(f)
    <3>1. Current(f) /\ f \in updated /\ update_status[f] = 0
      BY <1>5, <2>1 DEF ConsideredInv, SettledCurrent, Settled
    <3>2. LookedAt(f)' = LookedAt(f) /\ disk'[f] = disk[f]
          /\ \A e \in LookedAt(f) \ Intermediate : disk'[e] = disk[e]
      BY <3>1, ConsideredKept
    <3>3. QED
      BY <3>1, <3>2 DEF Current
  <2>2. CASE ~Settled(f) /\ NoNeedToRemake /\ f = File
    <3>1. /\ Walking("update_file", Top.at) /\ Top.at = "remake" /\ ~Top.must_make
          /\ UNCHANGED <<deps, disk>>
      BY <2>2 DEF NoNeedToRemake, Walking, jobVars
    <3>2. /\ UpdateInv(Top) /\ Top \in Range(stack) /\ f = Top.file /\ Top.fn = "update_file"
      BY <2>2, <3>1, TopFacts DEF Walking
    <3>3. Top.dep_status = 0 /\ ~Top.running /\ Top.this_mtime = disk[f]
      BY <3>1, <3>2 DEF UpdateInv
    <3>4. Top.this_mtime # NoTime
      BY <3>1, <3>2 DEF LoopsInv, LoopInv
    <3>5. \A e \in LookedAt(f) \ Intermediate : disk[e] <= Top.this_mtime
      BY <2>2, <3>1, <3>3, TopLookedAt
    <3>6. LookedAt(f)' = LookedAt(f)
      BY <3>1 DEF LookedAt
    <3>7. QED
      BY <3>1, <3>3, <3>4, <3>5, <3>6 DEF Current
  <2>3. CASE PretendRemade /\ f = File
    BY <1>5, <2>3 DEF PretendRemade
  <2>4. CASE JobSucceeds(f)
    <3>1. f \in Files /\ Ended(f, 0) /\ f \in children
      BY <1>b, <2>4 DEF JobSucceeds, Reaping, Ended
    <3>2. \A e \in LookedAt(f)' \ Intermediate : Settled(e) /\ e \in Files
      BY <1>3, <3>1
    <3>3. PICK t \in {now, now + 1} : disk' = [disk EXCEPT ![f] = t]
      BY <1>5, <2>4 DEF JobSucceeds, WriteFile
    <3>4. disk'[f] = t /\ now <= t /\ t # NoTime
      BY <1>b, <3>1, <3>3 DEF NoTime
    <3>5. \A e \in LookedAt(f)' \ Intermediate : disk'[e] = disk[e] /\ disk[e] <= now
                                                 /\ disk[e] \in Int
      BY <1>a, <1>b, <3>2, Frozen DEF Settled, TimesInv, Times, NoTime
    <3>6. QED
      BY <1>b, <3>3, <3>4, <3>5 DEF Current
  <2>5. QED
    BY <1>5, <2>1, <2>2, <2>3, <2>4, NewlySettled, GraphAssumption
<1>6. TimesInv' /\ SettledCurrent'
  BY <1>5, TimesStep DEF SettledCurrent
<1>7. (\A f \in updated : update_status[f] = 0 \/ keep_going_flag =>
         \A e \in LookedAt(f) \ Intermediate :
           e \in updated /\ (update_status[f] = 0 => update_status[e] = 0))'
  BY <1>a, <1>4
<1>8. QED
  BY <1>a, <1>6, <1>7, ConsideredLookedAt, PTL

-----------------------------------------------------------------------------
(* What the calls know of the dependencies they have been through.         *)

\* What a call knows of its dependencies stays true as long as its file is left alone.
LEMMA LoopKept ==
  ASSUME NoIntermediateCycle, MadeInv, [Next]_vars, NEW fr \in Frames, LoopInv(fr),
         pc = "walk" => File # fr.file \/ fr.at \in {"entry", "file", "job"}
  PROVE  LoopInv(fr)'
<1>0. CASE fr.at \in {"entry", "file", "job"}
  BY <1>0 DEF LoopInv
<1> SUFFICES ASSUME fr.at \notin {"entry", "file", "job"}
             PROVE  LoopInv(fr)'
  BY <1>0
<1>a. fr.file \in Files /\ deps[fr.file] \in Seq(Files) /\ UNCHANGED keep_going_flag
  BY FrameParts, SwitchesKept DEF MadeInv, WalkInv, TypeOK, FileTypes, switchVars
<1>1. /\ deps'[fr.file] = deps[fr.file]
      /\ command_state[fr.file] = "deps_running" => command_state'[fr.file] = "deps_running"
  BY <1>a, OtherFile
<1>2. Through(fr)' = Through(fr) /\ Through(fr) \subseteq Files
  BY <1>a, <1>1 DEF Through
<1>3. Waits(fr) => Waits(fr)'
  BY <1>1 DEF Waits
<1>4. updated \subseteq updated'
  BY Frozen
<1>5. ASSUME fr.dep_status = 0 \/ keep_going_flag, ~Waits(fr)'
      PROVE  /\ Through(fr)' \ Intermediate \subseteq updated'
             /\ ~fr.must_make =>
                  \A d \in Through(fr)' : Unneeded(d, fr.dep_status, fr.this_mtime)'
             /\ fr.at \in {"inter", "inter_done"} =>
                  \A m \in 1 .. Len(deps'[fr.file]) :
                    m < fr.i => deps'[fr.file][m] \in updated'
             /\ fr.at \in {"decide", "remake"} /\ fr.must_make =>
                  Range(deps'[fr.file]) \subseteq updated'
  <2>1. Through(fr)' \ Intermediate \subseteq updated'
    BY <1>2, <1>3, <1>4, <1>5 DEF LoopInv
  <2>2. ~fr.must_make => \A d \in Through(fr)' : Unneeded(d, fr.dep_status, fr.this_mtime)'
    <3>1. ~fr.must_make => \A d \in Through(fr) : Unneeded(d, fr.dep_status, fr.this_mtime)
      BY <1>3, <1>5 DEF LoopInv
    <3>2. QED
      BY <1>2, <3>1, UnneededKept
  <2>3. fr.at \in {"inter", "inter_done"} =>
          \A m \in 1 .. Len(deps[fr.file]) : m < fr.i => deps[fr.file][m] \in updated
    BY <1>3, <1>5 DEF LoopInv
  <2>4. fr.at \in {"decide", "remake"} /\ fr.must_make => Range(deps[fr.file]) \subseteq updated
    BY <1>3, <1>5 DEF LoopInv
  <2>5. QED
    BY <1>1, <1>4, <2>1, <2>2, <2>3, <2>4
<1>6. fr.fn = "update_file" /\ ~fr.must_make => fr.this_mtime # NoTime
  BY DEF LoopInv
<1>7. QED
  BY <1>a, <1>5, <1>6 DEF LoopInv

\* What the calls below the one on top know stays true.
LEMMA BelowLoops ==
  ASSUME NoIntermediateCycle, MadeInv, LoopsInv, [Next]_vars, NEW k \in 2 .. Len(stack),
         NEW fr, fr = stack[k]
  PROVE  LoopInv(fr)'
<1>a. WalkTypes /\ DistinctInv
  BY DEF MadeInv, WalkInv, TypeOK, StackInv
<1>0. stack # <<>> /\ Len(stack) \in Nat
  BY <1>a DEF WalkTypes
<1>1. Top = stack[1] /\ fr \in Frames /\ k \in 1 .. Len(stack) /\ DOMAIN stack = 1 .. Len(stack)
  BY <1>a, <1>0, TopFrame DEF WalkTypes
<1>2. LoopInv(fr)
  BY <1>1 DEF LoopsInv, Range
<1>3. File = fr.file => fr.at = "file"
  <2>1. 1 \in 1 .. Len(stack) /\ 1 < k
    BY <1>0
  <2>2. QED
    BY <1>a, <1>1, <2>1 DEF DistinctInv, File
<1>4. QED
  BY <1>1, <1>2, <1>3, LoopKept

\* A step that replaces the frame on top,
LEMMA ContinueLoops ==
  ASSUME NoIntermediateCycle, MadeInv, LoopsInv, [Next]_vars, stack # <<>>,
         NEW fr \in Frames, stack' = <<fr>> \o Tail(stack), LoopInv(fr)'
  PROVE  LoopsInv'
<1>a. WalkTypes
  BY DEF MadeInv, WalkInv, TypeOK
<1>1. /\ Len(stack') = Len(stack) /\ Len(stack) \in Nat \ {0} /\ stack'[1] = fr
      /\ \A k \in 2 .. Len(stack) : stack'[k] = stack[k]
  BY <1>a, ContinueShape
<1>2. stack' \in Seq(Frames)
  BY <1>a, Replaced DEF WalkTypes
<1>3. ASSUME NEW k \in DOMAIN stack', NEW frame, frame = stack'[k]
      PROVE  LoopInv(frame)'
  <2>1. k \in 1 .. Len(stack')
    BY <1>2, <1>3
  <2>2. CASE k = 1
    BY <1>1, <1>3, <2>2
  <2>3. CASE k # 1
    <3>1. k \in 2 .. Len(stack) /\ frame = stack[k]
      BY <1>1, <1>3, <2>1, <2>3
    <3>2. QED
      BY <3>1, BelowLoops
  <2>4. QED
    BY <2>2, <2>3
<1>4. QED
  BY <1>3 DEF LoopsInv, Range

\* one that calls a function,
LEMMA CallLoops ==
  ASSUME NoIntermediateCycle, MadeInv, LoopsInv, [Next]_vars, stack # <<>>,
         NEW fr \in Frames, NEW callee \in Frames, Call(fr, callee),
         LoopInv(fr)', callee.at = "entry"
  PROVE  LoopsInv'
<1>a. WalkTypes
  BY DEF MadeInv, WalkInv, TypeOK
<1>1. /\ WalkTypes' /\ Len(stack') = Len(stack) + 1 /\ Len(stack) \in Nat \ {0}
      /\ stack'[1] = callee /\ stack'[2] = fr
      /\ \A k \in 2 .. Len(stack) : stack'[k + 1] = stack[k]
  BY <1>a, CallShape
<1>2. ASSUME NEW k \in DOMAIN stack', NEW frame, frame = stack'[k]
      PROVE  LoopInv(frame)'
  <2>1. k \in 1 .. Len(stack')
    BY <1>1, <1>2 DEF WalkTypes
  <2>2. CASE k = 1
    BY <1>1, <1>2, <2>2 DEF LoopInv
  <2>3. CASE k = 2
    BY <1>1, <1>2, <2>3
  <2>4. CASE k \notin {1, 2}
    <3>1. k - 1 \in 2 .. Len(stack)
      BY <1>1, <2>1, <2>4
    <3>2. frame = stack[k - 1]
      <4>1. stack'[(k - 1) + 1] = stack[k - 1]
        BY <1>1, <3>1
      <4>2. QED
        BY <1>2, <2>1, <4>1
    <3>3. QED
      BY <3>1, <3>2, BelowLoops
  <2>5. QED
    BY <2>2, <2>3, <2>4
<1>3. QED
  BY <1>2 DEF LoopsInv, Range

\* one that returns,
LEMMA ReturnLoops ==
  ASSUME NoIntermediateCycle, MadeInv, LoopsInv, [Next]_vars, stack # <<>>,
         NEW st \in Statuses, NEW mm \in BOOLEAN, Return(st, mm)
  PROVE  LoopsInv'
<1>a. WalkTypes
  BY DEF MadeInv, WalkInv, TypeOK
<1>1. /\ WalkTypes' /\ Len(stack') = Len(stack) - 1 /\ Len(stack) \in Nat \ {0}
      /\ \A k \in 1 .. Len(stack') : stack'[k] = stack[k + 1]
  BY <1>a, ReturnShape
<1>2. ASSUME NEW k \in DOMAIN stack', NEW frame, frame = stack'[k]
      PROVE  LoopInv(frame)'
  <2>1. k \in 1 .. Len(stack')
    BY <1>1, <1>2 DEF WalkTypes
  <2>2. k + 1 \in 2 .. Len(stack) /\ frame = stack[k + 1]
    BY <1>1, <1>2, <2>1
  <2>3. QED
    BY <2>2, BelowLoops
<1>3. QED
  BY <1>2 DEF LoopsInv, Range

\* and one that leaves the stack, whose top frame keeps what it knows.
LEMMA SameLoops ==
  ASSUME NoIntermediateCycle, MadeInv, LoopsInv, [Next]_vars, UNCHANGED stack,
         stack # <<>> => LoopInv(Top)'
  PROVE  LoopsInv'
<1>a. WalkTypes
  BY DEF MadeInv, WalkInv, TypeOK
<1>1. ASSUME NEW k \in DOMAIN stack, NEW frame, frame = stack[k]
      PROVE  LoopInv(frame)'
  <2>1. k \in 1 .. Len(stack) /\ Len(stack) \in Nat
    BY <1>a, <1>1 DEF WalkTypes
  <2>2. CASE k = 1
    <3>1. stack # <<>> /\ frame = Top'
      BY <1>a, <1>1, <2>1, <2>2, TopFrame DEF Top
    <3>2. QED
      BY <3>1
  <2>3. CASE k # 1
    BY <1>1, <2>1, <2>3, BelowLoops
  <2>4. QED
    BY <2>2, <2>3
<1>2. QED
  BY <1>1 DEF LoopsInv, Range

\* What a call knows does not change when nothing is made.
LEMMA LoopLifted ==
  ASSUME NEW fr, UNCHANGED <<update_status, updated, disk, deps, keep_going_flag>>, LoopInv(fr),
         \/ fr.fn = "update_file"
         \/ command_state'[fr.file] \in {command_state[fr.file], "deps_running"}
  PROVE  LoopInv(fr)'
<1>1. \A d, st, t : Unneeded(d, st, t)' <=> Unneeded(d, st, t)
  BY DEF Unneeded
<1>2. Through(fr)' = Through(fr)
  BY DEF Through
<1>3. Waits(fr) => Waits(fr)'
  BY DEF Waits
<1>4. QED
  BY <1>1, <1>2, <1>3 DEF LoopInv

\* Nothing has been looked at when the loop starts.
LEMMA StartUpdateLoop ==
  ASSUME MadeInv, StartUpdate,
         NEW fr, fr = [Top EXCEPT !.at = "deps", !.this_mtime = file_mtime(File),
                                  !.must_make = (file_mtime(File) = NoTime)]
  PROVE  LoopInv(fr)
<1>1. pc = "walk" /\ Top.at = "entry"
  BY DEF StartUpdate, Walking
<1>2. Top \in Frames /\ Top.i = 1 /\ File = Top.file
  BY <1>1, TopFacts
<1>3. /\ fr.at = "deps" /\ fr.i = 1 /\ fr.file = File
      /\ fr.this_mtime = file_mtime(File) /\ fr.must_make = (file_mtime(File) = NoTime)
  BY <1>2 DEF Frames
<1>4. Through(fr) = {}
  BY <1>1, <1>3, ThroughFacts
<1>5. QED
  BY <1>3, <1>4 DEF LoopInv

LEMMA CheckIntermediateLoop ==
  ASSUME MadeInv, CheckIntermediate, NEW fr, fr = [Top EXCEPT !.at = "deps"]
  PROVE  LoopInv(fr)
<1>1. pc = "walk" /\ Top.fn = "check_dep" /\ Top.at = "entry"
  BY DEF CheckIntermediate, Walking
<1>2. Top \in Frames /\ Top.i = 1 /\ File = Top.file
  BY <1>1, TopFacts
<1>3. fr.fn = "check_dep" /\ fr.at = "deps" /\ fr.i = 1 /\ fr.file = File
  BY <1>1, <1>2 DEF Frames
<1>4. Through(fr) = {}
  BY <1>1, <1>3, ThroughFacts
<1>5. QED
  BY <1>3, <1>4 DEF LoopInv

\* A call is made from the loop.
LEMMA CheckDepLoop ==
  ASSUME MadeInv, LoopsInv, CheckDep, NEW fr, fr = [Top EXCEPT !.at = "checked"]
  PROVE  LoopInv(fr)
<1>1. pc = "walk" /\ Top.at = "deps"
  BY DEF CheckDep
<1>2. Top \in Frames /\ Top \in Range(stack)
  BY <1>1, TopFacts
<1>3. /\ fr.fn = Top.fn /\ fr.at = "checked" /\ fr.file = Top.file /\ fr.must_make = Top.must_make
      /\ fr.i = Top.i /\ fr.this_mtime = Top.this_mtime /\ fr.dep_status = Top.dep_status
      /\ fr.running = Top.running
  BY <1>2 DEF Frames
<1>4. Through(fr) = Through(Top) /\ Waits(fr) = Waits(Top)
  BY <1>1, <1>3 DEF Through, Waits
<1>5. LoopInv(Top)
  BY <1>2 DEF LoopsInv
<1>6. QED
  BY <1>1, <1>3, <1>4, <1>5 DEF LoopInv

\* A dependency has been checked.
LEMMA DepCheckedLoop ==
  ASSUME MadeInv, LoopsInv, ResultInv, DepChecked,
         NEW st, st = Or(Top.dep_status, ret.status), NEW fr, fr = CheckedFrame(st)
  PROVE  LoopInv(fr) \/ (fr.fn = "check_dep" /\ command_state'[File] = "deps_running")
<1>1. pc = "walk" /\ Top.at = "checked" /\ ret.status \in Statuses /\ ret.must_make \in BOOLEAN
      /\ FileTypes
  BY DEF DepChecked, MadeInv, WalkInv, TypeOK, WalkTypes
<1>2. /\ Top \in Frames /\ Top \in Range(stack) /\ File = Top.file /\ Top.i \in Nat \ {0}
      /\ deps[File] \in Seq(Files) /\ Top.i <= Len(deps[File]) /\ File \in Files
      /\ Top.must_make \in BOOLEAN /\ Top.running \in BOOLEAN /\ Top.dep_status \in Statuses
      /\ Top.fn \in {"update_file", "check_dep"}
  BY <1>1, TopFacts DEF Placed
<1>3. /\ fr.fn = Top.fn /\ fr.at = "deps" /\ fr.file = Top.file /\ fr.dep_status = st
      /\ fr.this_mtime = Top.this_mtime
      /\ fr.i = IF GivesUp(st) THEN Len(deps[File]) + 1 ELSE Top.i + 1
  BY <1>2 DEF Frames, CheckedFrame
<1>4. fr.must_make = (Top.must_make \/ ret.must_make)
  BY <1>2 DEF Frames, CheckedFrame
<1>5. fr.running = (Top.running \/ (Top.fn = "update_file" /\ BeingMade(Dep)))
  BY <1>2 DEF Frames, CheckedFrame
<1>6. st = 0 => Top.dep_status = 0 /\ ret.status = 0
  BY <1>1, <1>2 DEF Or
<1>7. LoopInv(Top)
  BY <1>2 DEF LoopsInv
<1>8. fr.fn = "update_file" /\ ~fr.must_make => fr.this_mtime # NoTime
  BY <1>1, <1>3, <1>4, <1>7 DEF LoopInv
<1>9. ASSUME ~(fr.fn = "check_dep" /\ command_state'[File] = "deps_running"),
             fr.dep_status = 0 \/ keep_going_flag, ~Waits(fr)
      PROVE  /\ Through(fr) \ Intermediate \subseteq updated
             /\ ~fr.must_make =>
                  \A d \in Through(fr) : Unneeded(d, fr.dep_status, fr.this_mtime)
  <2>1. ~GivesUp(st) /\ fr.i = Top.i + 1
    BY <1>3, <1>9 DEF GivesUp
  <2>2. ~BeingMade(Dep) /\ ~Waits(Top)
    <3>1. CASE Top.fn = "update_file"
      BY <1>3, <1>5, <1>9, <3>1 DEF Waits
    <3>2. CASE Top.fn = "check_dep"
      <4>1. command_state' = IF BeingMade(Dep)
                             THEN [command_state EXCEPT ![File] = "deps_running"]
                             ELSE command_state
        BY <1>1, <2>1, <3>2 DEF DepChecked
      <4>2. ~BeingMade(Dep)
        BY <1>1, <1>2, <1>3, <1>9, <3>2, <4>1 DEF FileTypes
      <4>3. QED
        BY <1>2, <1>3, <1>9, <3>2, <4>2 DEF Waits
    <3>3. QED
      BY <1>2, <3>1, <3>2
  <2>3. Through(fr) = Through(Top) \cup {Dep}
    <3>1. {n \in 1 .. Len(deps[File]) : fr.at \in {"deps", "checked"} => n < fr.i}
            = {n \in 1 .. Len(deps[File]) : Top.at \in {"deps", "checked"} => n < Top.i}
              \cup {Top.i}
      BY <1>1, <1>2, <1>3, <2>1
    <3>2. QED
      BY <1>2, <1>3, <3>1 DEF Through, Dep
  <2>4. Top.dep_status = 0 \/ keep_going_flag
    BY <1>3, <1>6, <1>9
  <2>5. ret.status = 0 \/ keep_going_flag
    BY <1>3, <1>6, <1>9
  <2>6. Through(Top) \ Intermediate \subseteq updated
    BY <1>1, <1>7, <2>2, <2>4 DEF LoopInv
  <2>7. Dep \in updated \/ Dep \in Intermediate
    BY <1>1, <2>2 DEF ResultInv
  <2>8. ASSUME ~fr.must_make, NEW d \in Through(fr)
        PROVE  Unneeded(d, fr.dep_status, fr.this_mtime)
    <3>1. ~Top.must_make /\ ~ret.must_make
      BY <1>4, <2>8
    <3>2. CASE d \in Through(Top)
      <4>1. Unneeded(d, Top.dep_status, Top.this_mtime)
        BY <1>1, <1>7, <2>2, <2>4, <3>1, <3>2 DEF LoopInv
      <4>2. QED
        BY <1>3, <1>6, <4>1 DEF Unneeded
    <3>3. CASE d = Dep
      <4>1. Unneeded(d, ret.status, Top.this_mtime)
        BY <1>1, <2>2, <2>5, <3>1, <3>3 DEF ResultInv
      <4>2. QED
        BY <1>3, <1>6, <4>1 DEF Unneeded
    <3>4. QED
      BY <2>3, <2>8, <3>2, <3>3
  <2>9. QED
    BY <2>3, <2>6, <2>7, <2>8
<1>10. QED
  BY <1>3, <1>8, <1>9 DEF LoopInv

\* The first loop is over.
LEMMA DepsDoneLoop ==
  ASSUME MadeInv, LoopsInv, DepsDone,
         NEW fr, fr = [Top EXCEPT !.at = IF Top.must_make THEN "inter" ELSE "decide", !.i = 1]
  PROVE  LoopInv(fr)
<1>1. pc = "walk" /\ Top.fn = "update_file" /\ Top.at = "deps" /\ ~MoreDeps
  BY DEF DepsDone, Walking
<1>2. /\ Top \in Frames /\ Top \in Range(stack) /\ File = Top.file /\ Top.i \in Nat
      /\ deps[File] \in Seq(Files) /\ Top.must_make \in BOOLEAN
  BY <1>1, TopFacts
<1>3. /\ fr.fn = "update_file" /\ fr.file = Top.file /\ fr.must_make = Top.must_make
      /\ fr.i = 1 /\ fr.this_mtime = Top.this_mtime /\ fr.dep_status = Top.dep_status
      /\ fr.running = Top.running /\ fr.at = IF Top.must_make THEN "inter" ELSE "decide"
  BY <1>1, <1>2 DEF Frames
<1>4. Through(fr) = Range(deps[File])
  <2>1. fr.file = File /\ fr.at \notin {"deps", "checked"}
    BY <1>2, <1>3
  <2>2. QED
    BY <1>1, <2>1, ThroughFacts
<1>5. Through(Top) = Range(deps[File])
  <2>1. Top.i > Len(deps[File])
    BY <1>1, <1>2 DEF MoreDeps
  <2>2. QED
    BY <1>1, <1>2, <2>1, ThroughFacts
<1>6. LoopInv(Top)
  BY <1>2 DEF LoopsInv
<1>7. \A m \in 1 .. Len(deps[File]) : ~(m < fr.i)
  BY <1>3
<1>8. QED
  BY <1>1, <1>2, <1>3, <1>4, <1>5, <1>6, <1>7 DEF LoopInv, Waits

\* An intermediate file is updated; those before it were or are not intermediate.
LEMMA UpdateIntermediateLoop ==
  ASSUME MadeInv, LoopsInv, UpdateIntermediate,
         NEW fr, fr = [Top EXCEPT !.at = "inter_done", !.i = Min(RestIntermediate)]
  PROVE  LoopInv(fr)
<1>1. pc = "walk" /\ Top.fn = "update_file" /\ Top.at = "inter" /\ RestIntermediate # {}
  BY DEF UpdateIntermediate, Walking
<1>2. /\ Top \in Frames /\ Top \in Range(stack) /\ File = Top.file /\ Top.i \in Nat \ {0}
      /\ deps[File] \in Seq(Files)
  BY <1>1, TopFacts
<1> DEFINE next == Min(RestIntermediate)
<1>3. next \in 1 .. Len(deps[File]) /\ \A j \in RestIntermediate : next <= j
  <2>1. RestIntermediate \subseteq Nat /\ RestIntermediate \subseteq 1 .. Len(deps[File])
    BY <1>2 DEF RestIntermediate
  <2>2. QED
    BY <1>1, <2>1, MinIsLeast
<1> HIDE DEF next
<1>4. fr = [Top EXCEPT !.at = "inter_done", !.i = next]
  BY DEF next
<1>5. /\ fr.fn = "update_file" /\ fr.file = Top.file /\ fr.must_make = Top.must_make
      /\ fr.i = next /\ fr.this_mtime = Top.this_mtime /\ fr.dep_status = Top.dep_status
      /\ fr.running = Top.running /\ fr.at = "inter_done"
  BY <1>1, <1>2, <1>4 DEF Frames
<1>6. Through(fr) = Range(deps[File]) /\ Through(Top) = Range(deps[File])
  BY <1>1, <1>2, <1>5, ThroughFacts
<1>7. LoopInv(Top) /\ Waits(fr) = Waits(Top)
  BY <1>1, <1>2, <1>5 DEF LoopsInv, Waits
<1>8. ASSUME fr.dep_status = 0 \/ keep_going_flag, ~Waits(fr),
             NEW m \in 1 .. Len(deps[File]), m < next
      PROVE  deps[File][m] \in updated
  <2>1. CASE m < Top.i
    BY <1>1, <1>2, <1>5, <1>7, <1>8, <2>1 DEF LoopInv
  <2>2. CASE ~(m < Top.i)
    <3>1. m \notin RestIntermediate
      BY <1>2, <1>3, <1>8
    <3>2. m \in Top.i .. Len(deps[File])
      BY <1>2, <1>8, <2>2
    <3>3. deps[File][m] \in Range(deps[File]) \ Intermediate
      BY <1>2, <1>8, <3>1, <3>2 DEF RestIntermediate, Range
    <3>4. QED
      BY <1>1, <1>2, <1>5, <1>6, <1>7, <1>8, <3>3 DEF LoopInv
  <2>3. QED
    BY <2>1, <2>2
<1>9. QED
  BY <1>1, <1>2, <1>5, <1>6, <1>7, <1>8 DEF LoopInv

\* An intermediate file has been updated.
LEMMA IntermediateUpdatedLoop ==
  ASSUME MadeInv, LoopsInv, ResultInv, IntermediateUpdated,
         NEW st, st = Or(Top.dep_status, ret.status),
         NEW fr, fr = [Top EXCEPT !.at = IF GivesUp(st) THEN "decide" ELSE "inter",
                                  !.dep_status = st, !.i = @ + 1,
                                  !.running = @ \/ BeingMade(Dep)]
  PROVE  LoopInv(fr)
<1>1. /\ pc = "walk" /\ Top.fn = "update_file" /\ Top.at = "inter_done"
      /\ ret.status \in Statuses
  BY DEF IntermediateUpdated, Walking, MadeInv, WalkInv, TypeOK, WalkTypes
<1>2. /\ Top \in Frames /\ Top \in Range(stack) /\ File = Top.file /\ Top.i \in Nat \ {0}
      /\ deps[File] \in Seq(Files) /\ Top.running \in BOOLEAN /\ Top.dep_status \in Statuses
  BY <1>1, TopFacts
<1>3. /\ fr.fn = "update_file" /\ fr.file = Top.file /\ fr.must_make = Top.must_make
      /\ fr.i = Top.i + 1 /\ fr.this_mtime = Top.this_mtime /\ fr.dep_status = st
      /\ fr.at = IF GivesUp(st) THEN "decide" ELSE "inter"
  BY <1>1, <1>2 DEF Frames
<1>4. fr.running = (Top.running \/ BeingMade(Dep))
  BY <1>2 DEF Frames
<1>5. st = 0 => Top.dep_status = 0 /\ ret.status = 0
  BY <1>1, <1>2 DEF Or
<1>6. Through(fr) = Range(deps[File]) /\ Through(Top) = Range(deps[File])
  <2>1. fr.file = File /\ fr.at \notin {"deps", "checked"}
    BY <1>2, <1>3
  <2>2. QED
    BY <1>1, <1>2, <2>1, ThroughFacts
<1>7. LoopInv(Top)
  BY <1>2 DEF LoopsInv
<1>8. fr.fn = "update_file" /\ ~fr.must_make => fr.this_mtime # NoTime
  BY <1>1, <1>3, <1>7 DEF LoopInv
<1>9. ASSUME fr.dep_status = 0 \/ keep_going_flag, ~Waits(fr)
      PROVE  /\ fr.at = "inter"
             /\ Through(fr) \ Intermediate \subseteq updated
             /\ ~fr.must_make =>
                  \A d \in Through(fr) : Unneeded(d, fr.dep_status, fr.this_mtime)
             /\ \A m \in 1 .. Len(deps[File]) : m < fr.i => deps[File][m] \in updated
  <2>1. fr.at = "inter" /\ ~Top.running /\ ~BeingMade(Dep)
    BY <1>2, <1>3, <1>4, <1>9 DEF GivesUp, Waits
  <2>2. (Top.dep_status = 0 \/ keep_going_flag) /\ ~Waits(Top)
    BY <1>1, <1>3, <1>5, <1>9, <2>1 DEF Waits
  <2>3. Through(fr) \ Intermediate \subseteq updated
    BY <1>1, <1>6, <1>7, <2>2 DEF LoopInv
  <2>4. ASSUME ~fr.must_make, NEW d \in Through(fr)
        PROVE  Unneeded(d, fr.dep_status, fr.this_mtime)
    <3>1. Unneeded(d, Top.dep_status, Top.this_mtime)
      BY <1>1, <1>3, <1>6, <1>7, <2>2, <2>4 DEF LoopInv
    <3>2. QED
      BY <1>3, <1>5, <3>1 DEF Unneeded
  <2>5. deps[File][Top.i] \in updated
    BY <1>1, <2>1 DEF ResultInv, Dep
  <2>6. \A m \in 1 .. Len(deps[File]) : m < Top.i => deps[File][m] \in updated
    BY <1>1, <1>2, <1>7, <2>2 DEF LoopInv
  <2>7. \A m \in 1 .. Len(deps[File]) : m < fr.i => deps[File][m] \in updated
    <3> TAKE m \in 1 .. Len(deps[File])
    <3>1. m < fr.i => m < Top.i \/ m = Top.i
      BY <1>2, <1>3
    <3>2. QED
      BY <2>5, <2>6, <3>1
  <2>8. QED
    BY <2>1, <2>3, <2>4, <2>7
<1>10. QED
  BY <1>2, <1>3, <1>8, <1>9 DEF LoopInv

\* All intermediate files have been updated.
LEMMA IntermediatesDoneLoop ==
  ASSUME MadeInv, LoopsInv, IntermediatesDone, NEW fr, fr = [Top EXCEPT !.at = "decide"]
  PROVE  LoopInv(fr)
<1>1. pc = "walk" /\ Top.fn = "update_file" /\ Top.at = "inter" /\ RestIntermediate = {}
  BY DEF IntermediatesDone, Walking
<1>2. /\ Top \in Frames /\ Top \in Range(stack) /\ File = Top.file /\ Top.i \in Nat \ {0}
      /\ deps[File] \in Seq(Files)
  BY <1>1, TopFacts
<1>3. /\ fr.fn = "update_file" /\ fr.file = Top.file /\ fr.must_make = Top.must_make
      /\ fr.i = Top.i /\ fr.this_mtime = Top.this_mtime /\ fr.dep_status = Top.dep_status
      /\ fr.running = Top.running /\ fr.at = "decide"
  BY <1>1, <1>2 DEF Frames
<1>4. Through(fr) = Range(deps[File]) /\ Through(Top) = Range(deps[File])
  BY <1>1, <1>2, <1>3, ThroughFacts
<1>5. LoopInv(Top) /\ Waits(fr) = Waits(Top)
  BY <1>1, <1>2, <1>3 DEF LoopsInv, Waits
<1>6. ASSUME fr.dep_status = 0 \/ keep_going_flag, ~Waits(fr), NEW d \in Range(deps[File])
      PROVE  d \in updated
  <2>1. PICK m \in 1 .. Len(deps[File]) : d = deps[File][m]
    BY <1>2 DEF Range
  <2>2. CASE m < Top.i
    BY <1>1, <1>2, <1>3, <1>5, <1>6, <2>1, <2>2 DEF LoopInv
  <2>3. CASE ~(m < Top.i)
    <3>1. m \in Top.i .. Len(deps[File])
      BY <1>2, <2>1, <2>3
    <3>2. d \notin Intermediate
      BY <1>1, <2>1, <3>1 DEF RestIntermediate
    <3>3. QED
      BY <1>1, <1>2, <1>3, <1>4, <1>5, <1>6, <3>2 DEF LoopInv
  <2>4. QED
    BY <2>2, <2>3
<1>7. QED
  BY <1>1, <1>2, <1>3, <1>4, <1>5, <1>6 DEF LoopInv

\* All dependencies are made.
LEMMA DepsMadeLoop ==
  ASSUME MadeInv, LoopsInv, DepsMade,
         NEW fr, fr = [Top EXCEPT !.at = "remake",
                         !.must_make = @ \/ \E d \in Range(deps[File]) \ Intermediate :
                                              file_mtime(d) = NoTime]
  PROVE  LoopInv(fr)
<1>1. pc = "walk" /\ Top.fn = "update_file" /\ Top.at = "decide"
  BY DEF DepsMade, Walking
<1>2. Top \in Frames /\ Top \in Range(stack) /\ File = Top.file /\ Top.must_make \in BOOLEAN
  BY <1>1, TopFacts
<1>3. /\ fr.fn = "update_file" /\ fr.file = Top.file /\ fr.this_mtime = Top.this_mtime
      /\ fr.dep_status = Top.dep_status /\ fr.running = Top.running /\ fr.at = "remake"
  BY <1>1, <1>2 DEF Frames
<1>4. Through(fr) = Range(deps[File]) /\ Through(Top) = Range(deps[File])
  BY <1>1, <1>2, <1>3, ThroughFacts
<1>5. fr.must_make = Top.must_make
  <2>1. fr.must_make = (Top.must_make \/ \E d \in Range(deps[File]) \ Intermediate :
                                            file_mtime(d) = NoTime)
    BY <1>2 DEF Frames
  <2>2. QED
    BY <1>2, <2>1, NoOtherReason
<1>6. LoopInv(Top) /\ Waits(fr) = Waits(Top)
  BY <1>1, <1>2, <1>3 DEF LoopsInv, Waits
<1>7. QED
  BY <1>1, <1>2, <1>3, <1>4, <1>5, <1>6 DEF LoopInv

\* The dependency dropped is not one that the loop has been through.
LEMMA DropCircularLoop ==
  ASSUME NoIntermediateCycle, MadeInv, LoopsInv, [Next]_vars, DropCircular, NEW fr, fr = Top
  PROVE  LoopInv(fr)'
<1>1. pc = "walk" /\ UNCHANGED <<update_status, updated, disk, keep_going_flag>>
  BY DEF DropCircular, jobVars, switchVars
<1>2. /\ fr.fn = "update_file" /\ fr.at = "deps" /\ LoopInv(fr) /\ Through(fr)' = Through(fr)
  BY <1>1, TopFacts, DropCircularThrough DEF LoopsInv
<1>3. \A d, st, t : Unneeded(d, st, t)' <=> Unneeded(d, st, t)
  BY <1>1 DEF Unneeded
<1>4. Waits(fr)' = Waits(fr)
  BY <1>2 DEF Waits
<1>5. QED
  BY <1>1, <1>2, <1>3, <1>4 DEF LoopInv

\* The steps that return hand up a status.
LEMMA Returns ==
  ASSUME MadeInv,
         \/ AlreadyUpdated \/ NewJobReturns \/ WaitForDeps \/ GiveUpOnTarget \/ NoNeedToRemake
         \/ PretendRemade \/ FileChecked \/ IntermediateIsNewer \/ IntermediateChecked
  PROVE  stack # <<>> /\ \E st \in Statuses, mm \in BOOLEAN : Return(st, mm)
<1>1. pc \in {"walk", "new_job"}
  BY DEF AlreadyUpdated, NewJobReturns, WaitForDeps, GiveUpOnTarget, NoNeedToRemake,
    PretendRemade, Remaking, FileChecked, IntermediateIsNewer, IntermediateChecked, Walking
<1>2. /\ stack # <<>> /\ File \in Files /\ Top.dep_status \in Statuses
      /\ Top.must_make \in BOOLEAN /\ ret.status \in Statuses /\ {0, 2} \subseteq Statuses
      /\ TRUE \in BOOLEAN /\ FALSE \in BOOLEAN
  BY <1>1, TopFacts DEF MadeInv, WalkInv, TypeOK, WalkTypes, Statuses
<1>3. UpdateResult(File) \in Statuses
  BY <1>2 DEF MadeInv, WalkInv, PlacesInv, UpdateResult
<1>4. (file_mtime(File) = NoTime \/ Newer(file_mtime(File))) \in BOOLEAN
  BY DEF Newer
<1>5. \/ Return(UpdateResult(File), FALSE) \/ Return(Top.dep_status, FALSE) \/ Return(0, FALSE)
      \/ Return(Top.dep_status, Top.must_make) \/ Return(0, TRUE)
      \/ Return(ret.status, file_mtime(File) = NoTime \/ Newer(file_mtime(File)))
  BY DEF AlreadyUpdated, NewJobReturns, WaitForDeps, GiveUpOnTarget, NoNeedToRemake,
    PretendRemade, FileChecked, IntermediateIsNewer, IntermediateChecked
<1>6. QED
  BY <1>2, <1>3, <1>4, <1>5

\* Every step keeps what the calls know of their dependencies.
LEMMA LoopsStep ==
  NoIntermediateCycle /\ MadeInv /\ LoopsInv /\ ResultInv /\ [Next]_vars => LoopsInv'
<1> SUFFICES ASSUME NoIntermediateCycle, MadeInv, LoopsInv, ResultInv, [Next]_vars
             PROVE  LoopsInv'
  OBVIOUS
<1>a. /\ WalkTypes /\ WalkTypes' /\ FileTypes /\ (pc \in {"walk", "new_job"} => stack # <<>>)
      /\ UNCHANGED keep_going_flag
  BY WalkTypesStep, SwitchesKept DEF MadeInv, WalkInv, TypeOK, WalkTypes, switchVars
<1>1. CASE StartUpdate
  <2>1. PICK fr : fr = [Top EXCEPT !.at = "deps", !.this_mtime = file_mtime(File),
                                   !.must_make = (file_mtime(File) = NoTime)]
    OBVIOUS
  <2>2. Continue(fr) /\ UNCHANGED <<update_status, updated, disk, deps>> /\ pc = "walk"
    BY <1>1, <2>1 DEF StartUpdate, Walking, jobVars
  <2>3. LoopInv(fr) /\ stack # <<>>
    BY <1>1, <1>a, <2>1, <2>2, StartUpdateLoop
  <2>4. fr \in Frames /\ stack' = <<fr>> \o Tail(stack)
    BY <1>a, <2>2, <2>3, ContinueFrame DEF Continue
  <2>5. LoopInv(fr)'
    <3>1. fr.fn = "update_file"
      BY <1>1, <2>1, <2>2, StartUpdateCall DEF StartUpdate, Walking
    <3>2. QED
      BY <1>a, <2>2, <2>3, <3>1, LoopLifted
  <2>6. QED
    BY <2>3, <2>4, <2>5, ContinueLoops
<1>2. CASE CheckIntermediate
  <2>1. PICK fr : fr = [Top EXCEPT !.at = "deps"]
    OBVIOUS
  <2>2. Continue(fr) /\ UNCHANGED <<update_status, updated, disk, deps>> /\ pc = "walk"
    BY <1>2, <2>1 DEF CheckIntermediate, Walking, jobVars
  <2>3. LoopInv(fr) /\ stack # <<>>
    BY <1>2, <1>a, <2>1, <2>2, CheckIntermediateLoop
  <2>4. fr \in Frames /\ stack' = <<fr>> \o Tail(stack)
    BY <1>a, <2>2, <2>3, ContinueFrame DEF Continue
  <2>5. LoopInv(fr)'
    BY <1>2, <1>a, <2>2, <2>3, LoopLifted DEF CheckIntermediate
  <2>6. QED
    BY <2>3, <2>4, <2>5, ContinueLoops
<1>3. CASE DepsDone
  <2>1. PICK fr : fr = [Top EXCEPT !.at = IF Top.must_make THEN "inter" ELSE "decide", !.i = 1]
    OBVIOUS
  <2>2. Continue(fr) /\ UNCHANGED <<update_status, updated, disk, deps>> /\ pc = "walk"
    BY <1>3, <2>1 DEF DepsDone, Walking, jobVars, fileVars
  <2>3. LoopInv(fr) /\ stack # <<>>
    BY <1>3, <1>a, <2>1, <2>2, DepsDoneLoop
  <2>4. fr \in Frames /\ stack' = <<fr>> \o Tail(stack)
    BY <1>a, <2>2, <2>3, ContinueFrame DEF Continue
  <2>5. LoopInv(fr)'
    <3>1. fr.fn = "update_file"
      BY <1>3, <2>1, <2>2, DepsDoneCall DEF DepsDone, Walking
    <3>2. QED
      BY <1>a, <2>2, <2>3, <3>1, LoopLifted
  <2>6. QED
    BY <2>3, <2>4, <2>5, ContinueLoops
<1>4. CASE IntermediatesDone
  <2>1. PICK fr : fr = [Top EXCEPT !.at = "decide"]
    OBVIOUS
  <2>2. Continue(fr) /\ UNCHANGED <<update_status, updated, disk, deps>> /\ pc = "walk"
    BY <1>4, <2>1 DEF IntermediatesDone, Walking, jobVars, fileVars
  <2>3. LoopInv(fr) /\ stack # <<>>
    BY <1>4, <1>a, <2>1, <2>2, IntermediatesDoneLoop
  <2>4. fr \in Frames /\ stack' = <<fr>> \o Tail(stack)
    BY <1>a, <2>2, <2>3, ContinueFrame DEF Continue
  <2>5. LoopInv(fr)'
    <3>1. fr.fn = "update_file"
      BY <1>4, <2>1, <2>2, IntermediatesDoneCall DEF IntermediatesDone, Walking
    <3>2. QED
      BY <1>a, <2>2, <2>3, <3>1, LoopLifted
  <2>6. QED
    BY <2>3, <2>4, <2>5, ContinueLoops
<1>5. CASE DepsMade
  <2>1. PICK fr : fr = [Top EXCEPT !.at = "remake",
                          !.must_make = @ \/ \E d \in Range(deps[File]) \ Intermediate :
                                               file_mtime(d) = NoTime]
    OBVIOUS
  <2>2. Continue(fr) /\ UNCHANGED <<update_status, updated, disk, deps>> /\ pc = "walk"
    BY <1>5, <2>1 DEF DepsMade, Walking, jobVars
  <2>3. LoopInv(fr) /\ stack # <<>>
    BY <1>5, <1>a, <2>1, <2>2, DepsMadeLoop
  <2>4. fr \in Frames /\ stack' = <<fr>> \o Tail(stack)
    BY <1>a, <2>2, <2>3, ContinueFrame DEF Continue
  <2>5. LoopInv(fr)'
    <3>1. fr.fn = "update_file"
      BY <1>5, <2>1, <2>2, DepsMadeCall DEF DepsMade, Walking
    <3>2. QED
      BY <1>a, <2>2, <2>3, <3>1, LoopLifted
  <2>6. QED
    BY <2>3, <2>4, <2>5, ContinueLoops
<1>6. CASE DepChecked
  <2>1. PICK st : st = Or(Top.dep_status, ret.status)
    OBVIOUS
  <2>2. PICK fr : fr = CheckedFrame(st)
    OBVIOUS
  <2>3. Continue(fr) /\ UNCHANGED <<update_status, updated, disk, deps>> /\ pc = "walk"
    BY <1>6, <2>1, <2>2 DEF DepChecked, CheckedFrame, jobVars
  <2>4. fr.file = File /\ fr.fn = Top.fn /\ File \in Files /\ stack # <<>>
    BY <1>6, <1>a, <2>1, <2>2, <2>3, DepCheckedCall, TopFacts
  <2>5. CASE LoopInv(fr)
    <3>1. command_state'[File] \in {command_state[File], "deps_running"}
      BY <1>6, <1>a, <2>4 DEF DepChecked, FileTypes
    <3>2. LoopInv(fr)'
      BY <1>a, <2>3, <2>4, <2>5, <3>1, LoopLifted
    <3>3. QED
      BY <1>a, <2>3, <2>4, <3>2, ContinueFrame, ContinueLoops DEF Continue
  <2>6. CASE fr.fn = "check_dep" /\ command_state'[File] = "deps_running"
    <3>1. Waits(fr)' /\ LoopInv(fr)'
      BY <2>4, <2>6 DEF Waits, LoopInv
    <3>2. QED
      BY <1>a, <2>3, <2>4, <3>1, ContinueFrame, ContinueLoops DEF Continue
  <2>7. QED
    BY <1>6, <2>1, <2>2, <2>5, <2>6, DepCheckedLoop
<1>7. CASE IntermediateUpdated
  <2>1. PICK st : st = Or(Top.dep_status, ret.status)
    OBVIOUS
  <2>2. PICK fr : fr = [Top EXCEPT !.at = IF GivesUp(st) THEN "decide" ELSE "inter",
                          !.dep_status = st, !.i = @ + 1,
                          !.running = @ \/ BeingMade(Dep)]
    OBVIOUS
  <2>3. Continue(fr) /\ UNCHANGED <<update_status, updated, disk, deps>> /\ pc = "walk"
    BY <1>7, <2>1, <2>2 DEF IntermediateUpdated, Walking, jobVars
  <2>4. LoopInv(fr) /\ fr.fn = "update_file" /\ stack # <<>>
    <3>1. LoopInv(fr)
      BY <1>7, <2>1, <2>2, IntermediateUpdatedLoop
    <3>2. fr.fn = Top.fn
      BY <1>7, <2>1, <2>2, IntermediateUpdatedCall
    <3>3. QED
      BY <1>7, <1>a, <2>3, <3>1, <3>2 DEF IntermediateUpdated, Walking
  <2>5. fr \in Frames /\ stack' = <<fr>> \o Tail(stack)
    BY <1>a, <2>3, <2>4, ContinueFrame DEF Continue
  <2>6. LoopInv(fr)'
    BY <1>a, <2>3, <2>4, LoopLifted
  <2>7. QED
    BY <2>4, <2>5, <2>6, ContinueLoops
<1>8. CASE RemakeFile
  <2>1. PICK fr : fr = [Top EXCEPT !.at = "job"]
    OBVIOUS
  <2>2. stack' = <<fr>> \o Tail(stack) /\ pc = "walk" /\ stack # <<>>
    BY <1>8, <1>a, <2>1 DEF RemakeFile, MustRun, Remaking, Walking
  <2>3. Top \in Frames
    BY <2>2, TopFacts
  <2>4. fr \in Frames /\ fr.at = "job"
    BY <2>1, <2>3 DEF Frames
  <2>5. LoopInv(fr)'
    BY <2>4 DEF LoopInv
  <2>6. QED
    BY <2>2, <2>4, <2>5, ContinueLoops
<1>9. CASE CheckDep
  <2>1. PICK fr : fr = [Top EXCEPT !.at = "checked"]
    OBVIOUS
  <2>2. PICK callee : callee = NewFrame("check_dep", Dep, Top.this_mtime)
    OBVIOUS
  <2>3. /\ Call(fr, callee) /\ UNCHANGED <<update_status, updated, disk, deps>>
        /\ UNCHANGED command_state /\ stack # <<>> /\ pc = "walk" /\ Top.at = "deps" /\ MoreDeps
    BY <1>9, <1>a, <2>1, <2>2 DEF CheckDep, jobVars
  <2>4. LoopInv(fr)
    BY <1>9, <2>1, CheckDepLoop
  <2>5. LoopInv(fr)'
    BY <1>a, <2>3, <2>4, LoopLifted
  <2>6. Top \in Frames /\ Dep \in Files /\ Top.this_mtime \in Times
    BY <2>3, TopFacts, ThroughFacts
  <2>7. fr \in Frames /\ callee \in Frames
    BY <2>1, <2>2, <2>6, NewFrameType DEF Frames
  <2>8. callee.at = "entry"
    BY <2>2 DEF NewFrame
  <2>9. QED
    BY <2>3, <2>5, <2>7, <2>8, CallLoops
<1>10. CASE UpdateIntermediate
  <2>1. PICK next : next = Min(RestIntermediate)
    OBVIOUS
  <2>2. PICK fr : fr = [Top EXCEPT !.at = "inter_done", !.i = next]
    OBVIOUS
  <2>3. PICK callee : callee = NewFrame("update_file", deps[File][next], NoTime)
    OBVIOUS
  <2>4. /\ Call(fr, callee) /\ UNCHANGED <<update_status, updated, disk, deps>>
        /\ stack # <<>> /\ pc = "walk" /\ Top.fn = "update_file"
    BY <1>10, <1>a, <2>1, <2>2, <2>3 DEF UpdateIntermediate, Walking, jobVars
  <2>5. LoopInv(fr) /\ fr.fn = Top.fn /\ next \in 1 .. Len(deps[File])
    BY <1>10, <2>1, <2>2, UpdateIntermediateLoop, UpdateIntermediateCall
  <2>6. LoopInv(fr)'
    BY <1>a, <2>4, <2>5, LoopLifted
  <2>7. Top \in Frames /\ deps[File] \in Seq(Files)
    BY <2>4, TopFacts
  <2>8. deps[File][next] \in Files /\ NoTime \in Times /\ next \in Nat \ {0}
    BY <2>5, <2>7 DEF Times
  <2>9. fr \in Frames /\ callee \in Frames
    <3>1. callee \in Frames
      BY <2>3, <2>8, NewFrameType
    <3>2. fr \in Frames
      BY <2>2, <2>7, <2>8 DEF Frames
    <3>3. QED
      BY <3>1, <3>2
  <2>10. callee.at = "entry"
    BY <2>3 DEF NewFrame
  <2>11. QED
    BY <2>4, <2>6, <2>9, <2>10, CallLoops
<1>11. CASE CheckFile
  <2>1. PICK fr : fr = [Top EXCEPT !.at = "file"]
    OBVIOUS
  <2>2. PICK callee : callee = NewFrame("update_file", File, NoTime)
    OBVIOUS
  <2>3. Call(fr, callee) /\ stack # <<>> /\ pc = "walk"
    BY <1>11, <1>a, <2>1, <2>2 DEF CheckFile, Walking
  <2>4. Top \in Frames /\ File \in Files
    BY <2>3, TopFacts
  <2>5. fr.at = "file" /\ fr \in Frames
    BY <2>1, <2>4 DEF Frames
  <2>6. LoopInv(fr)'
    BY <2>5 DEF LoopInv
  <2>7. callee \in Frames /\ callee.at = "entry"
    <3>1. callee \in Frames
      BY <2>2, <2>4, NewFrameType DEF Times
    <3>2. QED
      BY <2>2, <3>1 DEF NewFrame
  <2>8. QED
    BY <2>3, <2>5, <2>6, <2>7, CallLoops
<1>12. CASE DropCircular
  <2>1. PICK fr : fr = Top
    OBVIOUS
  <2>2. LoopInv(fr)'
    BY <1>12, <2>1, DropCircularLoop
  <2>3. UNCHANGED stack
    BY <1>12 DEF DropCircular
  <2>4. Top' = fr
    BY <2>1, <2>3 DEF Top
  <2>5. LoopInv(Top)'
    BY <2>2, <2>4
  <2>6. QED
    BY <2>3, <2>5, SameLoops
<1>13. ASSUME stack # <<>>, \E st \in Statuses, mm \in BOOLEAN : Return(st, mm)
       PROVE  LoopsInv'
  BY <1>13, ReturnLoops
<1>14. CASE AlreadyUpdated \/ NewJobReturns \/ WaitForDeps \/ GiveUpOnTarget
            \/ NoNeedToRemake \/ PretendRemade
            \/ FileChecked \/ IntermediateIsNewer \/ IntermediateChecked
  BY <1>a, <1>14, <1>13, Returns
<1>15. CASE NoRule
  <2>1. pc = "walk" /\ stack # <<>>
    BY <1>15, <1>a DEF NoRule, Remaking, Walking
  <2>2. CASE Return(2, FALSE)
    <3>1. 2 \in Statuses /\ FALSE \in BOOLEAN
      BY DEF Statuses
    <3>2. QED
      BY <1>13, <2>1, <2>2, <3>1
  <2>3. CASE UNCHANGED <<stack, command_state, update_status, updated>>
    <3>1. PICK fr : fr = Top
      OBVIOUS
    <3>2. LoopInv(fr)
      BY <2>1, <3>1, TopFacts DEF LoopsInv
    <3>3. LoopInv(fr)'
      BY <1>a, <1>15, <2>3, <3>2, LoopLifted DEF NoRule, jobVars
    <3>4. Top' = fr
      BY <2>3, <3>1 DEF Top
    <3>5. LoopInv(Top)'
      BY <3>3, <3>4
    <3>6. QED
      BY <2>3, <3>5, SameLoops
  <2>4. QED
    BY <1>15, <2>2, <2>3 DEF NoRule
<1>16. CASE ConsiderGoal
  <2>1. PICK callee : callee = NewFrame("update_file", goals[g], NoTime)
    OBVIOUS
  <2>2. stack' = <<callee>> /\ callee.at = "entry"
    BY <1>16, <2>1 DEF ConsiderGoal, NewFrame
  <2>3. Range(stack') = {callee}
    BY <2>2 DEF Range
  <2>4. LoopInv(callee)'
    BY <2>2 DEF LoopInv
  <2>5. QED
    BY <2>3, <2>4 DEF LoopsInv
<1>17. CASE UNCHANGED stack /\ (pc # "walk" \/ UNCHANGED vars)
  <2>1. ASSUME stack # <<>>
        PROVE  LoopInv(Top)'
    <3>1. PICK fr : fr = Top
      OBVIOUS
    <3>2. fr \in Frames /\ fr \in Range(stack)
      BY <1>a, <2>1, <3>1, TopFrame DEF WalkTypes, Range
    <3>3. LoopInv(fr)
      BY <3>2 DEF LoopsInv
    <3>4. LoopInv(fr)'
      <4>1. CASE pc # "walk"
        BY <3>2, <3>3, <4>1, LoopKept
      <4>2. CASE UNCHANGED vars
        BY <3>3, <4>2, LoopLifted DEF vars, fileVars, jobVars, switchVars
      <4>3. QED
        BY <1>17, <4>1, <4>2
    <3>5. Top' = fr
      BY <1>17, <3>1 DEF Top
    <3>6. QED
      BY <3>4, <3>5
  <2>2. QED
    BY <1>17, <2>1, SameLoops
<1>18. CASE StartRound \/ GoalConsidered \/ EndRound \/ Finish \/ Exited \/ Commands
            \/ UNCHANGED vars
  BY <1>17, <1>18 DEF StartRound, GoalConsidered, TakeGoal, EndRound, Finish, Exited, vars,
    Over, Commands, NextLine, JobSucceeds, JobFails, NextLineFails, Reaping
<1>19. QED
  BY <1>1, <1>2, <1>3, <1>4, <1>5, <1>6, <1>7, <1>8, <1>9, <1>10, <1>11, <1>12, <1>14, <1>15,
    <1>16, <1>18
    DEF Next, UpdateFile, CheckDeps, Rounds

-----------------------------------------------------------------------------
(* Results.                                                                *)

\* A file that update_file returns from has been considered or is being made.
LEMMA UpdateResults ==
  ASSUME MadeInv, stack # <<>>, NEW st \in Statuses, NEW mm \in BOOLEAN, Return(st, mm),
         UNCHANGED deps, Top.fn = "update_file", NEW f, f = File,
         BeingMade(f)' \/ f \in updated'
  PROVE  ResultInv'
<1> SUFFICES ASSUME pc' = "walk"
             PROVE  ResultInv'
  BY DEF ResultInv
<1>1. PICK t : t = Top.this_mtime
  OBVIOUS
<1>2. /\ Top'.at = "file" => File' = f
      /\ Top'.at = "inter_done" => Dep' = f
      /\ Top'.at # "checked"
  BY <1>1, ReturnedTo
<1>3. CASE Top'.at = "file"
  <2>1. BeingMade(File)' \/ File' \in updated'
    BY <1>2, <1>3 DEF BeingMade
  <2>2. QED
    BY <1>2, <1>3, <2>1 DEF ResultInv
<1>4. CASE Top'.at = "inter_done"
  <2>1. BeingMade(Dep)' \/ Dep' \in updated'
    BY <1>2, <1>4 DEF BeingMade
  <2>2. QED
    BY <1>2, <1>4, <2>1 DEF ResultInv
<1>5. QED
  BY <1>2, <1>3, <1>4 DEF ResultInv

\* What check_dep says of the dependency it returns from.
LEMMA CheckResults ==
  ASSUME MadeInv, stack # <<>>, NEW st \in Statuses, NEW mm \in BOOLEAN, Return(st, mm),
         UNCHANGED deps, Top.fn = "check_dep", NEW f, f = File, NEW t, t = Top.this_mtime,
         BeingMade(f)' \/ f \in updated' \/ f \in Intermediate,
         ~BeingMade(f)' /\ ~mm /\ (st = 0 \/ keep_going_flag') => Unneeded(f, st, t)'
  PROVE  ResultInv'
<1> SUFFICES ASSUME pc' = "walk"
             PROVE  ResultInv'
  BY DEF ResultInv
<1>1. /\ ret'.status = st /\ ret'.must_make = mm
      /\ Top'.at \notin {"file", "inter_done"}
      /\ Top'.at = "checked" => Dep' = f /\ Top'.this_mtime = t
  BY ReturnedTo
<1>2. ASSUME Top'.at = "checked", ~BeingMade(Dep)'
      PROVE  /\ Dep' \in updated' \/ Dep' \in Intermediate
             /\ ~ret'.must_make /\ (ret'.status = 0 \/ keep_going_flag') =>
                  Unneeded(Dep, ret.status, Top.this_mtime)'
  <2>1. ~BeingMade(f)'
    BY <1>1, <1>2 DEF BeingMade
  <2>2. ~mm /\ (st = 0 \/ keep_going_flag') => Unneeded(Dep, ret.status, Top.this_mtime)'
    BY <1>1, <1>2, <2>1 DEF Unneeded
  <2>3. QED
    BY <1>1, <1>2, <2>1, <2>2
<1>3. QED
  BY <1>1, <1>2 DEF ResultInv

\* Every step keeps what the last result says of what has been considered.
LEMMA ResultStep ==
  NoIntermediateCycle /\ MadeInv /\ LoopsInv /\ ResultInv /\ [Next]_vars => ResultInv'
<1> SUFFICES ASSUME NoIntermediateCycle, MadeInv, LoopsInv, ResultInv, [Next]_vars
             PROVE  ResultInv'
  OBVIOUS
<1>a. /\ WalkTypes /\ FileTypes /\ TargetsInv /\ TimesInv /\ UNCHANGED keep_going_flag
      /\ command_state \in [Files -> States] /\ disk \in [Files -> Times]
  BY SwitchesKept DEF MadeInv, WalkInv, TypeOK, FileTypes, switchVars
<1>b. PICK f : f = File
  OBVIOUS
<1>c. PICK t : t = Top.this_mtime
  OBVIOUS
<1>1. CASE \/ AlreadyUpdated \/ NewJobReturns \/ WaitForDeps \/ GiveUpOnTarget
           \/ NoNeedToRemake \/ PretendRemade
  <2>1. PICK st \in Statuses, mm \in BOOLEAN : Return(st, mm)
    BY <1>1, Returns
  <2>2. /\ pc \in {"walk", "new_job"} /\ UNCHANGED deps
        /\ Top.fn = "update_file" /\ (pc = "new_job" => Top.at = "job")
    BY <1>1 DEF AlreadyUpdated, NewJobReturns, WaitForDeps, GiveUpOnTarget, NoNeedToRemake,
      PretendRemade, Remaking, Walking, fileVars, MadeInv, WalkInv, StackInv, TopInv
  <2>3. f \in Files /\ stack # <<>> /\ UpdateInv(Top) /\ f = Top.file
    BY <1>b, <2>2, TopFacts
  <2>4. CASE AlreadyUpdated \/ NewJobReturns
    <3>1. f \in updated \/ command_state[f] = "running"
      <4>1. CASE AlreadyUpdated
        BY <1>b, <4>1 DEF AlreadyUpdated, Considered
      <4>2. CASE NewJobReturns
        BY <1>a, <2>2, <2>3, <4>2
          DEF NewJobReturns, UpdateInv, TargetsInv, StillRunning
      <4>3. QED
        BY <2>4, <4>1, <4>2
    <3>2. UNCHANGED <<updated, command_state>>
      BY <2>4 DEF AlreadyUpdated, NewJobReturns, fileVars
    <3>3. QED
      BY <1>b, <2>1, <2>2, <2>3, <3>1, <3>2, UpdateResults DEF BeingMade
  <2>5. CASE WaitForDeps
    <3>1. BeingMade(f)'
      BY <1>a, <1>b, <2>3, <2>5 DEF WaitForDeps, BeingMade
    <3>2. QED
      BY <1>b, <2>1, <2>2, <2>3, <3>1, UpdateResults
  <2>6. CASE GiveUpOnTarget \/ NoNeedToRemake \/ PretendRemade
    <3>1. f \in updated'
      BY <1>b, <2>6 DEF GiveUpOnTarget, NoNeedToRemake, PretendRemade, notice_finished_file
    <3>2. QED
      BY <1>b, <2>1, <2>2, <2>3, <3>1, UpdateResults
  <2>7. QED
    BY <1>1, <2>4, <2>5, <2>6
<1>2. CASE NoRule
  <2>1. pc = "walk" /\ Top.fn = "update_file" /\ UNCHANGED deps
    BY <1>2 DEF NoRule, Remaking, Walking
  <2>2. CASE notice_finished_file(File, 2) /\ Return(2, FALSE)
    <3>1. stack # <<>> /\ 2 \in Statuses /\ FALSE \in BOOLEAN
      BY <1>a, <2>1 DEF WalkTypes, Statuses
    <3>2. f \in updated'
      BY <1>b, <2>2 DEF notice_finished_file
    <3>3. QED
      BY <1>b, <2>1, <2>2, <3>1, <3>2, UpdateResults
  <2>3. CASE pc' = "died"
    BY <2>3 DEF ResultInv
  <2>4. QED
    BY <1>2, <2>2, <2>3 DEF NoRule
<1>3. CASE FileChecked
  <2>1. /\ pc = "walk" /\ Top.fn = "check_dep" /\ Top.at = "file"
        /\ Return(ret.status, file_mtime(f) = NoTime \/ Newer(file_mtime(f)))
        /\ UNCHANGED <<deps, updated, update_status, command_state, disk>>
    BY <1>3, <1>b DEF FileChecked, Walking, jobVars
  <2>2. /\ f \in Files /\ stack # <<>> /\ f \notin Intermediate /\ ret.status \in Statuses
        /\ t \in Times
    BY <1>a, <1>b, <1>c, <2>1, TopFacts DEF CheckInv, WalkTypes
  <2>3. PICK mm : mm = (file_mtime(f) = NoTime \/ Newer(file_mtime(f)))
    OBVIOUS
  <2>4. PICK st \in Statuses : st = ret.status
    BY <2>2
  <2>5. mm \in BOOLEAN /\ (mm <=> disk[f] = NoTime \/ disk[f] > t)
    BY <1>a, <1>c, <2>2, <2>3, TimeIsRight DEF Newer
  <2>6. BeingMade(f) \/ f \in updated
    BY <1>b, <2>1 DEF ResultInv
  <2>7. ASSUME ~BeingMade(f)', ~mm
        PROVE  Unneeded(f, st, t)'
    <3>1. f \in updated /\ ~BeingMade(f)
      BY <2>1, <2>6, <2>7 DEF BeingMade
    <3>2. st = 0 => update_status[f] = 0
      BY <1>b, <2>1, <2>4, <3>1 DEF MadeInv, RetInv, Settled
    <3>3. disk[f] <= t
      BY <1>a, <2>2, <2>5, <2>7 DEF Times, NoTime
    <3>4. \A e \in Reach[f] : e = f
      BY <2>2, ReachOfFile
    <3>5. QED
      BY <2>1, <3>1, <3>2, <3>3, <3>4 DEF Unneeded
  <2>8. BeingMade(f)' \/ f \in updated'
    BY <2>1, <2>6 DEF BeingMade
  <2>9. QED
    BY <1>b, <1>c, <2>1, <2>2, <2>3, <2>4, <2>5, <2>7, <2>8, CheckResults
<1>4. CASE IntermediateIsNewer
  <2>1. /\ pc = "walk" /\ Top.fn = "check_dep" /\ f \in Intermediate
        /\ Return(0, TRUE) /\ UNCHANGED deps
    BY <1>4, <1>b DEF IntermediateIsNewer, Walking
  <2>2. stack # <<>> /\ 0 \in Statuses /\ TRUE \in BOOLEAN
    BY <1>a, <2>1 DEF WalkTypes, Statuses
  <2>3. QED
    BY <1>b, <1>c, <2>1, <2>2, CheckResults
<1>5. CASE IntermediateChecked
  <2>1. /\ pc = "walk" /\ Top.fn = "check_dep" /\ Top.at = "deps" /\ ~MoreDeps
        /\ Return(Top.dep_status, Top.must_make)
        /\ UNCHANGED <<deps, updated, update_status, command_state, disk>>
    BY <1>5 DEF IntermediateChecked, Walking, jobVars
  <2>2. /\ f \in Files /\ stack # <<>> /\ f \in Intermediate /\ f = Top.file
        /\ Top.dep_status \in Statuses /\ Top.must_make \in BOOLEAN /\ Top.i \in Nat
        /\ deps[f] \in Seq(Files) /\ Top \in Range(stack)
    BY <1>b, <2>1, TopFacts DEF CheckInv
  <2>3. PICK st \in Statuses : st = Top.dep_status
    BY <2>2
  <2>4. PICK mm \in BOOLEAN : mm = Top.must_make
    BY <2>2
  <2>5. Through(Top) = Range(deps[f])
    <3>1. Top.i > Len(deps[f])
      BY <1>b, <2>1, <2>2 DEF MoreDeps
    <3>2. QED
      BY <1>b, <2>1, <2>2, <3>1, ThroughFacts
  <2>6. ASSUME ~BeingMade(f)', ~mm, st = 0 \/ keep_going_flag', NEW e \in Reach[f] \ Intermediate
        PROVE  e \in updated /\ (st = 0 => update_status[e] = 0 /\ disk[e] <= t)
    <3>1. ~Waits(Top)
      BY <2>1, <2>2, <2>6 DEF BeingMade, Waits
    <3>2. e \in LookedAt(f)
      BY <1>a, <2>2, <2>6, ReachOfIntermediate
    <3>3. PICK d \in Range(deps[f]) : e \in Reach[d]
      BY <1>a, <2>2, <3>2, LookedAtReach
    <3>4. Unneeded(d, st, t)
      BY <1>a, <1>c, <2>1, <2>2, <2>3, <2>4, <2>5, <2>6, <3>1 DEF LoopsInv, LoopInv
    <3>5. QED
      BY <2>6, <3>3, <3>4 DEF Unneeded
  <2>7. ~BeingMade(f)' /\ ~mm /\ (st = 0 \/ keep_going_flag') => Unneeded(f, st, t)'
    BY <2>1, <2>6 DEF Unneeded
  <2>8. QED
    BY <1>b, <1>c, <2>1, <2>2, <2>3, <2>4, <2>7, CheckResults
<1>6. CASE Unreturned
  BY <1>6, UnreturnedFacts DEF ResultInv
<1>7. CASE UNCHANGED vars
  <2>1. UNCHANGED <<stack, pc, ret, deps, command_state, updated, update_status, disk>>
    BY <1>7 DEF vars, fileVars, jobVars
  <2>2. /\ Top' = Top /\ File' = File /\ Dep' = Dep
        /\ \A x : BeingMade(x)' <=> BeingMade(x)
        /\ \A x, y, z : Unneeded(x, y, z)' <=> Unneeded(x, y, z)
    BY <2>1 DEF Top, File, Dep, BeingMade, Unneeded
  <2>3. QED
    BY <1>a, <2>1, <2>2 DEF ResultInv, BeingMade, Unneeded
<1>8. QED
  BY <1>1, <1>2, <1>3, <1>4, <1>5, <1>6, <1>7 DEF Next, UpdateFile, CheckDeps, Rounds, Unreturned

-----------------------------------------------------------------------------
(* The theorems.                                                           *)

\* At the start nothing has been considered.
LEMMA InitDone == Init => ConsideredInv /\ LoopsInv /\ ResultInv
<1> SUFFICES ASSUME Init PROVE ConsideredInv /\ LoopsInv /\ ResultInv
  OBVIOUS
<1>1. updated = {} /\ stack = <<>> /\ Range(stack) = {} /\ pc = "round"
  BY DEF Init, Range
<1>2. QED
  BY <1>1 DEF ConsideredInv, SettledCurrent, Settled, LoopsInv, ResultInv

\* Every step keeps DoneInv.
LEMMA DoneStep == NoIntermediateCycle /\ NoLongChain /\ DoneInv /\ [Next]_vars => DoneInv'
BY MadeStep, ConsideredStep, LoopsStep, ResultStep DEF DoneInv

\* The inductive invariant of what has been considered holds of every reachable state, for
\* every makefile in which no intermediate file depends on itself and none is made by way of
\* two others.
THEOREM DoneInvariance == NoIntermediateCycle /\ NoLongChain /\ Spec => []DoneInv
<1>1. CASE NoIntermediateCycle /\ NoLongChain
  <2>1. NoIntermediateCycle /\ NoLongChain /\ Spec => []MadeInv
    BY MadeInvariance
  <2>2. Spec => []MadeInv
    BY <1>1, <2>1
  <2>3. Init /\ MadeInv => DoneInv
    BY InitDone DEF DoneInv
  <2>4. DoneInv /\ [Next]_vars => DoneInv'
    BY <1>1, DoneStep
  <2>5. QED
    BY <2>2, <2>3, <2>4, PTL DEF Spec
<1>2. QED
  BY <1>1

\* With -k everything a considered target depends on has been considered.
THEOREM NothingIsSkipped == NoIntermediateCycle /\ NoLongChain /\ Spec => []NothingSkipped
<1>1. DoneInv => NothingSkipped
  BY ConsideredLookedAt DEF DoneInv, MadeInv, WalkInv, TypeOK, NothingSkipped
<1>2. QED
  BY <1>1, DoneInvariance, PTL

\* From the moment a target has succeeded it is up to date.
THEOREM SettledIsCurrent == NoIntermediateCycle /\ NoLongChain /\ Spec => []SettledCurrent
<1>1. DoneInv => SettledCurrent
  BY DEF DoneInv, ConsideredInv
<1>2. QED
  BY <1>1, DoneInvariance, PTL

-----------------------------------------------------------------------------
(* What is wanted.                                                         *)

\* All but the element removed is still there.
LEMMA RemovedRest ==
  ASSUME NEW T, NEW s \in Seq(T), NEW i \in 1 .. Len(s), NEW k \in 1 .. Len(s), k # i
  PROVE  s[k] \in Range(RemoveAt(s, i))
<1> DEFINE r == RemoveAt(s, i)
<1>1. /\ r \in Seq(T) /\ Len(r) = Len(s) - 1 /\ Len(s) \in Nat \ {0}
      /\ \A m \in 1 .. i - 1 : r[m] = s[m]
      /\ \A m \in i .. Len(s) - 1 : r[m] = s[m + 1]
  BY Removed
<1> HIDE DEF r
<1>2. PICK m \in 1 .. Len(r) : r[m] = s[k]
  <2>1. CASE k < i
    <3>1. k \in 1 .. Len(r) /\ k \in 1 .. i - 1
      BY <1>1, <2>1
    <3>2. QED
      BY <1>1, <3>1
  <2>2. CASE k > i
    <3>1. k - 1 \in 1 .. Len(r) /\ k - 1 \in i .. Len(s) - 1 /\ (k - 1) + 1 = k
      BY <1>1, <2>2
    <3>2. r[k - 1] = s[k]
      BY <1>1, <3>1
    <3>3. QED
      BY <3>1, <3>2
  <2>3. QED
    BY <2>1, <2>2
<1>3. m \in DOMAIN r
  BY <1>1
<1>4. QED
  BY <1>2, <1>3 DEF Range, r

\* Wanted is what the goals depend on, however indirectly: the least set with them.
Wanted == {f \in Files : \A S \in SUBSET Files : IsClosed(S) => f \in S}

LEMMA WantedFacts ==
  ASSUME FileTypes
  PROVE  /\ Wanted \subseteq Files /\ IsClosed(Wanted)
         /\ \A S \in SUBSET Files : IsClosed(S) => Wanted \subseteq S
<1>1. /\ Wanted \subseteq Files
      /\ \A S \in SUBSET Files : IsClosed(S) => Wanted \subseteq S
  BY DEF Wanted
<1>2. Range(Goals) \subseteq Files
  BY GraphAssumption DEF Range
<1>3. \A f \in Files : Range(deps[f]) \subseteq Files
  BY DEF FileTypes, Range
<1>4. Range(Goals) \subseteq Wanted
  BY <1>2 DEF IsClosed, Wanted
<1>5. ASSUME NEW f \in Wanted, NEW d \in Range(deps[f])
      PROVE  d \in Wanted
  <2>1. f \in Files /\ d \in Files
    BY <1>1, <1>3, <1>5
  <2>2. \A S \in SUBSET Files : IsClosed(S) => d \in S
    BY <1>1, <1>5, <2>1 DEF IsClosed
  <2>3. QED
    BY <2>1, <2>2 DEF Wanted
<1>6. IsClosed(Wanted)
  BY <1>4, <1>5 DEF IsClosed
<1>7. QED
  BY <1>1, <1>6

\* What has been considered is wanted.
LEMMA ConsideredWanted ==
  ASSUME FileTypes, GoalsInv
  PROVE  updated \cup children \subseteq Wanted
<1>1. Wanted \in SUBSET Files /\ IsClosed(Wanted)
  BY WantedFacts
<1>2. QED
  BY <1>1 DEF GoalsInv

\* The walk comes from the goal at its bottom: a set with that goal, which every call of
\* a dependency stays in, has all its files.
LEMMA Chain ==
  ASSUME MadeInv, stack # <<>>, NEW S, stack[Len(stack)].file \in S,
         \A k \in 2 .. Len(stack) :
           stack[k].at \in {"checked", "inter_done"} /\ stack[k].file \in S =>
             deps[stack[k].file][stack[k].i] \in S
  PROVE  \A k \in 1 .. Len(stack) : stack[k].file \in S
<1>1. Len(stack) \in Nat \ {0} /\ NestInv
  BY TopFrame DEF MadeInv, WalkInv, TypeOK, StackInv
<1> DEFINE Out == {k \in 1 .. Len(stack) : stack[k].file \notin S}
<1>2. SUFFICES ASSUME Out # {} PROVE FALSE
  OBVIOUS
<1>3. Out \subseteq Nat /\ IsFiniteSet(Out)
  <2>1. IsFiniteSet(1 .. Len(stack)) /\ Out \subseteq 1 .. Len(stack)
    BY <1>1, FS_Interval
  <2>2. IsFiniteSet(Out)
    BY <2>1, FS_Subset
  <2>3. QED
    BY <2>1, <2>2
<1>4. PICK k \in Out : \A l \in Out : l <= k
  BY <1>2, <1>3, MaxIsGreatest
<1>5. k # Len(stack)
  BY <1>4
<1>6. k + 1 \in 2 .. Len(stack) /\ k + 1 \in 1 .. Len(stack) /\ (k + 1) - 1 = k
  BY <1>1, <1>4, <1>5
<1>7. stack[k + 1].file \in S
  BY <1>1, <1>4, <1>6
<1>8. Called(k + 1)
  BY <1>1, <1>6 DEF NestInv
<1>9. stack[k].file \in S
  BY <1>6, <1>7, <1>8 DEF Called, Calling
<1>10. QED
  BY <1>4, <1>9

\* Every call is about a file that is wanted.
LEMMA StackWanted ==
  ASSUME MadeInv, GoalsInv
  PROVE  \A k \in 1 .. Len(stack) : stack[k].file \in Wanted
<1>1. FileTypes /\ NestInv /\ WalkTypes
  BY DEF MadeInv, WalkInv, TypeOK, StackInv
<1>2. IsClosed(Wanted)
  BY <1>1, WantedFacts
<1>3. CASE stack = <<>>
  BY <1>3
<1>4. CASE stack # <<>>
  <2>1. ASSUME NEW k \in 2 .. Len(stack), stack[k].at \in {"checked", "inter_done"},
               stack[k].file \in Wanted
        PROVE  deps[stack[k].file][stack[k].i] \in Wanted
    <3>1. k \in 1 .. Len(stack) /\ stack[k] \in Frames
      BY <1>1, <1>4, <2>1, TopFrame
    <3>2. stack[k].file \in Files /\ stack[k].i \in Nat \ {0} /\ Placed(stack[k])
      BY <1>1, <3>1, FrameParts DEF NestInv
    <3>3. deps[stack[k].file] \in Seq(Files) /\ stack[k].i <= Len(deps[stack[k].file])
      BY <1>1, <2>1, <3>2 DEF FileTypes, Placed
    <3>4. deps[stack[k].file][stack[k].i] \in Range(deps[stack[k].file])
      BY <3>2, <3>3 DEF Range
    <3>5. QED
      BY <1>2, <2>1, <3>4 DEF IsClosed
  <2>2. stack[Len(stack)].file \in Wanted
    BY <1>2, <1>4 DEF IsClosed, GoalsInv
  <2>3. QED
    BY <1>4, <2>1, <2>2, Chain
<1>5. QED
  BY <1>3, <1>4

\* What is wanted stays so when a dependency is dropped: the walk has come to the file that
\* was dropped from a goal, by way of others.
LEMMA WantedKept ==
  ASSUME NoIntermediateCycle, MadeInv, GoalsInv, [Next]_vars
  PROVE  Wanted \subseteq Wanted'
<1>a. /\ FileTypes /\ FileTypes' /\ WalkTypes /\ NestInv /\ DistinctInv /\ UpdatingInv
  BY FileTypesStep DEF MadeInv, WalkInv, TypeOK, StackInv
<1>1. CASE ~DropCircular
  <2>1. \A f \in Files : deps'[f] = deps[f]
    BY <1>1, DepsStep
  <2>2. deps' = deps
    BY <1>a, <2>1 DEF FileTypes
  <2>3. QED
    BY <2>2 DEF Wanted, IsClosed
<1>2. CASE DropCircular
  <2>1. /\ pc = "walk" /\ Top.at = "deps" /\ MoreDeps /\ Dep \in updating
        /\ deps' = [deps EXCEPT ![File] = RemoveAt(deps[File], Top.i)]
    BY <1>2 DEF DropCircular
  <2>2. /\ Top = stack[1] /\ File \in Files /\ File = Top.file /\ deps[File] \in Seq(Files)
        /\ Top.i \in 1 .. Len(deps[File]) /\ Len(stack) \in Nat \ {0} /\ 1 \in 1 .. Len(stack)
        /\ stack # <<>> /\ Dep = deps[File][Top.i]
    BY <2>1, TopFacts DEF MoreDeps, Dep
  <2>3. /\ \A f \in Files \ {File} : deps'[f] = deps[f]
        /\ deps'[File] = RemoveAt(deps[File], Top.i)
    BY <1>a, <2>1, <2>2 DEF FileTypes
  <2>4. (Wanted \subseteq Files)' /\ IsClosed(Wanted)'
    BY <1>a, WantedFacts, PTL
  <2>5. PICK S : S = Wanted'
    OBVIOUS
  <2>6. /\ S \subseteq Files /\ Range(Goals) \subseteq S
        /\ \A f \in S : Range(deps'[f]) \subseteq S
    BY <2>4, <2>5 DEF IsClosed
  <2>7. ASSUME NEW k \in 2 .. Len(stack), stack[k].at \in {"checked", "inter_done"},
               stack[k].file \in S
        PROVE  deps[stack[k].file][stack[k].i] \in S
    <3>1. k \in 1 .. Len(stack) /\ stack[k] \in Frames
      BY <1>a, <2>2, <2>7, TopFrame
    <3>2. stack[k].file \in Files /\ stack[k].i \in Nat \ {0} /\ Placed(stack[k])
      BY <1>a, <3>1, FrameParts DEF NestInv
    <3>3. stack[k].file # File
      <4>1. 1 < k
        BY <2>7
      <4>2. QED
        BY <1>a, <2>2, <2>7, <3>1, <4>1 DEF DistinctInv
    <3>4. deps[stack[k].file] \in Seq(Files) /\ stack[k].i <= Len(deps[stack[k].file])
      BY <1>a, <2>7, <3>2 DEF FileTypes, Placed
    <3>5. deps[stack[k].file][stack[k].i] \in Range(deps[stack[k].file])
      BY <3>2, <3>4 DEF Range
    <3>6. QED
      BY <2>3, <2>6, <2>7, <3>2, <3>3, <3>5
  <2>8. \A k \in 1 .. Len(stack) : stack[k].file \in S
    BY <2>2, <2>6, <2>7, Chain DEF GoalsInv
  <2>9. Dep \in S
    BY <1>a, <2>1, <2>8 DEF UpdatingInv
  <2>10. ASSUME NEW f \in S, NEW d \in Range(deps[f])
        PROVE  d \in S
    <3>1. CASE f # File
      BY <2>3, <2>6, <2>10, <3>1
    <3>2. CASE f = File
      <4>1. PICK k \in 1 .. Len(deps[File]) : d = deps[File][k]
        BY <2>2, <2>10, <3>2 DEF Range
      <4>2. d = Dep \/ d \in Range(deps'[File])
        BY <2>2, <2>3, <4>1, RemovedRest
      <4>3. QED
        BY <2>6, <2>9, <2>10, <3>2, <4>2
    <3>3. QED
      BY <3>1, <3>2
  <2>11. IsClosed(S)
    BY <2>6, <2>10 DEF IsClosed
  <2>12. Wanted \subseteq S
    BY <1>a, <2>6, <2>11, WantedFacts
  <2>13. QED
    BY <2>5, <2>12
<1>3. QED
  BY <1>1, <1>2

-----------------------------------------------------------------------------
(* What a step does to the calls.                                          *)

\* The call on top goes on,
WentOn(fr) ==
  /\ stack # <<>> /\ fr \in Frames /\ stack' = <<fr>> \o Tail(stack) /\ UNCHANGED ret
  /\ fr.file = File
  /\ fr.dep_status # 0 => Top.dep_status # 0 \/ ret.status # 0
\* or calls,
Deepened(fr, callee) ==
  /\ stack # <<>> /\ fr \in Frames /\ callee \in Frames /\ Call(fr, callee)
  /\ fr.file = File /\ fr.dep_status = Top.dep_status /\ callee.dep_status = 0
\* or returns no error that is not one of a file's;
Returned(st, mm) ==
  /\ stack # <<>> /\ st \in Statuses /\ mm \in BOOLEAN /\ Return(st, mm)
  /\ st # 0 => Top.dep_status # 0 \/ ret.status # 0 \/ update_status'[File] > 0
\* a goal is considered,
Entered ==
  /\ pc = "goal" /\ g \in 1 .. Len(goals) /\ UNCHANGED ret
  /\ stack' = <<NewFrame("update_file", goals[g], NoTime)>>
\* or the calls stay what they are.
Stood == UNCHANGED stack /\ ret' \in {ret, NoResult}

\* An error of the joined status is one of the parts'.
LEMMA OrError ==
  ASSUME NEW st \in Statuses, NEW t \in Statuses, Or(st, t) # 0
  PROVE  st # 0 \/ t # 0
BY DEF Or

\* Every step does one of those.
LEMMA Shapes ==
  ASSUME MadeInv, [Next]_vars
  PROVE  \/ \E fr : WentOn(fr)
         \/ \E fr, callee : Deepened(fr, callee)
         \/ \E st, mm : Returned(st, mm)
         \/ Entered
         \/ Stood
<1>a. /\ WalkTypes /\ WalkTypes' /\ FileTypes /\ (pc \in {"walk", "new_job"} => stack # <<>>)
      /\ PlacesInv /\ GoalTypes
  BY WalkTypesStep DEF MadeInv, WalkInv, TypeOK, WalkTypes
<1>b. ASSUME NEW fr, Continue(fr), pc \in {"walk", "new_job"}, fr.file = Top.file,
             fr.dep_status \in {Top.dep_status, Or(Top.dep_status, ret.status)}
      PROVE  \E fr_1 : WentOn(fr_1)
  <2>1. /\ stack # <<>> /\ File = Top.file
        /\ Top.dep_status \in Statuses /\ ret.status \in Statuses
    BY <1>a, <1>b, TopFacts DEF WalkTypes
  <2>2. fr \in Frames
    BY <1>a, <1>b, <2>1, ContinueFrame
  <2>3. WentOn(fr)
    BY <1>b, <2>1, <2>2, OrError DEF WentOn, Continue
  <2>4. QED
    BY <2>3
<1>c. pc \in {"walk", "new_job"} =>
        /\ stack # <<>> /\ Top \in Frames /\ File = Top.file /\ File \in Files
        /\ Top.dep_status \in Statuses /\ Top.must_make \in BOOLEAN /\ Top.this_mtime \in Times
        /\ deps[File] \in Seq(Files) /\ ret.status \in Statuses
  BY <1>a, TopFacts DEF WalkTypes
<1>1. CASE StartUpdate
  <2>1. PICK fr : fr = [Top EXCEPT !.at = "deps", !.this_mtime = file_mtime(File),
                                   !.must_make = (file_mtime(File) = NoTime)]
    OBVIOUS
  <2>2. Continue(fr) /\ pc = "walk"
    BY <1>1, <2>1 DEF StartUpdate, Walking
  <2>3. fr.file = Top.file /\ fr.dep_status = Top.dep_status
    BY <1>c, <2>1, <2>2 DEF Frames
  <2>4. QED
    BY <1>b, <2>2, <2>3
<1>2. CASE CheckIntermediate
  <2>1. PICK fr : fr = [Top EXCEPT !.at = "deps"]
    OBVIOUS
  <2>2. Continue(fr) /\ pc = "walk"
    BY <1>2, <2>1 DEF CheckIntermediate, Walking
  <2>3. fr.file = Top.file /\ fr.dep_status = Top.dep_status
    BY <1>c, <2>1, <2>2 DEF Frames
  <2>4. QED
    BY <1>b, <2>2, <2>3
<1>3. CASE DepsDone
  <2>1. PICK fr : fr = [Top EXCEPT !.at = IF Top.must_make THEN "inter" ELSE "decide", !.i = 1]
    OBVIOUS
  <2>2. Continue(fr) /\ pc = "walk"
    BY <1>3, <2>1 DEF DepsDone, Walking
  <2>3. fr.file = Top.file /\ fr.dep_status = Top.dep_status
    BY <1>c, <2>1, <2>2 DEF Frames
  <2>4. QED
    BY <1>b, <2>2, <2>3
<1>4. CASE IntermediatesDone
  <2>1. PICK fr : fr = [Top EXCEPT !.at = "decide"]
    OBVIOUS
  <2>2. Continue(fr) /\ pc = "walk"
    BY <1>4, <2>1 DEF IntermediatesDone, Walking
  <2>3. fr.file = Top.file /\ fr.dep_status = Top.dep_status
    BY <1>c, <2>1, <2>2 DEF Frames
  <2>4. QED
    BY <1>b, <2>2, <2>3
<1>5. CASE DepsMade
  <2>1. PICK fr : fr = [Top EXCEPT !.at = "remake",
                          !.must_make = @ \/ \E d \in Range(deps[File]) \ Intermediate :
                                               file_mtime(d) = NoTime]
    OBVIOUS
  <2>2. Continue(fr) /\ pc = "walk"
    BY <1>5, <2>1 DEF DepsMade, Walking
  <2>3. fr.file = Top.file /\ fr.dep_status = Top.dep_status
    BY <1>c, <2>1, <2>2 DEF Frames
  <2>4. QED
    BY <1>b, <2>2, <2>3
<1>6. CASE DepChecked
  <2>1. PICK st : st = Or(Top.dep_status, ret.status)
    OBVIOUS
  <2>2. PICK fr : fr = CheckedFrame(st)
    OBVIOUS
  <2>3. Continue(fr) /\ pc = "walk"
    BY <1>6, <2>1, <2>2 DEF DepChecked, CheckedFrame
  <2>4. fr.file = Top.file /\ fr.dep_status = st
    BY <1>c, <2>2, <2>3 DEF Frames, CheckedFrame
  <2>5. QED
    BY <1>b, <2>1, <2>3, <2>4
<1>7. CASE IntermediateUpdated
  <2>1. PICK st : st = Or(Top.dep_status, ret.status)
    OBVIOUS
  <2>2. PICK fr : fr = [Top EXCEPT !.at = IF GivesUp(st) THEN "decide" ELSE "inter",
                          !.dep_status = st, !.i = @ + 1,
                          !.running = @ \/ BeingMade(Dep)]
    OBVIOUS
  <2>3. Continue(fr) /\ pc = "walk"
    BY <1>7, <2>1, <2>2 DEF IntermediateUpdated, Walking
  <2>4. fr.file = Top.file /\ fr.dep_status = st
    BY <1>c, <2>2, <2>3 DEF Frames
  <2>5. QED
    BY <1>b, <2>1, <2>3, <2>4
<1>8. CASE RemakeFile
  <2>1. PICK fr : fr = [Top EXCEPT !.at = "job"]
    OBVIOUS
  <2>2. stack' = <<fr>> \o Tail(stack) /\ pc = "walk" /\ UNCHANGED ret
    BY <1>8, <2>1 DEF RemakeFile, MustRun, Remaking, Walking
  <2>3. fr \in Frames /\ fr.file = Top.file /\ fr.dep_status = Top.dep_status
    BY <1>c, <2>1, <2>2 DEF Frames
  <2>4. WentOn(fr)
    BY <1>c, <2>2, <2>3 DEF WentOn
  <2>5. QED
    BY <2>4
<1>9. CASE CheckDep
  <2>1. PICK fr : fr = [Top EXCEPT !.at = "checked"]
    OBVIOUS
  <2>2. PICK callee : callee = NewFrame("check_dep", Dep, Top.this_mtime)
    OBVIOUS
  <2>3. Call(fr, callee) /\ pc = "walk" /\ Top.at = "deps" /\ MoreDeps
    BY <1>9, <2>1, <2>2 DEF CheckDep
  <2>4. Dep \in Files
    BY <2>3, TopFacts, ThroughFacts
  <2>5. /\ fr \in Frames /\ callee \in Frames
        /\ fr.file = Top.file /\ fr.dep_status = Top.dep_status /\ callee.dep_status = 0
    <3>1. callee \in Frames /\ callee.dep_status = 0
      BY <1>c, <2>2, <2>3, <2>4, NewFrameType DEF NewFrame
    <3>2. QED
      BY <1>c, <2>1, <2>3, <3>1 DEF Frames
  <2>6. Deepened(fr, callee)
    BY <1>c, <2>3, <2>5 DEF Deepened
  <2>7. QED
    BY <2>6
<1>10. CASE UpdateIntermediate
  <2>1. PICK next : next = Min(RestIntermediate)
    OBVIOUS
  <2>2. PICK fr : fr = [Top EXCEPT !.at = "inter_done", !.i = next]
    OBVIOUS
  <2>3. PICK callee : callee = NewFrame("update_file", deps[File][next], NoTime)
    OBVIOUS
  <2>4. Call(fr, callee) /\ pc = "walk"
    BY <1>10, <2>1, <2>2, <2>3 DEF UpdateIntermediate, Walking
  <2>5. next \in 1 .. Len(deps[File])
    BY <1>10, <2>1, <2>2, UpdateIntermediateCall
  <2>6. deps[File][next] \in Files /\ NoTime \in Times /\ next \in Nat \ {0}
    BY <1>c, <2>4, <2>5 DEF Times
  <2>7. callee \in Frames /\ callee.dep_status = 0
    BY <2>3, <2>6, NewFrameType DEF NewFrame
  <2>8. fr \in Frames /\ fr.file = Top.file /\ fr.dep_status = Top.dep_status
    BY <1>c, <2>2, <2>4, <2>6 DEF Frames
  <2>9. Deepened(fr, callee)
    BY <1>c, <2>4, <2>7, <2>8 DEF Deepened
  <2>10. QED
    BY <2>9
<1>11. CASE CheckFile
  <2>1. PICK fr : fr = [Top EXCEPT !.at = "file"]
    OBVIOUS
  <2>2. PICK callee : callee = NewFrame("update_file", File, NoTime)
    OBVIOUS
  <2>3. Call(fr, callee) /\ pc = "walk"
    BY <1>11, <2>1, <2>2 DEF CheckFile, Walking
  <2>4. fr \in Frames /\ fr.file = Top.file /\ fr.dep_status = Top.dep_status
    BY <1>c, <2>1, <2>3 DEF Frames
  <2>5. NoTime \in Times
    BY DEF Times
  <2>6. callee \in Frames
    BY <1>c, <2>2, <2>3, <2>5, NewFrameType
  <2>7. callee.dep_status = 0
    BY <2>2 DEF NewFrame
  <2>8. Deepened(fr, callee)
    BY <1>c, <2>3, <2>4, <2>6, <2>7 DEF Deepened
  <2>9. QED
    BY <2>8
<1>d. TRUE \in BOOLEAN /\ FALSE \in BOOLEAN /\ 0 \in Statuses /\ 2 \in Statuses
  BY DEF Statuses
<1>12. CASE AlreadyUpdated \/ NewJobReturns
  <2>1. /\ pc \in {"walk", "new_job"} /\ Return(UpdateResult(File), FALSE)
        /\ UNCHANGED <<updated, update_status>>
    BY <1>12 DEF AlreadyUpdated, NewJobReturns, Walking, fileVars
  <2>2. UpdateResult(File) \in Statuses
    BY <1>a, <1>c, <1>d, <2>1 DEF PlacesInv, UpdateResult
  <2>3. UpdateResult(File) # 0 => update_status[File] \in Statuses \ {0}
    BY <1>a, <1>c, <2>1 DEF PlacesInv, UpdateResult
  <2>4. UpdateResult(File) # 0 => update_status'[File] > 0
    BY <2>1, <2>3 DEF Statuses
  <2>5. Returned(UpdateResult(File), FALSE)
    BY <1>c, <1>d, <2>1, <2>2, <2>4 DEF Returned
  <2>6. QED
    BY <2>5
<1>13. CASE WaitForDeps \/ NoNeedToRemake \/ PretendRemade
  <2>1. pc = "walk" /\ Return(0, FALSE)
    BY <1>13 DEF WaitForDeps, NoNeedToRemake, PretendRemade, Remaking, Walking
  <2>2. Returned(0, FALSE)
    BY <1>c, <1>d, <2>1 DEF Returned
  <2>3. QED
    BY <2>2
<1>14. CASE GiveUpOnTarget
  <2>1. pc = "walk" /\ Return(Top.dep_status, FALSE)
    BY <1>14 DEF GiveUpOnTarget, Walking
  <2>2. Returned(Top.dep_status, FALSE)
    BY <1>c, <1>d, <2>1 DEF Returned
  <2>3. QED
    BY <2>2
<1>15. CASE IntermediateChecked
  <2>1. pc = "walk" /\ Return(Top.dep_status, Top.must_make)
    BY <1>15 DEF IntermediateChecked, Walking
  <2>2. Returned(Top.dep_status, Top.must_make)
    BY <1>c, <1>d, <2>1 DEF Returned
  <2>3. QED
    BY <2>2
<1>16. CASE IntermediateIsNewer
  <2>1. pc = "walk" /\ Return(0, TRUE)
    BY <1>16 DEF IntermediateIsNewer, Walking
  <2>2. Returned(0, TRUE)
    BY <1>c, <1>d, <2>1 DEF Returned
  <2>3. QED
    BY <2>2
<1>17. CASE FileChecked
  <2>1. PICK mm \in BOOLEAN : mm = (file_mtime(File) = NoTime \/ Newer(file_mtime(File)))
    BY DEF Newer
  <2>2. pc = "walk" /\ Return(ret.status, mm)
    BY <1>17, <2>1 DEF FileChecked, Walking
  <2>3. Returned(ret.status, mm)
    BY <1>c, <1>d, <2>2 DEF Returned
  <2>4. QED
    BY <2>3
<1>18. CASE NoRule
  <2>1. CASE notice_finished_file(File, 2) /\ Return(2, FALSE)
    <3>1. pc = "walk"
      BY <1>18 DEF NoRule, Remaking, Walking
    <3>2. update_status'[File] = 2
      BY <1>a, <1>c, <2>1, <3>1 DEF notice_finished_file, FileTypes
    <3>3. update_status'[File] > 0
      BY <3>2
    <3>4. stack # <<>> /\ 2 \in Statuses /\ FALSE \in BOOLEAN /\ Return(2, FALSE)
      BY <1>c, <1>d, <2>1, <3>1
    <3>5. Returned(2, FALSE)
      BY <3>3, <3>4 DEF Returned
    <3>6. QED
      BY <3>5
  <2>2. QED
    BY <1>18, <2>1 DEF NoRule, Stood
<1>19. CASE ConsiderGoal
  <2>1. g \in 1 .. Len(goals)
    BY <1>19, <1>a DEF ConsiderGoal, GoalTypes
  <2>2. QED
    BY <1>19, <2>1 DEF ConsiderGoal, Entered
<1>20. CASE DropCircular \/ StartRound \/ GoalConsidered \/ EndRound \/ Finish \/ Exited
            \/ Commands \/ UNCHANGED vars
  BY <1>20 DEF DropCircular, StartRound, GoalConsidered, TakeGoal, EndRound, Finish, Exited,
    vars, Commands, NextLine, JobSucceeds, JobFails, NextLineFails, Stood
<1>21. QED
  BY <1>1, <1>2, <1>3, <1>4, <1>5, <1>6, <1>7, <1>8, <1>9, <1>10, <1>11, <1>12, <1>13, <1>14,
    <1>15, <1>16, <1>17, <1>18, <1>19, <1>20
    DEF Next, UpdateFile, CheckDeps, Rounds

-----------------------------------------------------------------------------
(* The goals.                                                              *)

\* What is considered or made after a step was before, or is the file on top.
LEMMA OneConsidered ==
  ASSUME MadeInv, [Next]_vars, NEW f \in updated' \cup children'
  PROVE  f \in updated \cup children \/ (pc = "walk" /\ f = File)
<1>1. CASE Still \/ Marked \/ \E st : Restated(st)
  BY <1>1 DEF Still, Marked, Restated
<1>2. CASE \E st : Noted(st)
  BY <1>2 DEF Noted, notice_finished_file
<1>3. CASE Begun
  BY <1>3 DEF Begun, Walking
<1>4. ASSUME NEW e \in Files, GoneOn(e) \/ \E st : Ended(e, st)
      PROVE  f \in updated \cup children
  BY <1>4 DEF GoneOn, Ended, notice_finished_file
<1>5. QED
  BY <1>1, <1>2, <1>3, <1>4, Effects

\* The walk of a goal goes on until it is through.
LEMMA BottomStep ==
  ASSUME MadeInv, GoalsInv, [Next]_vars, stack' # <<>>
  PROVE  stack'[Len(stack')].file \in Range(Goals)
<1>a. WalkTypes /\ WalkTypes' /\ GoalTypes
  BY WalkTypesStep DEF MadeInv, WalkInv, TypeOK
<1>b. stack # <<>> => /\ stack[Len(stack)].file \in Range(Goals)
                      /\ Top = stack[1] /\ Len(stack) \in Nat \ {0}
  BY <1>a, TopFrame DEF GoalsInv
<1>1. ASSUME NEW fr, WentOn(fr)
      PROVE  stack'[Len(stack')].file \in Range(Goals)
  <2>1. /\ stack # <<>> /\ fr.file = Top.file /\ Len(stack') = Len(stack) /\ stack'[1] = fr
        /\ \A k \in 2 .. Len(stack) : stack'[k] = stack[k]
    BY <1>a, <1>1, ContinueShape DEF WentOn, File
  <2>2. CASE Len(stack) = 1
    BY <1>b, <2>1, <2>2
  <2>3. CASE Len(stack) # 1
    <3>1. Len(stack) \in 2 .. Len(stack)
      BY <1>b, <2>1, <2>3
    <3>2. QED
      BY <1>b, <2>1, <3>1
  <2>4. QED
    BY <2>2, <2>3
<1>2. ASSUME NEW fr, NEW callee, Deepened(fr, callee)
      PROVE  stack'[Len(stack')].file \in Range(Goals)
  <2>1. /\ stack # <<>> /\ fr.file = Top.file /\ Len(stack') = Len(stack) + 1 /\ stack'[2] = fr
        /\ \A k \in 2 .. Len(stack) : stack'[k + 1] = stack[k]
    BY <1>a, <1>2, CallShape DEF Deepened, File
  <2>2. PICK n \in Nat \ {0} : n = Len(stack)
    BY <1>b, <2>1
  <2>3. n = 1 => stack'[n + 1].file = stack[n].file
    BY <1>b, <2>1, <2>2
  <2>4. n # 1 => stack'[n + 1] = stack[n]
    BY <2>1, <2>2
  <2>5. QED
    BY <1>b, <2>1, <2>2, <2>3, <2>4
<1>3. ASSUME NEW st, NEW mm, Returned(st, mm)
      PROVE  stack'[Len(stack')].file \in Range(Goals)
  <2>1. /\ stack # <<>> /\ Len(stack') = Len(stack) - 1 /\ stack' \in Seq(Frames)
        /\ \A k \in 1 .. Len(stack') : stack'[k] = stack[k + 1]
    BY <1>a, <1>3, ReturnShape DEF Returned, WalkTypes
  <2>2. Len(stack') \in 1 .. Len(stack') /\ Len(stack') + 1 = Len(stack)
    BY <1>b, <2>1
  <2>3. stack'[Len(stack')] = stack[Len(stack') + 1]
    BY <2>1, <2>2
  <2>4. QED
    BY <1>b, <2>1, <2>2, <2>3
<1>4. CASE Entered
  <2>1. stack' = <<NewFrame("update_file", goals[g], NoTime)>> /\ g \in 1 .. Len(goals)
    BY <1>4 DEF Entered
  <2>2. stack'[Len(stack')].file = goals[g]
    BY <2>1 DEF NewFrame
  <2>3. goals[g] \in Range(goals)
    BY <1>a, <2>1 DEF GoalTypes, Range
  <2>4. QED
    BY <2>2, <2>3 DEF GoalsInv
<1>5. CASE Stood
  BY <1>5, <1>b DEF Stood
<1>6. QED
  BY <1>1, <1>2, <1>3, <1>4, <1>5, Shapes

\* Only GoalConsidered takes a goal off the chain, and elsewhere the status is changed by
\* errors make dies of.
LEMMA GoalVarsKept ==
  ASSUME [Next]_vars, ~GoalConsidered
  PROVE  /\ goals' = goals
         /\ status' = status \/ (status' = 2 /\ pc' = "died")
         /\ pc' = "exited" => goals = <<>> \/ pc = "exited"
<1>1. CASE NoRule
  BY <1>1 DEF NoRule, Return
<1>2. CASE Commands
  BY <1>2 DEF Commands, NextLine, JobSucceeds, JobFails, NextLineFails, Reaping
<1>3. CASE Rounds
  BY <1>3 DEF Rounds, StartRound, ConsiderGoal, EndRound, Finish, goalVars
<1>4. CASE UpdateFile /\ ~NoRule
  BY <1>4 DEF UpdateFile, AlreadyUpdated, StartUpdate, DropCircular, CheckDep, DepChecked,
    DepsDone, UpdateIntermediate, IntermediateUpdated, IntermediatesDone, WaitForDeps,
    GiveUpOnTarget, DepsMade, NoNeedToRemake, PretendRemade, Remaking, RemakeFile, MustRun,
    NewJobReturns, Walking, goalVars, Continue, Call, Return
<1>5. CASE CheckDeps
  BY <1>5 DEF CheckDeps, CheckFile, FileChecked, IntermediateIsNewer, CheckIntermediate,
    IntermediateChecked, Walking, goalVars, Continue, Call, Return
<1>6. CASE Exited \/ UNCHANGED vars
  BY <1>6 DEF Exited, vars, goalVars
<1>7. QED
  BY <1>1, <1>2, <1>3, <1>4, <1>5, <1>6 DEF Next

\* Every step keeps what is known of the goals.
LEMMA GoalsStep == NoIntermediateCycle /\ MadeInv /\ GoalsInv /\ [Next]_vars => GoalsInv'
<1> SUFFICES ASSUME NoIntermediateCycle, MadeInv, GoalsInv, [Next]_vars
             PROVE  GoalsInv'
  OBVIOUS
<1>a. FileTypes /\ WalkTypes /\ GoalTypes /\ PlacesInv
  BY DEF MadeInv, WalkInv, TypeOK
<1>1. ASSUME NEW f \in updated' \cup children'
      PROVE  f \in Wanted'
  <2>1. Wanted \subseteq Wanted'
    BY WantedKept
  <2>2. CASE f \in updated \cup children
    BY <1>a, <2>1, <2>2, ConsideredWanted
  <2>3. CASE pc = "walk" /\ f = File
    <3>1. File = stack[1].file /\ 1 \in 1 .. Len(stack)
      BY <2>3, TopFacts
    <3>2. QED
      BY <2>1, <2>3, <3>1, StackWanted
  <2>4. QED
    BY <1>1, <2>2, <2>3, OneConsidered
<1>2. stack' # <<>> => stack'[Len(stack')].file \in Range(Goals)
  BY BottomStep
<1> DEFINE Others == /\ Range(goals') \subseteq Range(Goals)
                     /\ \A f \in Range(Goals) \ Range(goals') :
                          f \in updated' /\ (status' = 0 => update_status'[f] = 0)
                     /\ pc' = "exited" => goals' = <<>>
<1>3. ASSUME ~GoalConsidered
      PROVE  Others
  <2>1. /\ goals' = goals
        /\ status' = status \/ (status' = 2 /\ pc' = "died")
        /\ pc' = "exited" => goals = <<>> \/ pc = "exited"
    BY <1>3, GoalVarsKept
  <2>2. status' = 0 => status = 0
    BY <2>1
  <2>3. \A f \in updated : f \in updated' /\ update_status'[f] = update_status[f]
    BY Frozen
  <2>4. QED
    BY <2>1, <2>2, <2>3 DEF GoalsInv
<1>4. ASSUME GoalConsidered
      PROVE  Others
  <2>1. /\ g \in 1 .. Len(goals) /\ goals \in Seq(Files) /\ status \in Statuses
        /\ UNCHANGED <<updated, update_status>> /\ pc' # "exited"
    BY <1>4, <1>a DEF GoalConsidered, TakeGoal, PlacesInv, GoalTypes
  <2>2. /\ goals' = IF GoalFinished THEN RemoveAt(goals, g) ELSE goals
        /\ status' = IF GoalFinished /\ status < 1 /\ update_status[goals[g]] # 0
                     THEN update_status[goals[g]] ELSE status
    BY <1>4 DEF GoalConsidered, TakeGoal
  <2>3. Range(goals') \subseteq Range(goals)
    BY <2>1, <2>2, RemovedRange
  <2>4. ASSUME NEW f \in Range(Goals) \ Range(goals')
        PROVE  f \in updated /\ (status' = 0 => update_status[f] = 0)
    <3>1. CASE f \notin Range(goals)
      <4>1. f \in updated /\ (status = 0 => update_status[f] = 0)
        BY <2>4, <3>1 DEF GoalsInv
      <4>2. status' = 0 => status = 0
        BY <2>1, <2>2 DEF Statuses
      <4>3. QED
        BY <4>1, <4>2
    <3>2. CASE f \in Range(goals)
      <4>1. PICK k \in 1 .. Len(goals) : f = goals[k]
        BY <2>1, <3>2 DEF Range
      <4>2. GoalFinished /\ goals' = RemoveAt(goals, g)
        BY <2>2, <2>4, <3>2
      <4>3. k = g
        BY <2>1, <2>4, <4>1, <4>2, RemovedRest
      <4>4. f \in updated /\ f = goals[g]
        BY <4>1, <4>2, <4>3 DEF GoalFinished
      <4>5. status' = 0 => update_status[f] = 0
        BY <2>1, <2>2, <4>2, <4>4 DEF Statuses
      <4>6. QED
        BY <4>4, <4>5
    <3>3. QED
      BY <3>1, <3>2
  <2>5. QED
    BY <2>1, <2>3, <2>4 DEF GoalsInv
<1>5. Others
  BY <1>3, <1>4
<1>6. FileTypes'
  BY FileTypesStep DEF MadeInv, WalkInv, TypeOK
<1>7. (\A S \in SUBSET Files : IsClosed(S) => Wanted \subseteq S)'
  BY <1>6, WantedFacts, PTL
<1>8. (\A S \in SUBSET Files : IsClosed(S) => updated \cup children \subseteq S)'
  BY <1>1, <1>7
<1>9. QED
  BY <1>2, <1>5, <1>8 DEF GoalsInv

-----------------------------------------------------------------------------
(* Errors.                                                                 *)

\* What has failed, has failed for good.
LEMMA FailedKept ==
  ASSUME MadeInv, [Next]_vars, NEW f \in Files, Failed(f)
  PROVE  Failed(f)' /\ f \in updated
<1>1. f \in updated
  BY DEF MadeInv, TargetsInv, Failed
<1>2. QED
  BY <1>1, Frozen DEF Failed

\* When make has died it is over.
LEMMA DeadStays ==
  ASSUME [Next]_vars, pc = "died"
  PROVE  UNCHANGED vars
BY DEF Next, UpdateFile, AlreadyUpdated, StartUpdate, DropCircular, CheckDep, DepChecked,
  DepsDone, UpdateIntermediate, IntermediateUpdated, IntermediatesDone, WaitForDeps,
  GiveUpOnTarget, DepsMade, NoNeedToRemake, PretendRemade, Remaking, NoRule, RemakeFile, MustRun,
  NewJobReturns, CheckDeps, CheckFile, FileChecked, IntermediateIsNewer, CheckIntermediate,
  IntermediateChecked, Rounds, StartRound, ConsiderGoal, GoalConsidered, TakeGoal, EndRound,
  Finish, Commands, NextLine, JobSucceeds, JobFails, NextLineFails, Reaping, Exited, Walking

\* The status of a call after a step, or its result, is an error only if there was one
\* before or the file on top has failed.
LEMMA CallErrors ==
  ASSUME MadeInv, [Next]_vars,
         ret'.status # 0 \/ \E frame \in Range(stack') : frame.dep_status # 0
  PROVE  \/ ret.status # 0 \/ \E frame \in Range(stack) : frame.dep_status # 0
         \/ pc \in {"walk", "new_job"} /\ File \in Files /\ update_status'[File] > 0
<1> DEFINE Before == ret.status # 0 \/ \E frame \in Range(stack) : frame.dep_status # 0
<1>a. WalkTypes /\ WalkTypes'
  BY WalkTypesStep DEF MadeInv, WalkInv, TypeOK
<1>b. /\ stack \in Seq(Frames) /\ stack' \in Seq(Frames)
      /\ stack # <<>> => /\ Top = stack[1] /\ Top \in Range(stack) /\ Len(stack) \in Nat \ {0}
                         /\ File \in Files
  <2>1. stack \in Seq(Frames) /\ stack' \in Seq(Frames)
    BY <1>a DEF WalkTypes
  <2>2. ASSUME stack # <<>>
        PROVE  Top = stack[1] /\ Top \in Range(stack) /\ Len(stack) \in Nat \ {0} /\ File \in Files
    <3>1. Top = stack[1] /\ Len(stack) \in Nat \ {0} /\ Top \in Frames
      BY <1>a, <2>2, TopFrame
    <3>2. 1 \in DOMAIN stack
      BY <2>1, <3>1
    <3>3. QED
      BY <3>1, <3>2, FrameParts DEF Range, File
  <2>3. QED
    BY <2>1, <2>2
<1>c. \A k \in 1 .. Len(stack) : stack[k] \in Range(stack)
  BY <1>b DEF Range
<1>d. \A frame \in Range(stack') : \E k \in 1 .. Len(stack') : frame = stack'[k]
  BY <1>b DEF Range
<1>1. ASSUME NEW fr, WentOn(fr)
      PROVE  Before
  <2>1. /\ stack # <<>> /\ Len(stack') = Len(stack) /\ stack'[1] = fr /\ UNCHANGED ret
        /\ \A k \in 2 .. Len(stack) : stack'[k] = stack[k]
        /\ fr.dep_status # 0 => Before
    BY <1>a, <1>b, <1>1, ContinueShape DEF WentOn
  <2>2. \A k \in 1 .. Len(stack') : stack'[k] = fr \/ stack'[k] \in Range(stack)
    BY <1>b, <1>c, <2>1
  <2>3. QED
    BY <1>d, <2>1, <2>2
<1>2. ASSUME NEW fr, NEW callee, Deepened(fr, callee)
      PROVE  Before
  <2>1. /\ stack # <<>> /\ Len(stack') = Len(stack) + 1 /\ UNCHANGED ret
        /\ stack'[1] = callee /\ stack'[2] = fr
        /\ \A k \in 2 .. Len(stack) : stack'[k + 1] = stack[k]
        /\ callee.dep_status = 0 /\ fr.dep_status = Top.dep_status
    BY <1>a, <1>2, CallShape DEF Deepened, Call
  <2>2. ASSUME NEW k \in 1 .. Len(stack')
        PROVE  stack'[k] \in {fr, callee} \cup Range(stack)
    <3>1. PICK n \in Nat \ {0} : n = Len(stack)
      BY <1>b, <2>1
    <3>2. k \notin {1, 2} => k - 1 \in 2 .. n /\ (k - 1) + 1 = k
      BY <2>1, <2>2, <3>1
    <3>3. k \notin {1, 2} => stack'[k] = stack[k - 1] /\ k - 1 \in 1 .. n
      BY <2>1, <3>1, <3>2
    <3>4. QED
      BY <1>c, <2>1, <3>1, <3>3
  <2>3. QED
    BY <1>b, <1>d, <2>1, <2>2
<1>3. ASSUME NEW st, NEW mm, Returned(st, mm)
      PROVE  Before \/ (stack # <<>> /\ update_status'[File] > 0)
  <2>1. /\ stack # <<>> /\ ret'.status = st /\ Len(stack') = Len(stack) - 1
        /\ \A k \in 1 .. Len(stack') : stack'[k] = stack[k + 1]
        /\ st # 0 => Before \/ update_status'[File] > 0
    BY <1>a, <1>b, <1>3, ReturnShape DEF Returned, Return
  <2>2. \A k \in 1 .. Len(stack') : stack'[k] \in Range(stack)
    <3>1. PICK n \in Nat \ {0} : n = Len(stack)
      BY <1>b, <2>1
    <3>2. QED
      BY <1>c, <2>1, <3>1
  <2>3. QED
    BY <1>d, <2>1, <2>2
<1>4. CASE Entered
  <2>1. PICK callee : callee = NewFrame("update_file", goals[g], NoTime)
    OBVIOUS
  <2>2. stack' = <<callee>> /\ callee.dep_status = 0 /\ UNCHANGED ret
    BY <1>4, <2>1 DEF Entered, NewFrame
  <2>3. Range(stack') = {callee}
    BY <2>2 DEF Range
  <2>4. QED
    BY <2>2, <2>3
<1>5. CASE Stood
  BY <1>5 DEF Stood, NoResult
<1>6. CASE \E st, mm : Returned(st, mm)
  <2>1. pc \in {"walk", "new_job", "died"} \/ stack = <<>>
    BY DEF MadeInv, WalkInv, PlacesInv
  <2>2. pc = "died" => UNCHANGED <<ret, stack>>
    BY DeadStays DEF vars
  <2>3. Before \/ (stack # <<>> /\ update_status'[File] > 0)
    BY <1>3, <1>6
  <2>4. QED
    BY <1>b, <2>1, <2>2, <2>3
<1>7. QED
  BY <1>1, <1>2, <1>4, <1>5, <1>6, Shapes

\* A file fails because of an error of a dependency, or for a reason of its own.
LEMMA NewlyFailed ==
  ASSUME MadeInv, [Next]_vars, NEW f \in Files, ~Failed(f), Failed(f)'
  PROVE  \/ GiveUpOnTarget
         \/ NoRule /\ f = File /\ keep_going_flag
         \/ RemakeFile /\ f = File /\ (question_flag \/ ForkMayFail)
         \/ f \in children /\ (pc' = "died" \/ keep_going_flag \/ ForkMayFail)
<1>a. FileTypes
  BY DEF MadeInv, WalkInv, TypeOK
<1>1. ASSUME NEW e \in Files, NEW st, notice_finished_file(e, st)
      PROVE  f = e /\ st \notin {-1, 0}
  BY <1>a, <1>1 DEF notice_finished_file, Failed, FileTypes
<1>2. CASE UNCHANGED update_status
  BY <1>2 DEF Failed
<1>3. CASE NoNeedToRemake \/ PretendRemade
  <2>1. pc = "walk" /\ Top.fn = "update_file" /\ Top.at = "remake"
    BY <1>3 DEF NoNeedToRemake, PretendRemade, Remaking, Walking
  <2>2. File \in Files /\ File \notin updated
    BY <2>1, TopFacts DEF UpdateInv
  <2>3. update_status[File] = -1
    BY <2>2 DEF MadeInv, TargetsInv
  <2>4. QED
    BY <1>1, <1>3, <2>2, <2>3 DEF NoNeedToRemake, PretendRemade
<1>4. CASE NoRule
  <2>1. File \in Files
    BY <1>4, TopFacts DEF NoRule, Remaking, Walking
  <2>2. QED
    BY <1>1, <1>2, <1>4, <2>1 DEF NoRule
<1>5. CASE RemakeFile
  <2>1. File \in Files
    BY <1>5, TopFacts DEF RemakeFile, MustRun, Remaking, Walking
  <2>2. QED
    BY <1>1, <1>2, <1>5, <2>1 DEF RemakeFile
<1>6. CASE Commands
  <2>1. PICK e \in Files : NextLine(e) \/ JobSucceeds(e) \/ JobFails(e) \/ NextLineFails(e)
    BY <1>6 DEF Commands
  <2>2. CASE NextLine(e)
    BY <1>2, <2>2 DEF NextLine
  <2>3. CASE JobSucceeds(e)
    BY <1>1, <2>3 DEF JobSucceeds
  <2>4. CASE JobFails(e) \/ NextLineFails(e)
    BY <1>1, <2>4 DEF JobFails, NextLineFails, Reaping
  <2>5. QED
    BY <2>1, <2>2, <2>3, <2>4
<1>7. QED
  BY <1>2, <1>3, <1>4, <1>5, <1>6
    DEF Next, UpdateFile, AlreadyUpdated, StartUpdate, DropCircular, CheckDep, DepChecked,
    DepsDone, UpdateIntermediate, IntermediateUpdated, IntermediatesDone, WaitForDeps,
    DepsMade, NewJobReturns, CheckDeps, CheckFile, FileChecked, IntermediateIsNewer,
    CheckIntermediate, IntermediateChecked, Rounds, StartRound, ConsiderGoal, GoalConsidered,
    TakeGoal, EndRound, Finish, Exited, vars, fileVars

\* A target is given up only when something has failed.
LEMMA GivenUp ==
  ASSUME MadeInv, ErrorsInv, GiveUpOnTarget
  PROVE  \E f \in Files : Failed(f)
<1>1. pc = "walk" /\ Top.dep_status # 0
  BY DEF GiveUpOnTarget, Walking
<1>2. Top \in Range(stack)
  BY <1>1, TopFacts
<1>3. QED
  BY <1>1, <1>2 DEF ErrorsInv

\* Every step keeps what is known of errors.
LEMMA ErrorsStep == MadeInv /\ ErrorsInv /\ [Next]_vars => ErrorsInv'
<1> SUFFICES ASSUME MadeInv, ErrorsInv, [Next]_vars, pc' # "died"
             PROVE  ErrorsInv'
  BY DEF ErrorsInv
<1>a. FileTypes /\ FileTypes' /\ GoalTypes /\ PlacesInv /\ UNCHANGED switchVars
  BY FileTypesStep, SwitchesKept DEF MadeInv, WalkInv, TypeOK
<1>b. pc # "died"
  BY DeadStays DEF vars
<1>1. ASSUME \E f \in Files : Failed(f)
      PROVE  \E f \in Files : Failed(f)'
  BY <1>1, FailedKept
<1>2. ASSUME ret'.status # 0 \/ \E frame \in Range(stack') : frame.dep_status # 0
      PROVE  \E f \in Files : Failed(f)'
  <2>1. CASE ret.status # 0 \/ \E frame \in Range(stack) : frame.dep_status # 0
    BY <1>1, <1>b, <2>1 DEF ErrorsInv
  <2>2. CASE File \in Files /\ update_status'[File] > 0
    BY <2>2 DEF Failed
  <2>3. QED
    BY <1>2, <2>1, <2>2, CallErrors
<1>3. ASSUME status' # 0
      PROVE  \E f \in Files : Failed(f)'
  <2>1. CASE status # 0
    BY <1>1, <1>b, <2>1 DEF ErrorsInv
  <2>2. CASE status = 0
    <3>1. GoalConsidered
      BY <1>3, <2>2, GoalVarsKept
    <3>2. /\ g \in 1 .. Len(goals) /\ goals[g] \in Files
          /\ goals[g] \in updated /\ status' = update_status[goals[g]]
      BY <1>a, <1>3, <2>2, <3>1 DEF GoalConsidered, TakeGoal, GoalFinished, GoalTypes, PlacesInv
    <3>3. update_status[goals[g]] \in Statuses
      BY <1>a, <3>2 DEF PlacesInv
    <3>4. Failed(goals[g])
      BY <1>3, <3>2, <3>3 DEF Failed, Statuses
    <3>5. QED
      BY <1>1, <3>2, <3>4
  <2>3. QED
    BY <2>1, <2>2
<1>4. ASSUME ~keep_going_flag, ~question_flag, ~ForkMayFail, NEW f \in Files, Failed(f)'
      PROVE  FALSE
  <2>1. \A e \in Files : ~Failed(e)
    BY <1>b, <1>4 DEF ErrorsInv
  <2>2. ~GiveUpOnTarget
    BY <2>1, GivenUp
  <2>3. QED
    BY <1>4, <2>1, <2>2, NewlyFailed
<1>5. QED
  BY <1>1, <1>2, <1>3, <1>4, <1>a DEF ErrorsInv, switchVars

-----------------------------------------------------------------------------
(* What -q says.                                                           *)

\* Without intermediate files a target is looked at for its dependencies only.
LEMMA LookedAtPlain ==
  ASSUME FileTypes, Intermediate = {}, NEW f \in Files
  PROVE  LookedAt(f) = Range(deps[f])
<1> DEFINE Closed == {S \in SUBSET Files : /\ Range(deps[f]) \subseteq S
                                           /\ \A d \in S \cap Intermediate :
                                                Range(deps[d]) \subseteq S}
<1>1. Range(deps[f]) \subseteq Files
  BY DEF FileTypes, Range
<1>2. LookedAt(f) = {d \in Files : \A S \in Closed : d \in S}
  BY DEF LookedAt
<1>3. Range(deps[f]) \in Closed /\ \A S \in Closed : Range(deps[f]) \subseteq S
  BY <1>1
<1>4. QED
  BY <1>1, <1>2, <1>3

\* With -q no commands are started.
LEMMA NothingStarted ==
  ASSUME [Next]_vars, question_flag, children = {}
  PROVE  children' = {}
<1>1. CASE Commands
  BY <1>1 DEF Commands, NextLine, JobSucceeds, JobFails, NextLineFails, Reaping
<1>2. CASE ~Commands
  BY <1>2 DEF Next, UpdateFile, AlreadyUpdated, StartUpdate, DropCircular, CheckDep, DepChecked,
    DepsDone, UpdateIntermediate, IntermediateUpdated, IntermediatesDone, WaitForDeps,
    GiveUpOnTarget, DepsMade, NoNeedToRemake, PretendRemade, NoRule, RemakeFile, NewJobReturns,
    CheckDeps, CheckFile, FileChecked, IntermediateIsNewer, CheckIntermediate,
    IntermediateChecked, Rounds, StartRound, ConsiderGoal, GoalConsidered, TakeGoal, EndRound,
    Finish, Exited, vars, jobVars
<1>3. QED
  BY <1>1, <1>2

\* A target for which nothing has to be done is not out of date.
LEMMA NoNeedCurrent ==
  ASSUME MadeInv, LoopsInv, NoNeedToRemake, Intermediate = {}
  PROVE  ~OutOfDate(File)
<1>a. FileTypes /\ TimesInv
  BY DEF MadeInv, WalkInv, TypeOK
<1>1. pc = "walk" /\ Top.fn = "update_file" /\ Top.at = "remake" /\ ~Top.must_make
  BY DEF NoNeedToRemake, Walking
<1>2. /\ File \in Files /\ File = Top.file /\ Top \in Range(stack) /\ deps[File] \in Seq(Files)
      /\ UpdateInv(Top)
  BY <1>1, TopFacts
<1>3. Through(Top) = Range(deps[File])
  BY <1>1, <1>2, ThroughFacts
<1>4. /\ Top.dep_status = 0 /\ ~Top.running /\ Top.this_mtime = disk[File]
      /\ \A d \in Range(deps[File]) : disk[d] # NoTime
  BY <1>1, <1>2, <1>3 DEF UpdateInv
<1>5. LoopInv(Top)
  BY <1>2 DEF LoopsInv
<1>6. /\ disk[File] # NoTime
      /\ \A d \in Range(deps[File]) : Unneeded(d, 0, disk[File])
  BY <1>1, <1>3, <1>4, <1>5 DEF LoopInv, Waits
<1>7. ASSUME NEW d \in Range(deps[File])
      PROVE  disk[d] <= disk[File] /\ disk[d] # NoTime
  <2>1. d \in Files
    BY <1>2, <1>7 DEF Range
  <2>2. d \in Reach[d]
    BY <2>1, ReachFacts
  <2>3. QED
    BY <1>4, <1>6, <1>7, <2>2 DEF Unneeded
<1>8. \A d \in Files : disk[d] \in Int
  BY <1>a DEF FileTypes, Times, NoTime
<1>9. LookedAt(File) = Range(deps[File]) /\ Range(deps[File]) \subseteq Files
  BY <1>a, <1>2, LookedAtPlain DEF Range
<1>10. \A d \in LookedAt(File) : ~(disk[d] > disk[File]) /\ disk[d] # NoTime
  BY <1>2, <1>7, <1>8, <1>9
<1>11. QED
  BY <1>6, <1>10 DEF OutOfDate

\* With -q what has been considered is out of date after a step if it was before.
LEMMA OutOfDateKept ==
  ASSUME NoIntermediateCycle, MadeInv, [Next]_vars, Intermediate = {}, children = {},
         NEW f \in updated
  PROVE  OutOfDate(f)' <=> OutOfDate(f)
<1>a. FileTypes /\ FileTypes'
  BY FileTypesStep DEF MadeInv, WalkInv, TypeOK
<1>1. f \in Files /\ \A e \in Files : disk'[e] = disk[e]
  BY Frozen
<1>2. DropCircular => f # File
  <2>1. ASSUME DropCircular
        PROVE  File \notin updated
    <3>1. pc = "walk" /\ Top.fn = "update_file" /\ Top.at = "deps"
      BY <2>1, DropCircularThrough DEF DropCircular
    <3>2. QED
      BY <3>1, TopFacts DEF UpdateInv
  <2>2. QED
    BY <2>1
<1>3. deps'[f] = deps[f]
  BY <1>1, <1>2, DepsStep
<1>4. LookedAt(f) = Range(deps[f]) /\ LookedAt(f)' = Range(deps[f]) /\ LookedAt(f) \subseteq Files
  <2>1. LookedAt(f) = Range(deps[f])
    BY <1>a, <1>1, LookedAtPlain
  <2>2. LookedAt(f)' = LookedAt(f)
    BY <1>1, <1>2, LookedAtKept
  <2>3. QED
    BY <1>a, <1>1, <1>3, <2>1, <2>2 DEF FileTypes, Range
<1>5. QED
  BY <1>1, <1>4 DEF OutOfDate

\* Every step keeps what is known with -q.
LEMMA QuestionStep ==
  NoIntermediateCycle /\ MadeInv /\ LoopsInv /\ ErrorsInv /\ QuestionInv /\ [Next]_vars
    => QuestionInv'
<1> SUFFICES ASSUME NoIntermediateCycle, MadeInv, LoopsInv, ErrorsInv, QuestionInv, [Next]_vars,
                    question_flag', Intermediate = {}
             PROVE  QuestionInv'
  BY DEF QuestionInv
<1>a. FileTypes /\ question_flag /\ TargetsInv
  BY SwitchesKept DEF MadeInv, WalkInv, TypeOK, switchVars
<1>b. /\ children = {}
      /\ \A f \in Files : NeedsMaking(f) /\ Settled(f) => ~OutOfDate(f)
      /\ (\E f \in Files : Failed(f)) => \E f \in updated : NeedsMaking(f) /\ OutOfDate(f)
  BY <1>a DEF QuestionInv
<1>1. children' = {}
  BY <1>a, <1>b, NothingStarted
<1>2. ASSUME NEW f \in Files, NeedsMaking(f), Settled(f)'
      PROVE  ~OutOfDate(f)'
  <2>1. CASE Settled(f)
    <3>1. f \in updated
      BY <2>1 DEF Settled
    <3>2. QED
      BY <1>b, <1>2, <2>1, <3>1, OutOfDateKept
  <2>2. CASE ~Settled(f)
    <3>1. ~JobSucceeds(f)
      BY <1>b DEF JobSucceeds, Reaping
    <3>2. ~(PretendRemade /\ f = File)
      <4>1. PretendRemade => IF File \in WithCmds THEN Lines[File] = 0 ELSE File \in is_target
        BY DEF PretendRemade
      <4>2. f = File /\ (IF File \in WithCmds THEN Lines[File] = 0 ELSE File \in is_target)
              => ~NeedsMaking(f)
        BY DEF NeedsMaking
      <4>3. QED
        BY <1>2, <4>1, <4>2
    <3>3. NoNeedToRemake /\ f = File
      BY <1>2, <2>2, <3>1, <3>2, NewlySettled
    <3>4. ~OutOfDate(f)
      BY <3>3, NoNeedCurrent
    <3>5. UNCHANGED <<deps, disk>>
      BY <3>3 DEF NoNeedToRemake, jobVars
    <3>6. QED
      BY <3>4, <3>5 DEF OutOfDate, LookedAt
  <2>3. QED
    BY <2>1, <2>2
<1>3. ASSUME \E f \in updated : NeedsMaking(f) /\ OutOfDate(f)
      PROVE  \E f \in updated' : (NeedsMaking(f) /\ OutOfDate(f))'
  <2>1. PICK f \in updated : NeedsMaking(f) /\ OutOfDate(f)
    BY <1>3
  <2>2. f \in updated' /\ OutOfDate(f)'
    BY <1>b, <2>1, Frozen, OutOfDateKept
  <2>3. QED
    BY <2>1, <2>2 DEF NeedsMaking
<1>4. ASSUME NEW f \in Files, Failed(f)'
      PROVE  \E e \in updated' : (NeedsMaking(e) /\ OutOfDate(e))'
  <2>1. CASE \E e \in Files : Failed(e)
    BY <1>3, <1>b, <2>1
  <2>2. CASE \A e \in Files : ~Failed(e)
    <3>1. (NoRule \/ RemakeFile) /\ f = File
      BY <1>4, <1>b, <2>2, GivenUp, NewlyFailed
    <3>2. Walking("update_file", "remake") /\ Top.must_make /\ NeedsMaking(f)
      BY <3>1 DEF NoRule, RemakeFile, MustRun, Remaking, NeedsMaking
    <3>3. OutOfDate(f)
      BY <3>1, <3>2, RemakingOutOfDate
    <3>4. UNCHANGED <<deps, disk>>
      BY <3>1 DEF NoRule, RemakeFile, jobVars
    <3>5. OutOfDate(f)'
      BY <3>3, <3>4 DEF OutOfDate, LookedAt
    <3>6. f \in updated'
      <4>1. FileTypes' /\ TargetsInv'
        BY FileTypesStep, TargetsStep, <1>a DEF MadeInv, WalkInv, TypeOK, NoLongChain
      <4>2. QED
        BY <1>4, <4>1 DEF TargetsInv, Failed
    <3>7. QED
      BY <3>2, <3>5, <3>6 DEF NeedsMaking
  <2>3. QED
    BY <2>1, <2>2
<1>5. QED
  BY <1>1, <1>2, <1>3, <1>4 DEF QuestionInv, NeedsMaking

-----------------------------------------------------------------------------
(* The exit status.                                                        *)

\* At the start there is nothing but the goals.
LEMMA InitExit == Init => GoalsInv /\ ErrorsInv /\ QuestionInv
<1> SUFFICES ASSUME Init PROVE GoalsInv /\ ErrorsInv /\ QuestionInv
  OBVIOUS
<1>1. /\ updated = {} /\ children = {} /\ stack = <<>> /\ goals = Goals /\ pc = "round"
      /\ status = 0 /\ ret.status = 0 /\ \A f \in Files : update_status[f] = -1
  BY DEF Init, NoResult
<1>2. Range(stack) = {} /\ \A f \in Files : ~Failed(f) /\ ~Settled(f)
  BY <1>1 DEF Range, Failed, Settled
<1>3. QED
  BY <1>1, <1>2 DEF GoalsInv, ErrorsInv, QuestionInv

\* Every step keeps ExitInv.
LEMMA ExitStep == NoIntermediateCycle /\ NoLongChain /\ ExitInv /\ [Next]_vars => ExitInv'
BY DoneStep, GoalsStep, ErrorsStep, QuestionStep DEF ExitInv, DoneInv

\* The inductive invariant of make's exit status holds of every reachable state, for the
\* makefiles for which DoneInv does.
THEOREM ExitInvariance == NoIntermediateCycle /\ NoLongChain /\ Spec => []ExitInv
<1>1. CASE NoIntermediateCycle /\ NoLongChain
  <2>1. NoIntermediateCycle /\ NoLongChain /\ Spec => []DoneInv
    BY DoneInvariance
  <2>2. Spec => []DoneInv
    BY <1>1, <2>1
  <2>3. Init /\ DoneInv => ExitInv
    BY InitExit DEF ExitInv
  <2>4. ExitInv /\ [Next]_vars => ExitInv'
    BY <1>1, ExitStep
  <2>5. QED
    BY <2>2, <2>3, <2>4, PTL DEF Spec
<1>2. QED
  BY <1>1

\* When every goal has succeeded, so has all they depend on: what a target that has
\* succeeded was looked at for has succeeded, and make goes from target to target.
LEMMA AllSettled ==
  ASSUME ExitInv, pc = "exited", status = 0
  PROVE  \A f \in Wanted \ Intermediate : Settled(f)
<1>a. /\ FileTypes /\ TimesInv /\ ConsideredInv /\ GoalsInv
  BY DEF ExitInv, DoneInv, MadeInv, WalkInv, TypeOK
<1> DEFINE S == {f \in Files : \A e \in Reach[f] \ Intermediate : Settled(e)}
<1>1. \A f \in Range(Goals) : f \in Files /\ Settled(f)
  BY <1>a, GraphAssumption DEF GoalsInv, Range, Settled
<1>2. ASSUME NEW f \in Files, Settled(f)
      PROVE  \A e \in LookedAt(f) \ Intermediate : Settled(e)
  BY <1>a, <1>2, ConsideredLookedAt DEF Settled
<1>3. ASSUME NEW f \in Files, Settled(f)
      PROVE  f \in S
  <2>1. CASE f \in Intermediate
    BY <1>a, <1>2, <1>3, <2>1, ReachOfIntermediate
  <2>2. CASE f \notin Intermediate
    BY <1>3, <2>2, ReachOfFile
  <2>3. QED
    BY <2>1, <2>2
<1>4. ASSUME NEW f \in S, NEW d \in Range(deps[f])
      PROVE  d \in S
  <2>1. f \in Files /\ d \in Files
    BY <1>a, <1>4 DEF FileTypes, Range
  <2>2. CASE f \in Intermediate
    <3>1. d \in Range(Deps[f])
      BY <1>a, <1>4, <2>2 DEF TimesInv
    <3>2. Reach[d] \subseteq Reach[f]
      BY <2>1, <2>2, <3>1, ReachFacts
    <3>3. QED
      BY <1>4, <2>1, <3>2
  <2>3. CASE f \notin Intermediate
    <3>1. Settled(f)
      BY <1>4, <2>1, <2>3, ReachFacts
    <3>2. Reach[d] \subseteq LookedAt(f)
      BY <1>a, <1>4, <2>1, ReachLookedAt
    <3>3. QED
      BY <1>2, <2>1, <3>1, <3>2
  <2>4. QED
    BY <2>2, <2>3
<1>5. Wanted \subseteq S
  <2>1. IsClosed(S) /\ S \in SUBSET Files
    BY <1>1, <1>3, <1>4 DEF IsClosed
  <2> HIDE DEF S
  <2>2. QED
    BY <1>a, <2>1, WantedFacts
<1>6. ASSUME NEW f \in Wanted \ Intermediate
      PROVE  Settled(f)
  <2>1. f \in S /\ f \in Files
    BY <1>5, <1>6
  <2>2. QED
    BY <1>6, <2>1, ReachFacts
<1>7. QED
  BY <1>6

\* When make exits with success, no target but an intermediate one has failed.
THEOREM NoFailureIsLost == NoIntermediateCycle /\ NoLongChain /\ Spec => []NoFailureLost
<1>1. ASSUME ExitInv
      PROVE  NoFailureLost
  <2>1. FileTypes /\ GoalsInv
    BY <1>1 DEF ExitInv, DoneInv, MadeInv, WalkInv, TypeOK
  <2>2. updated \subseteq Wanted
    BY <2>1, ConsideredWanted
  <2>3. QED
    BY <1>1, <2>2, AllSettled DEF NoFailureLost
<1>2. QED
  BY <1>1, ExitInvariance, PTL

\* When make exits with success, every target it has been through is up to date; if there
\* are intermediate files and an error need not end make, such a file may have failed.
THEOREM SuccessIsUpToDate ==
  NoIntermediateCycle /\ NoLongChain /\ Spec =>
    [](Intermediate = {} \/ ~(keep_going_flag \/ question_flag \/ ForkMayFail) => UpToDate)
<1> DEFINE Told == Intermediate = {} \/ ~(keep_going_flag \/ question_flag \/ ForkMayFail)
<1>1. ASSUME ExitInv, Told
      PROVE  UpToDate
  <2>1. SUFFICES ASSUME pc = "exited", status = 0, NEW f \in WithCmds \ Quiet, f \in updated,
                        Lines[f] > 0
                 PROVE  Current(f)
    BY DEF UpToDate
  <2>2. Settled(f)
    <3>1. CASE f \notin Intermediate
      <4>1. FileTypes /\ GoalsInv
        BY <1>1 DEF ExitInv, DoneInv, MadeInv, WalkInv, TypeOK
      <4>2. f \in Wanted
        BY <2>1, <4>1, ConsideredWanted
      <4>3. QED
        BY <1>1, <2>1, <3>1, <4>2, AllSettled
    <3>2. CASE f \in Intermediate
      <4>1. f \in Files /\ ~Failed(f)
        BY <1>1, <2>1, <3>2, GraphAssumption DEF ExitInv, ErrorsInv
      <4>2. update_status[f] \in Statuses
        BY <1>1, <2>1 DEF ExitInv, DoneInv, MadeInv, WalkInv, PlacesInv
      <4>3. QED
        BY <2>1, <4>1, <4>2 DEF Failed, Settled, Statuses
    <3>3. QED
      BY <3>1, <3>2
  <2>3. QED
    BY <1>1, <2>1, <2>2 DEF ExitInv, DoneInv, ConsideredInv, SettledCurrent
<1>2. ExitInv => (Told => UpToDate)
  BY <1>1
<1>3. QED
  BY <1>2, ExitInvariance, PTL

\* Without intermediate files what the goals depend on now is what is wanted.
LEMMA BelowIsWanted ==
  ASSUME FileTypes, Intermediate = {}
  PROVE  Below = Wanted
<1>1. \A f \in Files : LookedAt(f) \ Intermediate = Range(deps[f])
  BY LookedAtPlain
<1>2. ASSUME NEW S \in SUBSET Files
      PROVE  (\A f \in S : LookedAt(f) \ Intermediate \subseteq S)
               <=> (\A f \in S : Range(deps[f]) \subseteq S)
  BY <1>1
<1>3. Wanted = {f \in Files : \A S \in {S \in SUBSET Files :
                                          /\ Range(Goals) \subseteq S
                                          /\ \A e \in S : Range(deps[e]) \subseteq S} :
                                f \in S}
  BY DEF Wanted, IsClosed
<1>4. QED
  BY <1>2, <1>3 DEF Below

\* If there are no intermediate files, make exits with 0 exactly when every goal is finished
\* and nothing has failed; and, with -q, when nothing is to be made.
THEOREM ExitStatusIsRight == Intermediate = {} /\ Spec => []ExitStatus
<1>1. ASSUME ExitInv, Intermediate = {}
      PROVE  ExitStatus
  <2>a. /\ FileTypes /\ TargetsInv /\ GoalsInv /\ ErrorsInv /\ QuestionInv /\ GoalTypes
    BY <1>1 DEF ExitInv, DoneInv, MadeInv, WalkInv, TypeOK
  <2>1. SUFFICES ASSUME pc = "exited"
                 PROVE  /\ status = 0 <=> /\ \A f \in Range(Goals) : f \in updated
                                          /\ \A f \in Files : update_status[f] <= 0
                        /\ question_flag =>
                             (status = 0 <=> ~\E f \in Below : NeedsMaking(f) /\ OutOfDate(f))
    BY DEF ExitStatus
  <2>2. Below = Wanted /\ updated \subseteq Wanted /\ Wanted \subseteq Files
    BY <1>1, <2>a, BelowIsWanted, WantedFacts, ConsideredWanted
  <2>3. ASSUME status = 0
        PROVE  /\ \A f \in Range(Goals) : f \in updated
               /\ \A f \in Files : update_status[f] <= 0
               /\ question_flag => ~\E f \in Below : NeedsMaking(f) /\ OutOfDate(f)
    <3>1. \A f \in Wanted : Settled(f)
      BY <1>1, <2>1, <2>3, AllSettled
    <3>2. \A f \in Range(Goals) : f \in updated
      BY <2>1, <2>a DEF GoalsInv, Range
    <3>3. \A f \in Files : update_status[f] <= 0
      BY <2>2, <2>a, <3>1 DEF TargetsInv, Settled
    <3>4. question_flag => ~\E f \in Below : NeedsMaking(f) /\ OutOfDate(f)
      BY <1>1, <2>2, <2>a, <3>1 DEF QuestionInv
    <3>5. QED
      BY <3>2, <3>3, <3>4
  <2>4. ASSUME status # 0
        PROVE  /\ \E f \in Files : ~(update_status[f] <= 0)
               /\ question_flag => \E f \in Below : NeedsMaking(f) /\ OutOfDate(f)
    <3>1. PICK f \in Files : Failed(f)
      BY <2>1, <2>4, <2>a DEF ErrorsInv
    <3>2. ~(update_status[f] <= 0)
      <4>1. update_status[f] \in -1 .. 3
        BY <2>a DEF FileTypes
      <4>2. QED
        BY <3>1, <4>1 DEF Failed
    <3>3. question_flag => \E e \in Below : NeedsMaking(e) /\ OutOfDate(e)
      BY <1>1, <2>2, <2>a, <3>1 DEF QuestionInv
    <3>4. QED
      BY <3>1, <3>2, <3>3
  <2>5. QED
    BY <2>3, <2>4
<1>2. Intermediate = {} => NoIntermediateCycle /\ NoLongChain
  BY DEF NoIntermediateCycle, NoLongChain
<1>3. CASE Intermediate = {}
  <2>1. NoIntermediateCycle /\ NoLongChain /\ Spec => []ExitInv
    BY ExitInvariance
  <2>2. Spec => []ExitInv
    BY <1>2, <1>3, <2>1
  <2>3. ExitInv => ExitStatus
    BY <1>1, <1>3
  <2>4. QED
    BY <2>2, <2>3, PTL
<1>4. QED
  BY <1>3
=============================================================================
