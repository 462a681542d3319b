------------------------------- MODULE ZshJobs -------------------------------
(***************************************************************************)
(* Job control of an interactive zsh 4.0.6 (jobs.c, execpline in exec.c,   *)
(* the SIGCHLD part of zhandler in signals.c): the job table, the current  *)
(* and the previous job, pipelines in the foreground and the background,   *)
(* the builtins fg, bg, wait, disown and jobs, and the report of changed   *)
(* jobs before a prompt.                                                   *)
(*                                                                         *)
(* table holds what the C code keeps in global variables; the functions of *)
(* jobs.c are operators from one table to the next.  shell is the place of *)
(* the main program, handler that of the SIGCHLD handler, and os what the  *)
(* children really do.  A signal caught in a critical section and one that *)
(* is blocked are both still pending here: ZshSignals models how the ring  *)
(* brings the first kind back.                                             *)
(*                                                                         *)
(* Bounds: those of the constants; pids come back into use.                *)
(*                                                                         *)
(* Left out: super-jobs (shell functions in a pipeline that is stopped),   *)
(* traps, jobs killed by SIGINT, the terminal's process group, exit.       *)
(***************************************************************************)
EXTENDS Integers, Sequences, FiniteSets

CONSTANTS
  MAXJOB,    \* places in the job table, the first of which is not used
  Pids,      \* process numbers
  NoPid,     \* the number of no process
  Exits,     \* the exit statuses of processes, among them "ok"
  MaxPipe,   \* the longest pipeline
  NOTIFY     \* the option: changes are reported at once

ASSUME JobsAssumption ==
  /\ MAXJOB \in Nat \ {0, 1} /\ MaxPipe \in Nat \ {0} /\ NOTIFY \in BOOLEAN
  /\ NoPid \notin Pids
  /\ "ok" \in Exits /\ Exits \cap {"none", "running", "stopped"} = {}

\* An instance with one exit status does not tell failure from success.
Failure == CHOOSE status \in Exits : status # "ok" \/ Exits = {"ok"}
None == 0   \* no job: the code has -1
Jobs == 1 .. MAXJOB - 1

VARIABLES
  table,     \* jobtab, thisjob, curjob, prevjob, lastval, lastval2
  shell,     \* pc, command, job, own, left, sub, errflag of the main program
  handler,   \* the SIGCHLD handler is under way
  sigchld,   \* a SIGCHLD is pending
  os,        \* what each process does: "none" when there is no such child
  news,      \* the children with a change wait3 has not reported
  cmdout,    \* cmdoutpid and cmdoutval: the $(...) last started, and its status
  disowned,  \* history: the children given away, by disown, &| or an interrupted $(...)
  result     \* history: how the job in the foreground, or waited for, has ended

vars == <<table, shell, handler, sigchld, os, news, cmdout, disowned, result>>
children == <<os, news, sigchld>>

-----------------------------------------------------------------------------
(* The functions of jobs.c.                                                *)

FreeEntry == [stat |-> {}, procs |-> <<>>]
Stat(t, j) == t.jobtab[j].stat
SetFlags(t, j, flags) == [t EXCEPT !.jobtab[j].stat = @ \cup flags]
ClearFlags(t, j, flags) == [t EXCEPT !.jobtab[j].stat = @ \ flags]
Statuses(t, j) == {t.jobtab[j].procs[i].status : i \in DOMAIN t.jobtab[j].procs}
PidsOf(t, j) == {t.jobtab[j].procs[i].pid : i \in DOMAIN t.jobtab[j].procs}
LastProc(t, j) == t.jobtab[j].procs[Len(t.jobtab[j].procs)]
Highest(S) == CHOOSE i \in S : \A k \in S : k <= i
Lowest(S) == CHOOSE i \in S : \A k \in S : i <= k

deletejob(t, j) == [t EXCEPT !.jobtab[j] = FreeEntry]

\* A stopped job before another, the highest number first.
setprevjob(t) ==
  LET others == {i \in Jobs \ {t.curjob, t.thisjob} : "INUSE" \in Stat(t, i)}
      stopped == {i \in others : "STOPPED" \in Stat(t, i)}
  IN  [t EXCEPT !.prevjob = IF stopped # {} THEN Highest(stopped)
                            ELSE IF others # {} THEN Highest(others) ELSE None]

\* What printjob does beside the printing: a finished job is gone after its report.
printjob(t, j) ==
  IF "DONE" \notin Stat(t, j)
  THEN ClearFlags(t, j, {"CHANGED"})
  ELSE LET d == deletejob(t, j)
           c == IF j = d.curjob THEN [d EXCEPT !.curjob = d.prevjob, !.prevjob = j] ELSE d
       IN  IF j = c.prevjob THEN setprevjob(c) ELSE c

scanjobs(t) ==
  LET scan[i \in 0 .. MAXJOB - 1] ==
        IF i = 0 THEN t
        ELSE IF "CHANGED" \in Stat(scan[i - 1], i) THEN printjob(scan[i - 1], i) ELSE scan[i - 1]
  IN  scan[MAXJOB - 1]

update_process(t, j, p, status) ==
  [t EXCEPT !.jobtab[j].procs =
     [i \in DOMAIN @ |-> IF @[i].pid = p THEN [@[i] EXCEPT !.status = status] ELSE @[i]]]

\* Wrong: the job is looked at although a process runs.
update_job_at_once(t, j) ==
  LET val == LastProc(t, j).status
      somestopped == "stopped" \in Statuses(t, j)
      valued == [t EXCEPT !.lastval2 = val, !.lastval = IF j = t.thisjob THEN val ELSE @]
  IN  SetFlags(valued, j, {"CHANGED", IF somestopped THEN "STOPPED" ELSE "DONE"})

\* Wrong: any job that has ended gives $? its status.
update_job_any(t, j) ==
  LET val == LastProc(t, j).status
      somestopped == "stopped" \in Statuses(t, j)
      valued == [t EXCEPT !.lastval2 = val, !.lastval = val]
      marked == SetFlags(valued, j, {"CHANGED", IF somestopped THEN "STOPPED" ELSE "DONE"})
      current == IF Stat(marked, j) \cap {"DONE", "STOPPED"} = {"STOPPED"}
                 THEN [marked EXCEPT !.prevjob = marked.curjob, !.curjob = j] ELSE marked
  IN  IF "running" \in Statuses(t, j) \/ (somestopped /\ "STOPPED" \in Stat(t, j)) THEN t
      ELSE IF (NOTIFY \/ j = t.thisjob) /\ "LOCKED" \in Stat(t, j) THEN printjob(current, j)
      ELSE current

\* Nothing while a process runs; then the job is stopped or done, its status is that of
\* its last process, and the job waited for (or any, with NOTIFY) is reported.
update_job(t, j) ==
  LET val == LastProc(t, j).status
      somestopped == "stopped" \in Statuses(t, j)
      valued == [t EXCEPT !.lastval2 = val, !.lastval = IF j = t.thisjob THEN val ELSE @]
      marked == SetFlags(valued, j, {"CHANGED", IF somestopped THEN "STOPPED" ELSE "DONE"})
      current == IF Stat(marked, j) \cap {"DONE", "STOPPED"} = {"STOPPED"}
                 THEN [marked EXCEPT !.prevjob = marked.curjob, !.curjob = j] ELSE marked
  IN  IF "running" \in Statuses(t, j) \/ (somestopped /\ "STOPPED" \in Stat(t, j)) THEN t
      ELSE IF (NOTIFY \/ j = t.thisjob) /\ "LOCKED" \in Stat(t, j) THEN printjob(current, j)
      ELSE current

makerunning(t, j) ==
  [ClearFlags(t, j, {"STOPPED"}) EXCEPT !.jobtab[j].procs =
     [i \in DOMAIN @ |-> IF @[i].status # "stopped" THEN @[i]
                         ELSE [@[i] EXCEPT !.status = "running"]]]

FreeSlots(t) == {j \in Jobs : Stat(t, j) = {}}
initjob(t) ==
  LET j == Lowest(FreeSlots(t))
  IN  [t EXCEPT !.jobtab[j] = [stat |-> {"INUSE"}, procs |-> <<>>], !.thisjob = j]

\* Wrong: a job that seemed done before its last process was there stays done.
addproc_done(t, p) ==
  [t EXCEPT !.jobtab[t.thisjob].procs = Append(@, [pid |-> p, status |-> "running"])]

addproc(t, p) ==
  [ClearFlags(t, t.thisjob, {"DONE"}) EXCEPT
     !.jobtab[t.thisjob].procs = Append(@, [pid |-> p, status |-> "running"])]

\* The job goes to the background: it becomes the current job, or the previous one of a
\* current job that is stopped.
spawnjob(t) ==
  LET j == t.thisjob
      named == IF t.curjob = None \/ "STOPPED" \notin Stat(t, t.curjob)
               THEN setprevjob([t EXCEPT !.curjob = j])
               ELSE IF t.prevjob = None \/ "STOPPED" \notin Stat(t, t.prevjob)
               THEN [t EXCEPT !.prevjob = j] ELSE t
      kept == IF t.jobtab[j].procs = <<>> THEN deletejob(named, j)
              ELSE SetFlags(named, j, {"LOCKED"})
  IN  [kept EXCEPT !.thisjob = None]

Unusable(t, j) == j # None /\ (j = t.thisjob \/ "INUSE" \notin Stat(t, j))
\* Wrong: one look at the current job, none at the previous one that takes its place.
setcurjob_once(t) ==
  IF Unusable(t, t.curjob) THEN setprevjob([t EXCEPT !.curjob = t.prevjob]) ELSE t
setcurjob(t) ==
  LET once == setprevjob([t EXCEPT !.curjob = t.prevjob])
  IN  IF ~Unusable(t, t.curjob) THEN t
      ELSE IF ~Unusable(once, once.curjob) THEN once
      ELSE setprevjob([once EXCEPT !.curjob = once.prevjob])

\* fg, bg and wait take the job away from the current and the previous one.
shuffle(t, j, command) ==
  LET off == IF t.curjob # j THEN t
             ELSE [t EXCEPT !.curjob = t.prevjob, !.prevjob = IF command = "bg" THEN None ELSE j]
      again == IF off.prevjob \in {j, None} THEN setprevjob(off) ELSE off
  IN  IF again.curjob = None THEN setprevjob([again EXCEPT !.curjob = again.prevjob]) ELSE again

-----------------------------------------------------------------------------
(* The shell and its children at work.                                     *)

EmptyTable == [jobtab |-> [j \in Jobs |-> FreeEntry], thisjob |-> None, curjob |-> None,
               prevjob |-> None, lastval |-> "ok", lastval2 |-> "ok"]
\* pc: the place of the main program.  command: what it carries out.  job: the job it
\* looks at or waits for, sub the process it waits for.  own: the place a builtin has in
\* the table.  left: the processes a pipeline still needs.
AtPrompt == [pc |-> "prompt", command |-> "none", job |-> None, own |-> None, left |-> 0,
             sub |-> NoPid, errflag |-> FALSE]

Init ==
  /\ table = EmptyTable /\ shell = AtPrompt
  /\ handler = FALSE /\ sigchld = FALSE
  /\ os = [p \in Pids |-> "none"] /\ news = {}
  /\ cmdout = [pid |-> NoPid, val |-> "ok"]
  /\ disowned = {}
  /\ result = "none"

Goto(place) == shell' = [shell EXCEPT !.pc = place]
At(place) == shell.pc = place /\ ~handler
Preprompt == [AtPrompt EXCEPT !.pc = "scan"]
Known == UNION {PidsOf(table, j) : j \in Jobs}
\* The kernel's numbers go round slowly: one in the table is not given out again.
FreePids == {p \in Pids \ Known : os[p] = "none"}
JobOf(p) == CHOOSE j \in Jobs : p \in PidsOf(table, j)

(* The children.                                                            *)

Change(p, state) ==
  /\ os' = [os EXCEPT ![p] = state]
  /\ news' = news \cup {p} /\ sigchld' = TRUE
  /\ UNCHANGED <<table, shell, handler, cmdout, disowned, result>>

Exit(p) == os[p] \in {"running", "stopped"} /\ \E status \in Exits : Change(p, status)
Stop(p) == os[p] = "running" /\ Change(p, "stopped")

\* SIGCONT to those of them that are stopped; a stop not yet reported is not reported
\* any more.
Continue(pids) ==
  LET woken == {p \in pids : os[p] = "stopped"}
  IN  /\ os' = [p \in Pids |-> IF p \in woken THEN "running" ELSE os[p]]
      /\ news' = news \ woken

(* The handler of SIGCHLD.                                                  *)

\* Where the signal is neither blocked nor queued.  zwaitjob and waitforpid open it
\* before the wait, where a builtin's queued signals are dealt with, and after it; after a
\* $(...) it stays open until the next fork.
Gone == os[shell.sub] = "none"
Open == \/ shell.pc \in {"prompt", "scan", "printed", "cleared", "suspended", "pidwait", "waited"}
        \/ shell.pc = "wait" /\ shell.command # "run"
        \/ shell.pc = "pidloop" /\ (shell.errflag \/ Gone)

\* A signal ends a suspension.
Catch ==
  /\ sigchld /\ ~handler /\ Open
  /\ sigchld' = FALSE /\ handler' = TRUE
  /\ Goto(CASE shell.pc = "suspended" -> "loop" [] shell.pc = "pidwait" -> "pidloop"
            [] OTHER -> shell.pc)
  /\ UNCHANGED <<table, os, news, cmdout, disowned, result>>

\* How the job in the foreground, or waited for, has ended or stopped, once no process runs.
Outcome(t) ==
  LET states == Statuses(t, shell.job) IN
  IF "running" \in states \/ ("stopped" \in states /\ "STOPPED" \in Stat(t, shell.job))
  THEN result ELSE LastProc(t, shell.job).status

\* One round of the handler's loop over wait3.  The status of a $(...) is kept while the
\* shell still waits for it: nothing reads it later.
Reap(p) ==
  /\ handler /\ p \in news
  /\ news' = news \ {p}
  /\ os' = IF os[p] \in Exits THEN [os EXCEPT ![p] = "none"] ELSE os
  /\ IF p = cmdout.pid
     THEN /\ cmdout' = [pid |-> NoPid, val |-> IF p = shell.sub THEN os[p] ELSE "ok"]
          /\ UNCHANGED table
     ELSE /\ table' = IF p \in Known
                      THEN update_job(update_process(table, JobOf(p), p, os[p]), JobOf(p))
                      ELSE table
          /\ UNCHANGED cmdout
  /\ disowned' = IF os[p] \in Exits THEN disowned \ {p} ELSE disowned
  /\ result' = IF p \in Known /\ shell.command # "none" /\ JobOf(p) = shell.job
               THEN Outcome(update_process(table, shell.job, p, os[p])) ELSE result
  /\ UNCHANGED <<shell, handler, sigchld>>

HandlerEnds ==
  /\ handler /\ news = {}
  /\ handler' = FALSE
  /\ UNCHANGED <<table, shell, children, cmdout, disowned, result>>

-----------------------------------------------------------------------------
(* execpline: a pipeline.                                                  *)

Pipeline(n, how) ==
  /\ At("prompt")
  /\ IF FreeSlots(table) = {}
     THEN shell' = Preprompt /\ UNCHANGED table
     ELSE /\ table' = initjob(table)
          /\ shell' = [shell EXCEPT !.pc = "build", !.command = how, !.left = n]
  /\ UNCHANGED <<handler, children, cmdout, disowned, result>>

Fork ==
  /\ At("build") /\ shell.left > 0 /\ table.thisjob < MAXJOB - 1
  /\ \E p \in FreePids :
       /\ os' = [os EXCEPT ![p] = "running"]
       /\ table' = addproc(table, p)
       /\ disowned' = IF shell.command = "disown" THEN disowned \cup {p} ELSE disowned
  /\ shell' = [shell EXCEPT !.left = @ - 1]
  /\ UNCHANGED <<handler, sigchld, news, cmdout, result>>

\* zfork fails, of itself in the last place of the table: the rest of the pipeline is
\* not started, and errflag keeps the shell from waiting for what was.
ForkFails ==
  /\ At("build") /\ shell.left > 0
  /\ shell' = [shell EXCEPT !.left = 0, !.errflag = TRUE]
  /\ UNCHANGED <<table, handler, children, cmdout, disowned, result>>

\* A $(...) among the arguments of the next process runs, and is waited for, before that
\* process is started.
CommandSubst ==
  /\ At("build") /\ shell.left > 0 /\ shell.command = "run" /\ table.thisjob < MAXJOB - 1
  /\ \E p \in FreePids : /\ os' = [os EXCEPT ![p] = "running"]
                         /\ shell' = [shell EXCEPT !.pc = "wait", !.sub = p]
                         /\ cmdout' = [pid |-> p, val |-> "ok"]
  /\ UNCHANGED <<table, handler, sigchld, news, disowned, result>>

\* The pipeline is started: it is waited for, put into the background or given away.
Started ==
  /\ At("build") /\ shell.left = 0
  /\ IF shell.command = "run"
     THEN shell' = [shell EXCEPT !.pc = "wait", !.job = table.thisjob] /\ UNCHANGED table
     ELSE /\ shell' = Preprompt
          /\ table' = IF shell.command = "async" THEN spawnjob(table)
                      ELSE [deletejob(table, table.thisjob) EXCEPT !.thisjob = None]
  /\ UNCHANGED <<handler, children, cmdout, disowned, result>>

-----------------------------------------------------------------------------
(* zwaitjob and waitforpid.                                                *)

\* Before the first test a builtin's queued signals have been dealt with.
StartWait ==
  LET t == SetFlags(table, shell.job, {"LOCKED"}) IN
  /\ At("wait") /\ shell.job # None /\ (sigchld => ~Open)
  /\ IF table.jobtab[shell.job].procs = <<>>
     THEN table' = deletejob(table, shell.job) /\ Goto("waited")
     ELSE /\ table' = IF "CHANGED" \in Stat(t, shell.job) THEN printjob(t, shell.job) ELSE t
          /\ Goto("loop")
  /\ UNCHANGED <<handler, children, cmdout, disowned, result>>

Unfinished(j) == Stat(table, j) # {} /\ Stat(table, j) \cap {"DONE", "STOPPED"} = {}

\* Wrong: the wait for a job does not end when it stops.
Loop_stopped ==
  /\ At("loop")
  /\ Goto(IF ~shell.errflag /\ Stat(table, shell.job) # {} /\ "DONE" \notin Stat(table, shell.job)
          THEN "suspended" ELSE "waited")
  /\ UNCHANGED <<table, handler, children, cmdout, disowned, result>>

\* Between the test and the suspension SIGCHLD is blocked.
Loop ==
  /\ At("loop")
  /\ Goto(IF ~shell.errflag /\ Unfinished(shell.job) THEN "suspended" ELSE "waited")
  /\ UNCHANGED <<table, handler, children, cmdout, disowned, result>>

StartPidWait ==
  /\ At("wait") /\ shell.sub # NoPid /\ (sigchld => ~Open)
  /\ Goto(IF ~shell.errflag /\ ~Gone THEN "pidwait" ELSE "pidloop")
  /\ UNCHANGED <<table, handler, children, cmdout, disowned, result>>

\* After the first round the process is continued before the next suspension.
PidLoop ==
  /\ At("pidloop") /\ ~shell.errflag /\ ~Gone
  /\ Goto("pidwait") /\ Continue({shell.sub})
  /\ UNCHANGED <<table, handler, sigchld, cmdout, disowned, result>>

\* The $(...) is over, or has been interrupted and goes on alone.  Its status, read once,
\* is forgotten.
SubstEnds ==
  /\ At("pidloop") /\ shell.command = "run" /\ (shell.errflag \/ Gone) /\ ~sigchld
  /\ shell' = [shell EXCEPT !.pc = "build", !.sub = NoPid, !.left = IF shell.errflag THEN 0 ELSE @]
  /\ table' = [table EXCEPT !.lastval = IF shell.errflag THEN Failure ELSE cmdout.val]
  /\ cmdout' = [cmdout EXCEPT !.val = "ok"]
  /\ disowned' = IF Gone THEN disowned ELSE disowned \cup {shell.sub}
  /\ UNCHANGED <<handler, children, result>>

\* SIGINT is let through where the shell waits for a process, or for a job in wait.
Interrupt ==
  /\ ~handler /\ \/ shell.pc = "pidwait"
                 \/ shell.pc = "suspended" /\ shell.command \in {"wait", "all"}
  /\ shell' = [shell EXCEPT !.pc = IF @ = "pidwait" THEN "pidloop" ELSE "loop", !.errflag = TRUE]
  /\ UNCHANGED <<table, handler, children, cmdout, disowned, result>>

-----------------------------------------------------------------------------
(* bin_fg: the builtins, each in a place of the table of its own.          *)

Own == Lowest(FreeSlots(table))
\* The table when bin_fg has brought it up to date.
Entered(t) == setcurjob(IF NOTIFY THEN initjob(t) ELSE scanjobs(initjob(t)))
\* The jobs that %n can name, and that no argument stands for.
Listed(t) == {j \in Jobs \ {t.thisjob} : Stat(t, j) # {}}
\* %% and %- need only be places in use: %- may be that of the builtin itself.
Named(t) ==
  Listed(t) \cup {j \in {t.curjob, t.prevjob} \ {None} : "INUSE" \in Stat(t, j)}
\* execpline gives the place of the builtin back; its status is the command's.
LeaveBuiltin(t, own, status) ==
  /\ table' = [deletejob(t, own) EXCEPT !.thisjob = None, !.lastval = status]
  /\ shell' = Preprompt

BeginBuiltin == At("prompt") /\ FreeSlots(table) # {}

\* No argument and no current job, or an argument that names no job.
NoSuchJob ==
  /\ BeginBuiltin
  /\ LeaveBuiltin(Entered(table), Own, Failure)
  /\ UNCHANGED <<handler, children, cmdout, disowned, result>>

\* jobs: every job is reported.
jobs ==
  LET t == Entered(table)
      list[i \in 0 .. MAXJOB - 1] ==
        IF i = 0 THEN t
        ELSE IF i \in Listed(list[i - 1]) THEN printjob(list[i - 1], i) ELSE list[i - 1]
  IN  /\ BeginBuiltin
      /\ LeaveBuiltin(list[MAXJOB - 1], Own, "ok")
      /\ UNCHANGED <<handler, children, cmdout, disowned, result>>

disown ==
  LET t == Entered(table) IN
  /\ BeginBuiltin
  /\ \E j \in Named(t) : /\ LeaveBuiltin(deletejob(t, j), Own, "ok")
                         /\ disowned' = disowned \cup PidsOf(t, j)
  /\ UNCHANGED <<handler, children, cmdout, result>>

BgRunning ==
  LET t == Entered(table) IN
  /\ BeginBuiltin
  /\ \E j \in Named(t) : "STOPPED" \notin Stat(t, j)
  /\ LeaveBuiltin(t, Own, Failure)
  /\ UNCHANGED <<handler, children, cmdout, disowned, result>>

\* A job before fg, bg or wait takes it on: a stopped one counts as running again.
Resumed(t, j, command) ==
  LET u == shuffle(IF "STOPPED" \in Stat(t, j) THEN makerunning(t, j) ELSE t, j, command)
  IN  IF command = "wait" THEN u ELSE printjob(u, j)

\* update_job takes thisjob for the job in the foreground.
Foreground(t, j, command) == IF command = "fg" THEN [t EXCEPT !.thisjob = j] ELSE t

\* fg %j, bg %j, wait %j.
ResumeJob(command) ==
  LET t == Entered(table) IN
  /\ BeginBuiltin
  /\ \E j \in Named(t) :
       /\ "STOPPED" \in Stat(t, j) \/ command # "bg"
       /\ IF "STOPPED" \in Stat(t, j) THEN Continue(PidsOf(t, j)) ELSE UNCHANGED <<os, news>>
       /\ IF command = "bg"
          THEN LeaveBuiltin(Resumed(t, j, command), Own, "ok")
          ELSE /\ table' = Foreground(Resumed(t, j, command), j, command)
               /\ shell' = [shell EXCEPT !.pc = "wait", !.command = command, !.job = j, !.own = Own]
  /\ UNCHANGED <<handler, sigchld, cmdout, disowned, result>>

\* wait with a process number.
WaitPid ==
  LET t == Entered(table) IN
  /\ BeginBuiltin
  /\ \E j \in Listed(t) : \E p \in PidsOf(t, j) :
       shell' = [shell EXCEPT !.pc = "wait", !.command = "pid", !.sub = p, !.own = Own]
  /\ table' = t
  /\ UNCHANGED <<handler, children, cmdout, disowned, result>>

\* wait without argument: one job after the other, those finished in the meantime left out.
WaitNext(t, own, from) ==
  LET rest == {j \in Listed(t) : j > from} IN
  IF rest = {} THEN LeaveBuiltin(t, own, "ok")
  ELSE /\ table' = t
       /\ shell' = [shell EXCEPT !.pc = "wait", !.command = "all", !.job = Lowest(rest),
                                !.own = own]

WaitAll ==
  /\ BeginBuiltin
  /\ WaitNext(Entered(table), Own, None)
  /\ UNCHANGED <<handler, children, cmdout, disowned, result>>

\* The wait is over, and SIGCHLD has been let through.
Waited ==
  /\ At("waited") /\ ~sigchld
  /\ CASE shell.command = "run" -> table' = [table EXCEPT !.thisjob = None] /\ shell' = Preprompt
       [] shell.command = "all" -> WaitNext(table, shell.own, shell.job)
       [] OTHER -> LeaveBuiltin(table, shell.own, table.lastval2)
  /\ UNCHANGED <<handler, children, cmdout, disowned, result>>

PidWaited ==
  /\ At("pidloop") /\ shell.command = "pid" /\ (shell.errflag \/ Gone) /\ ~sigchld
  /\ LeaveBuiltin(table, shell.own, table.lastval2)
  /\ UNCHANGED <<handler, children, cmdout, disowned, result>>

-----------------------------------------------------------------------------
(* preprompt: the changed jobs are reported, with SIGCHLD let through.     *)

Scan ==
  /\ At("scan")
  /\ shell' = IF NOTIFY \/ shell.job = MAXJOB - 1 THEN AtPrompt
              ELSE [shell EXCEPT !.job = @ + 1,
                      !.pc = IF "CHANGED" \in Stat(table, shell.job + 1) THEN "printed" ELSE "scan"]
  /\ result' = "none"
  /\ UNCHANGED <<table, handler, children, cmdout, disowned>>

\* The end of printjob: STAT_DONE is looked at after the printing.
Printed ==
  /\ At("printed")
  /\ IF "DONE" \in Stat(table, shell.job)
     THEN table' = printjob(table, shell.job) /\ Goto("scan")
     ELSE Goto("cleared") /\ UNCHANGED table
  /\ UNCHANGED <<handler, children, cmdout, disowned, result>>

Cleared ==
  /\ At("cleared")
  /\ table' = ClearFlags(table, shell.job, {"CHANGED"}) /\ Goto("scan")
  /\ UNCHANGED <<handler, children, cmdout, disowned, result>>

-----------------------------------------------------------------------------
Building == Fork \/ ForkFails \/ CommandSubst \/ Started
Waits == StartWait \/ Loop \/ StartPidWait \/ PidLoop \/ SubstEnds \/ Waited \/ PidWaited
Preprompting == Scan \/ Printed \/ Cleared
Builtin == \/ NoSuchJob \/ jobs \/ disown \/ BgRunning \/ WaitPid \/ WaitAll
           \/ \E command \in {"fg", "bg", "wait"} : ResumeJob(command)
Command == (\E n \in 1 .. MaxPipe, how \in {"run", "async", "disown"} : Pipeline(n, how)) \/ Builtin
Handler == Catch \/ (\E p \in Pids : Reap(p)) \/ HandlerEnds
Child == \E p \in Pids : Exit(p) \/ Stop(p)
Next == Command \/ Building \/ Waits \/ Interrupt \/ Preprompting \/ Handler \/ Child
Spec == Init /\ [][Next]_vars

-----------------------------------------------------------------------------
(* Properties.                                                             *)

Values == Exits \cup {"stopped"}
Flags == {"INUSE", "LOCKED", "CHANGED", "DONE", "STOPPED"}
Processes == [pid : Pids, status : Values \cup {"running"}]
Entries == [stat : SUBSET Flags, procs : Seq(Processes)]
Tables == [jobtab : [Jobs -> Entries], lastval : Values, lastval2 : Values,
           thisjob : Jobs \cup {None}, curjob : Jobs \cup {None}, prevjob : Jobs \cup {None}]
Builtins == {"fg", "wait", "all", "pid"}
Shells == [pc : {"prompt", "build", "wait", "loop", "suspended", "waited", "pidwait", "pidloop",
                 "scan", "printed", "cleared"},
           command : {"none", "run", "async", "disown"} \cup Builtins,
           job : Jobs \cup {None}, own : Jobs \cup {None}, left : 0 .. MaxPipe,
           sub : Pids \cup {NoPid}, errflag : BOOLEAN]

\* Every variable holds a value its C type and the code allow.
TypeOK ==
  /\ table \in Tables /\ shell \in Shells /\ {handler, sigchld} \subseteq BOOLEAN
  /\ os \in [Pids -> Values \cup {"none", "running"}] /\ news \subseteq Pids
  /\ cmdout \in [pid : Pids \cup {NoPid}, val : Values] /\ disowned \subseteq Pids

\* The table and the children match.  A child of the shell is in exactly one job, where it
\* does not count as ended, unless it was given away or belongs to a $(...); and at a
\* prompt every place in use has processes, so that no place is lost.
TableMatches ==
  /\ \A p \in Pids : os[p] # "none" /\ p \notin disowned \cup {shell.sub, cmdout.pid} =>
       /\ Cardinality({j \in Jobs : p \in PidsOf(table, j)}) = 1
       /\ \E i \in DOMAIN table.jobtab[JobOf(p)].procs :
            table.jobtab[JobOf(p)].procs[i] \in [pid : {p}, status : {"running", "stopped"}]
  /\ At("prompt") => \A j \in Jobs : Stat(table, j) # {} => table.jobtab[j].procs # <<>>

\* The table tells what the processes do, but for changes the shell is going to be told;
\* a stopped process may have been continued by wait for its number.
RecordsFresh ==
  /\ news # {} => sigchld \/ handler
  /\ \A j \in Jobs : \A i \in DOMAIN table.jobtab[j].procs :
       LET proc == table.jobtab[j].procs[i] IN
       \/ proc.pid \in news
       \/ proc.status = os[proc.pid]
       \/ proc.status \in Exits /\ os[proc.pid] = "none"
       \/ proc.status = "stopped" /\ os[proc.pid] = "running"

\* The table is right, as the shell can tell.
JobTable == TableMatches /\ RecordsFresh

\* The shell is suspended for a job only while a process of it runs, or a signal is about
\* to end the suspension: no change slips in between the test and the suspension.
WaitedForRuns ==
  shell.pc = "suspended" /\ ~sigchld =>
    \E p \in PidsOf(table, shell.job) : os[p] = "running"

\* After a pipeline started in the foreground has ended, or stopped, $? is the status of
\* its last process, whatever of it, and whatever other job, ended before, in between or
\* in the same moment.  (After fg it is lastval2, as after wait: see WaitStatus.)
ForegroundStatus ==
  /\ At("waited") /\ ~sigchld /\ ~shell.errflag
  /\ shell.command = "run" /\ result # "none"
  => table.lastval = result

\* fg, bg and disown without argument work on a job of the table and not on the place
\* of the builtin itself, however often the current one has been waited for or given away.
\* (Nothing of the kind holds of prevjob: see Named.)
CurrentNames ==
  At("prompt") /\ FreeSlots(table) # {} =>
    Entered(table).curjob \in Listed(Entered(table)) \cup {None}

\* After wait for a job, $? is that job's status.  (LeaveBuiltin makes lastval2 of it.)
WaitStatus ==
  At("waited") /\ ~sigchld /\ ~shell.errflag /\ shell.command = "wait" /\ result # "none" =>
    table.lastval2 = result
-----------------------------------------------------------------------------
(* The inductive invariant.                                                *)

\* wait3 reports ends and stops; every end is reported once.
ChildrenInv ==
  /\ news # {} => sigchld \/ handler
  /\ \A p \in news : os[p] \in Values
  /\ \A p \in Pids : os[p] \in Exits => p \in news

\* A record counts a process as ended when there is no such child any more, and tells
\* what it does but for news, and a stopped process continued by wait for its number.
RecordInv(proc) ==
  /\ proc.status \in Exits <=> os[proc.pid] = "none"
  /\ proc.pid \notin news /\ proc.status = "running" => os[proc.pid] = "running"
  /\ proc.pid \notin news /\ proc.status = "stopped" => os[proc.pid] \in {"stopped", "running"}

\* The flags of a job follow from the records of its processes.
FlagsInv(e) ==
  /\ e.stat = {} => e.procs = <<>>
  /\ e.stat # {} => "INUSE" \in e.stat
  /\ "DONE" \in e.stat => \A i \in DOMAIN e.procs : e.procs[i].status \in Exits
  /\ "DONE" \notin e.stat /\ e.procs # <<>> =>
       \E i \in DOMAIN e.procs : \/ e.procs[i].status = "running"
                                 \/ e.procs[i].status = "stopped" /\ "STOPPED" \in e.stat

EntriesInv ==
  \A j \in Jobs : /\ FlagsInv(table.jobtab[j])
                  /\ \A i \in DOMAIN table.jobtab[j].procs : RecordInv(table.jobtab[j].procs[i])

\* No process has two records; a child has one, or was given away, or is the $(...) the
\* shell waits for.
Substitution == IF shell.command = "run" THEN {shell.sub} ELSE {}
PidsInv ==
  /\ \A j, k \in Jobs : \A i \in DOMAIN table.jobtab[j].procs, l \in DOMAIN table.jobtab[k].procs :
       table.jobtab[j].procs[i].pid = table.jobtab[k].procs[l].pid => j = k /\ i = l
  /\ cmdout.pid # NoPid =>
       /\ cmdout.pid \notin Known /\ os[cmdout.pid] # "none"
       /\ cmdout.pid \in disowned \cup Substitution
  /\ \A p \in Pids : os[p] # "none" => p \in Known \cup disowned \cup Substitution

\* The place that may be in use without a process: of a pipeline being started, or of
\* a builtin.
Unfilled == IF shell.command \in Builtins THEN {shell.own}
            ELSE IF shell.pc \in {"build", "wait", "pidwait", "pidloop"} THEN {table.thisjob}
            ELSE {}

\* What the main program has set up for the place it is at.
PlacesInv ==
  /\ \A j \in Jobs : Stat(table, j) # {} /\ table.jobtab[j].procs = <<>> => j \in Unfilled
  /\ shell.command = "none" <=> shell.pc \in {"prompt", "scan", "printed", "cleared"}
  /\ shell.command \in {"async", "disown"} => shell.pc = "build"
  /\ shell.command \in Builtins =>
       shell.pc # "build" /\ shell.own \in Jobs /\ table.jobtab[shell.own].procs = <<>>
  /\ shell.command \in {"run", "async", "disown"} /\ shell.job = None =>
       table.thisjob \in Jobs /\ Stat(table, table.thisjob) # {}
         /\ "LOCKED" \notin Stat(table, table.thisjob)
  /\ shell.command = "disown" =>
       \A p \in PidsOf(table, table.thisjob) : os[p] = "none" \/ p \in disowned
  /\ shell.pc \in {"prompt", "build", "pidwait", "pidloop"} => shell.job = None
  /\ shell.pc \in {"loop", "suspended", "waited", "printed", "cleared"} => shell.job # None
  /\ shell.pc = "wait" => (shell.job = None <=> shell.sub # NoPid)
  /\ shell.sub # NoPid =>
       shell.pc \in {"wait", "pidwait", "pidloop"} /\ shell.command \in {"run", "pid"}
  /\ shell.pc \in {"pidwait", "pidloop"} => shell.sub # NoPid
  /\ shell.pc \in {"loop", "suspended"} /\ Stat(table, shell.job) # {} =>
       table.jobtab[shell.job].procs # <<>>
  /\ shell.pc = "suspended" => ~handler /\ Unfinished(shell.job)

\* What has been noted of the job in the foreground is what $? is.
ResultInv ==
  /\ shell.job = None /\ shell.pc # "scan" => result = "none"
  /\ shell.command \in {"run", "fg"} /\ shell.job # None =>
       shell.job = table.thisjob /\ (result = "none" \/ table.lastval = result)

JobsInv == TypeOK /\ ChildrenInv /\ EntriesInv /\ PidsInv /\ PlacesInv /\ ResultInv
=============================================================================
