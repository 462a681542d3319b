----------------------------- MODULE JobService -----------------------------
(***************************************************************************)
(* What job.c promises remake.c.  A target given to new_job is remade by   *)
(* its command lines, one after the other in the order they are written,   *)
(* the next only when the one before it succeeded or its error is ignored; *)
(* the target is finished once, with status 0 only if every line was run.  *)
(* Different targets run side by side.  How many at once, in which order,  *)
(* who waits for whom and which signals arrive does not show here.         *)
(***************************************************************************)
EXTENDS Integers, Sequences

CONSTANTS Files, Cmds, MayGiveUp   \* MayGiveUp: vfork may fail

VARIABLES jstate,   \* each target's command_state
          jstatus,  \* its update_status once it is finished
          jlog,     \* the lines run for it, <<line, result>>
          over      \* make has exited

jvars == <<jstate, jstatus, jlog, over>>

\* A line's result lets the next line run.
Passes(f, entry) == entry[2] = "ok" \/ Cmds[f][entry[1]] = "ignore"
AllPassed(f) == \A i \in 1..Len(jlog[f]) : Passes(f, jlog[f][i])

\* The lines of f that run something and have not been run.
LastLine(f) == IF jlog[f] = <<>> THEN 0 ELSE jlog[f][Len(jlog[f])][1]
LinesLeft(f) == {k \in 1..Len(Cmds[f]) : k > LastLine(f) /\ Cmds[f][k] # "blank"}

Init == /\ jstate = [f \in Files |-> "not_started"]
        /\ jstatus = [f \in Files |-> -1]
        /\ jlog = [f \in Files |-> <<>>]
        /\ over = FALSE

Start(f) == /\ ~over /\ jstate[f] = "not_started"
            /\ jstate' = [jstate EXCEPT ![f] = "running"]
            /\ UNCHANGED <<jstatus, jlog, over>>

\* The next line has been run, to whatever result.
Line(f) == /\ ~over /\ jstate[f] = "running" /\ AllPassed(f)
           /\ \E k \in LinesLeft(f), r \in {"ok", "error", "signal"} :
                /\ \A j \in LinesLeft(f) : k <= j
                /\ jlog' = [jlog EXCEPT ![f] = Append(@, <<k, r>>)]
           /\ UNCHANGED <<jstate, jstatus, over>>

Conclude(f, status) == /\ ~over /\ jstate[f] # "finished"
                       /\ jstate' = [jstate EXCEPT ![f] = "finished"]
                       /\ jstatus' = [jstatus EXCEPT ![f] = status]
                       /\ UNCHANGED <<jlog, over>>

Succeed(f) == AllPassed(f) /\ LinesLeft(f) = {} /\ Conclude(f, 0)
\* A line failed, or the next one cannot be started.
Fail(f) == (~AllPassed(f) \/ MayGiveUp) /\ Conclude(f, 2)

End == ~over /\ over' = TRUE /\ UNCHANGED <<jstate, jstatus, jlog>>

Next == End \/ \E f \in Files : Start(f) \/ Line(f) \/ Succeed(f) \/ Fail(f)
\* A run that has begun something gets it done or ends.
Spec == Init /\ [][Next]_jvars /\ WF_jvars(Next)
=============================================================================
