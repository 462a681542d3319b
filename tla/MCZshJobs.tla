----------------------------- MODULE MCZshJobs -----------------------------
(* Instances of ZshJobs for TLC: two processes, which are alike.           *)
EXTENDS ZshJobs, TLC

CONSTANTS p1, p2
PidSymmetry == Permutations(Pids)
=============================================================================
