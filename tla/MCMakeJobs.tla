---------------------------- MODULE MCMakeJobs ----------------------------
(* Instances of MakeJobs for TLC: targets and their command lines.         *)
EXTENDS MakeJobs, TLC

CONSTANTS a, b, d, e

\* One command each; two, of which the second may fail, and nothing for e.
OneLine == [f \in Files |-> <<"run">>]
TwoLines == [f \in Files |-> IF f = e THEN <<>> ELSE <<"run", "ignore">>]
\* Empty lines before, between and after, and an ignored error first.
Shapes == (a :> <<"blank", "ignore", "run">>) @@ (b :> <<"run", "blank", "run", "blank">>) @@ OneLine
Blanks == (a :> <<"blank", "ignore", "run">>) @@ (b :> <<"run", "blank">>) @@ OneLine

Symm == Permutations(Files)
===========================================================================
