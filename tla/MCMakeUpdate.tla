---------------------------- MODULE MCMakeUpdate ----------------------------
(* Instances of MakeUpdate for TLC: small makefiles.                        *)
EXTENDS MakeUpdate, TLC

CONSTANTS prog, x, y, h, i, j, s

None == [f \in Files |-> <<>>]

\* Two objects that share a generated header, below a mere name; the header's rule
\* names that, which closes a cycle.  One object is made from an intermediate file.
Cyclic ==
  (prog :> <<x, y>>) @@ (x :> <<s, h>>) @@ (y :> <<j, h>>) @@ (h :> <<prog>>) @@ None
\* Two targets made from one intermediate file, which is made from another.
Chained == (x :> <<i>>) @@ (y :> <<i, h>>) @@ (i :> <<j, h>>) @@ (j :> <<s>>) @@ None
\* An intermediate file made from a target.
Detour == (prog :> <<i>>) @@ (i :> <<x>>) @@ (x :> <<s>>) @@ None
\* An intermediate file beside a target.
Beside == (prog :> <<i, x>>) @@ None

OneEach == [f \in Files |-> 1]
\* prog is a mere name for what it depends on.
NoneForProg == [f \in Files |-> CASE f = prog -> 0 [] f = x -> 2 [] OTHER -> 1]

Switch(jobs, k, q) == [job_slots |-> jobs, keep_going_flag |-> k, question_flag |-> q]
FewSlots ==
  {Switch(2, FALSE, FALSE), Switch(2, TRUE, FALSE), Switch(1, TRUE, FALSE), Switch(2, FALSE, TRUE)}
Unlimited == {Switch(0, FALSE, FALSE)}
TwoSlots == {Switch(2, FALSE, FALSE)}
KeepGoing == {Switch(2, TRUE, FALSE)}

XY == <<x, y>>
XProg == <<x, prog>>
JustProg == <<prog>>
=============================================================================
