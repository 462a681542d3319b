------------------------------ MODULE VimText ------------------------------
(***************************************************************************)
(* What memline.c promises of a buffer: its text is a sequence of lines    *)
(* that changes only where a line is inserted, replaced or deleted.        *)
(* Whatever else the editor does with the blocks that hold the lines       *)
(* (finding one, writing it to the swap file, giving up the memory of the  *)
(* one used least, reading it back) leaves the text alone.  VimSwap        *)
(* implements this.                                                        *)
(***************************************************************************)
EXTENDS Naturals, Sequences, SequencesExt

CONSTANT Lines      \* what a line may hold

VARIABLE text

\* A buffer is never without a line: ml_open makes an empty one.
Init == \E l \in Lines : text = <<l>>

\* ml_append: a line below another, or above the first
Insert ==
    /\ Len(text') = Len(text) + 1
    /\ \E n \in 1 .. Len(text') : text = RemoveAt(text', n)

\* ml_replace
Replace ==
    /\ Len(text') = Len(text)
    /\ \E n \in 1 .. Len(text) : RemoveAt(text', n) = RemoveAt(text, n)

\* ml_delete: the only line of a buffer is replaced, not deleted
Delete ==
    /\ Len(text) > 1
    /\ Len(text') = Len(text) - 1
    /\ \E n \in 1 .. Len(text) : text' = RemoveAt(text, n)

Next ==
    /\ Insert \/ Replace \/ Delete
    /\ text' \in Seq(Lines)

Spec == Init /\ [][Next]_text
=============================================================================
