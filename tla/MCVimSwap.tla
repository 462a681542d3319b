----------------------------- MODULE MCVimSwap ------------------------------
(* Instances of VimSwap for TLC: the file sizes and the long lines.        *)
EXTENDS VimSwap
=============================================================================
