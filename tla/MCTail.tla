------------------------------- MODULE MCTail -------------------------------
(***************************************************************************)
(* Tail for TLC: every file of at most five bytes, with lines that are     *)
(* empty or not and a last line with or without its newline.               *)
(***************************************************************************)
EXTENDS Tail, SequencesExt

LF == "\n"
AllFiles == BoundedSeq({"x", "\n"}, 5)
SomeCounts == {-1, 0, 1, 2, 3}
=============================================================================
