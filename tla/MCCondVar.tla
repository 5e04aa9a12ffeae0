----------------------------- MODULE MCCondVar -----------------------------
(* Model-checking instances of CondVar. *)
EXTENDS CondVar, TLC

CONSTANTS t1, t2, t3

ThreeThreads == {t1, t2, t3}
ThreadSymmetry == Permutations(Threads)
Untimed == {"forever"}
AllKinds == {"forever", "timed"}
=============================================================================
