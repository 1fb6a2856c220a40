---------------------------- MODULE MCJobWorker ----------------------------
EXTENDS JobWorker, TLC

CONSTANTS j1, w1, w2, s1, s2

(* Two processes with one loop each.                                        *)
TwoProcesses == [s \in {s1, s2} |-> IF s = s1 THEN w1 ELSE w2]
(* The second process does not know the type of the job.                    *)
OnlyFirst == {<<w2, j1>>}
(* A clock reading of now, and one taken before a wait for the database lock. *)
PromptOrLate == {-1, 0}
=============================================================================
