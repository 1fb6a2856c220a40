------------------------------ MODULE MCFilesOnDisk ------------------------------
(***************************************************************************)
(* KnowledgePublication and LocalDeployment on small instances: the two     *)
(* parts that keep files in place by writing beside them and renaming.      *)
(* They share nothing: each behaviour moves the one chosen in Init.         *)
(***************************************************************************)
EXTENDS KnowledgePublication, LocalDeployment, TLC

CONSTANTS w1, o1, o2

VARIABLE part

Symmetry == Permutations(Operations) \cup Permutations(Versions)

Initially == part \in {"publication", "deployment"} /\ Init /\ DInit

Moves ==
    /\ UNCHANGED part
    /\ \/ part = "publication" /\ Next /\ UNCHANGED dvars
       \/ part = "deployment" /\ current = NULL /\ DNext /\ UNCHANGED vars

FilesOnDisk == Initially /\ [][Moves]_<<part, vars, dvars>>
==============================================================================
