----------------------------- MODULE MCProfileExport -----------------------------
(* Values for the model checker's runs of ProfileExport. *)
EXTENDS ProfileExport, TLC

CONSTANTS cpu, memory, heap

\* cpu has a file name of its own, memory and heap sanitize to the same one.
MCSafeName == [t \in Types |-> IF t = cpu THEN "cpu" ELSE "memory"]

\* No type, one whose file name is its own, two that share a file name.
MCListings == {<<>>, <<cpu>>, <<memory, heap>>}

\* What the name field alone lists for the several sample types of one profile.
MCRepeated == {<<memory, memory>>}

RunsAlike == Permutations(Runs)

=============================================================================
