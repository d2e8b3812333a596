------------------------- MODULE MCArtifactOffload --------------------------
(***************************************************************************)
(* Instances of ArtifactOffload.  A history h1 may be imported with two    *)
(* keys, and a key of it used for another history; the copy of h1 is an    *)
(* artifact, a file "model" of the workload another one.                   *)
(***************************************************************************)
EXTENDS ArtifactOffload, TLC

CONSTANTS k1, k2, h1, h2, copy, model, d1, d2

OneRequest == {[key |-> k1, hash |-> h1, art |-> copy]}
ThreeRequests == OneRequest \cup {[key |-> k2, hash |-> h1, art |-> copy],
                                  [key |-> k1, hash |-> h2, art |-> None]}
MCBytes == [a \in Artifacts |-> IF a = copy THEN d1 ELSE d2]
Symmetry == Permutations(Procs)
=============================================================================
