----------------------------- MODULE MCWorkerJobs -----------------------------
(***************************************************************************)
(* WorkerJobs with symmetry: jobs are alike, and so are the workers whose  *)
(* main thread the user does not write to.                                 *)
(***************************************************************************)
EXTENDS WorkerJobs, TLC

Symmetry == {p @@ q : p \in Permutations(Jobs), q \in Permutations(Workers \ Asked)}

=============================================================================
