---------------------------- MODULE MCWorkerPlane ----------------------------
(* WorkerPlane on small sets of jobs and invocations. *)
EXTENDS WorkerPlane, TLC

\* Invocations are interchangeable. Used for the safety run only.
WorkerSymmetry == Permutations(Workers)
==============================================================================
