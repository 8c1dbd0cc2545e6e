--------------------------- MODULE MCWorkerClient ---------------------------
(* Instances of WorkerClient for TLC: the calls, directories and faults of *)
(* each are in the WorkerClient_*.cfg files.                               *)
EXTENDS WorkerClient, TLC

\* The safety runs treat all searches alike (each has a signal or none has)
\* and all directories alike.
Symmetry == Permutations(Searches) \cup Permutations(Roots)
=============================================================================
