----------------------------- MODULE MCRegistry -----------------------------
(* Instances of Registry for TLC: see the Registry_*.cfg files.            *)
EXTENDS Registry, TLC

\* Registrations, searches, directories and inode numbers are interchangeable.
Symmetry == Permutations(Registrations) \cup Permutations(Searches)
              \cup Permutations(Objects) \cup Permutations(Inodes)
=============================================================================
