---------------------------- MODULE MCSearchFile ----------------------------
(* Instances of SearchFile for TLC: see SearchFile_*.cfg.                  *)
EXTENDS SearchFile
=============================================================================
