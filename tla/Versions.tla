------------------------------- MODULE Versions -------------------------------
(***************************************************************************)
(* The versions of one document, known by their numbers.  The idempotency  *)
(* key of a run is made from the version and its hash, so a version also   *)
(* names its run, its outbox row and its job.                              *)
(***************************************************************************)
EXTENDS Integers

CONSTANT MaxVersion \* bound on the versions uploaded of the document

ASSUME MaxVersionAssumption == MaxVersion \in Nat \ {0}

Version == 1 .. MaxVersion
NoVersion == 0
==============================================================================
