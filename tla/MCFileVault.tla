---------------------------- MODULE MCFileVault ----------------------------
(* Small instances of FileVault: requests are interchangeable. *)
EXTENDS FileVault, TLC

RequestSymmetry == Permutations(Requests)
=============================================================================
