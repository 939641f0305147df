---------------------------- MODULE MCOtpService ----------------------------
(* Small instances of OtpService. *)
EXTENDS OtpService, TLC

RequestSymmetry == Permutations(Requests)
=============================================================================
