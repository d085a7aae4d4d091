---------------------------- MODULE MCUploadIntake ----------------------------
(* Small instances of UploadIntake for TLC.                                *)
EXTENDS UploadIntake, TLC

\* The expected files are interchangeable.
ExpectedSymmetry == Permutations(Expected)

===============================================================================
