------------------------------ MODULE MCMemDb ------------------------------
(* The database for TLC: keys are interchangeable.                          *)
EXTENDS MemDb, TLC

KeySymmetry == Permutations(Keys)
=============================================================================
