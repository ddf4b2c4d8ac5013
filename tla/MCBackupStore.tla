--------------------------- MODULE MCBackupStore ---------------------------
(* Constants a cfg cannot write: two restore points a day, one kept of each *)
(* of the two most recent days; the files are interchangeable.              *)
EXTENDS BackupStore

CONSTANTS f1, f2

Daily == {[keep |-> 2, bucket |-> [i \in 1 .. MaxRuns |-> (i + 1) \div 2]]}
FileSymmetry == Permutations(Files)
=============================================================================
