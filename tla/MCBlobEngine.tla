---------------------------- MODULE MCBlobEngine ----------------------------
(* Values for TLC: every key has one cell of data, or one key has none; the *)
(* keys are interchangeable in the first case.  The loads: GC passes and a  *)
(* backup without crashes; torn writes and a lost index, or power failures  *)
(* and a full disk, without GC; a GC pass with gets, or with restarts.      *)
EXTENDS BlobEngine, TLC

OneCell == [k \in Keys |-> 1]
OneEmpty == [k \in Keys |-> IF k = CHOOSE x \in Keys : TRUE THEN 0 ELSE 1]

KeySymmetry == Permutations(Keys)

GcLoad == [segment |-> 4, faults |-> {}, appends |-> 5, gcs |-> 2, backups |-> 1, crashes |-> 0,
           client |-> {"put", "overwrite", "put_batch", "delete", "delete_batch"}]
FaultLoad(faults) == [segment |-> 2, appends |-> 3, gcs |-> 0, backups |-> 0, crashes |-> 2,
                      faults |-> faults, client |-> {"put", "delete_batch"}]
OneGc(n, restarts, calls) == [segment |-> 4, faults |-> {}, appends |-> n, gcs |-> 1,
                               backups |-> 0, crashes |-> restarts, client |-> calls]
AllLoads == {GcLoad, FaultLoad({"torn_header", "torn_crc", "index_lost"}),
             FaultLoad({"torn_header", "power", "disk_full"}),
             OneGc(4, 0, {"put", "delete", "get"}), OneGc(3, 2, {"put", "delete_batch"})}
=============================================================================
