--------------------------- MODULE MCBackupWindow ---------------------------
(* Writes for TLC: one with a second one nested in its guard (the account   *)
(* purge acquires again for the attachment index), and an independent one.  *)
(* The theorems of BackgroundProofs cover every other number and nesting.   *)
EXTENDS BackupWindow

MCAcquirers == {"purge", "inner", "save"}
MCOuter == [purge |-> "top", inner |-> "purge", save |-> "top"]
MCWriter == [purge |-> "e1", inner |-> "e1", save |-> "e1"]
=============================================================================
