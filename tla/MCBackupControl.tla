--------------------------- MODULE MCBackupControl ---------------------------
(* The directories of MCDataDir; on the new one, backups with six setups. *)
EXTENDS MCDataDir, BackupControl

S3 == [Default EXCEPT !.enabled = TRUE, !.bucket = "b", !.key = "k"]
Local == [S3 EXCEPT !.target = "local", !.dir = "mnt", !.vol = "disk"]
ToLocal == [target |-> "local", dir |-> "mnt"]
Moved == [prefix |-> "q", bucket |-> "b"]
Off == [enabled |-> FALSE, key |-> "", cron |-> "none"]
Keep == [target |-> "s3", key |-> "********", dir |-> ""]
Refused == {[keep |-> 0], [target |-> "local", dir |-> "root"], [prefix |-> ""]}

\* Two administrators at once, and a run that may shut the gate on them.
Edited == [Unset EXCEPT !.doc = S3, !.edits = 2, !.runs = 1, !.updates = {Moved, ToLocal, Off, Keep}]
\* One change while runs follow one another, fail, are cut short or deleted.
Busy == [Unset EXCEPT !.doc = S3, !.edits = 1, !.runs = 2, !.slots = 1, !.troubles = 1,
                      !.updates = {[prefix |-> "q"], ToLocal, Off} \cup Refused]

MCSetups ==
    { Edited, [Edited EXCEPT !.doc = NoDoc, !.legacy = S3, !.updates = {[prefix |-> "q"], Off}],
      [Edited EXCEPT !.doc = NoDoc, !.legacy = [S3 EXCEPT !.cron = "unreadable"], !.edits = 1],
      Busy, [Busy EXCEPT !.doc = Local, !.troubles = 2, !.edits = 1, !.updates = {[prefix |-> "p"]}],
      [Busy EXCEPT !.doc = NoDoc, !.legacy = S3, !.runs = 1, !.slots = 2, !.updates = {Keep}] }
==============================================================================
