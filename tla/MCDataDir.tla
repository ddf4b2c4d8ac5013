----------------------------- MODULE MCDataDir -----------------------------
(* Seven directories: a new one, v0.3.7 installs, v1 installs, a backup point. *)
EXTENDS DataDir

Base == [kind |-> "fresh", segments |-> <<>>, fjall |-> {}, orphan |-> {}, oversized |-> {},
         metadb |-> FALSE, objects |-> <<>>, at |-> <<>>, configs |-> {}]

\* Two files that are refused, or find nothing, and one that is right.
S3File == [target |-> "s3", endpoint |-> "e", bucket |-> "b", prefix |-> "", dir |-> ""]
LocalFile == [S3File EXCEPT !.target = "local", !.dir = "mnt", !.prefix = "p"]

Legacy037 == [Base EXCEPT !.kind = "v037", !.metadb = TRUE, !.segments = <<<<"m1", "m2">>, <<"m3">>>>]

MCInstalls ==
    { Base,
      Legacy037,
      [Legacy037 EXCEPT !.orphan = {"m2"}, !.oversized = {"m3"}],
      [Legacy037 EXCEPT !.segments = <<>>],
      [Legacy037 EXCEPT !.metadb = FALSE],
      [Base EXCEPT !.kind = "v1", !.fjall = {"m1", "m2"}, !.oversized = {"m2"}],
      [Base EXCEPT !.kind = "v1", !.fjall = {"m1", "m2", "m3"}, !.segments = <<<<"m1">>>>, !.metadb = TRUE],
      [Base EXCEPT !.kind = "point",
                   !.at = <<"e", "b", "bichon-backup">>,
                   !.configs = {S3File, LocalFile, [S3File EXCEPT !.bucket = ""]},
                   !.objects = <<"memdb", "imap-uid", "m1", "m2", "audit", "integrity", "timestamp", "index">>],
      [Base EXCEPT !.kind = "point", !.at = <<"mnt", "p">>, !.objects = <<"memdb", "m1", "index">>,
                   !.configs = {LocalFile, [LocalFile EXCEPT !.dir = "missing"]}] }
============================================================================
