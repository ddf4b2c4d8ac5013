------------------------------ MODULE DataDir ------------------------------
(***************************************************************************)
(* A data directory over its life: an install of an older version that     *)
(* bichon-admin migrates, or an empty directory a backup point is restored *)
(* into, and the server that is started on it meanwhile.  STORAGE_VERSION  *)
(* decides whether the server serves the directory or shows its            *)
(* maintenance page; every tool writes it last.                            *)
(*                                                                         *)
(* A crash is the death of one process; what it has written stays.         *)
(***************************************************************************)
EXTENDS Naturals, Sequences, FiniteSets, SequencesExt, FiniteSetsExt

CONSTANTS
    Mail,       \* the messages of the old install, or of the backup point
    Installs,   \* the directories to begin with
    NoDir,      \* a directory that does not exist
    MaxFaults   \* bound on crashes and failing downloads

\* An install: which version wrote it; its v0.3.7 index, if it has one, as
\* segments of messages; the messages in its v1 store; messages the migration
\* cannot bring over (no envelope, not parsed) or only without their content (over 100 MB);
\* whether the v0.3.7 metadata databases are there; the objects of the point,
\* where it is, and the configuration files the operator tries.
ASSUME InstallsAssumption ==
    \A i \in Installs :
        /\ i.kind \in {"fresh", "v037", "v1", "point"}
        /\ i.segments \in Seq(Seq(Mail)) /\ i.fjall \subseteq Mail
        /\ i.orphan \subseteq Mail /\ i.oversized \subseteq Mail
        /\ i.metadb \in BOOLEAN /\ i.objects \in Seq(STRING \cup Mail)

VARIABLES
    install,  \* the install, fixed at the beginning
    version,  \* STORAGE_VERSION: 0 when there is no such file
    files,    \* the single files: memdb, imap-uid and the others
    docs,     \* how many documents an index holds for a message part
    blobs,    \* contents in bichon-storage/blobs, or NoDir
    server,   \* the server process
    tool,     \* the bichon-admin process
    told,     \* what the operator was last told
    admin,    \* the administrator's password: on disk, in the server, as reset
    left,     \* faults left
    hist      \* which known faults this directory has met

vars == <<install, version, files, docs, blobs, server, tool, told, admin, left, hist>>

Parts == Mail \X {"email", "attachments"}
Files == {"memdb", "imap-uid", "audit", "integrity", "timestamp", "index"}
Idle == [op |-> "none", pc |-> "none", work |-> <<>>, batch |-> {}]

Of(ms) == ms \X {"email", "attachments"}
Legacy == install.segments # <<>> \/ install.kind = "v037"
Old == CASE install.kind = "v037" -> ToSet(FlattenSeq(install.segments))
         [] install.kind = "v1"   -> install.fjall
         [] OTHER                 -> {m \in Mail : \E k \in 1..Len(install.objects) : install.objects[k] = m}

Init ==
    /\ install \in Installs
    /\ version \in (IF install.kind = "v1" THEN {0, 1} ELSE {0})
    /\ files = [f \in Files |-> IF install.kind = "v1" /\ f \in {"memdb", "index"} THEN "whole" ELSE "none"]
    /\ docs = [p \in Parts |-> IF install.kind = "v1" /\ p \in Of(install.fjall) THEN 1 ELSE 0]
    /\ blobs = NoDir
    /\ server = "off" /\ tool = Idle /\ told = "nothing"
    /\ admin = [disk |-> "set up", memory |-> "none", reset |-> FALSE]
    /\ left = MaxFaults /\ hist = {}

\* bichon-storage holds something: fjall files or the blobs directory; it stays
\* when the blobs directory is deleted.
StorageExists == install.fjall # {} \/ blobs # NoDir \/ "emptied" \in hist
StorageNotEmpty == install.fjall # {} \/ blobs # NoDir \/ "fjall" \in hist
----------------------------------------------------------------------------
(* The server *)

\* Mutant: no look at bichon-storage.
DataStatusVersionOnly ==
    IF version # 0 THEN IF version >= 2 THEN "current" ELSE "old"
    ELSE IF Legacy THEN "old" ELSE "current"

\* The answers of check_data_status, in the order it looks.
DataStatus ==
    IF version # 0 THEN IF version >= 2 THEN "current" ELSE "old"
    ELSE IF StorageNotEmpty THEN "unmarked"
    ELSE IF Legacy THEN "old" ELSE "current"

\* The maintenance page; an operator told to delete something still knows.
AskToMigrate == IF told = "delete blobs" THEN told ELSE "migrate"

\* The server is not started on a directory a restore is writing.
check_data_status ==
    /\ server = "off" /\ tool.op # "restore"
    /\ server' = CASE DataStatus = "current"  -> "initialize"
                   [] DataStatus = "unmarked" -> "mark"
                   [] DataStatus = "old"      -> "maintenance"
    /\ told' = IF DataStatus = "old" THEN AskToMigrate ELSE told
    /\ hist' = hist \cup IF install.kind = "point" /\ told # "restored" /\ version = 0 /\ blobs = NoDir
                       THEN {"half"} ELSE {}
    /\ UNCHANGED <<install, admin, version, files, docs, blobs, tool, left>>

\* A directory without a version is marked as v1; the tool may have finished
\* since it was looked at.
MarkAsV1 ==
    /\ server = "mark"
    /\ version' = 1
    /\ hist' = hist \cup IF version = 2 THEN {"clobbered"} ELSE {}
    /\ server' = "maintenance" /\ told' = AskToMigrate
    /\ UNCHANGED <<install, admin, files, docs, blobs, tool, left>>

\* initialize: the directories, the version of a fresh install, the stores. A
\* torn file makes the store that reads it panic.
Torn == files["memdb"] = "torn" \/ files["index"] = "torn"

initialize ==
    /\ server = "initialize"
    /\ version' = IF version = 0 /\ blobs = NoDir THEN 2 ELSE version
    /\ IF Torn THEN server' = "off" /\ UNCHANGED blobs
       ELSE server' = "serving" /\ blobs' = IF blobs = NoDir THEN {} ELSE blobs
    /\ admin' = [admin EXCEPT !.memory = IF Torn THEN @ ELSE admin.disk]
    /\ UNCHANGED <<install, files, docs, tool, told, left, hist>>

\* The running server writes what it has in memory over the file.
Snapshot ==
    /\ server = "serving" /\ admin.disk # admin.memory
    /\ admin' = [admin EXCEPT !.disk = admin.memory]
    /\ UNCHANGED <<install, version, files, docs, blobs, server, tool, told, left, hist>>

StopServer ==
    /\ server \in {"maintenance", "serving"}
    /\ server' = "off"
    /\ UNCHANGED <<install, admin, version, files, docs, blobs, tool, told, left, hist>>
----------------------------------------------------------------------------
(* The migration of a v0.3.7 install *)

\* What the operator is expected to do: run a migration when the server asked
\* for one, not a second time after it reported success, and not under a server
\* that serves.
Asked == tool.op = "none" /\ server # "serving" /\ told \in {"migrate", "delete blobs"}

\* The metadata databases are looked for, then copied collection by collection.
migrate_metadata ==
    /\ Asked /\ Legacy /\ install.metadb
    /\ files' = [files EXCEPT !["memdb"] = IF @ = "none" THEN "part" ELSE @]
    /\ tool' = [op |-> "v037", pc |-> "metadata", work |-> install.segments, batch |-> {}]
    /\ hist' = hist \cup (IF blobs # NoDir \/ \E p \in Parts : docs[p] > 0 THEN {"again"} ELSE {})
                    \cup (IF install.fjall # {} THEN {"crossed"} ELSE {})
    /\ UNCHANGED <<install, admin, version, docs, blobs, server, told, left>>

\* Mutant: an existing store ends the migration.
metadata_done_once ==
    /\ tool.pc = "metadata"
    /\ files' = [files EXCEPT !["memdb"] = "whole"]
    /\ tool' = IF tool.work = <<>> \/ blobs # NoDir THEN Idle ELSE [tool EXCEPT !.pc = "open"]
    /\ admin' = [admin EXCEPT !.disk = "set up", !.reset = FALSE]
    /\ UNCHANGED <<install, version, docs, blobs, server, told, left, hist>>

\* The snapshot that ends the metadata, the users of the old install written over
\* the ones there, and the segments counted: without any the tool ends here.
metadata_done ==
    /\ tool.pc = "metadata"
    /\ files' = [files EXCEPT !["memdb"] = "whole"]
    /\ tool' = IF tool.work = <<>> THEN Idle ELSE [tool EXCEPT !.pc = "open"]
    /\ admin' = [admin EXCEPT !.disk = "set up", !.reset = FALSE]
    /\ UNCHANGED <<install, version, docs, blobs, server, told, left, hist>>

\* The writers are opened on what is there.
open_writer ==
    /\ tool.pc = "open"
    /\ tool' = [tool EXCEPT !.pc = "segment"]
    /\ files' = [files EXCEPT !["index"] = "whole"]
    /\ blobs' = IF blobs = NoDir THEN {} ELSE blobs
    /\ UNCHANGED <<install, admin, version, docs, server, told, left, hist>>

\* The messages of a segment whose envelope is found and that ingest takes; the
\* others are skipped.
EnvelopeMap(segment) == ToSet(segment) \ install.orphan

\* A segment is one chunk: its messages go to the writers and the buffers.
do_migrate_segment ==
    /\ tool.pc = "segment" /\ tool.work # <<>>
    /\ tool' = [tool EXCEPT !.pc = "commit", !.work = Tail(@), !.batch = EnvelopeMap(Head(tool.work))]
    /\ UNCHANGED <<install, admin, version, files, docs, blobs, server, told, left, hist>>

\* A message gives an envelope document and its stripped content, and documents
\* and contents of its attachments.
ingest(ms) == Of(ms)

\* The documents are committed, then the contents are put: emails, attachments.
commit_tantivy ==
    /\ tool.pc = "commit"
    /\ docs' = [p \in Parts |-> IF p \in ingest(tool.batch) THEN Min({docs[p] + 1, 2}) ELSE docs[p]]
    /\ tool' = [tool EXCEPT !.pc = "email"]
    /\ UNCHANGED <<install, admin, version, files, blobs, server, told, left, hist>>

Fitting(ms, part) == {p \in ingest(ms \ install.oversized) : p[2] = part}

flush_emails ==
    /\ tool.pc = "email"
    /\ blobs' = blobs \cup Fitting(tool.batch, "email")
    /\ tool' = [tool EXCEPT !.pc = "attachments"]
    /\ UNCHANGED <<install, admin, version, files, docs, server, told, left, hist>>

\* Mutant: the buffer of the attachments is dropped with the chunk.
flush_attachments_dropped ==
    /\ tool.pc = "attachments"
    /\ tool' = [tool EXCEPT !.pc = "segment", !.batch = {}]
    /\ UNCHANGED <<install, admin, version, files, docs, blobs, server, told, left, hist>>

flush_attachments ==
    /\ tool.pc = "attachments"
    /\ blobs' = blobs \cup Fitting(tool.batch, "attachments")
    /\ tool' = [tool EXCEPT !.pc = "segment", !.batch = {}]
    /\ UNCHANGED <<install, admin, version, files, docs, server, told, left, hist>>
----------------------------------------------------------------------------
(* The migration of a v1 install *)

\* The tool refuses a directory without storage, and one with a blobs directory:
\* it tells the operator to delete that.
refuse_blobs ==
    /\ Asked /\ told = "migrate" /\ blobs # NoDir
    /\ told' = "delete blobs"
    /\ UNCHANGED <<install, admin, version, files, docs, blobs, server, tool, left, hist>>

DeleteBlobs ==
    /\ told = "delete blobs" /\ tool.op = "none" /\ server # "serving"
    /\ blobs' = NoDir /\ told' = "migrate" /\ hist' = hist \cup {"emptied"}
    /\ UNCHANGED <<install, admin, version, files, docs, server, tool, left>>

\* Both stores are opened; a fjall store without the keyspaces is a panic.
handle_migrate_v1 ==
    /\ Asked /\ StorageExists /\ blobs = NoDir
    /\ blobs' = {}
    /\ IF install.fjall = {} THEN UNCHANGED tool /\ hist' = hist \cup {"fjall"}
       ELSE /\ tool' = [op |-> "v1", pc |-> "keyspace", work |-> <<"email", "attachments">>, batch |-> install.fjall]
            /\ UNCHANGED hist
    /\ UNCHANGED <<install, admin, version, files, docs, server, told, left>>

\* One batch of a keyspace.
migrate_keyspace ==
    /\ tool.pc = "keyspace" /\ tool.work # <<>> /\ tool.batch # {}
    /\ \E m \in tool.batch :
        /\ blobs' = blobs \cup Fitting({m}, Head(tool.work))
        /\ tool' = [tool EXCEPT !.batch = @ \ {m}]
    /\ UNCHANGED <<install, admin, version, files, docs, server, told, left, hist>>

next_keyspace ==
    /\ tool.pc = "keyspace" /\ tool.work # <<>> /\ tool.batch = {}
    /\ tool' = [tool EXCEPT !.work = Tail(@), !.batch = IF Len(tool.work) > 1 THEN install.fjall ELSE {}]
    /\ UNCHANGED <<install, admin, version, files, docs, blobs, server, told, left, hist>>

\* Both migrations end alike: flush, shut the engine down, write the version.
Migrated == tool.pc \in {"segment", "keyspace"} /\ tool.work = <<>> /\ tool.batch = {}

finish_migration ==
    /\ Migrated
    /\ tool' = [tool EXCEPT !.pc = "stamp"]
    /\ UNCHANGED <<install, admin, version, files, docs, blobs, server, told, left, hist>>

write_storage_version ==
    /\ tool.pc = "stamp"
    /\ version' = 2 /\ tool' = Idle
    /\ told' = IF tool.op = "restore" THEN "restored" ELSE "migrated"
    /\ UNCHANGED <<install, admin, files, docs, blobs, server, left, hist>>
----------------------------------------------------------------------------
(* The restore of a backup point *)

\* R7: a restore writes only into directories with nothing in them.
Empty(dir) ==
    CASE dir = "root"  -> version = 0 /\ \A f \in Files \ {"index"} : files[f] = "none"
      [] dir = "index" -> files["index"] = "none"
      [] dir = "data"  -> blobs = NoDir

CleanTarget == \A dir \in {"root", "index", "data"} : Empty(dir)

\* RestoreFileConfig: the file says where the points are.
prefix_or_default(c) == IF c.prefix = "" THEN "bichon-backup" ELSE c.prefix
target_display(c) == IF c.target = "s3" THEN <<c.endpoint, c.bucket, prefix_or_default(c)>> ELSE <<c.dir, prefix_or_default(c)>>
check_target(c) == IF c.target = "s3" THEN c.endpoint # "" /\ c.bucket # "" ELSE c.dir \notin {"", "missing"}

\* The prompts: a point that is found where one of the operator's files says,
\* clean targets, room for it, a yes.
RestoreAsked ==
    /\ tool.op = "none" /\ install.kind = "point" /\ CleanTarget
    /\ \E c \in install.configs : check_target(c) /\ target_display(c) = install.at

\* Mutant: the version is written before the objects.
restore_with_engine_marked ==
    /\ RestoreAsked
    /\ version' = 2
    /\ tool' = [op |-> "restore", pc |-> "fetch", work |-> install.objects, batch |-> {}]
    /\ UNCHANGED <<install, admin, files, docs, blobs, server, told, left, hist>>

restore_with_engine ==
    /\ RestoreAsked
    /\ tool' = [op |-> "restore", pc |-> "fetch", work |-> install.objects, batch |-> {}]
    /\ UNCHANGED <<install, admin, version, files, docs, blobs, server, told, left, hist>>

\* An object is streamed to its place, which exists from then on.
Object == Head(tool.work)

download_open ==
    /\ tool.pc = "fetch" /\ tool.work # <<>>
    /\ IF Object \in Files
       THEN files' = [files EXCEPT ![Object] = "torn"] /\ UNCHANGED blobs
       ELSE blobs' = (IF blobs = NoDir THEN {} ELSE blobs) /\ UNCHANGED files
    /\ tool' = [tool EXCEPT !.pc = "stream"]
    /\ UNCHANGED <<install, admin, version, docs, server, told, left, hist>>

\* The whole object has come and its hash is the manifest's.
download_object ==
    /\ tool.pc = "stream"
    /\ IF Object \in Files
       THEN files' = [files EXCEPT ![Object] = "whole"] /\ UNCHANGED blobs
       ELSE blobs' = blobs \cup Of({Object}) /\ UNCHANGED files
    /\ docs' = IF Object = "index" THEN [p \in Parts |-> IF p[1] \in Old THEN 1 ELSE 0] ELSE docs
    /\ tool' = [tool EXCEPT !.pc = "fetch", !.work = Tail(@)]
    /\ UNCHANGED <<install, admin, version, server, told, left, hist>>

\* The object is missing, short or not what the manifest says: the file is
\* removed (the files the memdb and the indices are unpacked into stay) and the
\* restore ends without the version.
download_fails ==
    /\ tool.pc = "stream" /\ left > 0
    /\ files' = [f \in Files |-> IF f = Object /\ f \notin {"memdb", "index"} THEN "none" ELSE files[f]]
    /\ tool' = Idle /\ told' = "failed" /\ left' = left - 1
    /\ UNCHANGED <<install, admin, version, docs, blobs, server, hist>>

restore_done ==
    /\ tool.pc = "fetch" /\ tool.work = <<>>
    /\ tool' = [tool EXCEPT !.pc = "stamp"]
    /\ UNCHANGED <<install, admin, version, files, docs, blobs, server, told, left, hist>>

\* A restore is not resumed: the operator empties the directory for another.
ClearTarget ==
    /\ install.kind = "point" /\ tool.op = "none" /\ server # "serving"
    /\ ~CleanTarget /\ told # "restored"
    /\ version' = 0 /\ files' = [f \in Files |-> "none"] /\ blobs' = NoDir
    /\ docs' = [p \in Parts |-> 0]
    /\ server' = "off" /\ told' = "nothing" /\ hist' = {}
    /\ admin' = [admin EXCEPT !.disk = "set up", !.reset = FALSE]
    /\ UNCHANGED <<install, tool, left>>
----------------------------------------------------------------------------
\* The password of the administrator is reset in the file, which the tool opens
\* by itself; a running server does not notice.
ResetPassword ==
    /\ tool.op = "none" /\ files["memdb"] = "whole" /\ admin.disk = "set up"
    /\ admin' = [admin EXCEPT !.disk = "reset", !.reset = (server # "serving")]
    /\ UNCHANGED <<install, version, files, docs, blobs, server, tool, told, left, hist>>

\* bichon-admin is killed: what it held in memory is gone.
Kill ==
    /\ tool.op # "none" /\ left > 0
    /\ tool' = Idle /\ left' = left - 1
    /\ UNCHANGED <<install, admin, version, files, docs, blobs, server, told, hist>>

Server == check_data_status \/ MarkAsV1 \/ initialize
V037 == \/ metadata_done \/ open_writer \/ do_migrate_segment \/ commit_tantivy
        \/ flush_emails \/ flush_attachments
V1 == migrate_keyspace \/ next_keyspace
Restore == download_open \/ download_object \/ restore_done
Tool == V037 \/ V1 \/ Restore \/ finish_migration \/ write_storage_version

Next ==
    \/ Server \/ StopServer \/ Tool \/ Kill \/ download_fails
    \/ migrate_metadata \/ handle_migrate_v1 \/ refuse_blobs \/ DeleteBlobs
    \/ restore_with_engine \/ ClearTarget \/ ResetPassword \/ Snapshot

\* The operator restarts a server in maintenance, runs the migration of the
\* version they have, does what the v1 tool tells them, and restores again into
\* an emptied directory; processes that run do not stand still.
Operator ==
    /\ WF_vars(server = "maintenance" /\ StopServer)
    /\ WF_vars(install.kind = "v037" /\ migrate_metadata)
    /\ WF_vars(install.kind = "v1" /\ (handle_migrate_v1 \/ refuse_blobs \/ DeleteBlobs))
    /\ WF_vars(restore_with_engine) /\ WF_vars(ClearTarget)

Spec == Init /\ [][Next]_vars /\ WF_vars(Server) /\ WF_vars(Tool) /\ Operator
----------------------------------------------------------------------------
TypeOK ==
    /\ install \in Installs /\ version \in 0..2 /\ left \in 0..MaxFaults
    /\ files \in [Files -> {"none", "part", "torn", "whole"}]
    /\ docs \in [Parts -> 0..2] /\ (blobs = NoDir \/ blobs \subseteq Parts)
    /\ server \in {"off", "mark", "initialize", "maintenance", "serving"}
    /\ tool.op \in {"none", "v037", "v1", "restore"}
    /\ hist \subseteq {"clobbered", "half", "again", "crossed", "fjall", "emptied"}

\* What the old install, or the point, had of a message is there: its documents
\* and the content they name. A message without an envelope, or that is not parsed,
\* is not migrated; one over the limit loses its content.
Present(p) ==
    \/ p[1] \in install.orphan
    \/ docs[p] >= 1 /\ (p[1] \in install.oversized \/ p \in blobs)

Wanted == IF install.kind = "point" THEN {f \in Files : \E k \in 1..Len(install.objects) : install.objects[k] = f}
          ELSE IF install.kind = "fresh" THEN {} ELSE {"memdb", "index"}

Spared(faults) == hist \cap faults = {}

\* The server serves a directory only when it holds everything: a migration or a
\* restore that was killed, failed, or still runs is answered with maintenance.
\* Spared are a v0.3.7 migration run on a v1 install and a restore that has not
\* reached its first segment (check_data_status, write_storage_version).
ServedWhole ==
    server = "serving" /\ Spared({"crossed", "half"}) =>
        /\ \A p \in Of(Old) : Present(p)
        /\ \A f \in Wanted : files[f] = "whole"

\* No message is there twice, unless an interrupted v0.3.7 migration was run again.
ServedOnce ==
    server = "serving" /\ Spared({"crossed", "half", "again"}) => \A p \in Parts : docs[p] <= 1

\* A directory that is served is served again after a restart, also while a tool
\* is at work.
ServedAgain == server = "serving" /\ Spared({"half"}) => version = 2

\* A password reset while no server ran is the one the server asks for.
ResetHolds == server = "serving" /\ admin.reset => admin.memory = "reset"

\* All of it: what a started server finds (check_data_status, initialize), after
\* any mix of migrations, restores, kills, restarts and a password reset.
DirectoryServed == TypeOK /\ ServedWhole /\ ServedOnce /\ ServedAgain /\ ResetHolds

\* An operator who does what the server and the tools say gets to a served
\* directory, whatever was killed and whatever failed on the way. Not so for a
\* v0.3.7 install without messages or without its metadata.
OperatorGetsThrough ==
    (install.kind = "v037" => install.metadb /\ install.segments # <<>>) => <>(server = "serving")
============================================================================
