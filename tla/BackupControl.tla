--------------------------- MODULE BackupControl ---------------------------
(***************************************************************************)
(* Who asks for backups and where they go: the configuration document with *)
(* its cache, edited over the API by two administrators at once; the       *)
(* scheduler; a run as far as it depends on them; the run records and the  *)
(* status card.  The server that all this runs in is the one of DataDir,   *)
(* started, stopped and started again.                                     *)
(*                                                                         *)
(* What a run captures is in BackupWindow, what it uploads in BackupStore. *)
(***************************************************************************)
EXTENDS DataDir

CONSTANTS
    Setups,       \* what a new install has stored, a document or the older keys;
                  \* the updates it is sent, and the bounds on what happens to it
    Admins,       \* threads that serve an update
    HistoryLimit  \* records kept

VARIABLES
    setup,   \* the setup, fixed at the beginning
    conf,    \* the stored document, its cache, the older keys
    call,    \* a thread inside load or save
    mount,   \* the volume the local directory is on at present
    run,     \* the run, or the deletion of a restore point, that holds the run lock
    shown,   \* ManagerState: a run is shown as running, under this record
    records, \* the run records
    points,  \* the restore points and where they are
    slot,    \* scheduled instants passed, the one that is due, runs they started
    want,    \* what the updates made so far have asked for
    count,   \* edits, runs and troubles so far
    past     \* which known faults have been met

control == <<setup, conf, call, mount, run, shown, records, points, slot, want, count, past>>
all == <<vars, control>>

NoDoc == [stored |-> FALSE]
Default == [stored |-> TRUE, enabled |-> FALSE, cron |-> "daily", prefix |-> "p", keep |-> 7, target |-> "s3",
            bucket |-> "none", dir |-> "none", vol |-> "none", key |-> "none"]
Resting == [pc |-> "idle", val |-> NoDoc, base |-> NoDoc, upd |-> <<>>]
NoRun == [pc |-> "none", id |-> 0, target |-> "none", prefix |-> "none", vol |-> "none"]
Unset == [doc |-> NoDoc, legacy |-> NoDoc, updates |-> {}, edits |-> 0, runs |-> 0, slots |-> 0, troubles |-> 0]
Threads == Admins \cup {"reader"}

ControlInit ==
    /\ Init
    /\ setup \in (IF install.kind = "fresh" THEN Setups ELSE {Unset})
    /\ conf = [doc |-> setup.doc, cache |-> NoDoc, legacy |-> setup.legacy]
    /\ call = [t \in Threads |-> Resting] /\ run = NoRun
    /\ mount = "disk" /\ shown = [running |-> FALSE, id |-> 0]
    /\ records = <<>> /\ points = {} /\ slot = [due |-> FALSE, passed |-> 0, fired |-> 0]
    /\ want = <<>> /\ count = [edits |-> 0, runs |-> 0, troubles |-> 0] /\ past = {}

Up == server = "serving" /\ install.kind = "fresh"
Trouble == count.troubles < setup.troubles /\ count' = [count EXCEPT !.troubles = @ + 1] /\ UNCHANGED <<vars, setup>>
paused == run.pc = "capture"
----------------------------------------------------------------------------
(* The configuration *)

\* What load returns, its own effects aside.
Effective ==
    IF conf.cache.stored THEN conf.cache
    ELSE IF conf.doc.stored THEN conf.doc
    ELSE IF conf.legacy.stored THEN conf.legacy ELSE Default

\* The data root and the tree of the backups do not contain each other.
validate_local_target(c) == c.dir # "root"
validate_effective_target(c) == IF c.target = "s3" THEN c.bucket # "none" ELSE validate_local_target(c)

validate(c) ==
    /\ c.cron \in {"daily", "none"} /\ c.prefix # "" /\ c.keep > 0
    /\ c.target = "local" => c.dir \notin {"none", "relative"}

capture_local_dir_volume(c) == IF c.dir = "none" THEN "none" ELSE mount

\* A secret is kept, cleared or replaced.
apply_secret_field(old, new) == IF new = "********" THEN old ELSE IF new = "" THEN "none" ELSE new

\* Mutant: the form's fields over the defaults.
apply_over_default(c, u) ==
    [f \in DOMAIN c |->
        IF f \notin DOMAIN u THEN Default[f] ELSE IF f = "key" THEN apply_secret_field(c[f], u[f]) ELSE u[f]]

apply_backup_config(c, u) ==
    [f \in DOMAIN c |->
        IF f \notin DOMAIN u THEN c[f] ELSE IF f = "key" THEN apply_secret_field(c[f], u[f])
        ELSE IF f = "dir" /\ u[f] = "" THEN "none" ELSE u[f]]

Call(t, r) == call' = [call EXCEPT ![t] = r]
Quietly == UNCHANGED <<vars, setup, mount, run, shown, records, points, slot>>

\* What an update goes on with once it has the configuration: it is merged and
\* checked, and the volume is looked at anew.
Merged(t, c, base, upd) ==
    LET m == apply_backup_config(c, upd)
        saved == IF m.target = "local" THEN [m EXCEPT !.vol = capture_local_dir_volume(m)] ELSE m
    IN IF t = "reader" \/ ~validate_effective_target(m) \/ ~validate(m) THEN Resting
       ELSE [pc |-> "upsert", val |-> saved, base |-> base, upd |-> upd]

\* load: from the cache, else from the document, else from the older keys.
load(t, upd) ==
    Call(t, IF conf.cache.stored \/ ~(conf.doc.stored \/ conf.legacy.stored)
            THEN Merged(t, Effective, conf.cache, upd)
            ELSE [pc |-> IF conf.doc.stored THEN "warm" ELSE "migrate", val |-> Effective, base |-> conf.doc, upd |-> upd])

update_backup_config(t) ==
    /\ Up /\ t \in Admins /\ call[t] = Resting /\ count.edits < setup.edits
    /\ \E u \in setup.updates : load(t, u)
    /\ count' = [count EXCEPT !.edits = @ + 1]
    /\ Quietly /\ UNCHANGED <<conf, want, past>>

\* Any other request that asks for the configuration.
get_backup_config ==
    /\ Up /\ call["reader"] = Resting /\ ~conf.cache.stored /\ (conf.doc.stored \/ conf.legacy.stored)
    /\ load("reader", <<>>)
    /\ Quietly /\ UNCHANGED <<conf, want, count, past>>

\* The document that was read goes to the cache, whatever was saved since.
warm(t) ==
    /\ Up /\ call[t].pc = "warm"
    /\ conf' = [conf EXCEPT !.cache = call[t].val]
    /\ past' = past \cup IF conf.doc # call[t].val THEN {"stale"} ELSE {}
    /\ Call(t, Merged(t, call[t].val, call[t].val, call[t].upd))
    /\ Quietly /\ UNCHANGED <<want, count>>

\* migrate_legacy: saved like an update; when that fails the keys stay.
migrate_legacy(t) ==
    /\ Up /\ call[t].pc = "migrate"
    /\ IF validate(call[t].val) /\ ~paused
       THEN /\ conf' = [conf EXCEPT !.doc = call[t].val]
            /\ past' = past \cup IF conf.doc # call[t].base THEN {"crossed"} ELSE {}
            /\ Call(t, [call[t] EXCEPT !.pc = "migrated"])
       ELSE Call(t, Merged(t, call[t].val, call[t].base, call[t].upd)) /\ UNCHANGED <<conf, past>>
    /\ Quietly /\ UNCHANGED <<want, count>>

\* The cache, and then the keys; what else was saved meanwhile is not looked at.
legacy_migrated(t) ==
    /\ Up /\ call[t].pc = "migrated"
    /\ conf' = [conf EXCEPT !.cache = call[t].val, !.legacy = NoDoc]
    /\ past' = past \cup IF conf.doc # call[t].val THEN {"stale"} ELSE {}
    /\ Call(t, Merged(t, call[t].val, call[t].val, call[t].upd))
    /\ Quietly /\ UNCHANGED <<want, count>>

\* save, first half: the gate may refuse it.
upsert(t) ==
    /\ Up /\ call[t].pc = "upsert"
    /\ IF paused THEN Call(t, Resting) /\ UNCHANGED <<conf, want, past>>
       ELSE /\ conf' = [conf EXCEPT !.doc = call[t].val]
            /\ want' = [f \in DOMAIN want \cup DOMAIN call[t].upd |->
                          IF f \in DOMAIN call[t].upd THEN call[t].val[f] ELSE want[f]]
            /\ past' = past \cup IF conf.doc # call[t].base THEN {"crossed"} ELSE {}
            /\ Call(t, [call[t] EXCEPT !.pc = "cache"])
    /\ Quietly /\ UNCHANGED count

\* Mutant: the cache is left to the next load.
save_uncached(t) ==
    /\ Up /\ call[t].pc = "cache"
    /\ Call(t, Resting)
    /\ Quietly /\ UNCHANGED <<conf, want, count, past>>

\* save, second half.
save(t) ==
    /\ Up /\ call[t].pc = "cache"
    /\ conf' = [conf EXCEPT !.cache = call[t].val]
    /\ past' = past \cup IF conf.doc # call[t].val THEN {"stale"} ELSE {}
    /\ Call(t, Resting)
    /\ Quietly /\ UNCHANGED <<want, count>>
----------------------------------------------------------------------------
(* Runs *)

Elsewhere == UNCHANGED <<vars, setup, conf, call, mount, want>>

\* Mutant: no look at the volume.
target_unchecked(c) ==
    IF c.target = "s3" THEN c.bucket # "none"
    ELSE c.dir \notin {"none", "relative"} /\ validate_local_target(c)

\* The configured target can be opened: the volume must be the one it was saved on.
target(c) ==
    IF c.target = "s3" THEN c.bucket # "none"
    ELSE /\ c.dir \notin {"none", "relative"} /\ validate_local_target(c)
         /\ c.vol = "none" \/ c.vol = mount

\* The chain a configuration writes to.
destination(c) ==
    IF (IF c.target = "s3" THEN c.bucket ELSE c.dir) = "none" THEN <<c.target, "not configured">>
    ELSE <<c.target, c.prefix>>

\* request_run: refused when backups are off, the target is not there, or the run
\* lock is held; else the run begins.
request_run ==
    IF ~Effective.enabled \/ ~target(Effective) \/ run.pc # "none" \/ count.runs >= setup.runs
    THEN UNCHANGED <<run, shown, count>>
    ELSE /\ run' = [pc |-> "preflight", id |-> count.runs + 1, target |-> Effective.target,
                    prefix |-> Effective.prefix, vol |-> Effective.vol]
         /\ shown' = [shown EXCEPT !.running = TRUE]
         /\ count' = [count EXCEPT !.runs = @ + 1]

trigger_backup ==
    /\ Up /\ run.pc = "none" /\ count.runs < setup.runs /\ Effective.enabled
    /\ request_run
    /\ Elsewhere /\ UNCHANGED <<records, points, slot, past>>

\* Mutant: the instant stays due until a run has been started for it.
scheduler_tick_repeats ==
    /\ Up /\ Effective.enabled /\ ~paused /\ Effective.cron = "daily" /\ slot.due
    /\ request_run
    /\ slot' = [slot EXCEPT !.fired = @ + 1]
    /\ Elsewhere /\ UNCHANGED <<records, points, past>>

\* Mutant: only the cache is asked whether backups are on.
scheduler_tick_cached ==
    /\ Up /\ conf.cache.stored /\ conf.cache.enabled /\ ~paused /\ Effective.cron = "daily" /\ slot.due
    /\ slot' = [slot EXCEPT !.due = FALSE, !.fired = @ + 1]
    /\ request_run
    /\ Elsewhere /\ UNCHANGED <<records, points, past>>

\* The instant counts as served before the run is asked for.
scheduler_tick ==
    /\ Up /\ Effective.enabled /\ ~paused /\ Effective.cron = "daily" /\ slot.due
    /\ slot' = [slot EXCEPT !.due = FALSE, !.fired = @ + 1]
    /\ request_run
    /\ Elsewhere /\ UNCHANGED <<records, points, past>>

SlotPasses ==
    /\ Up /\ slot.passed < setup.slots /\ ~slot.due
    /\ slot' = [slot EXCEPT !.due = TRUE, !.passed = @ + 1]
    /\ Elsewhere /\ UNCHANGED <<run, shown, records, points, count, past>>

\* write_record: in place of the record of the same id; the oldest are dropped.
Record(id, status) == [id |-> id, status |-> status, target |-> destination(Effective)]
write_record(r) ==
    LET others == SelectSeq(records, LAMBDA x : x.id # r.id)
        kept == SortSeq(Append(others, r), LAMBDA x, y : x.id > y.id)
    IN records' = SubSeq(kept, 1, Min({Len(kept), HistoryLimit}))

\* finish: the record, under the id that is shown if there is one. The configuration
\* is asked for the destination once more.
finish(status) ==
    /\ write_record(Record(IF shown.id # 0 THEN shown.id ELSE run.id, status))
    /\ shown' = [running |-> FALSE, id |-> 0]
    /\ run' = NoRun
    /\ past' = past \cup IF status = "Success" /\ destination(Effective) # <<run.target, run.prefix>>
                         THEN {"moved"} ELSE {}

\* The target cannot be reached or written, or has no room.
preflight_fails ==
    /\ Up /\ run.pc = "preflight" /\ Trouble
    /\ finish("Failed")
    /\ UNCHANGED <<conf, call, mount, want, points, slot>>

\* The gate is closed and the run recorded.
capture ==
    /\ Up /\ run.pc = "preflight"
    /\ run' = [run EXCEPT !.pc = "capture"] /\ shown' = [shown EXCEPT !.id = run.id]
    /\ write_record(Record(run.id, "Running"))
    /\ Elsewhere /\ UNCHANGED <<points, slot, count, past>>

upload ==
    /\ Up /\ run.pc = "capture"
    /\ run' = [run EXCEPT !.pc = "upload"]
    /\ Elsewhere /\ UNCHANGED <<shown, records, points, slot, count, past>>

\* The manifest is committed where the target is at present.
Place == IF run.target = "s3" THEN "s3" ELSE mount

commit ==
    /\ Up /\ run.pc = "upload"
    /\ points' = points \cup {[id |-> run.id, place |-> Place, prefix |-> run.prefix, target |-> run.target,
                               confirmed |-> run.vol = "below"]}
    /\ run' = [run EXCEPT !.pc = "finish"]
    /\ Elsewhere /\ UNCHANGED <<shown, records, slot, count, past>>

finish_success ==
    /\ Up /\ run.pc = "finish"
    /\ finish("Success")
    /\ Elsewhere /\ UNCHANGED <<points, slot, count>>

fails ==
    /\ Up /\ run.pc \in {"capture", "upload"} /\ Trouble
    /\ finish("Failed")
    /\ UNCHANGED <<conf, call, mount, want, points, slot>>

\* A panic drops the guards, the lock among them, and skips finish.
Panic ==
    /\ Up /\ run.pc \in {"capture", "upload"} /\ Trouble
    /\ run' = NoRun /\ past' = past \cup {"panicked"}
    /\ UNCHANGED <<conf, call, mount, want, shown, records, points, slot>>

\* Where the configuration points at present, for the browser.
Here(p) == p.target = Effective.target /\ p.prefix = Effective.prefix /\ p.place = (IF Effective.target = "s3" THEN "s3" ELSE mount)

\* An administrator deletes a restore point; nothing is said of it in the records.
delete_backup_manifest ==
    /\ Up /\ run.pc = "none" /\ target(Effective)
    /\ \E p \in points : Here(p) /\ run' = [NoRun EXCEPT !.pc = "delete", !.id = p.id]
    /\ Elsewhere /\ UNCHANGED <<shown, records, points, slot, count, past>>

delete_restore_point ==
    /\ Up /\ run.pc = "delete"
    /\ points' = {p \in points : p.id # run.id} /\ run' = NoRun
    /\ past' = past \cup {"deleted"}
    /\ Elsewhere /\ UNCHANGED <<shown, records, slot, count>>

Remount ==
    /\ Up /\ Trouble
    /\ mount' = IF mount = "disk" THEN "below" ELSE "disk"
    /\ past' = past \cup IF run.target = "local" THEN {"raced"} ELSE {}
    /\ UNCHANGED <<conf, call, want, run, shown, records, points, slot>>

\* Mutant: the records are left as they are.
recover_nothing == records' = records

\* recover_interrupted_runs, when the server starts.
recover_interrupted_runs ==
    records' = [k \in DOMAIN records |->
                   IF records[k].status = "Running" THEN [records[k] EXCEPT !.status = "Failed"] ELSE records[k]]

\* The process ends: what it had in memory is gone; last_trigger starts at the start.
Volatile ==
    /\ call' = [t \in Threads |-> Resting]
    /\ run' = NoRun /\ shown' = [running |-> FALSE, id |-> 0]
    /\ conf' = [conf EXCEPT !.cache = NoDoc]
    /\ slot' = [slot EXCEPT !.due = FALSE]
    /\ UNCHANGED <<setup, mount, points, want, count, past>>

Directory ==
    \/ (StopServer /\ Volatile /\ UNCHANGED records)
    \/ (initialize /\ recover_interrupted_runs /\ UNCHANGED <<setup, conf, call, mount, run, shown, points, slot, want, count, past>>)
    \/ ((check_data_status \/ MarkAsV1 \/ Tool \/ Kill \/ download_fails \/ migrate_metadata \/ handle_migrate_v1
         \/ refuse_blobs \/ DeleteBlobs \/ restore_with_engine \/ ClearTarget \/ ResetPassword \/ Snapshot)
        /\ UNCHANGED control)

Thread(t) == warm(t) \/ migrate_legacy(t) \/ legacy_migrated(t) \/ upsert(t) \/ save(t)
Work == capture \/ upload \/ commit \/ finish_success \/ delete_restore_point
Faults == preflight_fails \/ fails \/ Panic \/ Remount

ControlNext ==
    \/ Directory
    \/ \E t \in Admins : update_backup_config(t)
    \/ get_backup_config \/ \E t \in Threads : Thread(t)
    \/ trigger_backup \/ scheduler_tick \/ SlotPasses
    \/ Work \/ Faults \/ delete_backup_manifest

\* What the server's own threads and tasks get on with: an update that has been
\* received, the tick of every minute, the task of a run.
Progress == (\E t \in Admins : Thread(t)) \/ scheduler_tick \/ Work

ControlSpec ==
    /\ ControlInit /\ [][ControlNext]_all
    /\ WF_vars(Server) /\ WF_vars(Tool) /\ Operator
    /\ WF_all(Progress)
----------------------------------------------------------------------------
ControlTypeOK ==
    /\ \A c \in {conf.doc, conf.cache, conf.legacy} : c = NoDoc \/ DOMAIN c = DOMAIN Default
    /\ \A t \in Threads : call[t].pc \in {"idle", "warm", "migrate", "migrated", "upsert", "cache"}
    /\ run.pc \in {"none", "preflight", "capture", "upload", "finish", "delete"}
    /\ mount \in {"disk", "below"} /\ Len(records) <= HistoryLimit
    /\ \A p \in points : p.id \in 1..setup.runs /\ p.place \in {"s3", "disk", "below"}
    /\ past \subseteq {"stale", "crossed", "moved", "raced", "panicked", "deleted"}

Except(faults) == past \cap faults = {}

\* What an update set stays set until another update sets it (apply_backup_config
\* merges into what load returns), also across restarts and the migration of the
\* older keys. Except two saves that cross, each merged into what it had read.
EditsKept == Except({"crossed"}) => \A f \in DOMAIN want : conf.doc.stored /\ conf.doc[f] = want[f]

\* The cache is the document (load, save), but for a save under way, or a document
\* cached after another was saved.
CacheTrue ==
    conf.cache.stored /\ Except({"stale"}) =>
        conf.cache = conf.doc \/ \E t \in Threads : call[t].pc \in {"cache", "migrated"}

\* A restore point is on a volume that was there when the target was saved (target
\* compares the fingerprints), but for a volume that goes while a run is under way.
PointsPlaced == \A p \in points : p.place = "below" => p.confirmed \/ "raced" \in past

\* Mutant: whatever the destination.
last_success_anywhere(d) == SelectSeq(records, LAMBDA r : r.status = "Success")

\* The successes the card knows of for a destination, the newest first.
last_success_for(d) == SelectSeq(records, LAMBDA r : r.status = "Success" /\ r.target = d)

\* What the status card says of the last success.
StatusCard == last_success_for(destination(Effective))

\* The restore point of the status card is one that the browser finds under the
\* present configuration (last_success_for, finish, destination). Except after a
\* configuration changed under a run, a deletion, another volume.
StatusTrue ==
    LET last == StatusCard
    IN Up /\ last # <<>> /\ Except({"moved", "deleted"}) /\ target(Effective) =>
           \E p \in points : p.id = last[1].id /\ (Here(p) \/ (p.target = "local" /\ p.place # mount))

\* A record says Running exactly while its run is at work, and Success only of a run
\* whose point was committed; a panic leaves a record, until the next run or start.
RecordsTrue ==
    Up /\ Except({"panicked"}) =>
        /\ \A k \in DOMAIN records : records[k].status = "Running" => run.id = records[k].id /\ run.pc \in {"capture", "upload", "finish"}
        /\ \A k \in DOMAIN records : records[k].status = "Success" /\ Except({"deleted"}) => (\E p \in points : p.id = records[k].id)
        /\ shown.running <=> run.pc \in {"preflight", "capture", "upload", "finish"}

\* No scheduled instant starts two runs (scheduler_tick, LAST_TRIGGER_AT).
SlotsOnce == slot.fired <= slot.passed

\* All of it: what administrators, the scheduler and runs make of one configuration.
BackupsTrue == ControlTypeOK /\ EditsKept /\ CacheTrue /\ PointsPlaced /\ StatusTrue /\ RecordsTrue /\ SlotsOnce

\* A server that goes on serving ends its runs and its updates and serves every
\* scheduled instant, if only by a refusal, while backups are on with a schedule.
BackupsEnd ==
    []<>(\/ ~Up
         \/ /\ run = NoRun /\ \A t \in Admins : call[t] = Resting
            /\ slot.due => ~Effective.enabled \/ Effective.cron = "none")
============================================================================
