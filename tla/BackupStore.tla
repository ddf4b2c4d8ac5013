---------------------------- MODULE BackupStore ----------------------------
(***************************************************************************)
(* The restore points on the backup target (backup/engine.rs, backend.rs,  *)
(* manifest.rs, retention.rs): content-addressed objects under obj/, one   *)
(* manifest per restore point and the pointer LATEST under meta/.  A run   *)
(* uploads what it captured, commits a manifest, moves LATEST and applies  *)
(* the retention policy; a user deletes single restore points.  Both hold  *)
(* the run lock, so one operation is under way at a time, and every call   *)
(* to the object store that changes it is a step: the process may die, or  *)
(* the call fail, before each.                                             *)
(*                                                                         *)
(* Manifest ids are time-ordered (UUID v7): here they count up from 1, and *)
(* 0 stands for None.  A capture is a set of files; of the audit log only  *)
(* the sequence numbers matter.                                            *)
(***************************************************************************)
EXTENDS Naturals, Sequences, FiniteSets, SequencesExt

CONSTANTS
    Files,      \* contents of the files a capture may deliver
    KeepLast,   \* RetentionPolicy.keep_last
    Periods,    \* daily, weekly, monthly: [keep, bucket], bucket[id] its period
    MaxRuns,    \* bound: manifests ever written
    MaxSeq,     \* bound: rows of the audit log
    MaxFaults   \* bound: failed calls, crashes and unreadable manifests

ASSUME BoundsAssumption ==
    {KeepLast, MaxRuns, MaxFaults} \subseteq Nat /\ MaxSeq \in Nat \ {0}

VARIABLES
    objects,    \* keys under obj/sha256/
    manifests,  \* id -> manifest, under meta/
    latest,     \* what meta/LATEST points at
    made,       \* the last manifest id drawn
    seq,        \* rows in the audit log
    pc,         \* where the operation that holds the run lock is
    draft,      \* the manifest of the run
    todo,       \* keys the operation has yet to upload or to delete
    keep,       \* keep_ids of the retention sweep
    faults,
    unread,     \* history: keys of manifests a listing could not read
    cut         \* history: a deletion ended before it moved LATEST

store == <<objects, manifests, latest>>
history == <<unread, cut>>
storeVars == <<store, made, seq, pc, draft, todo, keep, faults, history>>

Ids == DOMAIN manifests
Spend == faults < MaxFaults /\ faults' = faults + 1

(* Object keys: a captured file, an audit baseline up to a row, and a delta *)
(* of the rows after its first number up to its second.                     *)
File(c) == <<"file", c, c>>
Base(s) == <<"base", s, s>>
Delta(d) == <<"delta", d[1], d[2]>>

(* AuditObjects, with base 0 for an empty reference; cursor 0: no audit.    *)
NoAudit == [base |-> 0, deltas |-> {}, cursor |-> 0]
NoManifest == [previous |-> 0, files |-> {}, audit |-> NoAudit]

(* Manifest::object_keys.                                                   *)
object_keys(m) ==
    {File(c) : c \in m.files} \cup {Delta(d) : d \in m.audit.deltas}
        \cup (IF m.audit.base = 0 THEN {} ELSE {Base(m.audit.base)})

StoreInit ==
    /\ objects = {} /\ manifests = [i \in {} |-> NoManifest] /\ latest = 0
    /\ made = 0 /\ seq = 1
    /\ pc = "idle" /\ draft = NoManifest /\ todo = {} /\ keep = {}
    /\ faults = 0 /\ unread = {} /\ cut = FALSE

-----------------------------------------------------------------------------
(* load_latest fails on a pointer to a missing manifest, and so does a run. *)
LatestLoads == latest = 0 \/ latest \in Ids

(* What the audit contributor delivers for rows up to s (external): nothing *)
(* where there is none, a baseline, or the rows after the cursor of the     *)
(* previous restore point; with the rows it always reports the cursor.      *)
PreviousAudit(id) == IF id = 0 THEN NoAudit ELSE manifests[id].audit
Baseline(s) == [base |-> s, deltas |-> {}, cursor |-> s]
Advance(c, s) ==
    [base |-> 0, deltas |-> IF s > c THEN {<<c, s>>} ELSE {}, cursor |-> s]
Deliveries(id, s) ==
    {NoAudit, Baseline(s)} \cup
        (IF PreviousAudit(id).cursor = 0 THEN {}
         ELSE {Advance(PreviousAudit(id).cursor, s)})

(* run_locked up to the upload of the first artifact.  Until then nothing   *)
(* is written but a marker that is removed again.                           *)
BeginRun ==
    /\ pc = "idle" /\ made < MaxRuns /\ LatestLoads
    /\ made' = made + 1
    /\ seq' \in seq .. MaxSeq
    /\ \E files \in (SUBSET Files) \ {{}}, audit \in Deliveries(latest, seq') :
         draft' = [previous |-> latest, files |-> files, audit |-> audit]
    /\ todo' = object_keys(draft')
    /\ pc' = "upload"
    /\ UNCHANGED <<store, keep, faults, history>>

(* upload_artifact: an object that is there is skipped, which is the same.  *)
upload_artifact(k) ==
    /\ pc = "upload" /\ k \in todo
    /\ objects' = objects \cup {k}
    /\ todo' = todo \ {k}
    /\ UNCHANGED <<manifests, latest, made, seq, pc, draft, keep, faults, history>>

(* Mutant of InheritAudit: deltas that touch the new one are dropped.       *)
InheritApart(own, previous) ==
    IF own.cursor = 0 \/ own.base # 0 \/ previous.cursor = 0 THEN own
    ELSE [own EXCEPT !.base = previous.base,
                     !.deltas = @ \cup {d \in previous.deltas :
                        \A e \in own.deltas : d[2] < e[1]}]

(* A run without a baseline of its own inherits the previous baseline and   *)
(* the deltas that end where its own begin, or earlier.                     *)
InheritAudit(own, previous) ==
    IF own.cursor = 0 \/ own.base # 0 \/ previous.cursor = 0 THEN own
    ELSE [own EXCEPT !.base = previous.base,
                     !.deltas = @ \cup {d \in previous.deltas :
                        \A e \in own.deltas : d[2] <= e[1] /\ d[1] # e[1]}]

Complete(m) == [m EXCEPT !.audit = InheritAudit(@, PreviousAudit(m.previous))]
AddManifest(id, m) ==
    manifests' = [i \in Ids \cup {id} |-> IF i = id THEN m ELSE manifests[i]]

(* Mutant of CommitManifest: it does not wait for the uploads.              *)
CommitManifestEarly ==
    /\ pc = "upload"
    /\ AddManifest(made, Complete(draft))
    /\ pc' = "latest"
    /\ todo' = {}
    /\ UNCHANGED <<objects, latest, made, seq, draft, keep, faults, history>>

(* commit: the manifest first,                                              *)
CommitManifest ==
    /\ pc = "upload" /\ todo = {}
    /\ AddManifest(made, Complete(draft))
    /\ pc' = "latest"
    /\ UNCHANGED <<objects, latest, made, seq, draft, todo, keep, faults, history>>

(* LATEST last.                                                             *)
CommitLatest ==
    /\ pc = "latest"
    /\ latest' = made
    /\ pc' = "gc"
    /\ draft' = NoManifest
    /\ UNCHANGED <<objects, manifests, made, seq, todo, keep, faults, history>>

-----------------------------------------------------------------------------
(* load_all_manifests skips the manifests it fails to read, whatever the    *)
(* reason.                                                                  *)
Skips(skipped) ==
    /\ skipped \subseteq Ids
    /\ IF skipped = {} THEN UNCHANGED faults ELSE Spend
    /\ unread' = unread \cup UNION {object_keys(manifests[i]) : i \in skipped}

(* load_chain: from LATEST along `previous`, up to the first missing one.   *)
load_chain ==
    LET from[id \in Nat] == IF id \notin Ids THEN <<>>
                            ELSE <<id>> \o from[manifests[id].previous]
    IN  from[latest]

(* Mutant of list_restore_points: only what LATEST reaches.                 *)
ChainOnly(skipped) == load_chain

(* list_restore_points: the chain, then all others, newest first.           *)
list_restore_points(skipped) ==
    load_chain \o SetToSortSeq((Ids \ skipped) \ ToSet(load_chain), >)

(* A policy that keeps nothing is taken as keep_last = 1.                   *)
EffectiveLast ==
    IF KeepLast = 0 /\ \A p \in Periods : p.keep = 0 THEN 1 ELSE KeepLast

(* select_period: the newest of each of the first `keep` periods.           *)
select_period(rest, p) ==
    {i \in DOMAIN rest :
        /\ \A j \in 1 .. i - 1 : p.bucket[rest[j]] # p.bucket[rest[i]]
        /\ Cardinality({p.bucket[rest[j]] : j \in 1 .. i - 1}) < p.keep}

(* select_manifests, as the positions kept of a list, newest first.         *)
select_manifests(list) ==
    LET rest == SubSeq(list, EffectiveLast + 1, Len(list)) IN
    {id \in Ids :
        \/ \E i \in DOMAIN list : i <= EffectiveLast /\ list[i] = id
        \/ \E p \in Periods : \E i \in select_period(rest, p) : rest[i] = id}

(* gc: what to keep; the manifest of LATEST in any case.                    *)
GcSelect ==
    /\ pc = "gc"
    /\ \E skipped \in SUBSET Ids :
         /\ Skips(skipped)
         /\ keep' = select_manifests(list_restore_points(skipped)) \cup {latest}
    /\ pc' = "expire"
    /\ UNCHANGED <<store, made, seq, draft, todo, cut>>

Without(id) == [i \in Ids \ {id} |-> manifests[i]]

(* Every other manifest found under meta/ is deleted.                       *)
Expire(id) ==
    /\ pc = "expire" /\ id \in Ids \ keep
    /\ manifests' = Without(id)
    /\ UNCHANGED <<objects, latest, made, seq, pc, draft, todo, keep, faults, history>>

ExpireDone ==
    /\ pc = "expire" /\ Ids \subseteq keep
    /\ pc' = "reclaim"
    /\ keep' = {}
    /\ UNCHANGED <<store, made, seq, draft, todo, faults, history>>

(* reclaim_unreferenced_objects: the references, then one object at a time. *)
Reclaim ==
    /\ pc = "reclaim"
    /\ \E skipped \in SUBSET Ids :
         /\ Skips(skipped)
         /\ todo' = objects \ UNION {object_keys(manifests[i]) : i \in Ids \ skipped}
    /\ pc' = "sweep"
    /\ UNCHANGED <<store, made, seq, draft, keep, cut>>

Sweep(k) ==
    /\ pc = "sweep" /\ k \in todo
    /\ objects' = objects \ {k}
    /\ todo' = todo \ {k}
    /\ UNCHANGED <<manifests, latest, made, seq, pc, draft, keep, faults, history>>

SweepDone ==
    /\ pc = "sweep" /\ todo = {}
    /\ pc' = "idle"
    /\ UNCHANGED <<store, made, seq, draft, todo, keep, faults, history>>

-----------------------------------------------------------------------------
(* Mutant of DeleteManifest: LATEST is left alone.                          *)
DeleteManifestOnly(id) ==
    /\ pc = "idle" /\ id \in Ids
    /\ manifests' = Without(id)
    /\ pc' = "reclaim"
    /\ UNCHANGED <<objects, latest, made, seq, draft, todo, keep, faults, history>>

(* delete_restore_point: the manifest first,                                *)
DeleteManifest(id) ==
    /\ pc = "idle" /\ id \in Ids
    /\ manifests' = Without(id)
    /\ pc' = IF latest = id THEN "repoint" ELSE "reclaim"
    /\ UNCHANGED <<objects, latest, made, seq, draft, todo, keep, faults, history>>

(* then LATEST, to the newest manifest left, or away,                       *)
Repoint ==
    /\ pc = "repoint"
    /\ \E skipped \in SUBSET Ids :
         /\ Skips(skipped)
         /\ \/ Ids \ skipped = {} /\ latest' = 0
            \/ /\ latest' \in Ids \ skipped
               /\ \A i \in Ids \ skipped : i <= latest'
    /\ pc' = "reclaim"
    /\ UNCHANGED <<objects, manifests, made, seq, draft, todo, keep, cut>>

(* and then Reclaim.  Any operation may end early: a call to the store      *)
(* fails, the request is dropped or the process dies.  A sweep that failed  *)
(* is only logged.                                                          *)
Abort ==
    /\ pc # "idle"
    /\ Spend
    /\ pc' = "idle"
    /\ draft' = NoManifest /\ todo' = {} /\ keep' = {}
    /\ cut' = (cut \/ pc = "repoint")
    /\ UNCHANGED <<store, made, seq, unread>>

StoreNext ==
    \/ BeginRun \/ CommitManifest \/ CommitLatest
    \/ \E k \in todo : upload_artifact(k) \/ Sweep(k)
    \/ GcSelect \/ ExpireDone \/ Reclaim \/ SweepDone \/ Repoint \/ Abort
    \/ \E id \in Ids : Expire(id) \/ DeleteManifest(id)

StoreSpec == StoreInit /\ [][StoreNext]_storeVars

-----------------------------------------------------------------------------
Rows == 1 .. MaxSeq
Audits == [base : Nat, deltas : SUBSET (Rows \X Rows), cursor : Nat]
Manifests == [previous : Nat, files : SUBSET Files, audit : Audits]

(* The shape of the target and of the operation; ids that were drawn.       *)
StoreTypeOK ==
    /\ Ids \subseteq 1 .. made
    /\ \A i \in Ids : manifests[i] \in Manifests /\ manifests[i].previous < i
    /\ latest \in 0 .. made
    /\ made \in Nat /\ seq \in Nat /\ faults \in Nat
    /\ pc \in {"idle", "upload", "latest", "gc", "expire", "reclaim", "sweep", "repoint"}
    /\ draft \in Manifests
    /\ pc = "upload" => draft.previous < made
    /\ keep \subseteq 0 .. made
    /\ cut \in BOOLEAN

(* "any single manifest can be validated and restored independently"        *)
(* (manifest.rs): a manifest under meta/ is never without one of its        *)
(* objects, whatever was cut short, swept or shared, except for objects of  *)
(* a manifest that a listing failed to read.                                *)
Restorable ==
    \A i \in Ids : object_keys(manifests[i]) \subseteq objects \cup unread

(* A restore point's audit log is whole: a baseline and deltas that give    *)
(* each row after it up to the cursor once, whichever restore points before *)
(* it were deleted or expired ("each lists every object it references").    *)
AuditWhole ==
    \A i \in Ids : LET a == manifests[i].audit IN
        a.cursor # 0 =>
            /\ a.base \in 1 .. a.cursor
            /\ \A d \in a.deltas : a.base <= d[1] /\ d[1] < d[2] /\ d[2] <= a.cursor
            /\ \A s \in a.base + 1 .. a.cursor :
                 Cardinality({d \in a.deltas : d[1] < s /\ s <= d[2]}) = 1

(* LATEST names a manifest that is there, so that the next run can chain    *)
(* from it, unless a deletion was cut short.                                *)
LatestResolves == pc # "repoint" /\ ~cut => LatestLoads

(* "GC never over-deletes" (engine.rs, R6), counted: the sweep leaves       *)
(* keep_last restore points, whether LATEST reaches them or not.            *)
RetentionKept ==
    [][pc = "expire" /\ unread = {} /\ manifests' # manifests =>
         Cardinality(DOMAIN manifests') >= EffectiveLast]_storeVars
=============================================================================
