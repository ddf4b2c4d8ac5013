----------------------------- MODULE BlobEngine -----------------------------
(***************************************************************************)
(* The content-addressed blob store (crate bichon-blob): append-only        *)
(* segment files, a redb index from key to (segment, offset), meta.bin, a   *)
(* GC thread that compacts sealed segments, and crash recovery.             *)
(*                                                                          *)
(* Writers hold the write mutex and the engine's write lock, so an          *)
(* operation is one step; what a crash leaves of it is a step of its own.   *)
(* `get` reads the index before it takes any lock, and the GC releases its  *)
(* lock between its two phases: those are separate steps. A file is a       *)
(* sequence of cells, one for an entry's header and Size[key] for its data, *)
(* so that an offset into a rewritten or torn file is what it is in the     *)
(* code: another entry, the middle of one, or past the end.                 *)
(***************************************************************************)
EXTENDS Naturals, Sequences, FiniteSets, SequencesExt

CONSTANTS
    Keys,            \* content hashes
    Size,            \* on-disk size of each key's data
    GcPercent,       \* Config.gc_deleted_ratio, in percent
    Loads            \* what the store is put through, see below

(* A load: segment is SEGMENT_MAX_SIZE; client the calls that are made (the *)
(* archive makes "put" and "delete_batch", "overwrite" is a put of a key    *)
(* that exists); faults what may go wrong; and bounds on the entries ever   *)
(* appended, the GC passes, the backup windows, the crashes and restarts.   *)
(* torn_header, torn_data, torn_crc: a crash cuts write_entry short there;  *)
(* power: a crash loses what was not fsynced; disk_full: an append fails    *)
(* half-way; index_lost: index.redb is unreadable at the next open.         *)
ASSUME LoadsAssumption ==
    \A l \in Loads :
        /\ l.segment \in Nat \ {0}
        /\ l.client \subseteq {"put", "overwrite", "put_batch", "delete", "delete_batch", "get"}
        /\ l.faults \subseteq {"torn_header", "torn_data", "torn_crc", "power",
                               "disk_full", "index_lost"}
        /\ {l.appends, l.gcs, l.backups, l.crashes} \subseteq Nat
ASSUME SizeAssumption == Size \in [Keys -> Nat]
ASSUME PercentAssumption == GcPercent \in 1 .. 100

VARIABLES
    load,       \* the load, fixed at the start
    phase,      \* "open", "down", "scanned" or "failed" (Engine::open returned Err)
    files,      \* segment id -> the cells of its file
    synced,     \* segment id -> how many of them have been fsynced
    meta,       \* GlobalMeta; every operation ends by saving it
    writer,     \* active_writer: id and bytes_written
    index,      \* index.redb: key -> record, or None
    index_ok,   \* index.redb can be read
    recovered,  \* Engine::open: the records the scan found
    gc,         \* the GC pass: where it is, and its GcPrepare
    gc_paused,
    backup,     \* prepare_for_backup and backup_segments
    reader,     \* a get(): where it is, its key, record and result
    promised,   \* history: what the last acknowledged call said of a key
    durable,    \* history: present keys whose entry has been fsynced
    happened,   \* history: "power", "disk_full", "half_rebuilt", "stale_hash", "short_offset"
    appends, gcs, backups, crashes

vars == <<load, phase, files, synced, meta, writer, index, index_ok, recovered, gc,
          gc_paused, backup, reader, promised, durable, happened,
          appends, gcs, backups, crashes>>
storeVars == <<files, synced, meta, writer>>
bounds == <<appends, gcs, backups, crashes>>

SegmentMaxSize == load.segment
Client == load.client
Faults == load.faults

None == [segment_id |-> 0, offset |-> 0, tombstone |-> TRUE]

(* Cells: a header with its CRC, one still without, data, part of a header. *)
Header(k, tombstone) == [kind |-> "entry", key |-> k, tombstone |-> tombstone]
NoCrc(k, tombstone)  == [kind |-> "no_crc", key |-> k, tombstone |-> tombstone]
Data(k)              == [kind |-> "data", key |-> k, tombstone |-> FALSE]
Partial(k)           == [kind |-> "partial", key |-> k, tombstone |-> FALSE]
IsHeader(c) == c.kind \in {"entry", "no_crc"}

DataSize(c) == IF c.tombstone THEN 0 ELSE Size[c.key]
Cells(c) == <<c>> \o [i \in 1 .. DataSize(c) |-> Data(c.key)]

(* SegmentReader::read_entry_at: what is at an offset of a file.            *)
read_entry_at(file, offset) ==
    IF offset >= Len(file) \/ file[offset + 1].kind = "partial" THEN "short"
    ELSE IF ~IsHeader(file[offset + 1]) THEN "bad_magic"
    ELSE IF offset + 1 + DataSize(file[offset + 1]) > Len(file) THEN "eof"
    ELSE IF file[offset + 1].kind = "no_crc" THEN "crc_mismatch" ELSE "ok"

(* SegmentReader::scan_entries: the records from an offset on, where the    *)
(* scan stopped, their data bytes, and whether it returned an error instead. *)
scan_entries(id, file, start) ==
    LET from[offset \in 0 .. Len(file)] ==
          LET c == file[offset + 1]
              rest == from[offset + 1 + DataSize(c)] IN
          IF read_entry_at(file, offset) = "ok"
          THEN [rest EXCEPT !.bytes = @ + DataSize(c), !.records =
                  <<[key |-> c.key, rec |-> [segment_id |-> id, offset |-> offset,
                                             tombstone |-> c.tombstone]]>> \o @]
          ELSE [records |-> <<>>, bytes |-> 0, end |-> offset,
                err |-> read_entry_at(file, offset) = "eof"]
    IN from[start]

-----------------------------------------------------------------------------
(* SegmentStats; sha256 is the content it was computed from.                *)
NewStats == [total |-> 0, deleted |-> 0, sealed |-> FALSE, indexed |-> 0,
             sha256 |-> <<>>]
Stats(m, id) == IF id \in DOMAIN m.segments THEN m.segments[id] ELSE NewStats
SetStats(m, id, s) ==
    [m EXCEPT !.segments = [i \in DOMAIN @ \cup {id} |-> IF i = id THEN s ELSE @[i]]]
SetFile(f, id, cells) ==
    [i \in DOMAIN f \cup {id} |-> IF i = id THEN cells ELSE f[i]]

Exceeds(s) == s.total > 0 /\ 100 * s.deleted >= GcPercent * s.total

(* The four things an operation of EngineInner changes, as one value.       *)
Store == [files |-> files, synced |-> synced, meta |-> meta, writer |-> writer]
Becomes(s) == /\ files' = s.files /\ synced' = s.synced
              /\ meta' = s.meta /\ writer' = s.writer

(* The first half of seal_active: the next segment's file exists, the       *)
(* metadata on disk does not know of it.                                    *)
CreateNext(s) ==
    [s EXCEPT !.files = SetFile(s.files, s.writer.id + 1, <<>>),
              !.synced = SetFile(s.synced, s.writer.id + 1, 0)]

seal_active(s) ==
    IF s.writer.bytes = 0 THEN s
    ELSE LET old == s.writer.id
             stats == [Stats(s.meta, old) EXCEPT !.sealed = TRUE,
                                                 !.sha256 = s.files[old]]
         IN [CreateNext(s) EXCEPT
               !.meta = [SetStats(s.meta, old, stats) EXCEPT !.active = old + 1],
               !.writer = [id |-> old + 1, bytes |-> 0]]

is_full(s) == s.writer.bytes >= SegmentMaxSize
Roll(s) == IF is_full(s) THEN seal_active(s) ELSE s

(* append_entry of a header cell, on a store with room in its segment.      *)
Append1(s, c) ==
    LET id == s.writer.id
        stats == Stats(s.meta, id) IN
    [s EXCEPT !.files = SetFile(s.files, id, s.files[id] \o Cells(c)),
              !.writer.bytes = @ + 1 + DataSize(c),
              !.meta = SetStats(s.meta, id,
                                [stats EXCEPT !.total = @ + DataSize(c)])]
append_entry(s, c) == Append1(Roll(s), c)

RecordOf(s, c) ==
    LET r == Roll(s) IN
    [segment_id |-> r.writer.id, offset |-> r.writer.bytes,
     tombstone |-> c.tombstone]

(* IndexStore::get hides tombstones.                                        *)
index_get(k) == IF index[k].tombstone THEN None ELSE index[k]

(* Mutant of CountDeleted: the bytes are taken off instead of added.        *)
CountUndeleted(s, k) ==
    LET rec == index_get(k) IN
    IF rec = None \/ rec.segment_id \notin DOMAIN s.meta.segments THEN s
    ELSE [s EXCEPT !.meta.segments[rec.segment_id].deleted = @ - Size[k]]

(* delete counts the bytes of the entry it kills on that entry's segment.   *)
CountDeleted(s, k) ==
    LET rec == index_get(k) IN
    IF rec = None \/ rec.segment_id \notin DOMAIN s.meta.segments THEN s
    ELSE [s EXCEPT !.meta.segments[rec.segment_id].deleted = @ + Size[k]]

(* Mutant of flush_active: only the metadata is saved.                      *)
NoFsync(s) == s

flush_active(s) == [s EXCEPT !.synced[s.writer.id] = Len(s.files[s.writer.id])]

(* What a write has done so far: the store, the metadata on disk, and the   *)
(* index records and segment ends it has yet to record.                     *)
Started == [store |-> Store, saved |-> meta, index |-> index, ends |-> {}]

Add(w, c) ==
    LET s == IF c.tombstone THEN CountDeleted(w.store, c.key) ELSE w.store
        r == append_entry(s, c) IN
    [store |-> r,
     saved |-> IF is_full(s) THEN seal_active(s).meta ELSE w.saved,
     index |-> [w.index EXCEPT ![c.key] = RecordOf(s, c)],
     ends  |-> w.ends \cup {<<r.writer.id, r.writer.bytes>>}]
Written(cells) == FoldLeft(Add, Started, cells)

mark_indexed(s, ends) ==
    [s EXCEPT !.meta.segments =
       [id \in DOMAIN @ |->
          [@[id] EXCEPT !.indexed =
             Max({@} \cup {e[2] : e \in {x \in ends : x[1] = id}})]]]

Idle == [pc |-> "idle", id |-> 0, temp |-> <<>>, kept |-> <<>>,
         deleted |-> {}, bytes_after |-> 0]
NoBackup == [pc |-> "idle", artifacts |-> <<>>]
NoGet == [pc |-> "idle", key |-> "none", rec |-> None, result |-> "none"]

(* A new store, opened for the first time.                                  *)
Init ==
    /\ load \in Loads
    /\ phase = "open"
    /\ files = (1 :> <<>>) /\ synced = (1 :> 0)
    /\ meta = [active |-> 1, segments |-> <<>>]
    /\ writer = [id |-> 1, bytes |-> 0]
    /\ index = [k \in Keys |-> None] /\ index_ok = TRUE
    /\ recovered = <<>>
    /\ gc = Idle /\ gc_paused = FALSE
    /\ backup = NoBackup
    /\ reader = NoGet
    /\ promised = [k \in Keys |-> "absent"]
    /\ durable = {} /\ happened = {}
    /\ appends = 0 /\ gcs = 0 /\ backups = 0 /\ crashes = 0

-----------------------------------------------------------------------------
(* The GC holds write_mutex from its rename to the end of its pass, and the *)
(* write gate keeps writers out of a backup window.                         *)
WriteMutexFree == gc.pc \in {"idle", "checked", "sealed", "prepared"}
CanWrite ==
    /\ phase = "open" /\ WriteMutexFree
    /\ backup.pc \in {"idle", "uploading"}

KeysOf(cells) == {cells[i].key : i \in 1 .. Len(cells)}

(* What a read at a record returns: an entry's key, or an error.            *)
ReadAt(rec) ==
    IF rec.segment_id \notin DOMAIN files THEN "error"
    ELSE IF read_entry_at(files[rec.segment_id], rec.offset) # "ok" THEN "error"
    ELSE files[rec.segment_id][rec.offset + 1].key

(* The keys whose entry is in a segment.                                    *)
KeptIn(id) == {k \in Keys : /\ index_get(k) # None /\ index_get(k).segment_id = id
                            /\ ReadAt(index_get(k)) = k}

(* An acknowledged write: put and delete, put_batch and delete_batch, which *)
(* also fsync the segment they end in.                                      *)
Write(cells, batch) ==
    LET w == Written(cells)
        s == IF batch THEN flush_active(w.store) ELSE w.store IN
    /\ CanWrite /\ appends + Len(cells) <= load.appends
    /\ Becomes(mark_indexed(s, w.ends))
    /\ index' = w.index
    /\ promised' = [k \in Keys |->
                      IF k \in KeysOf(cells)
                      THEN IF cells[1].tombstone THEN "absent" ELSE "present"
                      ELSE promised[k]]
    /\ durable' = (durable \ KeysOf(cells))
                  \cup (IF batch THEN KeptIn(writer.id)' ELSE {})
    /\ appends' = appends + Len(cells)
    /\ UNCHANGED <<phase, index_ok, recovered, gc, gc_paused, backup, reader,
                   happened, gcs, backups, crashes>>

(* The entries each of the calls the client makes would write.              *)
If(call, S) == IF call \in Client THEN S ELSE {}
Batches(tombstone) ==
    {<<Header(j, tombstone), Header(k, tombstone)>> : j, k \in Keys}
Deletes == {<<Header(k, TRUE)>> : k \in Keys}
Puts == If("put", {<<Header(k, FALSE)>> : k \in
             {x \in Keys : "overwrite" \in Client \/ index_get(x) = None}})
Singles == Puts \cup If("delete", Deletes)
Multiples == If("put_batch", Batches(FALSE))
             \cup If("delete_batch", Deletes \cup Batches(TRUE))

put == \E c \in Puts : Write(c, FALSE)
delete == \E c \in If("delete", Deletes) : Write(c, FALSE)
put_batch == \E b \in If("put_batch", Batches(FALSE)) : Write(b, TRUE)
delete_batch ==
    \E b \in If("delete_batch", Deletes \cup Batches(TRUE)) : Write(b, TRUE)

(* Engine::flush and the flush thread.                                      *)
flush ==
    /\ CanWrite
    /\ Becomes(flush_active(Store))
    /\ UNCHANGED <<phase, index, index_ok, recovered, gc, gc_paused, backup,
                   reader, promised, happened, bounds>>
    /\ durable' = durable \cup KeptIn(writer.id)

(* What write_entry leaves in the file when it is cut short.                *)
Cut(c) ==
    {<<Partial(c.key)>> : x \in Faults \cap {"torn_header"}}
    \cup {<<NoCrc(c.key, c.tombstone)>> :
            x \in IF DataSize(c) > 0 THEN Faults \cap {"torn_data"} ELSE {}}
    \cup {Cells(NoCrc(c.key, c.tombstone)) : x \in Faults \cap {"torn_crc"}}

(* The disk is full: the caller gets the error, the file keeps the bytes,   *)
(* and bytes_written is not advanced.                                       *)
WriteFails ==
    \E k \in Keys, tombstone \in BOOLEAN :
      LET c == Header(k, tombstone)
          s == Roll(IF tombstone THEN CountDeleted(Store, k) ELSE Store)
          id == s.writer.id IN
      /\ "disk_full" \in Faults /\ CanWrite /\ appends < load.appends
      /\ \E torn \in Cut(c) :
           Becomes([s EXCEPT !.files = SetFile(s.files, id, s.files[id] \o torn)])
      /\ appends' = appends + 1
      /\ happened' = happened \cup {"disk_full"}
      /\ UNCHANGED <<phase, index, index_ok, recovered, gc, gc_paused, backup,
                     reader, promised, durable, gcs, backups, crashes>>

-----------------------------------------------------------------------------
(* Engine::get looks the key up without a lock, then reads the entry at the *)
(* record's offset, and does not look at the key it finds there.            *)
GetLookup ==
    /\ "get" \in Client /\ phase = "open" /\ reader.pc = "idle"
    /\ \E k \in Keys :
         /\ index_get(k) # None
         /\ reader' = [NoGet EXCEPT !.pc = "found", !.key = k, !.rec = index_get(k)]
    /\ UNCHANGED <<phase, storeVars, index, index_ok, recovered, gc, gc_paused,
                   backup, promised, durable, happened, bounds>>

(* Mutant of GetRead: the entry after the record's.                         *)
GetReadNext ==
    /\ phase = "open" /\ reader.pc = "found"
    /\ reader' = [reader EXCEPT !.pc = "done",
                                !.result = ReadAt([reader.rec EXCEPT !.offset = @ + 2])]
    /\ UNCHANGED <<phase, storeVars, index, index_ok, recovered, gc, gc_paused,
                   backup, promised, durable, happened, bounds>>

GetRead ==
    /\ phase = "open" /\ reader.pc = "found"
    /\ reader' = [reader EXCEPT !.pc = "done", !.result = ReadAt(reader.rec)]
    /\ UNCHANGED <<phase, storeVars, index, index_ok, recovered, gc, gc_paused,
                   backup, promised, durable, happened, bounds>>

GetReturn ==
    /\ reader.pc = "done"
    /\ reader' = NoGet
    /\ UNCHANGED <<phase, storeVars, index, index_ok, recovered, gc, gc_paused,
                   backup, promised, durable, happened, bounds>>

-----------------------------------------------------------------------------
(* The blob-gc thread: one pass. It looks at gc_paused once, at the start.  *)
GcCheck ==
    /\ phase = "open" /\ gc.pc = "idle" /\ gcs < load.gcs
    /\ ~gc_paused
    /\ gc' = [gc EXCEPT !.pc = "checked"]
    /\ gcs' = gcs + 1
    /\ UNCHANGED <<phase, storeVars, index, index_ok, recovered, gc_paused, backup,
                   reader, promised, durable, happened, appends, backups, crashes>>

ensure_sealed ==
    /\ phase = "open" /\ gc.pc = "checked"
    /\ gc' = [gc EXCEPT !.pc = "sealed"]
    /\ Becomes(IF Exceeds(Stats(meta, writer.id)) THEN seal_active(Store) ELSE Store)
    /\ UNCHANGED <<phase, index, index_ok, recovered, gc_paused, backup, reader,
                   promised, durable, happened, bounds>>

(* The sealed segment with the highest deleted_ratio; max_by takes the last *)
(* of equals.                                                               *)
Candidates == {id \in DOMAIN meta.segments :
                 meta.segments[id].sealed /\ Exceeds(meta.segments[id])}
Worse(i, j) ==
    LET a == meta.segments[i].deleted * meta.segments[j].total
        b == meta.segments[j].deleted * meta.segments[i].total
    IN a > b \/ (a = b /\ i > j)
Target == CHOOSE i \in Candidates : \A j \in Candidates \ {i} : Worse(i, j)

(* The entry is the one the index points to, so it is kept.                 *)
Latest(r) == index_get(r.key) = r.rec

(* Mutant of Keep: the record keeps the offset of the old file.             *)
KeepOldOffset(g, r) ==
    IF r.rec.tombstone \/ ~Latest(r) THEN g
    ELSE [g EXCEPT !.temp = @ \o Cells(Header(r.key, FALSE)),
                   !.kept = Append(@, r), !.bytes_after = @ + Size[r.key]]

(* Copy an entry to the temp file.                                          *)
Keep(g, r) ==
    IF r.rec.tombstone \/ ~Latest(r) THEN g
    ELSE [g EXCEPT !.temp = @ \o Cells(Header(r.key, FALSE)),
                   !.kept = Append(@, [key |-> r.key,
                              rec |-> [r.rec EXCEPT !.offset = Len(g.temp)]]),
                   !.bytes_after = @ + Size[r.key]]

(* Mutant of DeletedKeys: also tombstones that were overwritten.            *)
EveryTombstone(records) ==
    {records[i].key : i \in {n \in 1 .. Len(records) : records[n].rec.tombstone}}

(* Tombstones that are their key's latest version, by the same test.        *)
DeletedKeys(records) ==
    {records[i].key : i \in {n \in 1 .. Len(records) :
                               records[n].rec.tombstone /\ Latest(records[n])}}

(* gc_if_needed and phase 1: read, and write the temp file, under the read  *)
(* lock. Without a candidate, or with an unreadable one, the pass ends.     *)
gc_prepare ==
    /\ phase = "open" /\ gc.pc = "sealed"
    /\ gc' = IF Candidates = {} THEN Idle
             ELSE IF Target \notin DOMAIN files THEN Idle
             ELSE LET scan == scan_entries(Target, files[Target], 0)
                      g == [Idle EXCEPT !.pc = "prepared", !.id = Target,
                                        !.deleted = DeletedKeys(scan.records)] IN
                  IF scan.err THEN Idle ELSE FoldLeft(Keep, g, scan.records)
    /\ UNCHANGED <<phase, storeVars, index, index_ok, recovered, gc_paused, backup,
                   reader, promised, durable, happened, bounds>>

(* Phase 2 takes the write mutex: rename, update the index, then the        *)
(* metadata, and remove a file that has become empty.                       *)
gc_finish ==
    /\ phase = "open" /\ gc.pc = "prepared"
    /\ gc' = [gc EXCEPT !.pc = "renamed"]
    /\ files' = SetFile(files, gc.id, gc.temp)
    /\ synced' = SetFile(synced, gc.id, Len(gc.temp))
    /\ UNCHANGED <<phase, meta, writer, index, index_ok, recovered, gc_paused,
                   backup, reader, promised, durable, happened, bounds>>

Insert(ix, r) == [ix EXCEPT ![r.key] = r.rec]

GcIndex ==
    /\ phase = "open" /\ gc.pc = "renamed"
    /\ gc' = [gc EXCEPT !.pc = "indexed"]
    /\ index' = LET ix == FoldLeft(Insert, index, gc.kept) IN
                [k \in Keys |-> IF k \in gc.deleted THEN None ELSE ix[k]]
    /\ UNCHANGED <<phase, storeVars, index_ok, recovered, gc_paused, backup, reader,
                   promised, durable, happened, bounds>>

(* Mutant of GcMeta: the seal-time hash stays.                              *)
GcMetaKeepsHash ==
    /\ phase = "open" /\ gc.pc = "indexed"
    /\ gc' = Idle
    /\ meta' = SetStats(meta, gc.id,
                 [meta.segments[gc.id] EXCEPT !.total = gc.bytes_after, !.deleted = 0,
                                              !.indexed = gc.bytes_after])
    /\ UNCHANGED <<phase, files, synced, writer, index, index_ok, recovered,
                   gc_paused, backup, reader, promised, durable, happened, bounds>>

GcMeta ==
    /\ phase = "open" /\ gc.pc = "indexed"
    /\ IF gc.bytes_after = 0
       THEN /\ meta' = [meta EXCEPT !.segments =
                          [i \in DOMAIN @ \ {gc.id} |-> @[i]]]
            /\ gc' = [gc EXCEPT !.pc = "unlink"]
       ELSE /\ meta' = IF gc.id \in DOMAIN meta.segments
                       THEN SetStats(meta, gc.id,
                              [meta.segments[gc.id] EXCEPT
                                 !.total = gc.bytes_after, !.deleted = 0,
                                 !.indexed = gc.bytes_after, !.sha256 = gc.temp])
                       ELSE meta
            /\ gc' = Idle
    /\ UNCHANGED <<phase, files, synced, writer, index, index_ok, recovered,
                   gc_paused, backup, reader, promised, durable, happened, bounds>>

GcUnlink ==
    /\ phase = "open" /\ gc.pc = "unlink"
    /\ files' = [i \in DOMAIN files \ {gc.id} |-> files[i]]
    /\ synced' = [i \in DOMAIN synced \ {gc.id} |-> synced[i]]
    /\ gc' = Idle
    /\ UNCHANGED <<phase, meta, writer, index, index_ok, recovered, gc_paused,
                   backup, reader, promised, durable, happened, bounds>>

-----------------------------------------------------------------------------
(* A backup window: prepare_for_backup and backup_segments, with the write  *)
(* gate closed; the upload that follows runs with the gate open again.      *)
BackupPause ==
    /\ phase = "open" /\ backup.pc = "idle" /\ backups < load.backups
    /\ gc_paused' = TRUE
    /\ backup' = [backup EXCEPT !.pc = "paused"]
    /\ backups' = backups + 1
    /\ UNCHANGED <<phase, storeVars, index, index_ok, recovered, gc, reader,
                   promised, durable, happened, appends, gcs, crashes>>

BackupSeal ==
    /\ phase = "open" /\ backup.pc = "paused" /\ WriteMutexFree
    /\ Becomes(seal_active(Store))
    /\ backup' = [backup EXCEPT !.pc = "sealed"]
    /\ UNCHANGED <<phase, index, index_ok, recovered, gc, gc_paused, reader,
                   promised, durable, happened, bounds>>

BackupFlush ==
    /\ phase = "open" /\ backup.pc = "sealed" /\ WriteMutexFree
    /\ synced' = [i \in DOMAIN files |-> Len(files[i])]
    /\ backup' = [backup EXCEPT !.pc = "flushed"]
    /\ UNCHANGED <<phase, files, meta, writer, index, index_ok, recovered, gc,
                   gc_paused, reader, promised, happened, bounds>>
    /\ durable' = UNION {KeptIn(i) : i \in DOMAIN files}

(* A sealed segment without a hash is hashed now.                           *)
backup_segments ==
    LET sealed == {i \in DOMAIN meta.segments : meta.segments[i].sealed}
        hash(i) == IF meta.segments[i].sha256 = <<>> THEN files[i]
                   ELSE meta.segments[i].sha256 IN
    /\ phase = "open" /\ backup.pc = "flushed" /\ WriteMutexFree
    /\ IF sealed \subseteq DOMAIN files
       THEN /\ backup' = [pc |-> "uploading", artifacts |-> [i \in sealed |-> hash(i)]]
            /\ meta' = [meta EXCEPT !.segments =
                 [i \in DOMAIN @ |-> IF i \in sealed
                                     THEN [@[i] EXCEPT !.sha256 = hash(i)] ELSE @[i]]]
       ELSE backup' = [backup EXCEPT !.pc = "uploading"] /\ UNCHANGED meta
    /\ UNCHANGED <<phase, files, synced, writer, index, index_ok, recovered, gc,
                   gc_paused, reader, promised, durable, happened, bounds>>

(* resume_gc                                                                *)
BackupDone ==
    /\ phase = "open" /\ backup.pc = "uploading"
    /\ gc_paused' = FALSE
    /\ backup' = NoBackup
    /\ UNCHANGED <<phase, storeVars, index, index_ok, recovered, gc, reader,
                   promised, durable, happened, bounds>>

-----------------------------------------------------------------------------
(* The process ends; memory is gone, the files stay.                        *)
Die ==
    /\ crashes < load.crashes
    /\ crashes' = crashes + 1
    /\ phase' = "down"
    /\ writer' = [id |-> 0, bytes |-> 0]
    /\ recovered' = <<>>
    /\ gc' = Idle /\ gc_paused' = FALSE
    /\ backup' = NoBackup
    /\ reader' = NoGet
    /\ UNCHANGED <<appends, gcs, backups>>

(* Between the metadata and the index of a rebuild, or of the scan of a     *)
(* segment a GC pass left half-way, the records are lost; between the       *)
(* rename and the metadata of a GC pass, the new hash.                      *)
Crash ==
    /\ phase \in {"open", "scanned"}
    /\ Die
    /\ happened' = happened
         \cup (IF recovered # <<>> /\ (index = [k \in Keys |-> None] \/ "stale_hash" \in happened)
               THEN {"half_rebuilt"} ELSE {})
         \cup (IF gc.pc \in {"renamed", "indexed"} THEN {"stale_hash"} ELSE {})
    /\ UNCHANGED <<files, synced, meta, index, index_ok, promised, durable>>

(* Engine::shutdown joins the GC thread first.                              *)
shutdown ==
    /\ phase = "open" /\ gc.pc = "idle" /\ backup.pc = "idle"
    /\ Die
    /\ synced' = flush_active(Store).synced
    /\ UNCHANGED <<files, meta, index, index_ok, promised, happened>>
    /\ durable' = durable \cup KeptIn(writer.id)

(* An interrupted call promises nothing, unless it would change nothing.    *)
Interrupted(cells) ==
    LET said == IF cells[1].tombstone THEN "absent" ELSE "present" IN
    [k \in Keys |-> IF k \in KeysOf(cells)
                    THEN IF promised[k] = said THEN said ELSE "either"
                    ELSE promised[k]]

(* A crash inside a write, after n entries: before the index transaction,   *)
(* inside the next entry, inside the roll to the next segment, or after     *)
(* the index transaction and before the metadata is saved.                  *)
CrashInWrite(cells, batch) ==
    \E n \in 0 .. Len(cells) :
      LET w == Written(SubSeq(cells, 1, n))
          done == n = Len(cells) IN
      /\ CanWrite /\ appends + Len(cells) <= load.appends
      /\ crashes < load.crashes
      /\ \/ /\ n > 0
            /\ files' = w.store.files /\ synced' = w.store.synced
            /\ meta' = w.saved /\ UNCHANGED index
         \/ /\ ~done
            /\ LET s == Roll(w.store) IN
               \E torn \in Cut(cells[n + 1]) :
                 /\ files' = SetFile(s.files, s.writer.id,
                                     s.files[s.writer.id] \o torn)
                 /\ synced' = s.synced
                 /\ meta' = IF is_full(w.store) THEN s.meta ELSE w.saved
            /\ UNCHANGED index
         \/ /\ ~done /\ is_full(w.store)
            /\ files' = CreateNext(w.store).files
            /\ synced' = CreateNext(w.store).synced
            /\ meta' = w.saved /\ UNCHANGED index
         \/ /\ done
            /\ files' = w.store.files
            /\ synced' = (IF batch THEN flush_active(w.store) ELSE w.store).synced
            /\ meta' = IF batch THEN w.store.meta ELSE w.saved
            /\ index' = w.index
      /\ promised' = Interrupted(cells)
      /\ durable' = durable \ KeysOf(cells)
      /\ Die
      /\ UNCHANGED <<index_ok, happened>>

CrashInCall ==
    \/ \E c \in Singles : CrashInWrite(c, FALSE)
    \/ \E b \in Multiples : CrashInWrite(b, TRUE)

(* The power fails and segments lose cells that were not fsynced; the       *)
(* index and the metadata are fsynced by every call.                        *)
Longest == Max({Len(files[i]) : i \in DOMAIN files})
PowerFails ==
    /\ "power" \in Faults /\ phase = "open"
    /\ Die
    /\ files' \in {[i \in DOMAIN files |-> SubSeq(files[i], 1, kept[i])] :
                    kept \in {n \in [DOMAIN files -> 0 .. Longest] :
                      \A i \in DOMAIN n : n[i] \in synced[i] .. Len(files[i])}}
    /\ happened' = happened \cup {"power"}
    /\ UNCHANGED <<synced, meta, index, index_ok, promised, durable>>

IndexLost ==
    /\ "index_lost" \in Faults /\ phase = "down" /\ index_ok
    /\ index_ok' = FALSE
    /\ UNCHANGED <<phase, storeVars, index, recovered, gc, gc_paused, backup, reader,
                   promised, durable, happened, bounds>>

(* Mutant of ScanStart: a file that has become shorter counts as indexed.   *)
ScanStart_trusting(i) ==
    IF index_ok THEN Min({Stats(meta, i).indexed, Len(files[i])}) ELSE 0

(* recovery::scan_segments: every file, from where the index ends, or from  *)
(* its start when the index is rebuilt or the file has become shorter.      *)
ScanStart(i) ==
    IF index_ok /\ Stats(meta, i).indexed <= Len(files[i])
    THEN Stats(meta, i).indexed ELSE 0

Scan(i) == scan_entries(i, files[i], ScanStart(i))

(* rebuild_index starts the statistics afresh; recover adds to them.        *)
BaseStats(i) ==
    IF index_ok THEN Stats(meta, i)
    ELSE [Stats(meta, i) EXCEPT !.total = 0, !.deleted = 0, !.indexed = 0]

ScannedStats(i, active) ==
    IF i \notin DOMAIN files THEN BaseStats(i)
    ELSE [BaseStats(i) EXCEPT !.sealed = i # active,
                              !.total = @ + Scan(i).bytes,
                              !.indexed = IF ScanStart(i) < Len(files[i])
                                          THEN Scan(i).end ELSE @]

(* Mutant of disk_segments: newest first.                                   *)
DescendingSegments == SetToSortSeq(DOMAIN files, >)

(* The segments are scanned in the order they were written.                *)
disk_segments == SetToSortSeq(DOMAIN files, <)

(* A compacted segment whose indexed offset left out the headers.           *)
ShortOffset ==
    \E i \in DOMAIN files \cap DOMAIN meta.segments :
      meta.segments[i].sha256 = files[i] /\ meta.segments[i].indexed < Len(files[i])

(* Engine::open, up to the metadata that scan_segments saves: an unreadable *)
(* index is replaced by an empty one, torn tails are cut off.               *)
OpenScan ==
    LET ids == DOMAIN files
        active == Max({meta.active} \cup ids)
        Collect(records, i) == records \o Scan(i).records IN
    /\ phase = "down"
    /\ index' = IF index_ok THEN index ELSE [k \in Keys |-> None]
    /\ index_ok' = TRUE
    /\ IF \E i \in ids : Scan(i).err
       THEN phase' = "failed" /\ UNCHANGED <<files, synced, meta, recovered>>
       ELSE /\ phase' = "scanned"
            /\ files' = [i \in ids |-> SubSeq(files[i], 1, Scan(i).end)]
            /\ synced' = [i \in ids |-> Min({synced[i], Scan(i).end})]
            /\ meta' = [active |-> active,
                        segments |-> [i \in DOMAIN meta.segments \cup ids |->
                                        ScannedStats(i, active)]]
            /\ recovered' = FoldLeft(Collect, <<>>, disk_segments)
    /\ happened' = happened \cup (IF index_ok /\ ShortOffset THEN {"short_offset"} ELSE {})
    /\ UNCHANGED <<writer, gc, gc_paused, backup, reader, promised, durable, bounds>>

(* The rest of it: the records go into the index, the segment is reopened.  *)
OpenIndex ==
    /\ phase = "scanned"
    /\ phase' = "open"
    /\ index' = FoldLeft(Insert, index, recovered)
    /\ recovered' = <<>>
    /\ files' = IF meta.active \in DOMAIN files THEN files
                ELSE SetFile(files, meta.active, <<>>)
    /\ synced' = IF meta.active \in DOMAIN files THEN synced
                 ELSE SetFile(synced, meta.active, 0)
    /\ writer' = [id |-> meta.active, bytes |-> Len(files'[meta.active])]
    /\ UNCHANGED <<meta, index_ok, gc, gc_paused, backup, reader, promised, durable,
                   happened, bounds>>

Calls == put \/ delete \/ put_batch \/ delete_batch \/ flush \/ WriteFails
Gets == GetLookup \/ GetRead \/ GetReturn
GcPass == GcCheck \/ ensure_sealed \/ gc_prepare \/ gc_finish \/ GcIndex \/ GcMeta
          \/ GcUnlink
Backup == BackupPause \/ BackupSeal \/ BackupFlush \/ backup_segments \/ BackupDone
Restart == Crash \/ shutdown \/ CrashInCall \/ PowerFails \/ IndexLost \/ OpenScan \/ OpenIndex

Next == UNCHANGED load /\ (Calls \/ Gets \/ GcPass \/ Backup \/ Restart)

Spec == Init /\ [][Next]_vars

-----------------------------------------------------------------------------
(* The shape of the store; a segment's file and its fsynced part.           *)
TypeOK ==
    /\ phase \in {"open", "down", "scanned", "failed"}
    /\ DOMAIN synced = DOMAIN files /\ \A i \in DOMAIN files : synced[i] <= Len(files[i])
    /\ meta.active \in Nat
    /\ \A i \in DOMAIN meta.segments : meta.segments[i].deleted \in Nat
    /\ DOMAIN index = Keys /\ index_ok \in BOOLEAN /\ gc_paused \in BOOLEAN
    /\ gc.pc \in {"idle", "checked", "sealed", "prepared", "renamed", "indexed", "unlink"}
    /\ backup.pc \in {"idle", "paused", "sealed", "flushed", "uploading"}
    /\ reader.pc \in {"idle", "found", "done"}
    /\ promised \in [Keys -> {"present", "absent", "either"}]

(* No GC pass is between its rename and its index update.                   *)
Settled == phase = "open" /\ gc.pc # "renamed"

Readable(k) == index_get(k) # None /\ ReadAt(index_get(k)) = k

(* Every record of the index points at the entry of its key, before and     *)
(* after GC passes, crashes and recovery; not after a failed append or the  *)
(* loss of unsynced bytes.                                                  *)
IndexPointsHome ==
    (Settled /\ happened \subseteq {"stale_hash"}) => \A k \in Keys : index_get(k) # None => ReadAt(index_get(k)) = k

(* "All non-deleted entries must still be readable" (tests/acid_test.rs): a *)
(* key whose last acknowledged call was a put can be read, after crashes,   *)
(* torn writes and a rebuild of the index; not after a failed append, nor   *)
(* before an fsync when the power fails.                                    *)
PutsReadable ==
    (Settled /\ happened \subseteq {"stale_hash"}) => \A k \in Keys : promised[k] = "present" => Readable(k)

(* "index_store.get(key) now returns None" (README): a key whose last       *)
(* acknowledged call was a delete stays deleted, after a failed append too  *)
(* as long as the store is not reopened.  A GC pass brings back what was    *)
(* deleted between its two phases.                                          *)
NothingReturns ==
    (Settled /\ gcs = 0 /\ (happened = {} \/ crashes = 0)) =>
      \A k \in Keys : promised[k] = "absent" => index_get(k) = None

(* A key whose entry was fsynced survives every crash, and power failures   *)
(* of a store that has one segment.                                         *)
DurableSurvives ==
    (Settled /\ (happened \subseteq {"stale_hash"} \/ (happened = {"power"} /\ DOMAIN files = {1}))) =>
      \A k \in durable : Readable(k)

(* The store keeps what it was given: every index record points at an entry *)
(* of its own key, acknowledged puts can be read, fsynced entries survive.  *)
NothingLost == TypeOK /\ IndexPointsHome /\ PutsReadable /\ DurableSurvives

(* A get() returns the content of its key, unless a GC pass has moved the   *)
(* record, or begun to, since get() looked it up: that get() reads at the   *)
(* old offset of the new file.                                              *)
GetReturnsOwn ==
    (/\ reader.pc = "done" /\ gc.pc \notin {"renamed", "indexed", "unlink"}
     /\ index_get(reader.key) = reader.rec) => reader.result = reader.key

(* The hash of a sealed segment, which names its object in a backup, is     *)
(* that of the file (hash-at-seal, and again at compaction), also when      *)
(* failed appends have left garbage in it, until the store is reopened.     *)
HashCurrent ==
    (/\ phase = "open" /\ gc.pc \in {"idle", "checked", "sealed", "prepared"}
     /\ happened \subseteq {"half_rebuilt"} \/ crashes = 0) =>
      \A i \in DOMAIN meta.segments :
        (meta.segments[i].sealed /\ meta.segments[i].sha256 # <<>>) =>
          i \in DOMAIN files /\ files[i] = meta.segments[i].sha256

(* What is handed out of the segments, to a get and to a backup, is what    *)
(* was put into them.                                                       *)
ReadsTrue == GetReturnsOwn /\ HashCurrent

(* "Partial writes at the tail of a segment ... are truncated" (README): no *)
(* crash keeps the store from opening.                                      *)
OpenSucceeds == phase # "failed"

(* "While paused, no segment is sealed, renamed or deleted" (engine.rs): a  *)
(* segment listed for a backup stays as it was hashed while GC is paused.   *)
ArtifactsStable ==
    \A i \in DOMAIN backup.artifacts :
      i \in DOMAIN files /\ files[i] = backup.artifacts[i]

(* The index keeps no tombstone whose entry a compaction removed ("the key  *)
(* must be removed from redb after compaction", gc.rs).                     *)
TombstonesReclaimed ==
    (phase = "open" /\ gc.pc = "idle") =>
      \A k \in Keys : (index[k].tombstone /\ index[k] # None) =>
        /\ index[k].segment_id \in DOMAIN files
        /\ ReadAt(index[k]) = k
=============================================================================
