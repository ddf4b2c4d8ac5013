------------------------------- MODULE MemDb -------------------------------
(***************************************************************************)
(* The embedded settings database (crate memdb): all records in memory      *)
(* behind one mutex, a write-ahead log of JSON lines and a snapshot file.   *)
(* A critical section is one step. What happens between two of them, and    *)
(* what a crash cuts in two, is a step of its own: the snapshot worker      *)
(* releases the mutex three times, and `open` replays the log line by line. *)
(* The bytes of a line matter in one respect only: whether it still parses. *)
(***************************************************************************)
EXTENDS Naturals, Sequences

CONSTANTS
    Keys,        \* collection and primary key
    Values,      \* record bodies
    Absent,      \* the key has no record
    Durability,  \* "full", "batch" or "off"
    MaxOps,      \* Durability::Batch { max_ops }
    Torn,        \* a crash may cut a log line short
    IoErrors,    \* a log write may fail
    FileErrors,  \* the snapshot worker may fail to write or to open a file
    PowerLoss,   \* a crash may lose what was not fsynced
    MaxSeq,      \* bound: commits in one timeline
    MaxLines,    \* bound: lines in the log when a write fails
    MaxCrashes   \* bound: crashes

ASSUME KeysAssumption == Keys # {}
ASSUME ValuesAssumption == Absent \notin Values
ASSUME DurabilityAssumption == Durability \in {"full", "batch", "off"}
ASSUME MaxOpsAssumption == MaxOps \in Nat \ {0}
ASSUME FaultsAssumption == {Torn, IoErrors, FileErrors, PowerLoss} \subseteq BOOLEAN
ASSUME BoundsAssumption == {MaxSeq, MaxLines, MaxCrashes} \subseteq Nat

VARIABLES
    phase,         \* "down", "replaying", "open" or "unopenable"
    last_seq,      \* Inner.last_seq; while replaying, Snapshot.last_seq
    data,          \* Inner.data
    pending,       \* Inner.pending
    wal_file,      \* Inner.wal_file is Some
    wal,           \* the lines of wal.jsonl
    unterminated,  \* the last line of wal.jsonl has no newline
    wal_synced,    \* how many lines have been fsynced
    snapshot,      \* snapshot.json
    snap_file,     \* its bytes: "synced", still "cached", or "partial" on disk
    worker,        \* snapshot(): where it is, and what it serialized
    after_seq,     \* open_with: the last_seq of the snapshot it read
    line,          \* open_with: how many lines it has replayed
    crashes,
    states,        \* history: states[n + 1] is the data after commit n
    durable,       \* history: the last commit that is on disk for good
    glued,         \* history: a line was appended to an unterminated one
    failed         \* history: a write of the log has returned an error

vars == <<phase, last_seq, data, pending, wal_file, wal, unterminated,
          wal_synced, snapshot, snap_file, worker, after_seq, line, crashes, states,
          durable, glued, failed>>
memVars == <<last_seq, data, pending, wal_file>>
walVars == <<wal, unterminated, wal_synced, glued>>
snapVars == <<snapshot, snap_file>>
openVars == <<after_seq, line>>

(* The records of a database, and the net effect of one log entry's ops.    *)
Data == [Keys -> Values \cup {Absent}]
Ops  == UNION {[K -> Values \cup {Absent}] : K \in (SUBSET Keys) \ {{}}}
Entries == [seq : Nat, ops : Ops]

Empty == [k \in Keys |-> Absent]

(* No snapshot() call is under way.                                         *)
Idle == [pc |-> "idle", last_seq |-> 0, data |-> Empty]

(* A line that serde_json rejects; commits are numbered from 1.             *)
Corrupted == [seq |-> 0, ops |-> Empty]

apply_op(d, ops) == [k \in Keys |-> IF k \in DOMAIN ops THEN ops[k] ELSE d[k]]

(* A data directory that does not exist yet, opened for the first time.     *)
Init ==
    /\ phase = "open"
    /\ last_seq = 0
    /\ data = Empty
    /\ pending = <<>>
    /\ wal_file = TRUE
    /\ wal = <<>>
    /\ unterminated = FALSE
    /\ wal_synced = 0
    /\ snapshot = [last_seq |-> 0, data |-> Empty]
    /\ snap_file = "synced"
    /\ worker = Idle
    /\ after_seq = 0
    /\ line = 0
    /\ crashes = 0
    /\ states = <<Empty>>
    /\ durable = 0
    /\ glued = FALSE
    /\ failed = FALSE

-----------------------------------------------------------------------------
(* Lines reach the end of the log. The first one is glued to an unterminated *)
(* last line, and neither entry of a glued line parses.                     *)
Extend(lines, noNewline) ==
    /\ wal' = IF unterminated
              THEN [wal EXCEPT ![Len(wal)] = Corrupted] \o Tail(lines)
              ELSE wal \o lines
    /\ unterminated' = noNewline
    /\ glued' = (glued \/ unterminated)

(* wal::write_entry for each entry; the line and its newline both arrive.   *)
write_entries(entries) == Extend(entries, FALSE)

sync_wal == wal_synced' = Len(wal')

(* The same, cut after k entries: by an error, or by the end of the process. *)
(* writeln! writes the line and its newline separately, so the k-th may lack *)
(* its newline, or its end.                                                 *)
CutWrite(entries) ==
    \/ UNCHANGED walVars
    \/ \E k \in 1 .. Len(entries) :
         /\ \/ write_entries(SubSeq(entries, 1, k))
            \/ Torn /\ Extend(SubSeq(entries, 1, k), TRUE)
            \/ Torn /\ Extend(Append(SubSeq(entries, 1, k - 1), Corrupted), TRUE)
         /\ UNCHANGED wal_synced

-----------------------------------------------------------------------------
(* Inner::commit: the part every durability mode shares.                    *)
Recorded(ops) ==
    /\ last_seq < MaxSeq
    /\ last_seq' = last_seq + 1
    /\ data' = apply_op(data, ops)
    /\ states' = Append(states, data')

(* The entries a commit has to write now: none while a batch fills up.      *)
Entry(ops) == [seq |-> last_seq + 1, ops |-> ops]
Batch(ops) == Append(pending, Entry(ops))

Due(ops) ==
    IF Durability # "batch" THEN <<Entry(ops)>>
    ELSE IF Len(Batch(ops)) >= MaxOps THEN Batch(ops) ELSE <<>>

Commit(ops) ==
    /\ phase = "open"
    /\ Recorded(ops)
    /\ pending' = IF Due(ops) = <<>> THEN Batch(ops) ELSE <<>>
    /\ IF wal_file /\ Due(ops) # <<>>
       THEN /\ write_entries(Due(ops))
            /\ IF Durability = "off" THEN UNCHANGED wal_synced ELSE sync_wal
            /\ durable' = IF Durability = "off" /\ PowerLoss
                          THEN durable ELSE last_seq'
       ELSE UNCHANGED <<walVars, durable>>
    /\ UNCHANGED <<phase, wal_file, snapVars, worker, openVars, crashes, failed>>

(* The write fails: the caller is told so, but the record is in memory, and *)
(* in batch mode its entry is written again with the next flush.            *)
CommitFails(ops) ==
    /\ IoErrors /\ phase = "open" /\ wal_file /\ Len(wal) < MaxLines
    /\ Recorded(ops)
    /\ Due(ops) # <<>>
    /\ CutWrite(Due(ops))
    /\ pending' = IF Durability = "batch" THEN Batch(ops) ELSE <<>>
    /\ failed' = TRUE
    /\ UNCHANGED <<phase, wal_file, snapVars, worker, openVars, crashes,
                   durable>>

(* Collection and Transaction: what each writer checks before it commits.   *)
Put(k, v) == [x \in {k} |-> v]
Present == {k \in Keys : data[k] # Absent}
Insert == \E k \in Keys \ Present, v \in Values : Commit(Put(k, v))
Upsert == \E k \in Keys, v \in Values : Commit(Put(k, v))
Update == \E k \in Present, v \in Values : Commit(Put(k, v))
Delete == \E k \in Present : Commit(Put(k, Absent))
Transaction == \E ops \in Ops : Commit(ops)
WriteFails == \E ops \in Ops : CommitFails(ops)

(* flush(): the flush worker, the shutdown and snapshot() call it.          *)
flush_pending ==
    /\ IF wal_file /\ pending # <<>>
       THEN write_entries(pending) /\ sync_wal /\ durable' = last_seq
       ELSE UNCHANGED <<walVars, durable>>
    /\ pending' = <<>>

Flush ==
    /\ phase = "open" /\ pending # <<>>
    /\ flush_pending
    /\ UNCHANGED <<phase, last_seq, data, wal_file, snapVars, worker, openVars,
                   crashes, failed, states>>

(* A failed flush keeps `pending`; a failed snapshot() ends there.          *)
FlushFails ==
    /\ IoErrors /\ phase = "open" /\ wal_file /\ Len(wal) < MaxLines
    /\ pending # <<>>
    /\ CutWrite(pending)
    /\ failed' = TRUE
    /\ UNCHANGED <<phase, memVars, snapVars, worker, openVars, crashes,
                   states, durable>>

-----------------------------------------------------------------------------
(* snapshot(), which the snapshot worker runs: it takes the mutex to flush, *)
(* to serialize and to truncate, and writers run in between.                *)
SnapshotFlush ==
    /\ phase = "open" /\ worker.pc = "idle"
    /\ flush_pending
    /\ worker' = [worker EXCEPT !.pc = "flushed"]
    /\ UNCHANGED <<phase, last_seq, data, wal_file, snapVars, openVars, crashes, failed,
                   states>>

SnapshotSerialize ==
    /\ phase = "open" /\ worker.pc = "flushed"
    /\ worker' = [pc |-> "serialized", last_seq |-> last_seq, data |-> data]
    /\ UNCHANGED <<phase, memVars, walVars, snapVars, openVars, crashes, failed,
                   states, durable>>

(* snapshot.tmp is written, not fsynced, and renamed over snapshot.json.    *)
SnapshotRename ==
    /\ phase = "open" /\ worker.pc = "serialized"
    /\ snapshot' = [last_seq |-> worker.last_seq, data |-> worker.data]
    /\ snap_file' = "cached"
    /\ worker' = [worker EXCEPT !.pc = "renamed"]
    /\ durable' = IF PowerLoss \/ worker.last_seq < durable
                  THEN durable ELSE worker.last_seq
    /\ UNCHANGED <<phase, memVars, walVars, openVars, crashes, failed, states>>

(* snapshot.tmp cannot be written or renamed: snapshot() returns the error. *)
SnapshotFails ==
    /\ FileErrors /\ phase = "open" /\ worker.pc = "serialized"
    /\ worker' = Idle
    /\ UNCHANGED <<phase, memVars, walVars, snapVars, openVars, crashes, failed,
                   states, durable>>

EmptyWal == wal' = <<>> /\ unterminated' = FALSE /\ wal_synced' = 0

(* Mutant of SnapshotTruncate: the log is truncated whatever raced in.      *)
SnapshotTruncateAlways ==
    /\ phase = "open" /\ worker.pc = "renamed"
    /\ worker' = Idle
    /\ EmptyWal
    /\ UNCHANGED <<phase, memVars, snapVars, openVars, crashes, failed, states,
                   durable, glued>>

SnapshotTruncate ==
    /\ phase = "open" /\ worker.pc = "renamed"
    /\ worker' = Idle
    /\ IF last_seq = worker.last_seq /\ wal_file
       THEN EmptyWal
       ELSE UNCHANGED <<wal, unterminated, wal_synced>>
    /\ UNCHANGED <<phase, memVars, snapVars, openVars, crashes, failed, states,
                   durable, glued>>

(* The log cannot be opened to truncate it, or cannot be opened again:      *)
(* snapshot() returns the error, and the handle it took is gone.            *)
SnapshotTruncateFails ==
    /\ FileErrors /\ phase = "open" /\ worker.pc = "renamed"
    /\ worker' = Idle
    /\ last_seq = worker.last_seq /\ wal_file
    /\ wal_file' = FALSE
    /\ EmptyWal \/ UNCHANGED <<wal, unterminated, wal_synced>>
    /\ UNCHANGED <<phase, last_seq, data, pending, snapVars, openVars, crashes, failed,
                   states, durable, glued>>

(* The kernel writes the snapshot's bytes back.                             *)
Writeback ==
    /\ snap_file = "cached"
    /\ snap_file' = "synced"
    /\ UNCHANGED <<phase, memVars, walVars, snapshot, worker, openVars,
                   crashes, failed, states, durable>>

-----------------------------------------------------------------------------
(* The process dies; memory is gone, the files stay.                        *)
Die ==
    /\ crashes < MaxCrashes
    /\ crashes' = crashes + 1
    /\ phase' = "down"
    /\ last_seq' = 0 /\ data' = Empty /\ pending' = <<>> /\ wal_file' = TRUE
    /\ worker' = Idle
    /\ after_seq' = 0 /\ line' = 0
    /\ UNCHANGED failed

Crash ==
    /\ phase \in {"open", "replaying"}
    /\ Die
    /\ UNCHANGED <<walVars, snapVars, states, durable>>

(* It dies inside a flush, or inside a commit that has to write.            *)
CrashInFlush ==
    /\ phase = "open" /\ wal_file /\ pending # <<>>
    /\ CutWrite(pending)
    /\ Die
    /\ UNCHANGED <<snapVars, states, durable>>

CrashInCommit ==
    \E ops \in Ops :
      /\ phase = "open" /\ last_seq < MaxSeq
      /\ states' = Append(states, apply_op(data, ops))
      /\ wal_file /\ Due(ops) # <<>>
      /\ CutWrite(Due(ops))
      /\ Die
      /\ UNCHANGED <<snapVars, durable>>

(* The power fails: lines that were not fsynced may be gone, and so may the *)
(* bytes of a snapshot whose rename has reached the disk.                   *)
PowerFails ==
    /\ PowerLoss /\ phase = "open"
    /\ Die
    /\ \E n \in wal_synced .. Len(wal) :
         /\ wal' = SubSeq(wal, 1, n)
         /\ unterminated' = (unterminated /\ n = Len(wal))
    /\ \/ UNCHANGED snap_file
       \/ snap_file = "cached" /\ snap_file' = "partial"
    /\ UNCHANGED <<snapshot, wal_synced, glued, states, durable>>

-----------------------------------------------------------------------------
(* open_with: read the snapshot, replay the log, line by line, and append   *)
(* to it from then on.                                                      *)
OpenSnapshot ==
    /\ phase = "down"
    /\ IF snap_file = "partial"
       THEN phase' = "unopenable" /\ UNCHANGED <<last_seq, data, openVars>>
       ELSE /\ phase' = "replaying"
            /\ last_seq' = snapshot.last_seq
            /\ data' = snapshot.data
            /\ after_seq' = snapshot.last_seq
            /\ line' = 0
    /\ UNCHANGED <<pending, wal_file, walVars, snapVars, worker, crashes, failed, states,
                   durable>>

(* Mutant of read_after: lines are taken whatever the snapshot covers.      *)
read_after_any(l) == l # Corrupted

(* wal::read_after: which lines are replayed.                               *)
read_after(l) == l # Corrupted /\ l.seq > after_seq

Replay ==
    /\ phase = "replaying" /\ line < Len(wal)
    /\ line' = line + 1
    /\ LET l == wal[line + 1] IN
       IF read_after(l)
       THEN /\ data' = apply_op(data, l.ops)
            /\ last_seq' = IF l.seq > last_seq THEN l.seq ELSE last_seq
       ELSE UNCHANGED <<last_seq, data>>
    /\ UNCHANGED <<phase, pending, wal_file, walVars, snapVars, worker, after_seq,
                   crashes, failed, states, durable>>

(* The history restarts at what was recovered, which must not be lost again; *)
(* a power failure may still lose it for what was there before.             *)
OpenDone ==
    /\ phase = "replaying" /\ line = Len(wal)
    /\ phase' = "open"
    /\ line' = 0
    /\ after_seq' = 0
    /\ states' = [n \in 1 .. last_seq + 1 |->
                    IF n \in DOMAIN states /\ (n <= last_seq \/ PowerLoss)
                    THEN states[n] ELSE data]
    /\ durable' = IF PowerLoss THEN durable ELSE last_seq
    /\ UNCHANGED <<memVars, walVars, snapVars, worker, crashes, failed>>

WriteNext ==
    \/ Insert \/ Upsert \/ Update \/ Delete \/ Transaction \/ WriteFails
    \/ Flush \/ FlushFails
WorkerNext ==
    \/ SnapshotFlush \/ SnapshotSerialize \/ SnapshotRename \/ SnapshotFails
    \/ SnapshotTruncate \/ SnapshotTruncateFails \/ Writeback
CrashNext == Crash \/ CrashInFlush \/ CrashInCommit \/ PowerFails
OpenNext == OpenSnapshot \/ Replay \/ OpenDone

Next == WriteNext \/ WorkerNext \/ CrashNext \/ OpenNext

Spec == Init /\ [][Next]_vars

-----------------------------------------------------------------------------
(* The shape of the memory, of the two files and of the worker.             *)
TypeOK ==
    /\ phase \in {"down", "replaying", "open", "unopenable"}
    /\ last_seq \in Nat /\ data \in Data
    /\ pending \in Seq(Entries) /\ (Len(pending) < MaxOps \/ failed)
    /\ wal_file \in BOOLEAN /\ wal \in Seq(Entries)
    /\ unterminated \in BOOLEAN /\ (unterminated => wal # <<>>)
    /\ wal_synced \in Nat
    /\ snapshot \in [last_seq : Nat, data : Data]
    /\ snap_file \in {"synced", "cached", "partial"}
    /\ worker \in [pc : {"idle", "flushed", "serialized", "renamed"},
                   last_seq : Nat, data : Data]
    /\ after_seq \in Nat
    /\ line \in 0 .. Len(wal) /\ (phase # "replaying" => line = 0)
    /\ crashes \in Nat
    /\ states \in Seq(Data) /\ durable \in Nat
    /\ glued \in BOOLEAN /\ failed \in BOOLEAN

(* open_with has read everything and is about to return.                    *)
Recovered == phase = "replaying" /\ line = Len(wal)

(* Only "the last buffered batch may be lost on crash" (db.rs, flush): what  *)
(* open_with returns is the state after some commit, no older than the last *)
(* flush, wherever the crash hit the writers or the snapshot worker, unless *)
(* a write error or an append to a broken line has disturbed the log.       *)
RecoversAPrefix ==
    (Recovered /\ ~glued /\ ~failed) =>
        /\ durable <= last_seq /\ last_seq < Len(states)
        /\ data = states[last_seq + 1]

(* Every key has the value of its last flushed commit or of a later one.    *)
FlushedKept ==
    /\ durable <= last_seq /\ last_seq < Len(states)
    /\ \A k \in Keys : \E n \in durable .. last_seq :
         data[k] = states[n + 1][k]

(* That also holds when failed writes have left entries in the log twice    *)
(* (they stay in `pending` and are written again), whatever the crash cut.  *)
RetriedSurvives == (Recovered /\ ~glued) => FlushedKept

(* "fsync every write - safest": what was fsynced survives every crash.     *)
FlushedSurvives == Recovered => FlushedKept

(* "Flush any buffered WAL entries to disk": a flush that succeeds leaves    *)
(* every commit on disk.                                                    *)
FlushPersists ==
    [][(phase' = "open" /\ pending # <<>> /\ pending' = <<>>)
         => durable' = last_seq']_vars

(* "Atomic rename ensures snapshot file is never partial."                  *)
SnapshotNeverPartial == snap_file # "partial"
=============================================================================
