---------------------------- MODULE MemDbProofs ----------------------------
(***************************************************************************)
(* Proofs about MemDb for every set of keys and values, every durability    *)
(* mode, any number of commits and crashes, torn lines, failing snapshots   *)
(* and power failures: open_with recovers the state after some commit, no   *)
(* older than the last flush, as long as no line was appended to a torn one *)
(* and no write of the log has returned an error.                           *)
(***************************************************************************)
EXTENDS MemDb, TLAPS, SequenceTheorems

(* An entry leads from the state before its commit to the one after it.     *)
Leads(e, st) ==
    /\ e.seq \in 1 .. Len(st) - 1
    /\ st[e.seq + 1] = apply_op(st[e.seq], e.ops)

(* A log above a snapshot of commit S: only its last line may be torn; the  *)
(* others are in commit order, and above the snapshot there is no gap.      *)
IsLog(w, st, S, torn) ==
    /\ \A i \in 1 .. Len(w) : w[i].seq = 0 => i = Len(w) /\ torn
    /\ \A i \in 1 .. Len(w) : w[i].seq # 0 => Leads(w[i], st)
    /\ \A i, j \in 1 .. Len(w) :
         i < j /\ w[j].seq # 0 => w[i].seq < w[j].seq
    /\ \A i \in 1 .. Len(w) :
         w[i].seq > S + 1 => i > 1 /\ w[i - 1].seq = w[i].seq - 1

Top == Len(states)
LogOK == IsLog(wal, states, snapshot.last_seq, unterminated)

SnapOK ==
    /\ snapshot.last_seq < Top
    /\ snapshot.data = states[snapshot.last_seq + 1]

(* The last durable commit is in the snapshot or in the log.                *)
DurableOK ==
    \/ durable <= snapshot.last_seq
    \/ \E i \in 1 .. Len(wal) :
         /\ PowerLoss => i <= wal_synced
         /\ wal[i].seq # 0
         /\ durable <= wal[i].seq

(* Commits up to this one have left `pending`.                              *)
Written == last_seq - Len(pending)

(* Memory is the last state; the pending entries are the last commits, and  *)
(* the log ends where they begin.                                           *)
OpenOK ==
    /\ Top = last_seq + 1
    /\ data = states[last_seq + 1]
    /\ snapshot.last_seq <= last_seq
    /\ Len(pending) <= last_seq
    /\ Durability # "batch" => pending = <<>>
    /\ \A i \in 1 .. Len(pending) :
         pending[i].seq = Written + i /\ Leads(pending[i], states)
    /\ (wal_file /\ ~unterminated) =>
         /\ \A i \in 1 .. Len(wal) : wal[i].seq <= Written
         /\ \/ Written <= snapshot.last_seq
            \/ Len(wal) > 0 /\ wal[Len(wal)].seq = Written
    /\ worker.pc \in {"serialized", "renamed"} =>
         /\ snapshot.last_seq <= worker.last_seq
         /\ worker.last_seq <= last_seq
         /\ worker.data = states[worker.last_seq + 1]
    /\ worker.pc = "renamed" => snapshot.last_seq = worker.last_seq

(* The lines read so far lead from the snapshot to `data`.                  *)
ReplayOK ==
    /\ after_seq = snapshot.last_seq
    /\ snapshot.last_seq <= last_seq
    /\ last_seq < Top
    /\ data = states[last_seq + 1]
    /\ \A i \in 1 .. line : wal[i].seq <= last_seq
    /\ last_seq = snapshot.last_seq
       \/ \E i \in 1 .. line : wal[i].seq = last_seq

Sound ==
    /\ LogOK /\ SnapOK /\ DurableOK
    /\ phase = "open" => OpenOK
    /\ phase = "replaying" => ReplayOK
    /\ phase # "open" => pending = <<>> /\ worker.pc = "idle"

IInv == TypeOK /\ (~glued /\ ~failed => Sound)

-----------------------------------------------------------------------------
(* Types.                                                                   *)

(* Applying the operations of an entry yields a database again.             *)
LEMMA ApplyType ==
  ASSUME NEW d \in Data, NEW ops \in Ops
  PROVE  apply_op(d, ops) \in Data
<1>1. PICK K \in (SUBSET Keys) \ {{}} : ops \in [K -> Values \cup {Absent}]
  BY DEF Ops
<1> QED
  BY <1>1 DEF apply_op, Data

(* The constants of the model have their types.                             *)
LEMMA ConstantTypes ==
  /\ Empty \in Data /\ Corrupted \in Entries
  /\ Idle \in [pc : {"idle", "flushed", "serialized", "renamed"},
               last_seq : Nat, data : Data]
<1>1. Empty \in Data
  BY DEF Empty, Data
<1>2. Empty \in Ops
  <2>1. Keys \in (SUBSET Keys) \ {{}}
    BY KeysAssumption
  <2>2. Empty \in [Keys -> Values \cup {Absent}]
    BY DEF Empty
  <2> QED
    BY <2>1, <2>2 DEF Ops
<1> QED
  BY <1>1, <1>2 DEF Corrupted, Entries, Idle

(* A single put is the effect of an entry.                                  *)
LEMMA PutType ==
  ASSUME NEW k \in Keys, NEW v \in Values \cup {Absent}
  PROVE  Put(k, v) \in Ops
<1>1. {k} \in (SUBSET Keys) \ {{}}
  OBVIOUS
<1>2. Put(k, v) \in [{k} -> Values \cup {Absent}]
  BY DEF Put
<1> QED
  BY <1>1, <1>2 DEF Ops

(* Every writer commits the effect of some entry.                           *)
LEMMA WritersCommit ==
  Insert \/ Upsert \/ Update \/ Delete \/ Transaction
    => \E ops \in Ops : Commit(ops)
<1>1. Insert => \E ops \in Ops : Commit(ops)
  BY PutType DEF Insert
<1>2. Upsert => \E ops \in Ops : Commit(ops)
  BY PutType DEF Upsert
<1>3. Update => \E ops \in Ops : Commit(ops)
  BY PutType DEF Update, Present
<1>4. Delete => \E ops \in Ops : Commit(ops)
  BY PutType DEF Delete, Present
<1> QED
  BY <1>1, <1>2, <1>3, <1>4 DEF Transaction

(* Extending the log keeps its type.                                        *)
LEMMA ExtendType ==
  ASSUME wal \in Seq(Entries), unterminated \in BOOLEAN, glued \in BOOLEAN,
         unterminated => wal # <<>>,
         NEW lines \in Seq(Entries), lines # <<>>,
         NEW b \in BOOLEAN, Extend(lines, b)
  PROVE  /\ wal' \in Seq(Entries) /\ wal' # <<>>
         /\ Len(wal') >= Len(wal)
         /\ unterminated' = b /\ unterminated' \in BOOLEAN
         /\ glued' \in BOOLEAN
         /\ ~glued' => ~glued /\ ~unterminated /\ wal' = wal \o lines
<1>1. CASE unterminated
  <2> DEFINE w == [wal EXCEPT ![Len(wal)] = Corrupted]
  <2>1. w \in Seq(Entries) /\ Len(w) = Len(wal) /\ Len(w) # 0
    BY <1>1, ConstantTypes
  <2>2. Tail(lines) \in Seq(Entries)
    BY HeadTailProperties
  <2>3. wal' = w \o Tail(lines)
    BY <1>1 DEF Extend
  <2> HIDE DEF w
  <2>4. wal' \in Seq(Entries) /\ Len(wal') = Len(w) + Len(Tail(lines))
    BY <2>1, <2>2, <2>3, ConcatProperties
  <2>5. Len(wal') >= Len(wal) /\ wal' # <<>>
    BY <2>1, <2>2, <2>4
  <2>6. unterminated' = b /\ glued' = TRUE
    BY <1>1 DEF Extend
  <2> QED
    BY <2>4, <2>5, <2>6
<1>2. CASE ~unterminated
  BY <1>2, ConcatProperties DEF Extend
<1> QED
  BY <1>1, <1>2

(* The entries a commit writes, or leaves pending, are entries.             *)
LEMMA DueType ==
  ASSUME TypeOK, NEW ops \in Ops
  PROVE  /\ Entry(ops) \in Entries
         /\ Batch(ops) \in Seq(Entries) /\ Batch(ops) # <<>>
         /\ Len(Batch(ops)) = Len(pending) + 1
         /\ Due(ops) \in Seq(Entries)
<1>1. Entry(ops) \in Entries
  BY DEF Entry, Entries, TypeOK
<1>2. Batch(ops) \in Seq(Entries) /\ Len(Batch(ops)) = Len(pending) + 1
  BY <1>1 DEF Batch, TypeOK
<1> QED
  BY <1>1, <1>2 DEF Due, TypeOK

(* A write that is cut short is no write, or one of a prefix whose last     *)
(* line may be damaged.                                                     *)
LEMMA CutLines ==
  ASSUME NEW entries \in Seq(Entries), CutWrite(entries)
  PROVE  \/ UNCHANGED walVars
         \/ \E lines \in Seq(Entries), b \in BOOLEAN :
              /\ lines # <<>> /\ Len(lines) <= Len(entries)
              /\ \A i \in 1 .. Len(lines) :
                   \/ lines[i] = entries[i]
                   \/ i = Len(lines) /\ b /\ lines[i] = Corrupted
              /\ Extend(lines, b)
              /\ UNCHANGED wal_synced
<1>1. SUFFICES ASSUME NEW k \in 1 .. Len(entries), UNCHANGED wal_synced,
                      \/ write_entries(SubSeq(entries, 1, k))
                      \/ Extend(SubSeq(entries, 1, k), TRUE)
                      \/ Extend(Append(SubSeq(entries, 1, k - 1), Corrupted), TRUE)
               PROVE  \E lines \in Seq(Entries), b \in BOOLEAN :
                        /\ lines # <<>> /\ Len(lines) <= Len(entries)
                        /\ \A i \in 1 .. Len(lines) :
                             \/ lines[i] = entries[i]
                             \/ i = Len(lines) /\ b /\ lines[i] = Corrupted
                        /\ Extend(lines, b)
                        /\ UNCHANGED wal_synced
  BY DEF CutWrite
<1>2. \A i \in 1 .. Len(entries) : entries[i] \in Entries
  BY ElementOfSeq
<1> DEFINE s == SubSeq(entries, 1, k)
           r == SubSeq(entries, 1, k - 1)
           t == Append(r, Corrupted)
<1>3. s \in Seq(Entries) /\ Len(s) = k /\ \A i \in 1 .. k : s[i] = entries[i]
  BY <1>2, SubSeqProperties
<1>4. r \in Seq(Entries) /\ Len(r) = k - 1
      /\ \A i \in 1 .. k - 1 : r[i] = entries[i]
  BY <1>2, SubSeqProperties
<1>5. t \in Seq(Entries) /\ Len(t) = k
      /\ \A i \in 1 .. k : t[i] = IF i = k THEN Corrupted ELSE entries[i]
  <2> HIDE DEF r
  <2> QED
    BY <1>4, ConstantTypes
<1>6. s # <<>> /\ t # <<>>
  BY <1>3, <1>5, EmptySeq
<1>7. Extend(s, FALSE) \/ Extend(s, TRUE) \/ Extend(t, TRUE)
  BY <1>1 DEF write_entries
<1> HIDE DEF s, t
<1>8. CASE \E b \in BOOLEAN : Extend(s, b)
  BY <1>1, <1>3, <1>6, <1>8
<1>9. CASE Extend(t, TRUE)
  <2>1. /\ t # <<>> /\ Len(t) <= Len(entries)
        /\ \A i \in 1 .. Len(t) :
             \/ t[i] = entries[i]
             \/ i = Len(t) /\ TRUE /\ t[i] = Corrupted
    BY <1>5, <1>6
  <2> QED
    BY <1>1, <1>5, <1>9, <2>1
<1> QED
  BY <1>7, <1>8, <1>9

(* A cut write keeps the type of the log.                                   *)
LEMMA CutType ==
  ASSUME TypeOK, NEW entries \in Seq(Entries), CutWrite(entries)
  PROVE  /\ wal' \in Seq(Entries) /\ unterminated' \in BOOLEAN
         /\ unterminated' => wal' # <<>>
         /\ wal_synced' = wal_synced /\ glued' \in BOOLEAN
         /\ Len(wal') >= Len(wal)
<1>1. CASE UNCHANGED walVars
  BY <1>1 DEF walVars, TypeOK
<1>2. CASE \E lines \in Seq(Entries), b \in BOOLEAN :
             lines # <<>> /\ Extend(lines, b) /\ UNCHANGED wal_synced
  BY <1>2, ExtendType DEF TypeOK
<1> QED
  BY <1>1, <1>2, CutLines

-----------------------------------------------------------------------------
(* The type invariant.                                                      *)
USE DEF memVars, walVars, snapVars, openVars

(* Writing entries and syncing the log keeps its type.                      *)
LEMMA WriteType ==
  ASSUME TypeOK, NEW entries \in Seq(Entries), entries # <<>>,
         write_entries(entries)
  PROVE  /\ wal' \in Seq(Entries) /\ unterminated' = FALSE
         /\ glued' \in BOOLEAN /\ Len(wal') \in Nat /\ Len(wal') >= Len(wal)
<1>1. Len(wal') \in Nat /\ wal' \in Seq(Entries)
  BY ExtendType, LenProperties DEF write_entries, TypeOK
<1> QED
  BY <1>1, ExtendType DEF write_entries, TypeOK

(* A commit keeps the types, in every durability mode.                      *)
LEMMA TypeCommit ==
  ASSUME TypeOK, NEW ops \in Ops, Commit(ops)
  PROVE  TypeOK'
<1> USE DEF Commit
<1>1. last_seq' \in Nat /\ data' \in Data /\ states' \in Seq(Data)
  BY ApplyType DEF Recorded, TypeOK
<1>2. pending' \in Seq(Entries) /\ (Len(pending') < MaxOps \/ failed')
  BY DueType, MaxOpsAssumption DEF Due, TypeOK
<1>3. /\ wal' \in Seq(Entries) /\ unterminated' \in BOOLEAN
      /\ unterminated' => wal' # <<>>
      /\ wal_synced' \in Nat /\ glued' \in BOOLEAN /\ durable' \in Nat
      /\ Len(wal') >= Len(wal)
  <2>1. CASE wal_file /\ Due(ops) # <<>>
    <3>1. write_entries(Due(ops)) /\ Due(ops) \in Seq(Entries)
      BY <2>1, DueType
    <3>2. wal_synced' \in Nat
      BY <2>1, <3>1, WriteType DEF sync_wal, TypeOK
    <3>3. durable' \in Nat
      BY <2>1, <1>1 DEF TypeOK
    <3> QED
      BY <2>1, <3>1, <3>2, <3>3, WriteType
  <2>2. CASE ~(wal_file /\ Due(ops) # <<>>)
    BY <2>2 DEF TypeOK
  <2> QED
    BY <2>1, <2>2
<1>4. line' \in 0 .. Len(wal') /\ line' = line
  BY <1>3 DEF TypeOK
<1> QED
  BY <1>1, <1>2, <1>3, <1>4 DEF TypeOK

(* So does a commit whose log write fails.                                  *)
LEMMA TypeCommitFails ==
  ASSUME TypeOK, NEW ops \in Ops, CommitFails(ops)
  PROVE  TypeOK'
<1> USE DEF CommitFails
<1>1. last_seq' \in Nat /\ data' \in Data /\ states' \in Seq(Data)
  BY ApplyType DEF Recorded, TypeOK
<1>2. pending' \in Seq(Entries) /\ failed' = TRUE
  BY DueType DEF TypeOK
<1>3. /\ wal' \in Seq(Entries) /\ unterminated' \in BOOLEAN
      /\ unterminated' => wal' # <<>>
      /\ wal_synced' \in Nat /\ glued' \in BOOLEAN
      /\ Len(wal') >= Len(wal)
  BY DueType, CutType DEF TypeOK
<1> QED
  BY <1>1, <1>2, <1>3 DEF TypeOK

(* flush() keeps the types of what it touches.                              *)
LEMMA TypeFlushPending ==
  ASSUME TypeOK, flush_pending
  PROVE  /\ pending' = <<>>
         /\ wal' \in Seq(Entries) /\ unterminated' \in BOOLEAN
         /\ unterminated' => wal' # <<>>
         /\ wal_synced' \in Nat /\ glued' \in BOOLEAN /\ durable' \in Nat
         /\ Len(wal') >= Len(wal)
<1>1. CASE wal_file /\ pending # <<>>
  <2>1. write_entries(pending) /\ pending \in Seq(Entries)
    BY <1>1 DEF flush_pending, TypeOK
  <2>2. wal_synced' \in Nat /\ durable' \in Nat
    BY <1>1, <2>1, WriteType DEF flush_pending, sync_wal, TypeOK
  <2> QED
    BY <1>1, <2>1, <2>2, WriteType DEF flush_pending
<1>2. CASE ~(wal_file /\ pending # <<>>)
  BY <1>2 DEF flush_pending, TypeOK
<1> QED
  BY <1>1, <1>2

(* The process ends: TypeOK' is down to the files and the history.          *)
LEMMA TypeDie ==
  ASSUME TypeOK, Die, wal' \in Seq(Entries), unterminated' \in BOOLEAN,
         unterminated' => wal' # <<>>, wal_synced' = wal_synced,
         snapshot' = snapshot, snap_file' \in {"synced", "cached", "partial"},
         states' \in Seq(Data), durable' = durable, glued' \in BOOLEAN
  PROVE  TypeOK'
<1>1. /\ phase' = "down" /\ last_seq' \in Nat /\ data' \in Data
      /\ wal_file' \in BOOLEAN
      /\ worker' \in [pc : {"idle", "flushed", "serialized", "renamed"},
                      last_seq : Nat, data : Data]
      /\ after_seq' \in Nat /\ crashes' \in Nat /\ failed' \in BOOLEAN
  BY ConstantTypes DEF Die, TypeOK
<1>2. pending' \in Seq(Entries) /\ Len(pending') < MaxOps
  BY MaxOpsAssumption, EmptySeq DEF Die
<1>3. line' \in 0 .. Len(wal') /\ line' = 0
  BY LenProperties DEF Die
<1> QED
  BY <1>1, <1>2, <1>3 DEF TypeOK

(* So does the end of the process, wherever it falls.                       *)
LEMMA TypeCrash ==
  ASSUME TypeOK, CrashNext
  PROVE  TypeOK'
<1>1. CASE Crash
  BY <1>1, TypeDie DEF Crash, TypeOK
<1>2. CASE CrashInFlush
  <2>1. pending \in Seq(Entries) /\ CutWrite(pending) /\ Die
    BY <1>2 DEF CrashInFlush, TypeOK
  <2>2. /\ snapshot' = snapshot /\ snap_file' = snap_file
        /\ states' \in Seq(Data) /\ durable' = durable
        /\ snap_file' \in {"synced", "cached", "partial"}
    BY <1>2 DEF CrashInFlush, TypeOK
  <2> QED
    BY <2>1, <2>2, CutType, TypeDie
<1>3. CASE CrashInCommit
  <2>1. PICK ops \in Ops : CrashInCommit!(ops)
    BY <1>3 DEF CrashInCommit
  <2>2. Due(ops) \in Seq(Entries) /\ CutWrite(Due(ops)) /\ Die
    BY <2>1, DueType
  <2>3. /\ snapshot' = snapshot /\ durable' = durable
        /\ snap_file' \in {"synced", "cached", "partial"}
    BY <2>1 DEF TypeOK
  <2>4. states' \in Seq(Data)
    BY <2>1, ApplyType DEF TypeOK
  <2> QED
    BY <2>2, <2>3, <2>4, CutType, TypeDie
<1>4. CASE PowerFails
  <2>1. PICK n \in wal_synced .. Len(wal) :
          wal' = SubSeq(wal, 1, n) /\ unterminated' = (unterminated /\ n = Len(wal))
    BY <1>4 DEF PowerFails
  <2>2. wal' \in Seq(Entries)
    BY <2>1, ElementOfSeq, SubSeqProperties DEF TypeOK
  <2>3. unterminated' => wal' # <<>>
    BY <2>1, SubSeqFull DEF TypeOK
  <2>4. Die /\ unterminated' \in BOOLEAN
    BY <1>4, <2>1 DEF PowerFails, TypeOK
  <2>5. /\ wal_synced' = wal_synced /\ snapshot' = snapshot
        /\ snap_file' \in {"synced", "cached", "partial"}
        /\ states' \in Seq(Data) /\ durable' = durable /\ glued' \in BOOLEAN
    BY <1>4 DEF PowerFails, TypeOK
  <2> QED
    BY <2>2, <2>3, <2>4, <2>5, TypeDie
<1> QED
  BY <1>1, <1>2, <1>3, <1>4 DEF CrashNext

(* Opening the database keeps the types.                                    *)
LEMMA TypeOpen ==
  ASSUME TypeOK, OpenNext
  PROVE  TypeOK'
<1>1. CASE OpenSnapshot
  BY <1>1 DEF OpenSnapshot, TypeOK
<1>2. CASE Replay
  <2>1. wal[line + 1] \in Entries /\ line' \in 0 .. Len(wal)
    BY <1>2, ElementOfSeq DEF Replay, TypeOK
  <2>2. data' \in Data /\ last_seq' \in Nat
    BY <1>2, <2>1, ApplyType DEF Replay, Entries, TypeOK
  <2> QED
    BY <1>2, <2>1, <2>2 DEF Replay, TypeOK
<1>3. CASE OpenDone
  <2>1. states' \in Seq(Data)
    BY <1>3, ElementOfSeq, LenProperties DEF OpenDone, TypeOK
  <2> QED
    BY <1>3, <2>1 DEF OpenDone, TypeOK
<1> QED
  BY <1>1, <1>2, <1>3 DEF OpenNext

(* Emptying the log, or leaving it, keeps the types.                        *)
LEMMA TruncateType ==
  ASSUME TypeOK, EmptyWal \/ UNCHANGED <<wal, unterminated, wal_synced>>,
         line' = 0, phase' = phase, worker' = Idle,
         wal_file' = wal_file \/ wal_file' \in BOOLEAN,
         UNCHANGED <<last_seq, data, pending, snapVars, after_seq, crashes,
                     states, durable, glued, failed>>
  PROVE  TypeOK'
<1>1. /\ wal' \in Seq(Entries) /\ unterminated' \in BOOLEAN
      /\ unterminated' => wal' # <<>>
      /\ wal_synced' \in Nat
  <2>1. CASE EmptyWal
    BY <2>1, EmptySeq DEF EmptyWal
  <2>2. CASE UNCHANGED <<wal, unterminated, wal_synced>>
    BY <2>2 DEF TypeOK
  <2> QED
    BY <2>1, <2>2
<1>2. line' \in 0 .. Len(wal')
  BY <1>1, LenProperties
<1>3. wal_file' \in BOOLEAN
  BY DEF TypeOK
<1> QED
  BY <1>1, <1>2, <1>3, ConstantTypes DEF TypeOK

(* The snapshot worker and the kernel keep the types.                       *)
LEMMA TypeWorker ==
  ASSUME TypeOK, WorkerNext
  PROVE  TypeOK'
<1>1. CASE SnapshotFlush
  <2>1. flush_pending
    BY <1>1 DEF SnapshotFlush
  <2>2. pending' \in Seq(Entries) /\ Len(pending') < MaxOps
    BY <2>1, MaxOpsAssumption, EmptySeq DEF flush_pending
  <2>3. worker' \in [pc : {"idle", "flushed", "serialized", "renamed"},
                     last_seq : Nat, data : Data]
    BY <1>1 DEF SnapshotFlush, TypeOK
  <2>4. line' \in 0 .. Len(wal') /\ line' = line /\ phase' = phase
    BY <1>1, <2>1, TypeFlushPending DEF SnapshotFlush, TypeOK
  <2> QED
    BY <1>1, <2>1, <2>2, <2>3, <2>4, TypeFlushPending DEF SnapshotFlush, TypeOK
<1>2. CASE SnapshotSerialize
  BY <1>2 DEF SnapshotSerialize, TypeOK
<1>3. CASE SnapshotRename
  BY <1>3 DEF SnapshotRename, TypeOK
<1>4. CASE SnapshotFails
  BY <1>4, ConstantTypes DEF SnapshotFails, TypeOK
<1>5. CASE SnapshotTruncate
  <2>1. EmptyWal \/ UNCHANGED <<wal, unterminated, wal_synced>>
    BY <1>5 DEF SnapshotTruncate
  <2>2. line = 0 /\ line' = 0 /\ phase' = phase
    BY <1>5 DEF SnapshotTruncate, TypeOK
  <2>3. worker' = Idle /\ UNCHANGED <<memVars, snapVars, after_seq, crashes,
                                     states, durable, glued, failed>>
    BY <1>5 DEF SnapshotTruncate
  <2> QED
    BY <2>1, <2>2, <2>3, TruncateType
<1>6. CASE SnapshotTruncateFails
  <2>1. EmptyWal \/ UNCHANGED <<wal, unterminated, wal_synced>>
    BY <1>6 DEF SnapshotTruncateFails
  <2>2. line = 0 /\ line' = 0 /\ phase' = phase
    BY <1>6 DEF SnapshotTruncateFails, TypeOK
  <2>3. worker' = Idle /\ wal_file' \in BOOLEAN
        /\ UNCHANGED <<last_seq, data, pending, snapVars, after_seq, crashes,
                       states, durable, glued, failed>>
    BY <1>6 DEF SnapshotTruncateFails
  <2> QED
    BY <2>1, <2>2, <2>3, TruncateType
<1>7. CASE Writeback
  BY <1>7 DEF Writeback, TypeOK
<1> QED
  BY <1>1, <1>2, <1>3, <1>4, <1>5, <1>6, <1>7 DEF WorkerNext

(* Every step keeps the types.                                              *)
LEMMA TypeStep ==
  ASSUME TypeOK, [Next]_vars
  PROVE  TypeOK'
<1>1. CASE \E ops \in Ops : Commit(ops)
  BY <1>1, TypeCommit
<1>2. CASE WriteFails
  BY <1>2, TypeCommitFails DEF WriteFails
<1>3. CASE Flush
  <2>1. flush_pending
    BY <1>3 DEF Flush
  <2>2. pending' \in Seq(Entries) /\ Len(pending') < MaxOps
    BY <2>1, MaxOpsAssumption, EmptySeq DEF flush_pending
  <2> QED
    BY <1>3, <2>1, <2>2, TypeFlushPending DEF Flush, TypeOK
<1>4. CASE FlushFails
  <2>1. pending \in Seq(Entries) /\ CutWrite(pending)
    BY <1>4 DEF FlushFails, TypeOK
  <2> QED
    BY <1>4, <2>1, CutType DEF FlushFails, TypeOK
<1>5. CASE UNCHANGED vars
  BY <1>5 DEF vars, TypeOK
<1> QED
  BY <1>1, <1>2, <1>3, <1>4, <1>5, WritersCommit, TypeWorker, TypeCrash, TypeOpen
  DEF Next, WriteNext

(* The initial state has its types.                                         *)
LEMMA TypeInit == Init => TypeOK
<1> SUFFICES ASSUME Init PROVE TypeOK
  OBVIOUS
<1>1. /\ pending \in Seq(Entries) /\ Len(pending) < MaxOps
      /\ wal \in Seq(Entries) /\ line \in 0 .. Len(wal)
  BY MaxOpsAssumption, EmptySeq DEF Init
<1>2. states \in Seq(Data) /\ data \in Data
  BY ConstantTypes DEF Init
<1>3. /\ snapshot \in [last_seq : Nat, data : Data]
      /\ worker \in [pc : {"idle", "flushed", "serialized", "renamed"},
                     last_seq : Nat, data : Data]
  BY ConstantTypes DEF Init
<1> QED
  BY <1>1, <1>2, <1>3 DEF Init, TypeOK

(* TypeOK, for every instance: the memory, the two files and the worker of  *)
(* MemDb keep their shape through commits, snapshots, crashes and openings. *)
THEOREM TypeCorrect == Spec => []TypeOK
  BY TypeInit, TypeStep, PTL DEF Spec

-----------------------------------------------------------------------------
(* The log grows. `x` continues the log `w` after commit q, where w ends or  *)
(* the snapshot does; its last line may be damaged.                          *)
LEMMA LogGrows ==
  ASSUME NEW w \in Seq(Entries), NEW x \in Seq(Entries), x # <<>>,
         NEW st, NEW S \in Nat, NEW q \in Nat, NEW torn \in BOOLEAN,
         NEW open \in BOOLEAN, ~open, IsLog(w, st, S, open),
         \A i \in 1 .. Len(w) : w[i].seq <= q,
         q <= S \/ (Len(w) > 0 /\ w[Len(w)].seq = q),
         \A i \in 1 .. Len(x) :
           \/ x[i].seq = q + i /\ Leads(x[i], st)
           \/ i = Len(x) /\ torn /\ x[i].seq = 0
  PROVE  IsLog(w \o x, st, S, torn)
<1> DEFINE n == Len(w)
           m == Len(x)
           y == w \o x
<1>1. /\ n \in Nat /\ m \in Nat /\ m > 0 /\ y \in Seq(Entries)
      /\ Len(y) = n + m
      /\ \A i \in 1 .. n + m : y[i] = IF i <= n THEN w[i] ELSE x[i - n]
  BY ConcatProperties, LenProperties, EmptySeq
<1>2. \A i \in 1 .. n : w[i].seq \in Nat /\ w[i].seq # 0
  <2>1. \A i \in 1 .. n : w[i].seq # 0
    BY DEF IsLog
  <2>2. \A i \in 1 .. n : w[i] \in Entries
    BY ElementOfSeq
  <2> QED
    BY <2>1, <2>2 DEF Entries
<1> HIDE DEF y
<1>3. ASSUME NEW i \in 1 .. n + m, i <= n
      PROVE  y[i].seq \in 1 .. q /\ y[i] = w[i] /\ i \in 1 .. n
  BY <1>1, <1>2, <1>3
<1>4. ASSUME NEW i \in 1 .. n + m, i > n
      PROVE  /\ y[i] = x[i - n] /\ i - n \in 1 .. m
             /\ \/ y[i].seq = q + (i - n) /\ Leads(y[i], st)
                \/ i = n + m /\ torn /\ y[i].seq = 0
  <2>1. y[i] = x[i - n] /\ i - n \in 1 .. m
    BY <1>1, <1>4
  <2>2. \/ x[i - n].seq = q + (i - n) /\ Leads(x[i - n], st)
        \/ i - n = m /\ torn /\ x[i - n].seq = 0
    BY <2>1
  <2>3. i - n = m => i = n + m
    BY <1>1
  <2> QED
    BY <2>1, <2>2, <2>3
<1> HIDE DEF n, m
<1>5. ASSUME NEW i \in 1 .. n + m, y[i].seq = 0
      PROVE  i = n + m /\ torn
  <2>1. i > n
    BY <1>1, <1>3, <1>5
  <2>2. y[i].seq # q + (i - n)
    BY <1>1, <1>5, <2>1
  <2> QED
    BY <1>4, <2>1, <2>2
<1>6. ASSUME NEW i \in 1 .. n + m, y[i].seq # 0
      PROVE  Leads(y[i], st)
  <2>1. CASE i <= n
    <3>1. y[i] = w[i] /\ i \in 1 .. Len(w) /\ w[i].seq # 0
      BY <1>2, <1>3, <2>1 DEF n
    <3> QED
      BY <3>1 DEF IsLog
  <2>2. CASE i > n
    BY <1>4, <1>6, <2>2
  <2> QED
    BY <1>1, <2>1, <2>2
<1>7. ASSUME NEW i \in 1 .. n + m, NEW j \in 1 .. n + m, i < j, y[j].seq # 0
      PROVE  y[i].seq < y[j].seq
  <2>1. CASE j <= n
    <3>1. /\ y[i] = w[i] /\ y[j] = w[j] /\ w[j].seq # 0
          /\ i \in 1 .. Len(w) /\ j \in 1 .. Len(w)
      BY <1>1, <1>2, <1>3, <1>7, <2>1 DEF n
    <3> QED
      BY <1>7, <3>1 DEF IsLog
  <2>2. CASE j > n
    <3>1. y[j].seq = q + (j - n)
      BY <1>4, <1>7, <2>2
    <3>2. CASE i <= n
      BY <1>1, <1>3, <2>2, <3>1, <3>2
    <3>3. CASE i > n
      <4>1. y[i].seq = q + (i - n)
        BY <1>1, <1>4, <1>7, <3>3
      <4> QED
        BY <1>1, <1>7, <3>1, <4>1
    <3> QED
      BY <1>1, <3>2, <3>3
  <2> QED
    BY <1>1, <2>1, <2>2
<1>8. ASSUME NEW i \in 1 .. n + m, y[i].seq > S + 1
      PROVE  i > 1 /\ y[i - 1].seq = y[i].seq - 1
  <2>1. CASE i <= n
    <3>1. y[i] = w[i] /\ i \in 1 .. Len(w)
      BY <1>3, <2>1 DEF n
    <3>2. i > 1 /\ w[i - 1].seq = w[i].seq - 1
      BY <1>8, <3>1 DEF IsLog
    <3>3. y[i - 1] = w[i - 1]
      BY <1>1, <2>1, <3>2
    <3> QED
      BY <3>1, <3>2, <3>3
  <2>2. CASE i > n
    <3>1. y[i].seq = q + (i - n)
      BY <1>4, <1>8, <2>2
    <3>2. CASE i = n + 1
      <4>1. n > 0 /\ w[n].seq = q
        BY <1>1, <1>8, <3>1, <3>2 DEF n
      <4>2. y[i - 1] = w[n]
        BY <1>1, <3>2, <4>1
      <4> QED
        BY <1>1, <3>1, <3>2, <4>1, <4>2
    <3>3. CASE i > n + 1
      <4>1. i - 1 \in 1 .. n + m /\ i - 1 > n /\ i - 1 # n + m
        BY <1>1, <3>3
      <4>2. y[i - 1].seq = q + (i - 1 - n)
        BY <1>4, <4>1
      <4> QED
        BY <1>1, <3>1, <3>3, <4>2
    <3> QED
      BY <1>1, <2>2, <3>2, <3>3
  <2> QED
    BY <1>1, <2>1, <2>2
<1> QED
  BY <1>1, <1>5, <1>6, <1>7, <1>8 DEF IsLog, y

(* `t` is a history that continues the history `s`.                         *)
Continues(s, t) == Len(s) <= Len(t) /\ \A n \in 1 .. Len(s) : t[n] = s[n]

(* A history may continue and the snapshot may move up: the log stays a log. *)
LEMMA LogKept ==
  ASSUME NEW w \in Seq(Entries), NEW s \in Seq(Data), NEW t \in Seq(Data),
         Continues(s, t), NEW S \in Nat, NEW R \in Nat, S <= R,
         NEW torn, IsLog(w, s, S, torn)
  PROVE  IsLog(w, t, R, torn)
<1>1. Len(s) \in Nat /\ Len(t) \in Nat
  BY LenProperties
<1>2. ASSUME NEW e, Leads(e, s)
      PROVE  Leads(e, t)
  <2>1. e.seq \in 1 .. Len(t) - 1
    BY <1>1, <1>2 DEF Leads, Continues
  <2>2. s[e.seq] = t[e.seq] /\ s[e.seq + 1] = t[e.seq + 1]
    <3>1. e.seq \in 1 .. Len(s) /\ e.seq + 1 \in 1 .. Len(s)
      BY <1>1, <1>2 DEF Leads
    <3> QED
      BY <3>1 DEF Continues
  <2> QED
    BY <1>2, <2>1, <2>2 DEF Leads
<1>3. \A i \in 1 .. Len(w) : w[i].seq \in Nat
  <2>1. \A i \in 1 .. Len(w) : w[i] \in Entries
    BY ElementOfSeq
  <2> QED
    BY <2>1 DEF Entries
<1>4. \A i \in 1 .. Len(w) : w[i].seq > R + 1 => w[i].seq > S + 1
  BY <1>3
<1> QED
  BY <1>2, <1>4 DEF IsLog

(* A prefix of a log is a log.                                              *)
LEMMA LogPrefix ==
  ASSUME NEW w \in Seq(Entries), NEW st, NEW S \in Nat, NEW torn,
         IsLog(w, st, S, torn), NEW n \in 0 .. Len(w)
  PROVE  IsLog(SubSeq(w, 1, n), st, S, torn /\ n = Len(w))
<1> DEFINE y == SubSeq(w, 1, n)
<1>1. /\ Len(w) \in Nat /\ n \in Nat /\ Len(y) = n
      /\ \A i \in 1 .. n : y[i] = w[i] /\ i \in 1 .. Len(w)
  BY LenProperties, ElementOfSeq, SubSeqProperties
<1> HIDE DEF y
<1>2. ASSUME NEW i \in 1 .. n, y[i].seq = 0
      PROVE  i = n /\ torn /\ n = Len(w)
  <2>1. i = Len(w) /\ torn
    BY <1>1, <1>2 DEF IsLog
  <2> QED
    BY <1>1, <2>1
<1>3. \A i \in 1 .. n : y[i].seq # 0 => Leads(y[i], st)
  BY <1>1 DEF IsLog
<1>4. \A i, j \in 1 .. n : i < j /\ y[j].seq # 0 => y[i].seq < y[j].seq
  BY <1>1 DEF IsLog
<1>5. ASSUME NEW i \in 1 .. n, y[i].seq > S + 1
      PROVE  i > 1 /\ y[i - 1].seq = y[i].seq - 1
  <2>1. i > 1 /\ w[i - 1].seq = w[i].seq - 1
    BY <1>1, <1>5 DEF IsLog
  <2>2. i - 1 \in 1 .. n
    BY <1>1, <2>1
  <2> QED
    BY <1>1, <2>1, <2>2
<1> QED
  BY <1>1, <1>2, <1>3, <1>4, <1>5 DEF IsLog, y

(* The history of a commit, and the entries it has to write.                *)
LEMMA CommitEntries ==
  ASSUME TypeOK, OpenOK, NEW ops \in Ops,
         states' = Append(states, apply_op(data, ops))
  PROVE  /\ states' \in Seq(Data) /\ Len(states') = last_seq + 2
         /\ Continues(states, states')
         /\ states'[last_seq + 2] = apply_op(data, ops)
         /\ \A i \in 1 .. Len(Batch(ops)) :
              /\ Batch(ops)[i].seq = Written + i
              /\ Leads(Batch(ops)[i], states')
         /\ Due(ops) # <<>> => Due(ops) = Batch(ops)
<1>1. apply_op(data, ops) \in Data
  BY ApplyType DEF TypeOK
<1>2. /\ states' \in Seq(Data) /\ Len(states') = last_seq + 2
      /\ Continues(states, states')
      /\ states'[last_seq + 2] = apply_op(data, ops)
      /\ states'[last_seq + 1] = data
  BY <1>1 DEF OpenOK, Top, TypeOK, Continues
<1>3. /\ Len(pending) \in Nat /\ last_seq \in Nat
      /\ Len(Batch(ops)) = Len(pending) + 1
      /\ \A i \in 1 .. Len(pending) : Batch(ops)[i] = pending[i]
      /\ Batch(ops)[Len(pending) + 1] = Entry(ops)
  BY DueType DEF Batch, TypeOK
<1>4. ASSUME NEW i \in 1 .. Len(Batch(ops))
      PROVE  Batch(ops)[i].seq = Written + i /\ Leads(Batch(ops)[i], states')
  <2>1. CASE i \in 1 .. Len(pending)
    <3>1. pending[i].seq = Written + i /\ Leads(pending[i], states)
      BY <2>1 DEF OpenOK
    <3>2. Leads(pending[i], states')
      <4>1. Len(states) \in Nat /\ Len(states') \in Nat
        BY <1>2, LenProperties DEF TypeOK
      <4>2. LET e == pending[i] IN
            /\ e.seq \in 1 .. Len(states') - 1
            /\ states'[e.seq] = states[e.seq]
            /\ states'[e.seq + 1] = states[e.seq + 1]
        BY <1>2, <3>1, <4>1 DEF Leads, Continues
      <4> QED
        BY <3>1, <4>2 DEF Leads
    <3> QED
      BY <1>3, <2>1, <3>1, <3>2
  <2>2. CASE i = Len(pending) + 1
    <3>1. /\ Entry(ops).seq = last_seq + 1 /\ Entry(ops).ops = ops
          /\ Written + i = last_seq + 1
      BY <1>3, <2>2 DEF Entry, Written
    <3> QED
      BY <1>2, <1>3, <2>2, <3>1 DEF Leads
  <2> QED
    BY <1>3, <2>1, <2>2
<1>5. Due(ops) # <<>> => Due(ops) = Batch(ops)
  <2>1. CASE Durability # "batch"
    <3>1. pending = <<>>
      BY <2>1 DEF OpenOK
    <3> QED
      BY <2>1, <3>1 DEF Due, Batch
  <2>2. CASE Durability = "batch"
    BY <2>2 DEF Due
  <2> QED
    BY <2>1, <2>2
<1> QED
  BY <1>2, <1>4, <1>5

-----------------------------------------------------------------------------
(* Soundness. A write to the log in an open database, whole or cut short.   *)

(* The log after `lines`, which begin where the log ends.                   *)
LEMMA WalGrows ==
  ASSUME TypeOK, LogOK, OpenOK, wal_file, ~glued',
         NEW lines \in Seq(Entries), lines # <<>>, NEW b \in BOOLEAN,
         Extend(lines, b), snapshot' = snapshot,
         states' \in Seq(Data), Continues(states, states'),
         \A i \in 1 .. Len(lines) :
           \/ lines[i].seq = Written + i /\ Leads(lines[i], states')
           \/ i = Len(lines) /\ b /\ lines[i].seq = 0
  PROVE  /\ LogOK'
         /\ Len(wal') = Len(wal) + Len(lines)
         /\ \A i \in 1 .. Len(wal) : wal'[i] = wal[i]
         /\ \A i \in 1 .. Len(lines) : wal'[Len(wal) + i] = lines[i]
<1>1. ~unterminated /\ wal' = wal \o lines /\ unterminated' = b
  BY ExtendType DEF TypeOK
<1>2. /\ snapshot.last_seq \in Nat /\ Written \in Nat
      /\ \A i \in 1 .. Len(wal) : wal[i].seq <= Written
      /\ Written <= snapshot.last_seq
         \/ (Len(wal) > 0 /\ wal[Len(wal)].seq = Written)
  BY <1>1, LenProperties DEF OpenOK, TypeOK, Written
<1>3. IsLog(wal, states', snapshot.last_seq, unterminated)
  <2>1. wal \in Seq(Entries) /\ states \in Seq(Data)
    BY DEF TypeOK
  <2>2. IsLog(wal, states, snapshot.last_seq, unterminated)
    BY DEF LogOK
  <2>3. snapshot.last_seq <= snapshot.last_seq
    BY <1>2
  <2> QED
    BY <1>2, <2>1, <2>2, <2>3, LogKept
<1>4. IsLog(wal \o lines, states', snapshot.last_seq, b)
  <2>1. wal \in Seq(Entries) /\ unterminated \in BOOLEAN
    BY DEF TypeOK
  <2> QED
    BY <1>1, <1>2, <1>3, <2>1, LogGrows
<1>5. LogOK'
  BY <1>1, <1>4 DEF LogOK
<1> QED
  BY <1>1, <1>5, ConcatProperties, LenProperties DEF TypeOK

(* What was durable stays so while the log grows below a fixed snapshot.    *)
LEMMA DurableKept ==
  ASSUME TypeOK, DurableOK, durable' = durable, snapshot' = snapshot,
         wal' \in Seq(Entries), Len(wal) <= Len(wal'),
         \A i \in 1 .. Len(wal) : wal'[i] = wal[i],
         wal_synced' >= wal_synced, wal_synced' \in Nat
  PROVE  DurableOK'
<1>1. CASE durable <= snapshot.last_seq
  BY <1>1 DEF DurableOK
<1>2. CASE \E i \in 1 .. Len(wal) : /\ PowerLoss => i <= wal_synced
                                    /\ wal[i].seq # 0 /\ durable <= wal[i].seq
  <2>1. PICK i \in 1 .. Len(wal) : /\ PowerLoss => i <= wal_synced
                                   /\ wal[i].seq # 0 /\ durable <= wal[i].seq
    BY <1>2
  <2>2. i \in 1 .. Len(wal') /\ (i <= wal_synced => i <= wal_synced')
    BY LenProperties DEF TypeOK
  <2>3. (PowerLoss => i <= wal_synced') /\ wal'[i].seq # 0 /\ durable' <= wal'[i].seq
    BY <2>1, <2>2
  <2> QED
    BY <2>2, <2>3 DEF DurableOK
<1> QED
  BY <1>1, <1>2 DEF DurableOK

(* A write that is cut short leaves a sound log.                            *)
LEMMA CutSound ==
  ASSUME TypeOK, LogOK, DurableOK, OpenOK, wal_file, ~glued',
         NEW entries \in Seq(Entries), CutWrite(entries),
         snapshot' = snapshot, durable' = durable,
         states' \in Seq(Data), Continues(states, states'),
         \A i \in 1 .. Len(entries) :
           entries[i].seq = Written + i /\ Leads(entries[i], states')
  PROVE  LogOK' /\ DurableOK'
<1>1. CASE UNCHANGED walVars
  <2>1. LogOK'
    BY <1>1, LogKept DEF LogOK, TypeOK
  <2>2. DurableOK'
    BY <1>1 DEF DurableOK
  <2> QED
    BY <2>1, <2>2
<1>2. CASE \E lines \in Seq(Entries), b \in BOOLEAN :
              /\ lines # <<>> /\ Len(lines) <= Len(entries)
              /\ \A i \in 1 .. Len(lines) :
                   \/ lines[i] = entries[i]
                   \/ i = Len(lines) /\ b /\ lines[i] = Corrupted
              /\ Extend(lines, b)
              /\ UNCHANGED wal_synced
  <2>1. PICK lines \in Seq(Entries), b \in BOOLEAN :
              /\ lines # <<>> /\ Len(lines) <= Len(entries)
              /\ \A i \in 1 .. Len(lines) :
                   \/ lines[i] = entries[i]
                   \/ i = Len(lines) /\ b /\ lines[i] = Corrupted
              /\ Extend(lines, b)
              /\ UNCHANGED wal_synced
    BY <1>2
  <2>2. \A i \in 1 .. Len(lines) : i \in 1 .. Len(entries)
    BY <2>1, LenProperties
  <2>3. Corrupted.seq = 0
    BY DEF Corrupted
  <2>4. \A i \in 1 .. Len(lines) :
           \/ lines[i].seq = Written + i /\ Leads(lines[i], states')
           \/ i = Len(lines) /\ b /\ lines[i].seq = 0
    BY <2>1, <2>2, <2>3
  <2>5. /\ LogOK'
        /\ Len(wal') = Len(wal) + Len(lines)
        /\ \A i \in 1 .. Len(wal) : wal'[i] = wal[i]
    BY <2>1, <2>4, WalGrows
  <2>6. wal' \in Seq(Entries) /\ wal_synced' = wal_synced
    BY CutType
  <2>7. Len(wal) <= Len(wal') /\ wal_synced' >= wal_synced /\ wal_synced' \in Nat
    BY <2>5, <2>6, LenProperties DEF TypeOK
  <2> QED
    BY <2>5, <2>6, <2>7, DurableKept
<1> QED
  BY <1>1, <1>2, CutLines

(* A snapshot of the history is one of every history that continues it.     *)
LEMMA SnapKept ==
  ASSUME TypeOK, SnapOK, snapshot' = snapshot, states' \in Seq(Data),
         Continues(states, states')
  PROVE  SnapOK'
<1>1. /\ snapshot.last_seq \in Nat /\ Len(states) \in Nat /\ Len(states') \in Nat
      /\ Len(states) <= Len(states')
  BY LenProperties DEF TypeOK, Continues
<1>2. snapshot.last_seq + 1 \in 1 .. Len(states)
  BY <1>1 DEF SnapOK, Top
<1> QED
  BY <1>1, <1>2 DEF SnapOK, Top, Continues

(* The log entry of the last commit makes that commit durable.              *)
LEMMA DurableWritten ==
  ASSUME wal' \in Seq(Entries), wal'[Len(wal')].seq = last_seq', wal' # <<>>,
         last_seq' \in Nat \ {0}, durable' \in Nat, durable' <= last_seq',
         PowerLoss => Len(wal') <= wal_synced'
  PROVE  DurableOK'
<1>1. Len(wal') \in 1 .. Len(wal')
  BY LenProperties, EmptySeq
<1>2. wal'[Len(wal')].seq # 0 /\ durable' <= wal'[Len(wal')].seq
  OBVIOUS
<1> QED
  BY <1>1, <1>2 DEF DurableOK

(* The part of OpenOK about the snapshot worker.                            *)
WorkerOK ==
    /\ worker.pc \in {"serialized", "renamed"} =>
         /\ snapshot.last_seq <= worker.last_seq
         /\ worker.last_seq <= last_seq
         /\ worker.data = states[worker.last_seq + 1]
    /\ worker.pc = "renamed" => snapshot.last_seq = worker.last_seq

(* What the worker serialized stays a state of the longer history.          *)
LEMMA WorkerKept ==
  ASSUME TypeOK, WorkerOK, Top = last_seq + 1, last_seq' \in Nat,
         worker' = worker, snapshot' = snapshot,
         last_seq <= last_seq', Continues(states, states')
  PROVE  WorkerOK'
<1>1. worker.last_seq \in Nat /\ last_seq \in Nat
  BY DEF TypeOK
<1>2. worker.last_seq <= last_seq => worker.last_seq + 1 \in 1 .. Len(states)
  BY <1>1 DEF Top
<1> QED
  BY <1>1, <1>2 DEF WorkerOK, Continues

(* What the log holds after the entries up to the last commit were written. *)
LEMMA WrittenOut ==
  ASSUME TypeOK, LogOK, OpenOK, wal_file, ~glued',
         NEW lines \in Seq(Entries), lines # <<>>, write_entries(lines),
         snapshot' = snapshot, wal' \in Seq(Entries),
         states' \in Seq(Data), Continues(states, states'),
         \A i \in 1 .. Len(lines) :
           lines[i].seq = Written + i /\ Leads(lines[i], states'),
         last_seq' \in Nat, last_seq' = Written + Len(lines)
  PROVE  /\ LogOK' /\ Len(wal) <= Len(wal')
         /\ \A i \in 1 .. Len(wal) : wal'[i] = wal[i]
         /\ \A i \in 1 .. Len(wal') : wal'[i].seq <= last_seq'
         /\ wal'[Len(wal')].seq = last_seq' /\ wal' # <<>> /\ last_seq' # 0
<1>1. PICK b \in BOOLEAN : b = FALSE
  OBVIOUS
<1>2. Extend(lines, b)
  BY <1>1 DEF write_entries
<1>3. \A i \in 1 .. Len(lines) :
        \/ lines[i].seq = Written + i /\ Leads(lines[i], states')
        \/ i = Len(lines) /\ b /\ lines[i].seq = 0
  OBVIOUS
<1>4. /\ LogOK' /\ Len(wal') = Len(wal) + Len(lines)
      /\ \A i \in 1 .. Len(wal) : wal'[i] = wal[i]
      /\ \A i \in 1 .. Len(lines) : wal'[Len(wal) + i] = lines[i]
  BY <1>2, <1>3, WalGrows
<1>5. ~unterminated
  BY <1>2 DEF Extend, TypeOK
<1>6. /\ wal \in Seq(Entries) /\ Len(wal) \in Nat /\ Len(lines) \in Nat
      /\ Len(lines) > 0 /\ Written \in Nat
  <2>1. /\ wal \in Seq(Entries) /\ pending \in Seq(Entries) /\ last_seq \in Nat
        /\ Len(pending) <= last_seq
    BY DEF TypeOK, OpenOK
  <2> QED
    BY <2>1, LenProperties, EmptySeq DEF Written
<1> HIDE DEF Written
<1>7. \A i \in 1 .. Len(wal) : wal[i].seq <= Written /\ wal[i].seq \in Nat
  <2>1. \A i \in 1 .. Len(wal) : wal[i] \in Entries
    BY <1>6, ElementOfSeq
  <2>2. \A i \in 1 .. Len(wal) : wal[i].seq <= Written
    BY <1>5 DEF OpenOK
  <2> QED
    BY <2>1, <2>2 DEF Entries
<1>8. \A i \in 1 .. Len(lines) : wal'[Len(wal) + i].seq = Written + i
  BY <1>4
<1>9. ASSUME NEW i \in 1 .. Len(wal')
      PROVE  wal'[i].seq <= last_seq'
  <2>1. CASE i \in 1 .. Len(wal)
    <3>1. wal'[i].seq <= Written /\ wal'[i].seq \in Nat
      BY <1>4, <1>7, <2>1
    <3> QED
      BY <1>6, <3>1
  <2>2. CASE i - Len(wal) \in 1 .. Len(lines)
    <3> DEFINE j == i - Len(wal)
    <3>1. j \in 1 .. Len(lines) /\ Len(wal) + j = i
      BY <1>6, <2>2
    <3> HIDE DEF j
    <3>2. wal'[i].seq = Written + j
      BY <1>8, <3>1
    <3> QED
      BY <1>6, <3>1, <3>2
  <2> QED
    BY <1>4, <1>6, <2>1, <2>2
<1>10. wal'[Len(wal')].seq = last_seq' /\ last_seq' # 0
  BY <1>4, <1>6, <1>8
<1>11. wal' # <<>> /\ Len(wal) <= Len(wal')
  BY <1>4, <1>6, EmptySeq
<1> QED
  BY <1>4, <1>9, <1>10, <1>11

(* Memory holds the last state and nothing is pending.                      *)
LEMMA OpenWritten ==
  ASSUME TypeOK', WorkerOK', pending' = <<>>,
         Top' = last_seq' + 1, data' = states'[last_seq' + 1],
         snapshot'.last_seq <= last_seq',
         (wal_file' /\ ~unterminated') =>
           /\ \A i \in 1 .. Len(wal') : wal'[i].seq <= last_seq'
           /\ \/ last_seq' <= snapshot'.last_seq
              \/ wal' # <<>> /\ wal'[Len(wal')].seq = last_seq'
  PROVE  OpenOK'
<1>1. last_seq' \in Nat /\ wal' \in Seq(Entries)
  BY DEF TypeOK
<1>2. Len(pending') = 0
  BY EmptySeq
<1>3. last_seq' - Len(pending') = last_seq' /\ Len(pending') <= last_seq'
      /\ 1 .. Len(pending') = {}
  <2>1. \A n \in Nat : n - 0 = n /\ 0 <= n
    OBVIOUS
  <2>2. 1 .. 0 = {}
    OBVIOUS
  <2> QED
    BY <1>1, <1>2, <2>1, <2>2
<1>4. Written' = last_seq'
  BY <1>3 DEF Written
<1>5. wal' # <<>> => Len(wal') > 0
  BY <1>1, EmptySeq, LenProperties
<1> QED
  BY <1>3, <1>4, <1>5 DEF OpenOK, WorkerOK

(* A commit keeps the invariant, whether it writes, fills the batch, or has *)
(* lost its log file.                                                       *)
LEMMA SoundCommit ==
  ASSUME TypeOK, TypeOK', Sound, ~glued', NEW ops \in Ops, Commit(ops)
  PROVE  Sound'
<1>1. /\ LogOK /\ SnapOK /\ DurableOK /\ OpenOK
      /\ phase' = "open" /\ snapshot' = snapshot /\ worker' = worker
      /\ last_seq' = last_seq + 1 /\ data' = apply_op(data, ops)
      /\ states' = Append(states, apply_op(data, ops)) /\ wal_file' = wal_file
  BY DEF Sound, Recorded, Commit
<1>2. /\ last_seq \in Nat /\ Len(pending) \in Nat /\ Len(pending) <= last_seq
      /\ wal \in Seq(Entries) /\ Len(wal) \in Nat /\ pending \in Seq(Entries)
      /\ wal' \in Seq(Entries) /\ Len(wal') \in Nat /\ states' \in Seq(Data)
      /\ snapshot.last_seq \in Nat /\ durable' \in Nat
      /\ wal_synced \in Nat /\ wal_synced' \in Nat
  BY <1>1, LenProperties DEF TypeOK, OpenOK
<1>3. /\ Len(states') = last_seq + 2 /\ Continues(states, states')
      /\ states'[last_seq + 2] = apply_op(data, ops)
      /\ \A i \in 1 .. Len(Batch(ops)) :
           /\ Batch(ops)[i].seq = Written + i
           /\ Leads(Batch(ops)[i], states')
      /\ Due(ops) # <<>> => Due(ops) = Batch(ops)
      /\ Len(Batch(ops)) = Len(pending) + 1
      /\ Batch(ops) \in Seq(Entries) /\ Batch(ops) # <<>>
  BY <1>1, CommitEntries, DueType
<1>4. SnapOK'
  BY <1>1, <1>2, <1>3, SnapKept
<1>5. WorkerOK'
  <2>1. WorkerOK /\ Top = last_seq + 1
    BY <1>1 DEF OpenOK, WorkerOK
  <2> QED
    BY <1>1, <1>2, <1>3, <2>1, WorkerKept
<1>6. /\ Top' = last_seq' + 1 /\ data' = states'[last_seq' + 1]
      /\ snapshot'.last_seq <= last_seq' /\ last_seq' \in Nat
  <2>1. snapshot.last_seq <= last_seq
    BY <1>1 DEF OpenOK
  <2>2. last_seq' + 1 = last_seq + 2 /\ last_seq' \in Nat /\ snapshot.last_seq <= last_seq'
    BY <1>1, <1>2, <2>1
  <2> QED
    BY <1>1, <1>3, <2>2 DEF Top
<1>7. CASE wal_file /\ Due(ops) # <<>>
  <2>1. /\ Due(ops) = Batch(ops) /\ write_entries(Batch(ops)) /\ pending' = <<>>
        /\ IF Durability = "off" THEN UNCHANGED wal_synced ELSE sync_wal
        /\ durable' = IF Durability = "off" /\ PowerLoss THEN durable ELSE last_seq'
    BY <1>3, <1>7 DEF Commit
  <2>2. last_seq' = Written + Len(Batch(ops))
    <3>1. last_seq \in Nat /\ Len(pending) \in Nat
      BY <1>2
    <3>2. last_seq' = last_seq + 1
      BY <1>1
    <3>3. Len(Batch(ops)) = Len(pending) + 1
      BY <1>3
    <3> QED
      BY <3>1, <3>2, <3>3 DEF Written
  <2>3. /\ LogOK' /\ Len(wal) <= Len(wal')
        /\ \A i \in 1 .. Len(wal) : wal'[i] = wal[i]
        /\ \A i \in 1 .. Len(wal') : wal'[i].seq <= last_seq'
        /\ wal'[Len(wal')].seq = last_seq' /\ wal' # <<>> /\ last_seq' # 0
    BY <1>1, <1>2, <1>3, <1>6, <1>7, <2>1, <2>2, WrittenOut
  <2>4. DurableOK'
    <3>1. CASE Durability = "off" /\ PowerLoss
      <4>1. durable' = durable /\ wal_synced' = wal_synced /\ wal_synced' >= wal_synced
        BY <1>2, <2>1, <3>1
      <4> QED
        BY <1>1, <1>2, <2>3, <4>1, DurableKept
    <3>2. CASE ~(Durability = "off" /\ PowerLoss)
      <4>1. durable' = last_seq' /\ (PowerLoss => wal_synced' = Len(wal'))
        BY <2>1, <3>2 DEF sync_wal
      <4>2. last_seq' \in Nat \ {0} /\ Len(wal') \in Nat
        <5>1. last_seq' # 0
          BY <2>3
        <5> QED
          BY <1>2, <1>6, <5>1
      <4>3. durable' <= last_seq' /\ (PowerLoss => Len(wal') <= wal_synced')
        BY <4>1, <4>2
      <4> QED
        BY <1>2, <2>3, <4>2, <4>3, DurableWritten
    <3> QED
      BY <3>1, <3>2
  <2>5. OpenOK'
    BY <1>5, <1>6, <2>1, <2>3, OpenWritten
  <2> QED
    BY <1>1, <1>4, <2>3, <2>4, <2>5 DEF Sound
<1>8. CASE ~(wal_file /\ Due(ops) # <<>>)
  <2>1. UNCHANGED <<walVars, durable>>
    BY <1>8 DEF Commit
  <2>2. LogOK'
    <3>1. IsLog(wal, states, snapshot.last_seq, unterminated)
          /\ states \in Seq(Data) /\ snapshot.last_seq <= snapshot.last_seq
      BY <1>1, <1>2 DEF LogOK, TypeOK
    <3>2. IsLog(wal, states', snapshot.last_seq, unterminated)
      BY <1>2, <1>3, <3>1, LogKept
    <3> QED
      BY <1>1, <2>1, <3>2 DEF LogOK, walVars
  <2>3. DurableOK'
    BY <1>1, <2>1 DEF DurableOK, walVars
  <2>4. CASE Due(ops) = <<>>
    <3>1. pending' = Batch(ops)
      BY <2>4 DEF Commit
    <3>2. Durability = "batch"
      BY <2>4 DEF Due
    <3>3. Len(pending') = Len(pending) + 1
      BY <1>3, <3>1
    <3>4. last_seq' - Len(pending') = last_seq - Len(pending)
          /\ Len(pending') <= last_seq'
      BY <1>1, <1>2, <3>3
    <3>5. Written' = Written
      BY <3>4 DEF Written
    <3>6. \A i \in 1 .. Len(pending') :
            pending'[i].seq = Written' + i /\ Leads(pending'[i], states')
      BY <1>3, <3>1, <3>5
    <3>7. (wal_file' /\ ~unterminated') =>
            /\ \A i \in 1 .. Len(wal') : wal'[i].seq <= Written'
            /\ \/ Written' <= snapshot'.last_seq
               \/ Len(wal') > 0 /\ wal'[Len(wal')].seq = Written'
      BY <1>1, <2>1, <3>5 DEF OpenOK, walVars
    <3>8. OpenOK'
      BY <1>5, <1>6, <3>2, <3>4, <3>6, <3>7 DEF OpenOK, WorkerOK
    <3> QED
      BY <1>1, <1>4, <2>2, <2>3, <3>8 DEF Sound
  <2>5. CASE Due(ops) # <<>>
    <3>1. pending' = <<>> /\ ~wal_file'
      BY <1>1, <1>8, <2>5 DEF Commit
    <3>2. OpenOK'
      BY <1>5, <1>6, <3>1, OpenWritten
    <3> QED
      BY <1>1, <1>4, <2>2, <2>3, <3>2 DEF Sound
  <2> QED
    BY <2>4, <2>5
<1> QED
  BY <1>7, <1>8

(* flush_pending keeps the invariant, whoever calls it.                     *)
LEMMA SoundFlush ==
  ASSUME TypeOK, TypeOK', Sound, ~glued', phase = "open", flush_pending,
         UNCHANGED <<phase, last_seq, data, wal_file, snapVars, states>>, WorkerOK'
  PROVE  Sound'
<1>1. /\ LogOK /\ SnapOK /\ DurableOK /\ OpenOK
      /\ phase' = "open" /\ snapshot' = snapshot /\ states' = states
      /\ last_seq' = last_seq /\ data' = data /\ wal_file' = wal_file
      /\ pending' = <<>>
  BY DEF Sound, snapVars, flush_pending
<1>2. /\ last_seq \in Nat /\ Len(pending) \in Nat /\ Len(pending) <= last_seq
      /\ wal \in Seq(Entries) /\ Len(wal) \in Nat /\ pending \in Seq(Entries)
      /\ wal' \in Seq(Entries) /\ Len(wal') \in Nat
      /\ states \in Seq(Data) /\ states' \in Seq(Data)
      /\ snapshot.last_seq \in Nat /\ durable' \in Nat
      /\ wal_synced \in Nat /\ wal_synced' \in Nat
  BY <1>1, LenProperties DEF TypeOK, OpenOK
<1>3. SnapOK'
  BY <1>1 DEF SnapOK, Top
<1>4. /\ Top' = last_seq' + 1 /\ data' = states'[last_seq' + 1]
      /\ snapshot'.last_seq <= last_seq' /\ last_seq' \in Nat
  BY <1>1, <1>2 DEF Top, OpenOK
<1>5. CASE wal_file /\ pending # <<>>
  <2>1. /\ write_entries(pending) /\ sync_wal /\ durable' = last_seq
    BY <1>5 DEF flush_pending
  <2>2. last_seq' = Written + Len(pending)
    BY <1>1, <1>2 DEF Written
  <2>3. Continues(states, states')
    BY <1>1, <1>2 , LenProperties DEF Continues
  <2>4. \A i \in 1 .. Len(pending) :
          pending[i].seq = Written + i /\ Leads(pending[i], states')
    BY <1>1 DEF OpenOK
  <2>5. /\ LogOK' /\ Len(wal) <= Len(wal')
        /\ \A i \in 1 .. Len(wal) : wal'[i] = wal[i]
        /\ \A i \in 1 .. Len(wal') : wal'[i].seq <= last_seq'
        /\ wal'[Len(wal')].seq = last_seq' /\ wal' # <<>> /\ last_seq' # 0
    BY <1>1, <1>2, <1>4, <1>5, <2>1, <2>2, <2>3, <2>4, WrittenOut
  <2>6. DurableOK'
    <3>1. durable' <= last_seq' /\ Len(wal') <= wal_synced' /\ last_seq' \in Nat \ {0}
      BY <1>1, <1>2, <2>1, <2>5 DEF sync_wal
    <3> QED
      BY <1>2, <2>5, <3>1, DurableWritten
  <2>7. OpenOK'
    BY <1>1, <1>4, <2>5, OpenWritten
  <2> QED
    BY <1>1, <1>3, <2>5, <2>6, <2>7 DEF Sound
<1>6. CASE ~(wal_file /\ pending # <<>>)
  <2>1. UNCHANGED <<wal, unterminated, wal_synced, durable>>
    BY <1>6 DEF flush_pending, walVars
  <2>2. LogOK' /\ DurableOK'
    BY <1>1, <2>1 DEF LogOK, DurableOK
  <2>3. wal_file => /\ pending = <<>> /\ Written = last_seq
    <3>1. wal_file => Len(pending) = 0
      BY <1>6, EmptySeq
    <3> QED
      BY <1>2, <1>6, <3>1 DEF Written
  <2>4. (wal_file' /\ ~unterminated') =>
           /\ \A i \in 1 .. Len(wal') : wal'[i].seq <= last_seq'
           /\ \/ last_seq' <= snapshot'.last_seq
              \/ wal' # <<>> /\ wal'[Len(wal')].seq = last_seq'
    <3>1. Len(wal) > 0 => wal # <<>>
      BY <1>2, EmptySeq
    <3> QED
      BY <1>1, <2>1, <2>3, <3>1 DEF OpenOK
  <2>5. OpenOK'
    BY <1>1, <1>4, <2>4, OpenWritten
  <2> QED
    BY <1>1, <1>3, <2>2, <2>5 DEF Sound
<1> QED
  BY <1>5, <1>6

(* The steps of the snapshot worker after its flush.                        *)
LEMMA SoundSerialize ==
  ASSUME TypeOK, TypeOK', Sound, ~glued', SnapshotSerialize
  PROVE  Sound'
<1>1. /\ LogOK /\ SnapOK /\ DurableOK /\ OpenOK /\ phase' = "open" /\ phase = "open"
      /\ worker' = [pc |-> "serialized", last_seq |-> last_seq, data |-> data]
      /\ UNCHANGED <<last_seq, data, pending, wal_file, wal, unterminated, wal_synced,
                     snapshot, states, durable>>
  BY DEF Sound, SnapshotSerialize, memVars, walVars, snapVars
<1>2. LogOK' /\ SnapOK' /\ DurableOK'
  BY <1>1 DEF LogOK, SnapOK, DurableOK, Top
<1>3. Top' = Top /\ Written' = Written /\ last_seq \in Nat
  BY <1>1 DEF Top, Written, TypeOK
<1>4. OpenOK'
  BY <1>1, <1>3 DEF OpenOK
<1> QED
  BY <1>1, <1>2, <1>4 DEF Sound

(* The snapshot is replaced by a later one.                                 *)
LEMMA SoundRename ==
  ASSUME TypeOK, TypeOK', Sound, ~glued', SnapshotRename
  PROVE  Sound'
<1>1. /\ LogOK /\ SnapOK /\ DurableOK /\ OpenOK /\ phase' = "open" /\ phase = "open"
      /\ worker.pc = "serialized"
      /\ snapshot' = [last_seq |-> worker.last_seq, data |-> worker.data]
      /\ worker' = [worker EXCEPT !.pc = "renamed"]
      /\ durable' = IF PowerLoss \/ worker.last_seq < durable
                    THEN durable ELSE worker.last_seq
      /\ UNCHANGED <<last_seq, data, pending, wal_file, wal, unterminated, wal_synced,
                     states>>
  BY DEF Sound, SnapshotRename, memVars, walVars
<1>2. /\ last_seq \in Nat /\ worker.last_seq \in Nat /\ snapshot.last_seq \in Nat
      /\ wal \in Seq(Entries) /\ states \in Seq(Data) /\ durable \in Nat
      /\ Len(pending) \in Nat
      /\ worker \in [pc : {"idle", "flushed", "serialized", "renamed"},
                     last_seq : Nat, data : Data]
  BY LenProperties DEF TypeOK
<1>3. /\ snapshot.last_seq <= worker.last_seq /\ worker.last_seq <= last_seq
      /\ worker.data = states[worker.last_seq + 1] /\ Top = last_seq + 1
  BY <1>1 DEF OpenOK
<1>4. /\ worker'.pc = "renamed" /\ worker'.last_seq = worker.last_seq
      /\ worker'.data = worker.data /\ snapshot'.last_seq = worker.last_seq
      /\ snapshot'.data = worker.data
  BY <1>1, <1>2
<1>5. LogOK'
  <2>1. IsLog(wal, states, snapshot.last_seq, unterminated)
    BY <1>1 DEF LogOK
  <2>2. Continues(states, states)
    BY <1>2, LenProperties DEF Continues
  <2>3. IsLog(wal, states, worker.last_seq, unterminated)
    BY <1>2, <1>3, <2>1, <2>2, LogKept
  <2> QED
    BY <1>1, <1>4, <2>3 DEF LogOK
<1>6. SnapOK'
  BY <1>1, <1>2, <1>3, <1>4 DEF SnapOK, Top
<1>7. DurableOK'
  <2>1. CASE durable' = worker.last_seq
    BY <1>2, <1>4, <2>1 DEF DurableOK
  <2>2. CASE durable' = durable
    <3>1. CASE durable <= snapshot.last_seq
      <4>1. durable' <= snapshot'.last_seq
        BY <1>2, <1>3, <1>4, <2>2, <3>1
      <4> QED
        BY <4>1 DEF DurableOK
    <3>2. CASE ~(durable <= snapshot.last_seq)
      BY <1>1, <2>2, <3>2 DEF DurableOK
    <3> QED
      BY <3>1, <3>2
  <2> QED
    BY <1>1, <2>1, <2>2
<1>8. OpenOK'
  <2>1. Top' = Top /\ Written' = Written /\ Written \in Int
    BY <1>1, <1>2 DEF Top, Written
  <2>2. Written <= snapshot.last_seq => Written' <= snapshot'.last_seq
    BY <1>2, <1>3, <1>4, <2>1
  <2>3. (wal_file' /\ ~unterminated') =>
         /\ \A i \in 1 .. Len(wal') : wal'[i].seq <= Written'
         /\ \/ Written' <= snapshot'.last_seq
            \/ Len(wal') > 0 /\ wal'[Len(wal')].seq = Written'
    BY <1>1, <2>1, <2>2 DEF OpenOK
  <2>4. /\ snapshot'.last_seq <= worker'.last_seq /\ worker'.last_seq <= last_seq'
        /\ worker'.data = states'[worker'.last_seq + 1]
        /\ snapshot'.last_seq <= last_seq'
    BY <1>1, <1>2, <1>3, <1>4
  <2>5. /\ Top' = last_seq' + 1 /\ data' = states'[last_seq' + 1]
        /\ Len(pending') <= last_seq'
        /\ Durability # "batch" => pending' = <<>>
        /\ \A i \in 1 .. Len(pending') :
             pending'[i].seq = Written' + i /\ Leads(pending'[i], states')
    BY <1>1, <2>1 DEF OpenOK
  <2> QED
    BY <1>4, <2>3, <2>4, <2>5 DEF OpenOK
<1> QED
  BY <1>1, <1>5, <1>6, <1>7, <1>8 DEF Sound

(* The worker ends without touching the log.                                *)
LEMMA SoundIdle ==
  ASSUME TypeOK, TypeOK', Sound, ~glued', phase = "open", worker'.pc = "idle",
         UNCHANGED <<phase, last_seq, data, pending, wal, unterminated,
                     wal_synced, snapshot, states, durable>>,
         wal_file' => wal_file
  PROVE  Sound'
<1>1. LogOK /\ SnapOK /\ DurableOK /\ OpenOK /\ phase' = "open"
  BY DEF Sound
<1>2. LogOK' /\ SnapOK' /\ DurableOK'
  BY <1>1 DEF LogOK, SnapOK, DurableOK, Top
<1>3. Top' = Top /\ Written' = Written
  BY DEF Top, Written
<1>4. OpenOK'
  BY <1>1, <1>3 DEF OpenOK
<1> QED
  BY <1>1, <1>2, <1>4 DEF Sound

(* The worker truncates the log: the snapshot holds the last commit.        *)
LEMMA SoundTruncated ==
  ASSUME TypeOK, TypeOK', Sound, ~glued', phase = "open", worker'.pc = "idle",
         worker.pc = "renamed", last_seq = worker.last_seq, EmptyWal,
         UNCHANGED <<phase, last_seq, data, pending, snapshot, states, durable>>
  PROVE  Sound'
<1>1. LogOK /\ SnapOK /\ DurableOK /\ OpenOK /\ phase' = "open"
  BY DEF Sound
<1>2. snapshot.last_seq = last_seq /\ Top = last_seq + 1
  BY <1>1 DEF OpenOK
<1>3. /\ last_seq \in Nat /\ durable \in Nat /\ Len(pending) \in Nat
      /\ Len(wal') = 0 /\ 1 .. Len(wal') = {}
  <2>1. Len(wal') = 0
    BY EmptySeq DEF EmptyWal
  <2>2. 1 .. 0 = {}
    OBVIOUS
  <2> QED
    BY <2>1, <2>2, LenProperties DEF TypeOK
<1>4. LogOK'
  BY <1>3 DEF LogOK, IsLog
<1>5. SnapOK'
  BY <1>1 DEF SnapOK, Top
<1>6. DurableOK'
  <2>1. CASE durable <= snapshot.last_seq
    BY <2>1 DEF DurableOK
  <2>2. ASSUME NEW i \in 1 .. Len(wal), wal[i].seq # 0, durable <= wal[i].seq
        PROVE  durable <= snapshot.last_seq
    <3>1. wal[i].seq \in 1 .. Len(states) - 1
      BY <1>1, <2>2 DEF LogOK, IsLog, Leads
    <3>2. Len(states) = last_seq + 1
      BY <1>2 DEF Top
    <3> QED
      BY <1>2, <1>3, <2>2, <3>1, <3>2
  <2> QED
    BY <1>1, <2>1, <2>2 DEF DurableOK
<1>7. OpenOK'
  <2>1. Top' = Top /\ Written' = Written
    BY DEF Top, Written
  <2>2. Written <= last_seq
    BY <1>3 DEF Written
  <2> QED
    BY <1>1, <1>2, <1>3, <2>1, <2>2 DEF OpenOK
<1> QED
  BY <1>1, <1>4, <1>5, <1>6, <1>7 DEF Sound

(* Every step of the worker, and the kernel's write-back.                   *)
LEMMA SoundWorker ==
  ASSUME TypeOK, TypeOK', Sound, ~glued', WorkerNext
  PROVE  Sound'
<1>1. CASE SnapshotFlush
  <2>1. /\ phase = "open" /\ flush_pending /\ worker.pc = "idle"
        /\ worker' = [worker EXCEPT !.pc = "flushed"]
        /\ UNCHANGED <<phase, last_seq, data, wal_file, snapVars, states>>
    BY <1>1 DEF SnapshotFlush
  <2>2. worker'.pc = "flushed"
    BY <2>1 DEF TypeOK
  <2>3. WorkerOK'
    BY <2>2 DEF WorkerOK
  <2> QED
    BY <2>1, <2>3, SoundFlush
<1>2. CASE SnapshotSerialize
  BY <1>2, SoundSerialize
<1>3. CASE SnapshotRename
  BY <1>3, SoundRename
<1>4. CASE SnapshotFails
  <2>1. /\ phase = "open" /\ worker'.pc = "idle" /\ wal_file' = wal_file
        /\ UNCHANGED <<phase, last_seq, data, pending, wal, unterminated,
                       wal_synced, snapshot, states, durable>>
    BY <1>4 DEF SnapshotFails, Idle, memVars, walVars, snapVars
  <2> QED
    BY <2>1, SoundIdle
<1>5. CASE SnapshotTruncate \/ SnapshotTruncateFails
  <2>1. /\ phase = "open" /\ worker.pc = "renamed" /\ worker'.pc = "idle"
        /\ wal_file' => wal_file
        /\ UNCHANGED <<phase, last_seq, data, pending, snapshot, states, durable>>
        /\ \/ UNCHANGED <<wal, unterminated, wal_synced>>
           \/ EmptyWal /\ last_seq = worker.last_seq
    BY <1>5 DEF SnapshotTruncate, SnapshotTruncateFails, Idle, memVars, snapVars, TypeOK
  <2>2. CASE UNCHANGED <<wal, unterminated, wal_synced>>
    BY <2>1, <2>2, SoundIdle
  <2>3. CASE EmptyWal /\ last_seq = worker.last_seq
    BY <2>1, <2>3, SoundTruncated
  <2> QED
    BY <2>1, <2>2, <2>3
<1>6. CASE Writeback
  <2>1. UNCHANGED <<phase, last_seq, data, pending, wal_file, wal, unterminated,
                    wal_synced, snapshot, worker, after_seq, line, states, durable>>
    BY <1>6 DEF Writeback, memVars, walVars, openVars
  <2> QED
    BY <2>1 DEF Sound, LogOK, SnapOK, DurableOK, OpenOK, ReplayOK, Top, Written
<1> QED
  BY <1>1, <1>2, <1>3, <1>4, <1>5, <1>6 DEF WorkerNext

-----------------------------------------------------------------------------
(* A process that died owes nothing but its files.                          *)
LEMMA SoundDead ==
  ASSUME LogOK', SnapOK', DurableOK', Die
  PROVE  Sound'
<1>1. phase' = "down" /\ pending' = <<>> /\ worker'.pc = "idle"
  BY DEF Die, Idle
<1> QED
  BY <1>1 DEF Sound

(* Every crash keeps the invariant of the files.                            *)
LEMMA SoundCrash ==
  ASSUME TypeOK, TypeOK', Sound, ~glued', CrashNext
  PROVE  Sound'
<1>1. LogOK /\ SnapOK /\ DurableOK
  BY DEF Sound
<1>2. /\ wal \in Seq(Entries) /\ states \in Seq(Data) /\ pending \in Seq(Entries)
      /\ states' \in Seq(Data) /\ wal_synced \in Nat /\ Len(wal) \in Nat
      /\ snapshot.last_seq \in Nat
  BY LenProperties DEF TypeOK
<1>3. CASE Crash
  <2>1. Die /\ UNCHANGED <<wal, unterminated, wal_synced, snapshot, states, durable>>
    BY <1>3 DEF Crash, walVars, snapVars
  <2>2. LogOK' /\ SnapOK' /\ DurableOK'
    BY <1>1, <2>1 DEF LogOK, SnapOK, DurableOK, Top
  <2> QED
    BY <2>1, <2>2, SoundDead
<1>4. CASE CrashInFlush
  <2>1. /\ Die /\ CutWrite(pending) /\ phase = "open" /\ wal_file
        /\ snapshot' = snapshot /\ states' = states /\ durable' = durable
    BY <1>4 DEF CrashInFlush, snapVars
  <2>2. OpenOK
    BY <2>1 DEF Sound
  <2>3. Continues(states, states')
    BY <1>2, <2>1, LenProperties DEF Continues
  <2>4. \A i \in 1 .. Len(pending) :
          pending[i].seq = Written + i /\ Leads(pending[i], states')
    BY <2>1, <2>2 DEF OpenOK
  <2>5. LogOK' /\ DurableOK'
    BY <1>1, <1>2, <2>1, <2>2, <2>3, <2>4, CutSound
  <2>6. SnapOK'
    BY <1>1, <2>1 DEF SnapOK, Top
  <2> QED
    BY <2>1, <2>5, <2>6, SoundDead
<1>5. CASE CrashInCommit
  <2>1. PICK ops \in Ops :
          /\ Die /\ phase = "open" /\ wal_file /\ Due(ops) # <<>>
          /\ CutWrite(Due(ops)) /\ states' = Append(states, apply_op(data, ops))
          /\ snapshot' = snapshot /\ durable' = durable
    BY <1>5 DEF CrashInCommit, snapVars
  <2>2. OpenOK
    BY <2>1 DEF Sound
  <2>3. /\ Continues(states, states') /\ Due(ops) \in Seq(Entries)
        /\ \A i \in 1 .. Len(Due(ops)) :
             Due(ops)[i].seq = Written + i /\ Leads(Due(ops)[i], states')
    BY <2>1, <2>2, CommitEntries, DueType
  <2>4. LogOK' /\ DurableOK'
    BY <1>1, <1>2, <2>1, <2>2, <2>3, CutSound
  <2>5. SnapOK'
    BY <1>1, <1>2, <2>1, <2>3, SnapKept
  <2> QED
    BY <2>1, <2>4, <2>5, SoundDead
<1>6. CASE PowerFails
  <2>1. PICK n \in wal_synced .. Len(wal) :
          /\ Die /\ PowerLoss /\ wal' = SubSeq(wal, 1, n)
          /\ unterminated' = (unterminated /\ n = Len(wal))
          /\ UNCHANGED <<snapshot, wal_synced, states, durable>>
    BY <1>6 DEF PowerFails
  <2>2. n \in 0 .. Len(wal) /\ n \in Nat /\ wal_synced <= n
    BY <1>2
  <2>3. LogOK'
    <3>1. IsLog(wal, states, snapshot.last_seq, unterminated)
      BY <1>1 DEF LogOK
    <3>2. IsLog(SubSeq(wal, 1, n), states, snapshot.last_seq,
                unterminated /\ n = Len(wal))
      BY <1>2, <2>2, <3>1, LogPrefix
    <3> QED
      BY <2>1, <3>2 DEF LogOK
  <2>4. SnapOK'
    BY <1>1, <2>1 DEF SnapOK, Top
  <2>5. DurableOK'
    <3>1. CASE durable <= snapshot.last_seq
      BY <2>1, <3>1 DEF DurableOK
    <3>2. ASSUME NEW i \in 1 .. Len(wal), PowerLoss => i <= wal_synced,
                 wal[i].seq # 0, durable <= wal[i].seq
          PROVE  DurableOK'
      <4>1. Len(wal') = n /\ \A k \in 1 .. n : wal'[k] = wal[k]
        BY <1>2, <2>1, <2>2, SubSeqProperties
      <4>2. i \in 1 .. n /\ i <= wal_synced
        BY <1>2, <2>1, <2>2, <3>2
      <4>3. i \in 1 .. Len(wal') /\ wal'[i] = wal[i]
        BY <4>1, <4>2
      <4> QED
        BY <2>1, <3>2, <4>2, <4>3 DEF DurableOK
    <3> QED
      BY <1>1, <3>1, <3>2 DEF DurableOK
  <2> QED
    BY <2>1, <2>3, <2>4, <2>5, SoundDead
<1> QED
  BY <1>3, <1>4, <1>5, <1>6 DEF CrashNext

(* A replayed line is the commit after the last one replayed.               *)
LEMMA ReplayedInOrder ==
  ASSUME TypeOK, LogOK, ReplayOK, phase = "replaying", line < Len(wal),
         read_after(wal[line + 1])
  PROVE  /\ wal[line + 1].seq = last_seq + 1 /\ last_seq + 1 < Len(states)
         /\ states[last_seq + 2] = apply_op(data, wal[line + 1].ops)
<1>1. /\ line \in Nat /\ Len(wal) \in Nat /\ last_seq \in Nat /\ Len(states) \in Nat
      /\ snapshot.last_seq \in Nat /\ wal \in Seq(Entries)
  BY LenProperties DEF TypeOK
<1>2. line + 1 \in 1 .. Len(wal) /\ \A i \in 1 .. line : i \in 1 .. Len(wal) /\ i < line + 1
  BY <1>1
<1>3. \A i \in 1 .. Len(wal) : wal[i].seq \in Nat
  <2>1. \A i \in 1 .. Len(wal) : wal[i] \in Entries
    BY <1>1, ElementOfSeq
  <2> QED
    BY <2>1 DEF Entries
<1> DEFINE q == wal[line + 1].seq
           S == snapshot.last_seq
<1>4. q \in Nat /\ q > S /\ q # 0
  BY <1>1, <1>2, <1>3 DEF read_after, ReplayOK
<1>5. Leads(wal[line + 1], states)
  BY <1>2, <1>4 DEF LogOK, IsLog
<1>6. \A i \in 1 .. line : wal[i].seq < q
  BY <1>2, <1>4 DEF LogOK, IsLog
<1>7. q > S + 1 => line \in 1 .. line /\ wal[line].seq = q - 1
  <2>1. q > S + 1 => line + 1 > 1 /\ wal[(line + 1) - 1].seq = q - 1
    BY <1>2 DEF LogOK, IsLog
  <2>2. (line + 1) - 1 = line /\ (line + 1 > 1 => line \in 1 .. line)
    BY <1>1
  <2> QED
    BY <2>1, <2>2
<1>8. /\ S <= last_seq /\ \A i \in 1 .. line : wal[i].seq <= last_seq
      /\ last_seq = S \/ \E i \in 1 .. line : wal[i].seq = last_seq
  BY DEF ReplayOK
<1>9. q = last_seq + 1
  <2>1. last_seq < q
    BY <1>4, <1>6, <1>8
  <2>2. q > S + 1 => q - 1 <= last_seq
    BY <1>7, <1>8
  <2> HIDE DEF q, S
  <2> QED
    BY <1>1, <1>4, <1>8, <2>1, <2>2 DEF S
<1>10. /\ q \in 1 .. Len(states) - 1
       /\ states[q + 1] = apply_op(states[q], wal[line + 1].ops)
  BY <1>5 DEF Leads
<1>11. data = states[last_seq + 1]
  BY DEF ReplayOK
<1>12. last_seq + 2 = q + 1 /\ last_seq + 1 < Len(states)
  BY <1>1, <1>9, <1>10
<1> QED
  BY <1>9, <1>10, <1>11, <1>12

(* Reading one more line keeps the invariant of the replay.                 *)
LEMMA SoundReplay ==
  ASSUME TypeOK, TypeOK', Sound, ~glued', Replay
  PROVE  Sound'
<1>1. /\ phase = "replaying" /\ phase' = "replaying" /\ line < Len(wal)
      /\ line' = line + 1 /\ LogOK /\ SnapOK /\ DurableOK /\ ReplayOK
      /\ pending = <<>> /\ worker.pc = "idle"
      /\ UNCHANGED <<pending, wal, unterminated, wal_synced, snapshot, worker,
                     after_seq, states, durable>>
  BY DEF Replay, Sound, walVars, snapVars
<1>2. LogOK' /\ SnapOK' /\ DurableOK'
  BY <1>1 DEF LogOK, SnapOK, DurableOK, Top
<1>3. /\ line \in Nat /\ Len(wal) \in Nat /\ last_seq \in Nat /\ Len(states) \in Nat
      /\ snapshot.last_seq \in Nat /\ line + 1 \in 1 .. Len(wal)
      /\ \A i \in 1 .. line + 1 : i \in 1 .. line \/ i = line + 1
      /\ \A i \in 1 .. line : i \in 1 .. line + 1
  BY <1>1, LenProperties DEF TypeOK
<1>4. \A i \in 1 .. Len(wal) : wal[i].seq \in Nat
  <2>1. \A i \in 1 .. Len(wal) : wal[i] \in Entries
    BY ElementOfSeq DEF TypeOK
  <2> QED
    BY <2>1 DEF Entries
<1>5. /\ after_seq = snapshot.last_seq /\ snapshot.last_seq <= last_seq
      /\ last_seq < Len(states) /\ data = states[last_seq + 1]
      /\ \A i \in 1 .. line : wal[i].seq <= last_seq
      /\ last_seq = snapshot.last_seq \/ \E i \in 1 .. line : wal[i].seq = last_seq
  BY <1>1 DEF ReplayOK, Top
<1>6. CASE read_after(wal[line + 1])
  <2>1. /\ wal[line + 1].seq = last_seq + 1 /\ last_seq + 1 < Len(states)
        /\ states[last_seq + 2] = apply_op(data, wal[line + 1].ops)
    BY <1>1, <1>6, ReplayedInOrder
  <2>2. last_seq + 1 > last_seq
    BY <1>3
  <2>3. /\ data' = states[last_seq + 2] /\ last_seq' = last_seq + 1
    BY <1>6, <2>1, <2>2 DEF Replay
  <2>4. last_seq' + 1 = last_seq + 2 /\ snapshot.last_seq <= last_seq'
    BY <1>3, <1>5, <2>3
  <2>5. \A i \in 1 .. line + 1 : wal[i].seq <= last_seq'
    <3>1. \A i \in 1 .. line : wal[i].seq <= last_seq'
      <4>1. \A i \in 1 .. line : i \in 1 .. Len(wal)
        BY <1>3
      <4> QED
        BY <1>3, <1>4, <1>5, <2>3, <4>1
    <3>2. wal[line + 1].seq <= last_seq'
      BY <1>3, <2>1, <2>3
    <3> QED
      BY <1>3, <3>1, <3>2
  <2>6. \E i \in 1 .. line + 1 : wal[i].seq = last_seq'
    <3>1. line + 1 \in 1 .. line + 1
      BY <1>3
    <3> QED
      BY <2>1, <2>3, <3>1
  <2>7. ReplayOK'
    BY <1>1, <1>5, <2>1, <2>3, <2>4, <2>5, <2>6 DEF ReplayOK, Top
  <2> QED
    BY <1>1, <1>2, <2>7 DEF Sound
<1>7. CASE ~read_after(wal[line + 1])
  <2>1. last_seq' = last_seq /\ data' = data
    BY <1>7 DEF Replay
  <2>2. wal[line + 1].seq <= last_seq
    <3>1. wal[line + 1].seq = 0 \/ wal[line + 1].seq <= snapshot.last_seq
      BY <1>3, <1>4, <1>5, <1>7 DEF read_after, Corrupted
    <3> QED
      BY <1>3, <1>4, <1>5, <3>1
  <2>3. \A i \in 1 .. line + 1 : wal[i].seq <= last_seq
    BY <1>3, <1>5, <2>2
  <2>4. last_seq = snapshot.last_seq
        \/ \E i \in 1 .. line + 1 : wal[i].seq = last_seq
    BY <1>3, <1>5
  <2>5. ReplayOK'
    BY <1>1, <1>5, <2>1, <2>3, <2>4 DEF ReplayOK, Top
  <2> QED
    BY <1>1, <1>2, <2>5 DEF Sound
<1> QED
  BY <1>6, <1>7

(* The database opens: what was lost beyond the recovered commit is gone,   *)
(* and no line of the log refers to it.                                     *)
LEMMA SoundOpenDone ==
  ASSUME TypeOK, TypeOK', Sound, ~glued', OpenDone
  PROVE  Sound'
<1>1. /\ phase = "replaying" /\ phase' = "open" /\ line = Len(wal)
      /\ LogOK /\ SnapOK /\ DurableOK /\ ReplayOK
      /\ pending = <<>> /\ worker.pc = "idle"
      /\ states' = [n \in 1 .. last_seq + 1 |->
                      IF n \in DOMAIN states /\ (n <= last_seq \/ PowerLoss)
                      THEN states[n] ELSE data]
      /\ durable' = IF PowerLoss THEN durable ELSE last_seq
      /\ UNCHANGED <<last_seq, data, pending, wal_file, wal, unterminated, wal_synced,
                     snapshot, worker>>
  BY DEF OpenDone, Sound, walVars, snapVars, memVars
<1>2. /\ Len(wal) \in Nat /\ last_seq \in Nat /\ Len(states) \in Nat
      /\ snapshot.last_seq \in Nat /\ wal \in Seq(Entries) /\ states \in Seq(Data)
      /\ wal' \in Seq(Entries) /\ states' \in Seq(Data)
  BY LenProperties DEF TypeOK
<1>3. /\ snapshot.last_seq <= last_seq
      /\ last_seq < Len(states) /\ data = states[last_seq + 1]
      /\ \A i \in 1 .. Len(wal) : wal[i].seq <= last_seq
      /\ last_seq = snapshot.last_seq \/ \E i \in 1 .. Len(wal) : wal[i].seq = last_seq
  BY <1>1 DEF ReplayOK, Top
<1>4. Len(states') = last_seq + 1
  <2>1. DOMAIN states' = 1 .. last_seq + 1
    BY <1>1
  <2>2. DOMAIN states' = 1 .. Len(states') /\ Len(states') \in Nat
    BY <1>2, LenProperties
  <2> QED
    BY <1>2, <2>1, <2>2
<1>5. \A n \in 1 .. last_seq + 1 : states'[n] = states[n]
  <2>1. DOMAIN states = 1 .. Len(states)
    BY <1>2, LenProperties
  <2>2. ASSUME NEW n \in 1 .. last_seq + 1
        PROVE  states'[n] = states[n]
    <3>1. n <= last_seq => n \in DOMAIN states
      BY <1>2, <1>3, <2>1
    <3>2. ~(n <= last_seq) => n = last_seq + 1
      BY <1>2
    <3> QED
      BY <1>1, <1>3, <3>1, <3>2
  <2> QED
    BY <2>2
<1>6. \A i \in 1 .. Len(wal) : wal[i].seq \in Nat
  <2>1. \A i \in 1 .. Len(wal) : wal[i] \in Entries
    BY <1>2, ElementOfSeq
  <2> QED
    BY <2>1 DEF Entries
<1>7. LogOK'
  <2>1. ASSUME NEW i \in 1 .. Len(wal), wal[i].seq # 0
        PROVE  Leads(wal[i], states')
    <3> DEFINE q == wal[i].seq
    <3>1. q \in 1 .. Len(states) - 1 /\ states[q + 1] = apply_op(states[q], wal[i].ops)
      BY <1>1, <2>1 DEF LogOK, IsLog, Leads
    <3>2. q <= last_seq
      BY <1>3
    <3>3. q \in 1 .. last_seq + 1 /\ q + 1 \in 1 .. last_seq + 1
          /\ q \in 1 .. Len(states') - 1
      BY <1>2, <1>4, <3>1, <3>2
    <3>4. states'[q + 1] = apply_op(states'[q], wal[i].ops)
      BY <1>5, <3>1, <3>3
    <3> QED
      BY <3>3, <3>4 DEF Leads
  <2> QED
    BY <1>1, <2>1 DEF LogOK, IsLog
<1>8. SnapOK'
  <2>1. snapshot.last_seq + 1 \in 1 .. last_seq + 1 /\ snapshot.last_seq < last_seq + 1
    BY <1>2, <1>3
  <2> QED
    BY <1>1, <1>4, <1>5, <2>1 DEF SnapOK, Top
<1>9. DurableOK'
  <2>1. CASE PowerLoss
    BY <1>1, <2>1 DEF DurableOK
  <2>2. CASE ~PowerLoss /\ last_seq = snapshot.last_seq
    BY <1>1, <1>2, <2>2 DEF DurableOK
  <2>3. CASE ~PowerLoss /\ last_seq # snapshot.last_seq
    <3>1. PICK i \in 1 .. Len(wal) : wal[i].seq = last_seq
      BY <1>3, <2>3
    <3>2. wal[i].seq # 0 /\ last_seq <= wal[i].seq
      BY <1>2, <1>3, <2>3, <3>1
    <3> QED
      BY <1>1, <2>3, <3>2 DEF DurableOK
  <2> QED
    BY <2>1, <2>2, <2>3
<1>10. OpenOK'
  <2>1. WorkerOK'
    BY <1>1 DEF WorkerOK
  <2>2. /\ Top' = last_seq' + 1 /\ data' = states'[last_seq' + 1]
        /\ snapshot'.last_seq <= last_seq'
    <3>1. last_seq + 1 \in 1 .. last_seq + 1
      BY <1>2
    <3> QED
      BY <1>1, <1>3, <1>4, <1>5, <3>1 DEF Top
  <2>3. ASSUME ~unterminated, last_seq # snapshot.last_seq
        PROVE  wal # <<>> /\ wal[Len(wal)].seq = last_seq
    <3>1. PICK i \in 1 .. Len(wal) : wal[i].seq = last_seq
      BY <1>3, <2>3
    <3>2. Len(wal) \in 1 .. Len(wal) /\ wal # <<>>
      BY <1>2, EmptySeq
    <3>3. wal[Len(wal)].seq # 0
      BY <1>1, <2>3, <3>2 DEF LogOK, IsLog
    <3>4. i < Len(wal) => wal[i].seq < wal[Len(wal)].seq
      BY <1>1, <3>2, <3>3 DEF LogOK, IsLog
    <3>5. wal[Len(wal)].seq <= last_seq /\ wal[Len(wal)].seq \in Nat
      BY <1>3, <1>6, <3>2
    <3>6. ~(i < Len(wal))
      BY <1>2, <3>1, <3>4, <3>5
    <3>7. i = Len(wal)
      BY <1>2, <3>6
    <3> QED
      BY <3>1, <3>2, <3>7
  <2>4. (wal_file' /\ ~unterminated') =>
          /\ \A i \in 1 .. Len(wal') : wal'[i].seq <= last_seq'
          /\ \/ last_seq' <= snapshot'.last_seq
             \/ wal' # <<>> /\ wal'[Len(wal')].seq = last_seq'
    <3>1. last_seq = snapshot.last_seq => last_seq <= snapshot.last_seq
      BY <1>2
    <3> QED
      BY <1>1, <1>3, <2>3, <3>1
  <2> QED
    BY <1>1, <2>1, <2>2, <2>4, OpenWritten
<1> QED
  BY <1>1, <1>7, <1>8, <1>9, <1>10 DEF Sound

(* open_with keeps the invariant.                                           *)
LEMMA SoundOpen ==
  ASSUME TypeOK, TypeOK', Sound, ~glued', OpenNext
  PROVE  Sound'
<1>1. CASE OpenSnapshot
  <2>1. /\ LogOK /\ SnapOK /\ DurableOK /\ pending = <<>> /\ worker.pc = "idle"
        /\ UNCHANGED <<pending, wal, unterminated, wal_synced, snapshot, worker,
                       states, durable>>
        /\ \/ phase' = "unopenable"
           \/ /\ phase' = "replaying" /\ last_seq' = snapshot.last_seq
              /\ data' = snapshot.data /\ after_seq' = snapshot.last_seq /\ line' = 0
    BY <1>1 DEF OpenSnapshot, Sound, walVars, snapVars
  <2>2. LogOK' /\ SnapOK' /\ DurableOK'
    BY <2>1 DEF LogOK, SnapOK, DurableOK, Top
  <2>3. phase' = "replaying" => ReplayOK'
    <3>1. 1 .. 0 = {} /\ snapshot.last_seq \in Nat
      BY DEF TypeOK
    <3>2. snapshot.last_seq <= snapshot.last_seq
      BY <3>1
    <3> QED
      BY <2>1, <3>1, <3>2 DEF ReplayOK, SnapOK, Top
  <2> QED
    BY <2>1, <2>2, <2>3 DEF Sound
<1>2. CASE Replay
  BY <1>2, SoundReplay
<1>3. CASE OpenDone
  BY <1>3, SoundOpenDone
<1> QED
  BY <1>1, <1>2, <1>3 DEF OpenNext

(* Every step keeps IInv; a write that fails leaves nothing to show.        *)
LEMMA SoundStep ==
  ASSUME IInv, [Next]_vars
  PROVE  IInv'
<1>1. TypeOK /\ TypeOK'
  BY TypeStep DEF IInv
<1> SUFFICES ASSUME ~glued', ~failed'
             PROVE  Sound'
  BY <1>1 DEF IInv
<1>2. CASE WriteNext
  <2>1. CASE WriteFails \/ FlushFails
    BY <2>1 DEF WriteFails, FlushFails, CommitFails
  <2>2. CASE Flush
    <3>1. /\ phase = "open" /\ flush_pending /\ worker' = worker
          /\ UNCHANGED <<phase, last_seq, data, wal_file, snapVars, states>>
      BY <2>2 DEF Flush
    <3>2. ~glued /\ ~failed
      BY <1>1, <2>2, <3>1 DEF Flush, flush_pending, write_entries, Extend, walVars, TypeOK
    <3>3. WorkerOK'
      BY <3>1, <3>2 DEF IInv, Sound, OpenOK, WorkerOK, snapVars
    <3> QED
      BY <1>1, <3>1, <3>2, <3>3, SoundFlush DEF IInv
  <2>3. CASE \E ops \in Ops : Commit(ops)
    <3>1. PICK ops \in Ops : Commit(ops)
      BY <2>3
    <3>2. ~glued /\ ~failed
      BY <1>1, <3>1 DEF Commit, write_entries, Extend, walVars, TypeOK
    <3> QED
      BY <1>1, <3>1, <3>2, SoundCommit DEF IInv
  <2> QED
    BY <1>2, <2>1, <2>2, <2>3, WritersCommit DEF WriteNext
<1>3. CASE WorkerNext
  <2>1. ~glued /\ ~failed
    BY <1>1, <1>3 DEF WorkerNext, SnapshotFlush, SnapshotSerialize, SnapshotRename,
      SnapshotFails, SnapshotTruncate, SnapshotTruncateFails, Writeback,
      flush_pending, write_entries, Extend, walVars, TypeOK
  <2> QED
    BY <1>1, <1>3, <2>1, SoundWorker DEF IInv
<1>4. CASE CrashNext
  <2>1. ~glued /\ ~failed
    BY <1>1, <1>4 DEF CrashNext, Crash, CrashInFlush, CrashInCommit, PowerFails, Die,
      CutWrite, write_entries, Extend, walVars, TypeOK
  <2> QED
    BY <1>1, <1>4, <2>1, SoundCrash DEF IInv
<1>5. CASE OpenNext
  <2>1. ~glued /\ ~failed
    BY <1>5 DEF OpenNext, OpenSnapshot, Replay, OpenDone, walVars
  <2> QED
    BY <1>1, <1>5, <2>1, SoundOpen DEF IInv
<1>6. CASE UNCHANGED vars
  BY <1>6 DEF IInv, Sound, LogOK, SnapOK, DurableOK, OpenOK, ReplayOK, Top, Written, vars
<1> QED
  BY <1>2, <1>3, <1>4, <1>5, <1>6 DEF Next

(* A new database satisfies IInv.                                           *)
LEMMA SoundInit == Init => IInv
<1> SUFFICES ASSUME Init
             PROVE  Sound
  BY TypeInit DEF IInv
<1>1. Len(states) = 1 /\ states[1] = Empty
  BY DEF Init
<1>2. Len(wal) = 0 /\ Len(pending) = 0 /\ 1 .. 0 = {}
  BY EmptySeq DEF Init
<1>3. LogOK /\ SnapOK /\ DurableOK
  BY <1>1, <1>2 DEF LogOK, IsLog, SnapOK, DurableOK, Top, Init
<1>4. OpenOK
  BY <1>1, <1>2 DEF OpenOK, Top, Written, Init, Idle
<1> QED
  BY <1>3, <1>4 DEF Sound, Init

(* What the invariant says of a database that has been replayed.            *)
LEMMA SoundRecovers == IInv => RecoversAPrefix
<1> SUFFICES ASSUME IInv, Recovered, ~glued, ~failed
             PROVE  /\ durable <= last_seq /\ last_seq < Len(states)
                    /\ data = states[last_seq + 1]
  BY DEF RecoversAPrefix
<1>1. LogOK /\ DurableOK /\ ReplayOK /\ line = Len(wal) /\ TypeOK
  BY DEF IInv, Sound, Recovered
<1>2. last_seq < Len(states) /\ data = states[last_seq + 1]
      /\ snapshot.last_seq <= last_seq
      /\ \A i \in 1 .. Len(wal) : wal[i].seq <= last_seq
  BY <1>1 DEF ReplayOK, Top
<1>3. /\ durable \in Nat /\ last_seq \in Nat /\ snapshot.last_seq \in Nat
      /\ \A i \in 1 .. Len(wal) : wal[i] \in Entries
  BY <1>1, ElementOfSeq DEF TypeOK
<1>4. \A i \in 1 .. Len(wal) : wal[i].seq \in Nat
  BY <1>3 DEF Entries
<1>5. durable <= last_seq
  <2>1. CASE durable <= snapshot.last_seq
    BY <1>2, <1>3, <2>1
  <2>2. CASE \E i \in 1 .. Len(wal) : durable <= wal[i].seq
    BY <1>2, <1>3, <1>4, <2>2
  <2> QED
    BY <1>1, <2>1, <2>2 DEF DurableOK
<1> QED
  BY <1>2, <1>5

(* However often the process dies or the power fails, inside commits and    *)
(* flushes, between the steps of the snapshot worker and during the replay, *)
(* Database::open_with returns the state after some commit, no older than   *)
(* the last one flushed, unless a line was appended to a torn one or a      *)
(* write of the log returned an error.                                      *)
THEOREM RecoveryIsAPrefix == Spec => []RecoversAPrefix
<1>1. Init => IInv
  BY SoundInit
<1>2. IInv /\ [Next]_vars => IInv'
  BY SoundStep
<1>3. IInv => RecoversAPrefix
  BY SoundRecovers
<1> QED
  BY <1>1, <1>2, <1>3, PTL DEF Spec
=============================================================================
