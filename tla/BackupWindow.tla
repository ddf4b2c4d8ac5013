---------------------------- MODULE BackupWindow ----------------------------
(***************************************************************************)
(* One backup run after another (`BackupManager::run_locked`) against the   *)
(* content writes it must keep out of its capture window. A content write   *)
(* of e-mail e holds a gate guard while it updates the three layers:        *)
(*   mem   the metadata store (written in place);                           *)
(*   blob  the blob store, through the queue of BlobManager;                *)
(*   index the search indices, through the channel of IndexManager.         *)
(* The preparers copy the layers one at a time, in registration order.      *)
(***************************************************************************)
EXTENDS WriteGate

CONSTANT Writer     \* Writer[q]: the e-mail whose write holds guard q

ASSUME WriterAssumption == DOMAIN Writer = Acquirers

Emails == {Writer[q] : q \in Acquirers}

VARIABLES
    run,        \* where run_locked is
    captured,   \* how many preparers have delivered
    artifacts,  \* artifacts[l]: the content preparer l delivered to this run
    handed,     \* the artifacts handed over to the upload of the last run
    mem, blobs, index,      \* what is durable in each layer
    blobq, indexq,          \* what is queued for the blob store / the index
    record      \* status of the newest BackupRecord

runVars == <<run, captured, artifacts, handed, record>>
dataVars == <<mem, blobs, index, blobq, indexq>>
vars == <<gateVars, runVars, dataVars>>

(* register_base_preparers; the two search indices count as one layer.      *)
Preparers == 3
Layers == {"mem", "blob", "index"}

RunStates == {"idle", "preflight", "pause", "drain", "blobdrain", "announce",
              "prepare", "upload", "finish", "unwind"}
Statuses == {"none", "Running", "Success", "Failed"}

Nothing == [l \in Layers |-> {}]

Init ==
    /\ GateInit
    /\ run = "idle"
    /\ captured = 0
    /\ artifacts = Nothing
    /\ handed = Nothing
    /\ mem = {} /\ blobs = {} /\ index = {}
    /\ blobq = {} /\ indexq = {}
    /\ record = "none"

-----------------------------------------------------------------------------
(* Content writes. A write ends at any point, on success or on an error.    *)

(* A step of the gate alone.                                                *)
Alone(A) == A /\ UNCHANGED <<runVars, dataVars>>

(* A write begins (or goes on in a nested acquisition) for an e-mail that   *)
(* the index does not hold yet: the duplicate check comes first.            *)
Begin(q) == Writer[q] \notin index /\ Alone(AdmitAdd(q))

(* A gated memdb helper writes metadata.                                    *)
WriteMem(q) ==
    /\ acq[q] = "held"
    /\ mem' = mem \cup {Writer[q]}
    /\ UNCHANGED <<gateVars, runVars, blobs, index, blobq, indexq>>

(* detach_and_store_attachments queues the blobs of the message.            *)
QueueBlob(q) ==
    /\ acq[q] = "held"
    /\ blobq' = blobq \cup {Writer[q]}
    /\ UNCHANGED <<gateVars, runVars, mem, blobs, index, indexq>>

(* extract_envelope_core then queues the documents that refer to them.      *)
QueueDoc(q) ==
    /\ acq[q] = "held"
    /\ Writer[q] \in blobq \cup blobs
    /\ indexq' = indexq \cup {Writer[q]}
    /\ UNCHANGED <<gateVars, runVars, mem, blobs, index, blobq>>

(* The writer task of BlobManager stores one queued message.                *)
StoreBlob(e) ==
    /\ e \in blobq
    /\ blobq' = blobq \ {e}
    /\ blobs' = blobs \cup {e}
    /\ UNCHANGED <<gateVars, runVars, mem, index, indexq>>

(* engine.put fails: logged, the message is counted as done.                *)
StoreBlobFails(e) ==
    /\ e \in blobq
    /\ blobq' = blobq \ {e}
    /\ UNCHANGED <<gateVars, runVars, mem, blobs, index, indexq>>

(* The writer loop of IndexManager adds and commits what is queued.         *)
CommitIndex ==
    /\ indexq # {}
    /\ index' = index \cup indexq
    /\ indexq' = {}
    /\ UNCHANGED <<gateVars, runVars, mem, blobs, blobq>>

-----------------------------------------------------------------------------
(* The run: run_locked, one step per await.                                 *)

(* The run's local list of artifacts is dropped, or moved to the upload.    *)
Forget == captured' = 0 /\ artifacts' = Nothing

(* request_run takes the run lock and spawns the run.                       *)
Start ==
    /\ run = "idle"
    /\ run' = "preflight"
    /\ UNCHANGED <<gateVars, captured, artifacts, handed, record, dataVars>>

(* preflight and previous_manifest fail: finish() before the gate is ever   *)
(* paused, and before the scoped guard exists.                              *)
PreflightFails ==
    /\ run = "preflight"
    /\ run' = "idle"
    /\ record' = "Failed"
    /\ UNCHANGED <<gateVars, captured, artifacts, handed, dataVars>>

PreflightOk ==
    /\ run = "preflight"
    /\ run' = "pause"
    /\ UNCHANGED <<gateVars, captured, artifacts, handed, record, dataVars>>

PauseGate ==
    /\ run = "pause"
    /\ Pause
    /\ run' = "drain"
    /\ UNCHANGED <<captured, artifacts, handed, record, dataVars>>

(* Mutant of DrainGate: the blob queue is not waited for.                   *)
DrainGateOnly ==
    /\ run = "drain"
    /\ Drained
    /\ run' = "announce"
    /\ UNCHANGED <<gateVars, captured, artifacts, handed, record, dataVars>>

DrainGate ==
    /\ run = "drain"
    /\ Drained
    /\ run' = "blobdrain"
    /\ UNCHANGED <<gateVars, captured, artifacts, handed, record, dataVars>>

(* BLOB_MANAGER.drain: nothing queued and nothing being written.            *)
DrainBlobs ==
    /\ run = "blobdrain"
    /\ blobq = {}
    /\ run' = "announce"
    /\ UNCHANGED <<gateVars, captured, artifacts, handed, record, dataVars>>

(* The Running record; taking the state mutex makes the pause visible.      *)
Announce ==
    /\ run = "announce"
    /\ ~buffered
    /\ run' = "prepare"
    /\ record' = "Running"
    /\ UNCHANGED <<gateVars, captured, artifacts, handed, dataVars>>

(* prepare() of the preparer registered as number i, which copies layer l.  *)
Deliver(i, l, content) ==
    /\ run = "prepare"
    /\ captured = i - 1
    /\ captured' = i
    /\ artifacts' = [artifacts EXCEPT ![l] = content]
    /\ UNCHANGED <<gateVars, run, handed, record>>

PrepareMem == Deliver(1, "mem", mem) /\ UNCHANGED dataVars

PrepareBlob == Deliver(2, "blob", blobs) /\ UNCHANGED dataVars

(* The index preparers first have the loop commit everything queued.        *)
PrepareIndex ==
    /\ index' = index \cup indexq
    /\ indexq' = {}
    /\ Deliver(3, "index", index')
    /\ UNCHANGED <<mem, blobs, blobq>>

(* A preparer fails: no upload, straight to finish().                       *)
PrepareFails ==
    /\ run = "prepare"
    /\ captured < Preparers
    /\ run' = "finish"
    /\ Forget
    /\ UNCHANGED <<gateVars, handed, record, dataVars>>

(* Every preparer delivered: reopen the gate, then upload.                  *)
HandOver ==
    /\ run = "prepare"
    /\ captured = Preparers
    /\ Resume
    /\ handed' = artifacts
    /\ run' = "upload"
    /\ Forget
    /\ UNCHANGED <<record, dataVars>>

(* The upload ends, and finish() persists Success or Failed.                *)
UploadEnds ==
    /\ run = "upload"
    /\ \E s \in {"Success", "Failed"} : record' = s
    /\ run' = "unwind"
    /\ UNCHANGED <<gateVars, captured, artifacts, handed, dataVars>>

FinishFailed ==
    /\ run = "finish"
    /\ record' = "Failed"
    /\ run' = "unwind"
    /\ UNCHANGED <<gateVars, captured, artifacts, handed, dataVars>>

(* A panic inside the scope of the guard skips finish().                    *)
Panic ==
    /\ run \in {"prepare", "upload"}
    /\ run' = "unwind"
    /\ Forget
    /\ UNCHANGED <<gateVars, handed, record, dataVars>>

(* Mutant of Unwind: the gate is reopened on the success path only.         *)
UnwindFinalizeOnly ==
    /\ run = "unwind"
    /\ run' = "idle"
    /\ UNCHANGED <<gateVars, captured, artifacts, handed, record, dataVars>>

(* RunScopedGuard::drop: finalize the preparers and reopen the gate.        *)
Unwind ==
    /\ run = "unwind"
    /\ Resume
    /\ run' = "idle"
    /\ UNCHANGED <<captured, artifacts, handed, record, dataVars>>

(* The process dies and restarts: guards, queues and the gate are gone,     *)
(* recover_interrupted_runs marks the run it finds Running as Failed.       *)
Crash ==
    /\ paused' = FALSE /\ buffered' = FALSE /\ in_flight' = 0
    /\ acq' = [q \in Acquirers |-> "none"]
    /\ blobq' = {} /\ indexq' = {}
    /\ run' = "idle"
    /\ Forget
    /\ record' = IF record = "Running" THEN "Failed" ELSE record
    /\ UNCHANGED <<handed, mem, blobs, index>>

GateNext ==
    \E q \in Acquirers :
       \/ Begin(q) \/ Alone(AdmitCheck(q)) \/ Alone(BackOut(q))
       \/ Alone(GiveUp(q)) \/ Alone(DropGuard(q))

WriteNext ==
    \/ \E q \in Acquirers : WriteMem(q) \/ QueueBlob(q) \/ QueueDoc(q)
    \/ \E e \in Emails : StoreBlob(e) \/ StoreBlobFails(e)
    \/ CommitIndex

RunNext ==
    \/ Start \/ PreflightFails \/ PreflightOk \/ PauseGate \/ DrainGate
    \/ DrainBlobs \/ Announce \/ PrepareMem \/ PrepareBlob \/ PrepareIndex
    \/ PrepareFails \/ HandOver
    \/ UploadEnds \/ FinishFailed \/ Panic \/ Unwind

Next == GateNext \/ WriteNext \/ RunNext \/ Crash

(* Threads run; a write ends and drops its guards; an acquirer reaches its  *)
(* deadline, however often it retried before (strong fairness: the deadline *)
(* is absolute). A refused attempt is three atomic accesses, after which    *)
(* its task parks until it is notified or a RECHECK_INTERVAL has passed, so *)
(* there are always again moments at which no attempt is under way; drain() *)
(* reloads the counter at every notification and every RECHECK_INTERVAL and *)
(* does not miss all of them.                                               *)
NoAttempt == \A q \in Acquirers : acq[q] \notin {"added", "backout"}

Fairness ==
    /\ []<>NoAttempt
    /\ \A q \in Acquirers :
         /\ WF_vars(Alone(AdmitCheck(q))) /\ WF_vars(Alone(BackOut(q)))
         /\ SF_vars(Alone(GiveUp(q))) /\ SF_vars(Alone(DropGuard(q)))
    /\ \A e \in Emails : WF_vars(StoreBlob(e))
    /\ WF_vars(PreflightOk) /\ WF_vars(PauseGate) /\ SF_vars(DrainGate)
    /\ WF_vars(DrainBlobs) /\ WF_vars(Announce) /\ WF_vars(PrepareMem)
    /\ WF_vars(PrepareBlob) /\ WF_vars(PrepareIndex) /\ WF_vars(HandOver)
    /\ WF_vars(UploadEnds) /\ WF_vars(FinishFailed)
    /\ WF_vars(Unwind)

Spec == Init /\ [][Next]_vars /\ Fairness

(* The same with a store buffer between pause() and the other threads.      *)
PauseGateLate ==
    /\ run = "pause"
    /\ PauseLate
    /\ run' = "drain"
    /\ UNCHANGED <<captured, artifacts, handed, record, dataVars>>

BufferedNext == Next \/ PauseGateLate \/ Alone(StoreVisible)

BufferedSpec == Init /\ [][BufferedNext]_vars

-----------------------------------------------------------------------------
(* The shape of the gate's, the run's and the layers' state.                *)
TypeOK ==
    /\ GateTypeOK
    /\ run \in RunStates
    /\ captured \in 0 .. Preparers
    /\ artifacts \in [Layers -> SUBSET Emails]
    /\ handed \in [Layers -> SUBSET Emails]
    /\ mem \subseteq Emails /\ blobs \subseteq Emails /\ index \subseteq Emails
    /\ blobq \subseteq Emails /\ indexq \subseteq Emails
    /\ record \in Statuses

(* "for the duration of the backup window no content write may land on      *)
(* disk": while a preparer runs, nobody holds a write guard and the blob    *)
(* queue is empty.                                                          *)
Quiesced == run = "prepare" => Holders = {} /\ blobq = {}

(* "so the server can never be left quiesced": outside a run, and before a  *)
(* run has passed its preflight, the gate is open on every path.            *)
OpenOutsideRuns == run \in {"idle", "preflight", "pause"} => ~paused /\ ~buffered

(* A paused gate is reopened, although drain() waits without a timeout for  *)
(* guards whose owners may themselves be waiting on the paused gate.        *)
GateReopens == paused ~> ~paused

Archive == [mem |-> mem, blob |-> blobs, index |-> index \cup indexq]

Abstract == INSTANCE AtomicSnapshot WITH archive <- Archive, point <- handed

(* The artifacts handed to the upload are the content of all layers at one  *)
(* moment: no e-mail has its document in the point and its blob or its      *)
(* metadata missing there unless the live archive had it so.                *)
SnapshotIsAtomic == Abstract!Spec
=============================================================================
