-------------------------- MODULE BackgroundProofs --------------------------
(***************************************************************************)
(* Proofs about what runs beside the requests: the download loops           *)
(* (SyncTasks), the backup target (BackupStore) and the backup window       *)
(* (BackupWindow), for all their parameters.                                *)
(***************************************************************************)
EXTENDS SyncTasks, BackupStore, BackupWindow, FiniteSetTheorems, TLAPS

(* A leaf that names no prover is Zenon's.                                  *)
USE ZenonT(20)

-----------------------------------------------------------------------------
(* The backup window, for any finite set of acquisitions and any nesting.   *)
(* The counter is exact even with a store buffer (BufferedSpec); that the   *)
(* window is quiescent, and the restore point atomic, is proved for         *)
(* interleaving semantics (Spec), without which TLC refutes it.             *)

USE DEF Alone, gateVars, runVars, dataVars

-----------------------------------------------------------------------------
(* Counting: the counter follows the set of counted acquisitions.           *)

(* The set of counted acquisitions is finite.                               *)
LEMMA CountedFinite == IsFiniteSet(Counted)
  BY AcquirersAssumption, FS_Subset DEF Counted

(* Moving an uncounted acquisition to "added" adds one element.             *)
LEMMA CountUp ==
  ASSUME NEW q \in Acquirers, acq \in [Acquirers -> AcqStates],
         acq[q] \in {"none", "waiting"}, acq' = [acq EXCEPT ![q] = "added"]
  PROVE  Cardinality(Counted)' = Cardinality(Counted) + 1
<1>1. Counted' = Counted \cup {q} /\ q \notin Counted
  BY DEF Counted
<1> QED
  BY <1>1, CountedFinite, FS_AddElement

(* Moving a counted acquisition to an uncounted state removes one element.  *)
LEMMA CountDown ==
  ASSUME NEW q \in Acquirers, NEW s \in {"none", "waiting"},
         acq \in [Acquirers -> AcqStates],
         acq[q] \in {"backout", "held"}, acq' = [acq EXCEPT ![q] = s]
  PROVE  /\ Cardinality(Counted)' = Cardinality(Counted) - 1
         /\ Cardinality(Counted) > 0
<1>1. Counted' = Counted \ {q} /\ q \in Counted
  BY DEF Counted
<1>2. Cardinality(Counted) \in Nat /\ Cardinality(Counted) # 0
  BY <1>1, CountedFinite, FS_CardinalityType, FS_EmptySet
<1> QED
  BY SMTT(30), <1>1, <1>2, CountedFinite, FS_RemoveElement

(* A move between counted states keeps the set.                             *)
LEMMA CountSame ==
  ASSUME NEW q \in Acquirers, NEW s \in {"backout", "held"},
         acq \in [Acquirers -> AcqStates],
         acq[q] = "added", acq' = [acq EXCEPT ![q] = s]
  PROVE  Counted' = Counted
  BY DEF Counted

-----------------------------------------------------------------------------
(* Types and the exact counter, which the types of in_flight need.          *)
CountInv == TypeOK /\ CountExact

(* Nothing is counted initially.                                            *)
LEMMA CountInit == Init => CountInv
<1> SUFFICES ASSUME Init PROVE CountInv
  OBVIOUS
<1>1. Counted = {}
  BY DEF Init, GateInit, Counted
<1>2. CountExact
  BY <1>1, FS_EmptySet DEF CountExact, Init, GateInit
<1>3. GateTypeOK
  BY DEF Init, GateInit, GateTypeOK, AcqStates
<1>4. TypeOK
  BY SMTT(30), <1>3 DEF TypeOK, Init, RunStates, Statuses, Nothing, Layers, Preparers
<1> QED
  BY <1>2, <1>4 DEF CountInv

(* No artifact at all is a well-typed list of artifacts.                    *)
LEMMA NothingTyped == Nothing \in [Layers -> SUBSET Emails]
  BY DEF Nothing

(* A step that leaves the gate's counter and acquisitions alone.            *)
LEMMA CountKept ==
  ASSUME CountExact, UNCHANGED <<in_flight, acq>> PROVE CountExact'
  BY DEF CountExact, Counted

(* The gate's own steps keep the counter exact and everything well typed.   *)
LEMMA GateCountStep == CountInv /\ GateNext => CountInv'
<1> SUFFICES ASSUME CountInv, GateNext PROVE CountInv'
  OBVIOUS
<1> USE DEF CountInv, TypeOK, GateTypeOK
<1>0. acq \in [Acquirers -> AcqStates] /\ in_flight = Cardinality(Counted)
  BY DEF CountExact
<1>1. ASSUME NEW q \in Acquirers, Begin(q) PROVE CountInv'
  <2>1. in_flight' = in_flight + 1 /\ acq' = [acq EXCEPT ![q] = "added"]
        /\ acq[q] \in {"none", "waiting"}
    BY <1>1 DEF Begin, AdmitAdd, Move
  <2>2. CountExact'
    BY <1>0, <2>1, CountUp DEF CountExact
  <2> QED
    BY SMTT(30), <1>1, <2>1, <2>2 DEF Begin, AdmitAdd, AcqStates
<1>2. ASSUME NEW q \in Acquirers, Alone(AdmitCheck(q)) PROVE CountInv'
  <2>1. \E s \in {"backout", "held"} : acq' = [acq EXCEPT ![q] = s]
    BY <1>2 DEF AdmitCheck, Move
  <2>2. CountExact'
    BY <1>0, <1>2, <2>1, CountSame DEF CountExact, AdmitCheck
  <2> QED
    BY <1>2, <2>1, <2>2 DEF AdmitCheck, AcqStates
<1>3. ASSUME NEW q \in Acquirers, Alone(BackOut(q)) PROVE CountInv'
  <2>1. PICK s \in {"none", "waiting"} : acq' = [acq EXCEPT ![q] = s]
    BY <1>3 DEF BackOut, Move
  <2>2. in_flight' = in_flight - 1 /\ acq[q] = "backout"
    BY <1>3 DEF BackOut
  <2>3. Cardinality(Counted)' = Cardinality(Counted) - 1 /\ Cardinality(Counted) > 0
    BY <1>0, <2>1, <2>2, CountDown
  <2>4. CountExact'
    BY <1>0, <2>2, <2>3 DEF CountExact
  <2>5. in_flight' \in Nat
    BY SMTT(30), <1>0, <2>2, <2>3
  <2> QED
    BY <1>3, <2>1, <2>4, <2>5 DEF BackOut, AcqStates
<1>4. ASSUME NEW q \in Acquirers, Alone(GiveUp(q)) PROVE CountInv'
  <2>1. Counted' = Counted
    BY <1>4 DEF GiveUp, Move, Counted
  <2> QED
    BY <1>0, <1>4, <2>1 DEF GiveUp, Move, AcqStates, CountExact
<1>5. ASSUME NEW q \in Acquirers, Alone(DropGuard(q)) PROVE CountInv'
  <2>1. in_flight' = in_flight - 1 /\ acq' = [acq EXCEPT ![q] = "none"]
        /\ acq[q] = "held"
    BY <1>5 DEF DropGuard, Move
  <2>2. Cardinality(Counted)' = Cardinality(Counted) - 1 /\ Cardinality(Counted) > 0
    BY <1>0, <2>1, CountDown
  <2>3. CountExact'
    BY <1>0, <2>1, <2>2 DEF CountExact
  <2>4. in_flight' \in Nat
    BY SMTT(30), <1>0, <2>1, <2>2
  <2> QED
    BY <1>5, <2>1, <2>3, <2>4 DEF DropGuard, AcqStates
<1> QED
  BY <1>1, <1>2, <1>3, <1>4, <1>5 DEF GateNext

(* The writes and the steps of the run do not touch the counter.            *)
LEMMA OtherCountStep ==
  CountInv /\ (WriteNext \/ RunNext \/ UNCHANGED vars) => CountInv'
<1> SUFFICES ASSUME CountInv, WriteNext \/ RunNext \/ UNCHANGED vars PROVE CountInv'
  OBVIOUS
<1> USE DEF CountInv, TypeOK, GateTypeOK
<1>1. CASE WriteNext
  <2>1. ASSUME NEW q \in Acquirers, WriteMem(q) \/ QueueBlob(q) \/ QueueDoc(q)
        PROVE  CountInv'
    BY <2>1, CountKept DEF WriteMem, QueueBlob, QueueDoc, Emails
  <2>2. ASSUME NEW e \in Emails, StoreBlob(e) \/ StoreBlobFails(e) PROVE CountInv'
    BY <2>2, CountKept DEF StoreBlob, StoreBlobFails
  <2>3. CASE CommitIndex
    BY <2>3, CountKept DEF CommitIndex
  <2> QED
    BY <1>1, <2>1, <2>2, <2>3 DEF WriteNext
<1>2. CASE RunNext
  <2>1. CASE Start \/ PreflightFails \/ PreflightOk \/ DrainGate \/ DrainBlobs \/ Announce
    BY <2>1, CountKept DEF Start, PreflightFails, PreflightOk, DrainGate, DrainBlobs,
       Announce, RunStates, Statuses
  <2>2. CASE PauseGate
    BY <2>2, CountKept DEF PauseGate, Pause, RunStates
  <2>3. CASE PrepareMem \/ PrepareBlob \/ PrepareIndex
    BY SMTT(30), <2>3, CountKept DEF PrepareMem, PrepareBlob, PrepareIndex, Deliver, Preparers, Layers
  <2>4. CASE PrepareFails \/ Panic
    BY SMTT(30), <2>4, CountKept, NothingTyped DEF PrepareFails, Panic, Forget, RunStates, Preparers
  <2>5. CASE HandOver
    <3>1. CountExact'
      BY <2>5, CountKept DEF HandOver, Resume
    <3>2. GateTypeOK'
      BY <2>5 DEF HandOver, Resume
    <3>3. TypeOK'
      BY SMTT(30), <2>5, <3>2, NothingTyped DEF HandOver, Forget, RunStates, Preparers
    <3> QED
      BY <3>1, <3>3
  <2>6. CASE UploadEnds \/ FinishFailed
    BY <2>6, CountKept DEF UploadEnds, FinishFailed, RunStates, Statuses
  <2>7. CASE Unwind
    BY <2>7, CountKept DEF Unwind, Resume, RunStates
  <2> QED
    BY <1>2, <2>1, <2>2, <2>3, <2>4, <2>5, <2>6, <2>7 DEF RunNext
<1>3. CASE UNCHANGED vars
  BY <1>3, CountKept DEF vars
<1> QED
  BY <1>1, <1>2, <1>3

(* A restart empties the set of acquisitions and the counter together.      *)
LEMMA CrashCountStep == CountInv /\ Crash => CountInv'
<1> SUFFICES ASSUME CountInv, Crash PROVE CountInv'
  OBVIOUS
<1>1. Counted' = {} /\ in_flight' = 0
  BY DEF Crash, Counted
<1>2. CountExact'
  BY <1>1, FS_EmptySet DEF CountExact
<1>3. GateTypeOK'
  BY DEF GateTypeOK, Crash, AcqStates
<1>4. TypeOK'
  BY SMTT(30), <1>3 DEF CountInv, TypeOK, Crash, Forget, Nothing, RunStates, Statuses, Preparers, Layers
<1> QED
  BY <1>2, <1>4 DEF CountInv

(* Every step keeps the counter exact.                                      *)
LEMMA CountStep == CountInv /\ [Next]_vars => CountInv'
  BY GateCountStep, OtherCountStep, CrashCountStep DEF Next

(* in_flight always equals the number of acquisitions between their         *)
(* fetch_add and their fetch_sub, so drain() neither hangs on a leaked      *)
(* count nor returns early on one given back twice.                         *)
THEOREM CounterExact == Spec => []CountExact
<1>1. CountInv => CountExact
  BY DEF CountInv
<1> QED
  BY <1>1, CountInit, CountStep, PTL DEF Spec

(* The counter is also exact when pause()'s store is delayed: the fetch_add *)
(* and the fetch_sub of an acquisition come in pairs whatever it loads.     *)
THEOREM CounterExactBuffered == BufferedSpec => []CountExact
<1>1. CountInv => CountExact
  BY DEF CountInv
<1>2. CountInv /\ [BufferedNext]_vars => CountInv'
  <2> SUFFICES ASSUME CountInv, [BufferedNext]_vars PROVE CountInv'
    OBVIOUS
  <2>1. CASE PauseGateLate
    BY <2>1, CountKept DEF PauseGateLate, PauseLate, CountInv, TypeOK, GateTypeOK, RunStates
  <2>2. CASE Alone(StoreVisible)
    BY <2>2, CountKept DEF StoreVisible, CountInv, TypeOK, GateTypeOK
  <2> QED
    BY <2>1, <2>2, CountStep DEF BufferedNext
<1> QED
  BY <1>1, <1>2, CountInit, PTL DEF BufferedSpec

-----------------------------------------------------------------------------
(* The gate is open outside a run: inductive as it stands.                  *)
LEMMA OpenStep == TypeOK /\ OpenOutsideRuns /\ [Next]_vars => OpenOutsideRuns'
<1> SUFFICES ASSUME TypeOK, OpenOutsideRuns, [Next]_vars PROVE OpenOutsideRuns'
  OBVIOUS
<1> USE DEF OpenOutsideRuns
<1>1. CASE GateNext
  BY <1>1 DEF GateNext, Begin, AdmitAdd, AdmitCheck, BackOut, GiveUp, DropGuard
<1>2. CASE WriteNext \/ UNCHANGED vars
  BY <1>2 DEF WriteNext, WriteMem, QueueBlob, QueueDoc, StoreBlob, StoreBlobFails,
     CommitIndex, vars
<1>3. CASE RunNext
  BY <1>3 DEF RunNext, Start, PreflightFails, PreflightOk, PauseGate, DrainGate,
     DrainBlobs, Announce, PrepareMem, PrepareBlob, PrepareIndex, Deliver,
     PrepareFails, HandOver, UploadEnds, FinishFailed, Panic, Unwind, Resume
<1>4. CASE Crash
  BY <1>4 DEF Crash
<1> QED
  BY <1>1, <1>2, <1>3, <1>4 DEF Next

(* On every path (failed preflight, failed preparer, failed upload, panic,  *)
(* restart) a run leaves the write gate open.                               *)
THEOREM GateOpenOutsideRuns == Spec => []OpenOutsideRuns
<1>1. Init => OpenOutsideRuns
  BY DEF Init, GateInit, OpenOutsideRuns
<1>2. CountInv => TypeOK
  BY DEF CountInv
<1> QED
  BY <1>1, <1>2, CountInit, CountStep, OpenStep, PTL DEF Spec

-----------------------------------------------------------------------------
(* The capture window, when the pause store is visible at once.             *)
Window == {"blobdrain", "announce", "prepare"}

(* From the drain on, the gate is paused, nobody holds a guard, the blob    *)
(* queue stays empty, and the copies made so far are still up to date.      *)
WindowInv ==
    /\ ~buffered
    /\ run \in Window \cup {"drain"} => paused
    /\ run \in Window => Holders = {}
    /\ run \in {"announce", "prepare"} => blobq = {}
    /\ run # "prepare" => captured = 0
    /\ captured >= 1 => artifacts["mem"] = mem
    /\ captured >= 2 => artifacts["blob"] = blobs
    /\ captured >= 3 => artifacts["index"] = index \cup indexq

(* A counter at zero means that nobody holds a guard.                       *)
LEMMA DrainedMeansFree == CountInv /\ Drained => Holders = {}
<1> SUFFICES ASSUME CountInv, Drained PROVE Holders = {}
  OBVIOUS
<1>1. Counted = {}
  BY CountedFinite, FS_EmptySet DEF CountInv, CountExact, Drained
<1> QED
  BY <1>1 DEF Counted, Holders

(* The gate's steps: with the gate paused no acquisition becomes a holder.  *)
LEMMA WindowGateStep == CountInv /\ WindowInv /\ GateNext => WindowInv'
<1> SUFFICES ASSUME CountInv, WindowInv, GateNext PROVE WindowInv'
  OBVIOUS
<1>1. ~buffered' /\ UNCHANGED <<paused, runVars, dataVars>>
  BY SMTT(30) DEF WindowInv, GateNext, Begin, AdmitAdd, AdmitCheck, BackOut, GiveUp,
     DropGuard
<1>2. paused /\ Holders = {} => Holders' = {}
  BY DEF CountInv, TypeOK, GateTypeOK, GateNext, Begin, AdmitAdd, AdmitCheck, BackOut,
     GiveUp, DropGuard, Move, Holders
<1> QED
  BY <1>1, <1>2 DEF WindowInv, Window

(* The writes: each needs a holder or a queued blob, so none happens in the *)
(* window; a commit of the index moves documents within the same layer.     *)
LEMMA WindowWriteStep == CountInv /\ WindowInv /\ WriteNext => WindowInv'
<1> SUFFICES ASSUME CountInv, WindowInv, WriteNext PROVE WindowInv'
  OBVIOUS
<1> USE DEF WindowInv, Window, CountInv, TypeOK, Preparers
<1>1. ASSUME NEW q \in Acquirers, WriteMem(q) \/ QueueBlob(q) \/ QueueDoc(q)
      PROVE  WindowInv'
  <2>1. Holders # {} /\ Holders' = Holders
    BY <1>1 DEF WriteMem, QueueBlob, QueueDoc, Holders
  <2>2. run \notin Window
    BY <2>1
  <2> QED
    BY SMTT(30), <1>1, <2>2 DEF WriteMem, QueueBlob, QueueDoc
<1>2. ASSUME NEW e \in Emails, StoreBlob(e) \/ StoreBlobFails(e) PROVE WindowInv'
  BY SMTT(30), <1>2 DEF StoreBlob, StoreBlobFails, Holders
<1>3. CASE CommitIndex
  BY <1>3 DEF CommitIndex, Holders
<1> QED
  BY <1>1, <1>2, <1>3 DEF WriteNext

(* The run's own steps.                                                     *)
LEMMA WindowRunStep ==
  ASSUME CountInv, WindowInv, RunNext PROVE WindowInv'
<1> USE DEF WindowInv, Window
<1>1. CASE Start \/ PreflightFails \/ PreflightOk \/ UploadEnds \/ FinishFailed
  BY SMTT(30), <1>1 DEF Start, PreflightFails, PreflightOk, UploadEnds, FinishFailed, Holders
<1>2. CASE PauseGate
  BY <1>2 DEF PauseGate, Pause, Holders
<1>3. CASE DrainGate
  <2>1. Holders' = {}
    BY <1>3, DrainedMeansFree DEF DrainGate, Holders
  <2> QED
    BY <1>3, <2>1 DEF DrainGate
<1>4. CASE DrainBlobs \/ Announce
  BY SMTT(30), <1>4 DEF DrainBlobs, Announce, Holders
<1>5. CASE PrepareMem \/ PrepareBlob \/ PrepareIndex
  BY SMTT(30), <1>5 DEF PrepareMem, PrepareBlob, PrepareIndex, Deliver, Holders, CountInv,
     TypeOK, Layers, Preparers
<1>6. CASE PrepareFails \/ HandOver \/ Panic \/ Unwind
  BY SMTT(30), <1>6 DEF PrepareFails, HandOver, Panic, Unwind, Resume, Forget
<1> QED
  BY <1>1, <1>2, <1>3, <1>4, <1>5, <1>6 DEF RunNext

(* Every step keeps the window closed.                                      *)
LEMMA WindowStep ==
  ASSUME CountInv, WindowInv, [Next]_vars PROVE WindowInv'
<1>1. CASE Crash
  BY SMTT(30), <1>1 DEF Crash, Forget, WindowInv, Window
<1>2. CASE UNCHANGED vars
  BY <1>2 DEF vars, WindowInv, Holders
<1> QED
  BY <1>1, <1>2, WindowGateStep, WindowWriteStep, WindowRunStep DEF Next

(* No window is open initially.                                             *)
LEMMA WindowInit == Init => WindowInv
  BY SMTT(30) DEF Init, GateInit, WindowInv, Window

(* While the preparers copy the storage layers, no content write holds a    *)
(* guard and no blob is still queued.                                       *)
THEOREM CaptureIsQuiesced == Spec => []Quiesced
<1>1. CountInv /\ WindowInv /\ [Next]_vars => WindowInv'
  BY WindowStep
<1>2. WindowInv => Quiesced
  BY DEF WindowInv, Window, Quiesced
<1> QED
  BY <1>1, <1>2, WindowInit, CountInit, CountStep, PTL DEF Spec

(* The copy made layer by layer is the archive at one single moment: the    *)
(* run implements AtomicSnapshot.                                           *)
THEOREM BackupImplementsSnapshot == Spec => SnapshotIsAtomic
<1>1. CountInv /\ WindowInv /\ [Next]_vars => WindowInv'
  BY WindowStep
<1>2. CountInv /\ WindowInv /\ [Next]_vars => [Abstract!Next]_<<Archive, handed>>
  <2> SUFFICES ASSUME CountInv, WindowInv, [Next]_vars
               PROVE  handed' = handed \/ (handed' = Archive /\ Archive' = Archive)
    BY DEF Abstract!Next, Abstract!Write, Abstract!Capture
  <2>1. CASE HandOver
    <3>1. artifacts = Archive
      BY SMTT(30), <2>1 DEF HandOver, WindowInv, Archive, CountInv, TypeOK, Layers, Preparers
    <3> QED
      BY <2>1, <3>1 DEF HandOver, Archive
  <2>2. CASE ~HandOver
    BY <2>2 DEF Next, GateNext, Begin, WriteNext, WriteMem, QueueBlob, QueueDoc,
       StoreBlob, StoreBlobFails, CommitIndex, RunNext, Start, PreflightFails,
       PreflightOk, PauseGate, DrainGate, DrainBlobs, Announce, PrepareMem,
       PrepareBlob, PrepareIndex, Deliver, PrepareFails, UploadEnds, FinishFailed,
       Panic, Unwind, Crash, vars
  <2> QED
    BY <2>1, <2>2
<1> QED
  BY <1>1, <1>2, WindowInit, CountInit, CountStep, PTL
  DEF Spec, SnapshotIsAtomic, Abstract!Spec

HIDE DEF Alone, gateVars, runVars, dataVars
-----------------------------------------------------------------------------
(* The download loops, for any set of accounts and any number of manual     *)
(* requests. BusyExact is inductive together with the types: it says who    *)
(* holds each claim, which mutual exclusion alone does not remember.        *)

(* The initial state is well typed and holds no claim.                      *)
LEMMA InitOK == TasksInit => TasksTypeOK /\ BusyExact
  BY SMTT(30), NoneAssumption DEF TasksInit, TasksTypeOK, BusyExact, SchedClaims, ManualClaims,
     ManualClaimants, LoopStates, ReqStates, TaskStates

(* Every step of the registry keeps its state well typed.                   *)
LEMMA TypeStep == TasksTypeOK /\ [TasksNext]_taskVars => TasksTypeOK'
<1> SUFFICES ASSUME TasksTypeOK, [TasksNext]_taskVars PROVE TasksTypeOK'
  OBVIOUS
<1> USE DEF TasksTypeOK, LoopStates, ReqStates, TaskStates, schedVars, manualVars
<1>1. ASSUME NEW a \in Accounts, SchedCheck(a) PROVE TasksTypeOK'
  BY <1>1 DEF SchedCheck
<1>2. ASSUME NEW a \in Accounts, SchedClaim(a) PROVE TasksTypeOK'
  BY <1>2 DEF SchedClaim
<1>3. ASSUME NEW a \in Accounts, SchedSync(a) PROVE TasksTypeOK'
  BY <1>3 DEF SchedSync
<1>4. ASSUME NEW a \in Accounts, SchedReturn(a) PROVE TasksTypeOK'
  BY <1>4 DEF SchedReturn
<1>5. ASSUME NEW a \in Accounts, SchedRelease(a) PROVE TasksTypeOK'
  BY <1>5 DEF SchedRelease
<1>6. ASSUME NEW a \in Accounts, Stop(a) PROVE TasksTypeOK'
  BY <1>6 DEF Stop
<1>7. ASSUME NEW a \in Accounts, LoopExit(a) PROVE TasksTypeOK'
  BY <1>7 DEF LoopExit
<1>8. ASSUME NEW a \in Accounts, Cancel(a) PROVE TasksTypeOK'
  BY <1>8 DEF Cancel, is_manual_running
<1>9. ASSUME NEW m \in Requests, ManualCheck(m) PROVE TasksTypeOK'
  BY <1>9 DEF ManualCheck
<1>10. ASSUME NEW m \in Requests, ManualClaim(m) PROVE TasksTypeOK'
  BY SMTT(30), <1>10 DEF ManualClaim
<1>11. ASSUME NEW m \in Requests, ManualInsert(m) PROVE TasksTypeOK'
  BY <1>11 DEF ManualInsert
<1>12. ASSUME NEW m \in Requests, ManualSync(m) PROVE TasksTypeOK'
  BY <1>12 DEF ManualSync
<1>13. ASSUME NEW m \in Requests, ManualReturn(m) PROVE TasksTypeOK'
  BY <1>13 DEF ManualReturn
<1>14. ASSUME NEW m \in Requests, ManualRelease(m) PROVE TasksTypeOK'
  BY <1>14 DEF ManualRelease
<1>15. ASSUME NEW m \in Requests, ManualForget(m) PROVE TasksTypeOK'
  BY <1>15 DEF ManualForget
<1>16. CASE Shutdown
  BY <1>16 DEF Shutdown
<1>17. CASE CancelReturn
  BY <1>17 DEF CancelReturn
<1>18. CASE UNCHANGED taskVars
  BY <1>18 DEF taskVars
<1> QED
  BY <1>1, <1>2, <1>3, <1>4, <1>5, <1>6, <1>7, <1>8, <1>9, <1>10, <1>11, <1>12,
     <1>13, <1>14, <1>15, <1>16, <1>17, <1>18 DEF TasksNext

(* Every step keeps the busy set exact.                                     *)
LEMMA BusyStep == TasksTypeOK /\ BusyExact /\ [TasksNext]_taskVars => BusyExact'
<1> SUFFICES ASSUME TasksTypeOK, BusyExact, [TasksNext]_taskVars PROVE BusyExact'
  OBVIOUS
<1> USE DEF TasksTypeOK, BusyExact, SchedClaims, ManualClaims, ManualClaimants,
            LoopStates, TaskStates, schedVars, manualVars
<1>1. ASSUME NEW a \in Accounts, SchedCheck(a) PROVE BusyExact'
  BY SMTT(30), <1>1 DEF SchedCheck
<1>2. ASSUME NEW a \in Accounts, SchedClaim(a) PROVE BusyExact'
  BY SMTT(30), <1>2 DEF SchedClaim
<1>3. ASSUME NEW a \in Accounts, SchedSync(a) PROVE BusyExact'
  BY SMTT(30), <1>3 DEF SchedSync
<1>4. ASSUME NEW a \in Accounts, SchedReturn(a) PROVE BusyExact'
  BY SMTT(30), <1>4 DEF SchedReturn
<1>5. ASSUME NEW a \in Accounts, SchedRelease(a) PROVE BusyExact'
  BY SMTT(30), <1>5 DEF SchedRelease
<1>6. ASSUME NEW a \in Accounts, Stop(a) PROVE BusyExact'
  BY SMTT(30), <1>6 DEF Stop
<1>7. ASSUME NEW a \in Accounts, LoopExit(a) PROVE BusyExact'
  BY SMTT(30), <1>7 DEF LoopExit
<1>8. ASSUME NEW a \in Accounts, Cancel(a) PROVE BusyExact'
  BY SMTT(30), <1>8 DEF Cancel
<1>9. ASSUME NEW m \in Requests, ManualCheck(m) PROVE BusyExact'
  BY SMTT(30), <1>9 DEF ManualCheck
<1>10. ASSUME NEW m \in Requests, ManualClaim(m) PROVE BusyExact'
  BY SMTT(30), <1>10 DEF ManualClaim
<1>11. ASSUME NEW m \in Requests, ManualInsert(m) PROVE BusyExact'
  BY SMTT(30), <1>11 DEF ManualInsert
<1>12. ASSUME NEW m \in Requests, ManualSync(m) PROVE BusyExact'
  BY SMTT(30), <1>12 DEF ManualSync
<1>13. ASSUME NEW m \in Requests, ManualReturn(m) PROVE BusyExact'
  BY SMTT(30), <1>13 DEF ManualReturn
<1>14. ASSUME NEW m \in Requests, ManualRelease(m) PROVE BusyExact'
  BY SMTT(30), <1>14 DEF ManualRelease
<1>15. ASSUME NEW m \in Requests, ManualForget(m) PROVE BusyExact'
  BY SMTT(30), <1>15 DEF ManualForget
<1>16. CASE Shutdown
  BY SMTT(30), <1>16 DEF Shutdown
<1>17. CASE CancelReturn
  BY SMTT(30), <1>17 DEF CancelReturn
<1>18. CASE UNCHANGED taskVars
  BY SMTT(30), <1>18 DEF taskVars
<1> QED
  BY <1>1, <1>2, <1>3, <1>4, <1>5, <1>6, <1>7, <1>8, <1>9, <1>10, <1>11, <1>12,
     <1>13, <1>14, <1>15, <1>16, <1>17, <1>18 DEF TasksNext

(* The state of the registry is always well typed.                          *)
THEOREM TasksTypeCorrect == TasksSpec => []TasksTypeOK
  BY InitOK, TypeStep, PTL DEF TasksSpec

(* The busy set always names exactly the accounts with one live claimant.   *)
THEOREM BusyAlwaysExact == TasksSpec => []BusyExact
  BY InitOK, TypeStep, BusyStep, PTL DEF TasksSpec

(* At most one download runs per account, however scheduled rounds, manual  *)
(* requests, cancels, stops and detached clean-ups interleave.              *)
THEOREM DownloadsExclude == TasksSpec => []MutualExclusion
<1>1. TasksTypeOK /\ BusyExact => MutualExclusion
  BY SMTT(30) DEF TasksTypeOK, BusyExact, MutualExclusion, SchedClaims, ManualClaims, ManualClaimants
<1> QED
  BY <1>1, TasksTypeCorrect, BusyAlwaysExact, PTL

-----------------------------------------------------------------------------
(* The backup target, for any set of files, any retention policy and any    *)
(* number of runs, deletions and faults: a manifest has its objects and a   *)
(* whole audit log, and LATEST names a manifest that is there.              *)

(* Cursors do not run ahead of the log.                                     *)
TypeInv ==
    /\ StoreTypeOK
    /\ seq \in Rows
    /\ draft.audit.cursor <= seq
    /\ \A i \in Ids : manifests[i].audit.cursor <= seq

(* What an operation knows of the target between two steps.  A run: what it *)
(* has not yet to upload is there, and so is the manifest it inherits from. *)
(* A sweep: what it has yet to delete belongs to no manifest.               *)
OperationInv ==
    /\ pc = "upload" =>
         /\ object_keys(draft) \subseteq objects \cup todo
         /\ draft.previous = 0 \/ draft.previous \in Ids
    /\ pc = "latest" => made \in Ids
    /\ pc = "expire" => latest \in keep
    /\ pc = "sweep" =>
         \A i \in Ids : todo \cap object_keys(manifests[i]) \subseteq unread

StoreInv == TypeInv /\ OperationInv /\ Restorable /\ LatestResolves

-----------------------------------------------------------------------------
(* A manifest without files and audit log (manifest.rs, Manifest::new) is   *)
(* one and refers to no object.                                             *)
LEMMA NoManifestType ==
    /\ NoManifest \in Manifests
    /\ NoManifest.previous = 0
    /\ NoManifest.audit.cursor = 0
  BY DEF NoManifest, NoAudit, Manifests, Audits

(* What the audit contributor delivers is typed, and its cursor is at most  *)
(* the row it ran up to (backend.rs, upload: set_audit_cursor).             *)
LEMMA DeliveryType ==
    ASSUME TypeInv, NEW s \in Rows, seq <= s, LatestLoads,
           NEW a \in Deliveries(latest, s)
    PROVE  a \in Audits /\ a.cursor <= s
<1> DEFINE c == PreviousAudit(latest).cursor
<1>1. c \in Nat /\ c <= seq
  BY SMTT(30) DEF TypeInv, StoreTypeOK, LatestLoads, PreviousAudit, NoAudit, Manifests, Audits, Rows
<1>2. CASE a = NoAudit
  BY SMTT(30), <1>2, BoundsAssumption DEF NoAudit, Audits, Rows
<1>3. CASE a = Baseline(s)
  BY SMTT(30), <1>3, BoundsAssumption DEF Baseline, Audits, Rows
<1>4. CASE c # 0 /\ a = Advance(c, s)
  <2>1. s > c => <<c, s>> \in Rows \X Rows
    BY SMTT(30), <1>1, <1>4, BoundsAssumption DEF TypeInv, Rows
  <2>2. a.deltas \in SUBSET (Rows \X Rows)
    BY <2>1, <1>4 DEF Advance
  <2>3. a = [base |-> 0, deltas |-> a.deltas, cursor |-> s]
    BY <1>4 DEF Advance
  <2> QED BY SMTT(30), <2>2, <2>3, BoundsAssumption DEF Audits, Rows
<1> QED BY <1>2, <1>3, <1>4 DEF Deliveries

(* A completed manifest is typed, has the cursor of its run, and refers to  *)
(* what the run uploaded or the previous manifest refers to (backend.rs,    *)
(* upload: inheritance of the baseline and of earlier deltas).              *)
LEMMA CompleteManifest ==
    ASSUME TypeInv, draft.previous = 0 \/ draft.previous \in Ids
    PROVE  /\ Complete(draft) \in Manifests
           /\ Complete(draft).previous = draft.previous
           /\ Complete(draft).audit.cursor <= seq
           /\ \A k \in object_keys(Complete(draft)) :
                \/ k \in object_keys(draft)
                \/ \E i \in Ids : k \in object_keys(manifests[i])
<1> DEFINE own == draft.audit
           old == PreviousAudit(draft.previous)
           new == InheritAudit(own, old)
<1>1. draft \in Manifests /\ own \in Audits
  BY DEF TypeInv, StoreTypeOK, Manifests
<1>2. old \in Audits
  BY DEF TypeInv, StoreTypeOK, Manifests, PreviousAudit, NoAudit, Audits
<1>3. /\ new.base \in {own.base, old.base} /\ new.cursor = own.cursor
      /\ new.deltas \subseteq own.deltas \cup old.deltas
      /\ new \in Audits
  BY <1>1, <1>2 DEF InheritAudit, Audits
<1>4. /\ Complete(draft).previous = draft.previous
      /\ Complete(draft).files = draft.files
      /\ Complete(draft).audit = new
      /\ Complete(draft) \in Manifests
  BY <1>1, <1>3 DEF Complete, Manifests
<1>5. draft.previous = 0 => old.base = 0 /\ old.deltas = {}
  BY DEF PreviousAudit, NoAudit
<1>6. draft.previous # 0 => draft.previous \in Ids /\ old = manifests[draft.previous].audit
  BY DEF PreviousAudit
<1>7. ASSUME NEW k \in object_keys(Complete(draft))
      PROVE  \/ k \in object_keys(draft)
             \/ \E i \in Ids : k \in object_keys(manifests[i])
  <2>1. CASE \E c \in draft.files : k = File(c)
    BY <2>1 DEF object_keys
  <2>2. CASE \E d \in own.deltas : k = Delta(d)
    BY <2>2 DEF object_keys
  <2>3. CASE \E d \in old.deltas : k = Delta(d)
    <3>1. k \in object_keys(manifests[draft.previous])
      BY <2>3, <1>5, <1>6 DEF object_keys
    <3> QED BY <3>1, <2>3, <1>5, <1>6
  <2>4. CASE own.base # 0 /\ k = Base(own.base)
    BY <2>4 DEF object_keys
  <2>5. CASE old.base # 0 /\ k = Base(old.base)
    <3>1. k \in object_keys(manifests[draft.previous])
      BY <2>5, <1>5, <1>6 DEF object_keys
    <3> QED BY <3>1, <2>5, <1>5, <1>6
  <2>6. \/ \E c \in draft.files : k = File(c)
        \/ \E d \in new.deltas : k = Delta(d)
        \/ new.base # 0 /\ k = Base(new.base)
    BY <1>4, <1>7 DEF object_keys
  <2> QED BY <2>1, <2>2, <2>3, <2>4, <2>5, <2>6, <1>3
<1> QED BY <1>3, <1>4, <1>7 DEF TypeInv

-----------------------------------------------------------------------------
(* The steps that add no manifest and draw no id keep the types: they take  *)
(* manifests away, or change LATEST, the operation's state and the faults   *)
(* (engine.rs, gc, reclaim_unreferenced_objects, delete_restore_point).     *)
LEMMA TypeFrame ==
    ASSUME TypeInv,
           made' = made, seq' = seq, latest' \in 0 .. made, faults' \in Nat,
           draft' = draft \/ draft' = NoManifest,
           pc' \in {"idle", "upload", "latest", "gc", "expire", "reclaim", "sweep", "repoint"},
           pc' = "upload" => pc = "upload" /\ draft' = draft,
           keep' \subseteq 0 .. made, cut' \in BOOLEAN,
           Ids' \subseteq Ids,
           \A i \in Ids' : manifests'[i] = manifests[i]
    PROVE  TypeInv'
<1>1. draft' \in Manifests /\ draft'.audit.cursor <= seq
  BY SMTT(30), NoManifestType, BoundsAssumption DEF TypeInv, StoreTypeOK, Rows
<1> QED BY <1>1 DEF TypeInv, StoreTypeOK, Manifests, Audits, Rows

(* The initial target is empty.                                             *)
LEMMA InitInv == StoreInit => StoreInv
<1> SUFFICES ASSUME StoreInit PROVE StoreInv
  OBVIOUS
<1>1. Ids = {}
  BY DEF StoreInit, Ids
<1>2. TypeInv
  <2>1. draft \in Manifests /\ draft.audit.cursor <= seq
    BY SMTT(30), NoManifestType DEF StoreInit
  <2>2. seq \in Rows
    BY SMTT(30), BoundsAssumption DEF StoreInit, Rows
  <2>3. StoreTypeOK
    <3>1. cut \in BOOLEAN
      BY DEF StoreInit
    <3>2. latest \in 0 .. made /\ made \in Nat /\ seq \in Nat /\ faults \in Nat
      BY SMTT(30) DEF StoreInit
    <3>3. pc = "idle" /\ keep = {}
      BY DEF StoreInit
    <3> QED BY <1>1, <2>1, <3>1, <3>2, <3>3 DEF StoreTypeOK
  <2> QED BY <1>1, <2>1, <2>2, <2>3 DEF TypeInv
<1> QED
  BY <1>1, <1>2 DEF StoreInit, StoreInv, OperationInv, Restorable, LatestResolves, LatestLoads

(* BeginRun (manager.rs, run_locked): the id is new and LATEST resolves.    *)
LEMMA BeginRunInv == StoreInv /\ BeginRun => StoreInv'
<1> SUFFICES ASSUME StoreInv, BeginRun PROVE StoreInv'
  OBVIOUS
<1>1. PICK files \in (SUBSET Files) \ {{}}, audit \in Deliveries(latest, seq') :
        draft' = [previous |-> latest, files |-> files, audit |-> audit]
  BY DEF BeginRun
<1>2. seq' \in Rows /\ seq <= seq'
  BY SMTT(30), BoundsAssumption DEF BeginRun, StoreInv, TypeInv, Rows
<1>3. audit \in Audits /\ audit.cursor <= seq'
  BY <1>2, DeliveryType DEF StoreInv, BeginRun
<1>4. UNCHANGED <<objects, manifests, latest, Ids, keep, faults, unread, cut>>
  BY DEF BeginRun, store, history, Ids
<1>5. TypeInv'
  <2>1. latest \in Nat /\ latest < made' /\ made' \in Nat /\ made' = made + 1
    BY SMTT(30) DEF BeginRun, StoreInv, TypeInv, StoreTypeOK
  <2>2. draft' \in Manifests /\ draft'.previous = latest /\ draft'.audit.cursor <= seq'
    BY <1>1, <1>3, <2>1 DEF Manifests
  <2>3. Ids' \subseteq 1 .. made' /\ latest' \in 0 .. made' /\ keep' \subseteq 0 .. made'
    BY SMTT(30), <1>4, <2>1 DEF StoreInv, TypeInv, StoreTypeOK
  <2>4. \A i \in Ids' : /\ manifests'[i] \in Manifests /\ manifests'[i].previous < i
                        /\ manifests'[i].audit.cursor <= seq'
    <3> TAKE i \in Ids'
    <3>1. manifests[i] \in Manifests /\ manifests[i].previous < i /\ manifests[i].audit.cursor <= seq
      BY <1>4 DEF StoreInv, TypeInv, StoreTypeOK
    <3>2. manifests[i].audit.cursor \in Nat
      BY <3>1 DEF Manifests, Audits
    <3> QED BY SMTT(30), <1>2, <1>4, <3>1, <3>2, BoundsAssumption DEF StoreInv, TypeInv, Rows
  <2>5. pc' = "upload" /\ faults' \in Nat /\ cut' \in BOOLEAN /\ seq' \in Nat
    BY SMTT(30), <1>2, <1>4, BoundsAssumption DEF BeginRun, StoreInv, TypeInv, StoreTypeOK, Rows
  <2> QED BY <1>2, <2>1, <2>2, <2>3, <2>4, <2>5 DEF TypeInv, StoreTypeOK, Rows
<1>6. OperationInv'
  <2>1. object_keys(draft)' = todo'
    BY DEF BeginRun, object_keys
  <2>2. draft'.previous = latest
    BY <1>1
  <2> QED BY <1>4, <2>1, <2>2 DEF BeginRun, OperationInv, LatestLoads
<1>7. Restorable' /\ LatestResolves'
  BY <1>4 DEF StoreInv, Restorable, LatestResolves, LatestLoads, BeginRun, object_keys
<1> QED BY <1>5, <1>6, <1>7 DEF StoreInv

(* CommitManifest (engine.rs, commit): every object of the completed        *)
(* manifest was uploaded by this run or belongs to the previous manifest.   *)
LEMMA CommitManifestInv == StoreInv /\ CommitManifest => StoreInv'
<1> SUFFICES ASSUME StoreInv, CommitManifest PROVE StoreInv'
  OBVIOUS
<1> DEFINE m == Complete(draft)
<1>1. /\ m \in Manifests /\ m.previous = draft.previous /\ m.audit.cursor <= seq
      /\ \A k \in object_keys(m) : \/ k \in object_keys(draft)
                                   \/ \E i \in Ids : k \in object_keys(manifests[i])
  BY CompleteManifest DEF StoreInv, OperationInv, CommitManifest
<1> HIDE DEF m
<1>2. UNCHANGED <<objects, latest, made, seq, draft, keep, faults, unread, cut>>
  BY DEF CommitManifest, history
<1>3. /\ Ids' = Ids \cup {made} /\ manifests'[made] = m
      /\ \A i \in Ids : i # made => manifests'[i] = manifests[i]
  BY DEF CommitManifest, AddManifest, Ids, m
<1>4. draft.previous < made /\ draft.previous \in Nat /\ made \in Nat
  BY DEF StoreInv, TypeInv, StoreTypeOK, CommitManifest, Manifests
<1>5. TypeInv'
  <2>1. Ids' \subseteq 1 .. made
    <3>1. made \in 1 .. made
      BY SMTT(30), <1>4
    <3>2. Ids \subseteq 1 .. made
      BY DEF StoreInv, TypeInv, StoreTypeOK
    <3> QED BY <1>3, <3>1, <3>2
  <2>2. \A i \in Ids' : /\ manifests'[i] \in Manifests /\ manifests'[i].previous < i
                        /\ manifests'[i].audit.cursor <= seq
    BY <1>1, <1>3, <1>4 DEF StoreInv, TypeInv, StoreTypeOK
  <2>3. pc' = "latest"
    BY DEF CommitManifest
  <2> QED BY <1>2, <2>1, <2>2, <2>3 DEF StoreInv, TypeInv, StoreTypeOK
<1>6. OperationInv'
  BY <1>2, <1>3 DEF CommitManifest, OperationInv
<1>7. Restorable'
  <2>1. object_keys(m) \subseteq objects \cup unread
    BY <1>1 DEF StoreInv, Restorable, OperationInv, CommitManifest
  <2>2. \A i \in Ids' : object_keys(manifests'[i]) \subseteq objects \cup unread
    BY <1>3, <2>1 DEF StoreInv, Restorable
  <2> QED BY <1>2, <2>2 DEF Restorable, object_keys
<1>8. LatestResolves'
  BY <1>2, <1>3 DEF StoreInv, LatestResolves, LatestLoads, CommitManifest
<1> QED BY <1>5, <1>6, <1>7, <1>8 DEF StoreInv

(* A step that adds no manifest, and deletes no object of one that stays,   *)
(* leaves every manifest restorable.                                        *)
LEMMA RestorableFrame ==
    ASSUME Restorable, Ids' \subseteq Ids, unread \subseteq unread',
           \A i \in Ids' : manifests'[i] = manifests[i],
           \A i \in Ids' : object_keys(manifests[i]) \cap objects \subseteq objects' \cup unread'
    PROVE  Restorable'
<1> SUFFICES ASSUME NEW i \in Ids'
             PROVE  object_keys(manifests'[i]) \subseteq objects' \cup unread'
  BY DEF Restorable, object_keys
<1> QED BY DEF Restorable

(* The other steps of a run up to the sweep (backend.rs, upload).           *)
LEMMA UploadInv ==
    ASSUME StoreInv, NEW k \in todo, upload_artifact(k)
    PROVE  StoreInv'
<1>1. UNCHANGED <<manifests, Ids, latest, made, seq, pc, draft, keep, faults, unread, cut>>
  BY DEF upload_artifact, history, Ids
<1>2. pc = "upload" /\ objects' = objects \cup {k} /\ todo' = todo \ {k}
  BY DEF upload_artifact
<1>3. TypeInv'
  BY <1>1 DEF StoreInv, TypeInv, StoreTypeOK
<1>4. OperationInv'
  BY <1>1, <1>2 DEF StoreInv, OperationInv, object_keys
<1>5. Restorable'
  BY <1>1, <1>2, RestorableFrame DEF StoreInv
<1>6. LatestResolves'
  BY <1>1 DEF StoreInv, LatestResolves, LatestLoads
<1> QED BY <1>3, <1>4, <1>5, <1>6 DEF StoreInv

(* LATEST moves to the manifest that was just written (engine.rs, commit).  *)
LEMMA CommitLatestInv == StoreInv /\ CommitLatest => StoreInv'
<1> SUFFICES ASSUME StoreInv, CommitLatest PROVE StoreInv'
  OBVIOUS
<1>1. UNCHANGED <<objects, manifests, Ids, made, seq, todo, keep, faults, unread, cut>>
  BY DEF CommitLatest, history, Ids
<1>2. pc' = "gc" /\ latest' = made /\ made \in Ids /\ draft' = NoManifest
  BY DEF CommitLatest, StoreInv, OperationInv
<1>3. TypeInv'
  <2>1. latest' \in 0 .. made /\ faults \in Nat /\ keep \subseteq 0 .. made /\ cut \in BOOLEAN
    BY SMTT(30), <1>2 DEF StoreInv, TypeInv, StoreTypeOK
  <2> QED BY <1>1, <1>2, <2>1, TypeFrame DEF StoreInv
<1>4. OperationInv'
  BY <1>2 DEF OperationInv
<1>5. Restorable'
  BY <1>1, RestorableFrame DEF StoreInv
<1>6. LatestResolves'
  BY <1>1, <1>2 DEF LatestResolves, LatestLoads
<1> QED BY <1>3, <1>4, <1>5, <1>6 DEF StoreInv

-----------------------------------------------------------------------------
(* A listing that skips manifests (engine.rs, load_all_manifests) counts    *)
(* faults and remembers the keys of those it skipped.                       *)
LEMMA SkipsFact ==
    ASSUME TypeInv, NEW skipped \in SUBSET Ids, Skips(skipped)
    PROVE  /\ faults' \in Nat
           /\ unread \subseteq unread'
           /\ \A i \in skipped : object_keys(manifests[i]) \subseteq unread'
<1>1. faults' \in Nat
  BY SMTT(30) DEF Skips, Spend, TypeInv, StoreTypeOK
<1> QED BY <1>1 DEF Skips

(* The retention sweep protects the manifest of LATEST (engine.rs, gc).     *)
LEMMA GcSelectInv == StoreInv /\ GcSelect => StoreInv'
<1> SUFFICES ASSUME StoreInv, GcSelect PROVE StoreInv'
  OBVIOUS
<1>1. PICK skipped \in SUBSET Ids :
        /\ Skips(skipped)
        /\ keep' = select_manifests(list_restore_points(skipped)) \cup {latest}
  BY DEF GcSelect
<1>2. UNCHANGED <<objects, manifests, Ids, latest, made, seq, draft, todo, cut>>
  BY DEF GcSelect, store, Ids
<1>3. pc = "gc" /\ pc' = "expire"
  BY DEF GcSelect
<1>4. faults' \in Nat /\ unread \subseteq unread'
  BY <1>1, SkipsFact DEF StoreInv
<1>5. keep' \subseteq 0 .. made /\ latest \in keep'
  <2>1. select_manifests(list_restore_points(skipped)) \subseteq Ids
    BY DEF select_manifests
  <2>2. Ids \subseteq 0 .. made /\ latest \in 0 .. made
    BY SMTT(30) DEF StoreInv, TypeInv, StoreTypeOK
  <2> QED BY <1>1, <2>1, <2>2
<1>6. TypeInv'
  BY <1>2, <1>3, <1>4, <1>5, TypeFrame DEF StoreInv, TypeInv, StoreTypeOK
<1>7. OperationInv'
  BY <1>2, <1>3, <1>5 DEF OperationInv
<1>8. Restorable'
  BY <1>2, <1>4, RestorableFrame DEF StoreInv
<1>9. LatestResolves'
  BY <1>2, <1>3 DEF StoreInv, LatestResolves, LatestLoads
<1> QED BY <1>6, <1>7, <1>8, <1>9 DEF StoreInv

(* What a manifest's removal leaves (engine.rs, gc, delete_restore_point).  *)
LEMMA WithoutFact ==
    ASSUME NEW id \in Ids, manifests' = Without(id)
    PROVE  Ids' = Ids \ {id} /\ \A i \in Ids' : manifests'[i] = manifests[i]
  BY DEF Without, Ids

(* An expired manifest is not that of LATEST (engine.rs, gc).               *)
LEMMA ExpireInv ==
    ASSUME StoreInv, NEW id \in Ids, Expire(id)
    PROVE  StoreInv'
<1>1. Ids' = Ids \ {id} /\ \A i \in Ids' : manifests'[i] = manifests[i]
  BY WithoutFact DEF Expire
<1>2. UNCHANGED <<objects, latest, made, seq, pc, draft, todo, keep, faults, unread, cut>>
  BY DEF Expire, history
<1>3. pc = "expire" /\ id # latest
  BY DEF Expire, StoreInv, OperationInv
<1>4. TypeInv'
  BY <1>1, <1>2, <1>3, TypeFrame DEF StoreInv, TypeInv, StoreTypeOK
<1>5. OperationInv'
  BY <1>2, <1>3 DEF StoreInv, OperationInv
<1>6. Restorable'
  BY <1>1, <1>2, RestorableFrame DEF StoreInv
<1>7. LatestResolves'
  BY <1>1, <1>2, <1>3 DEF StoreInv, LatestResolves, LatestLoads
<1> QED BY <1>4, <1>5, <1>6, <1>7 DEF StoreInv

(* The end of the expiry (engine.rs, gc).                                   *)
LEMMA ExpireDoneInv == StoreInv /\ ExpireDone => StoreInv'
<1> SUFFICES ASSUME StoreInv, ExpireDone PROVE StoreInv'
  OBVIOUS
<1>1. UNCHANGED <<objects, manifests, Ids, latest, made, seq, draft, todo, faults, unread, cut>>
  BY DEF ExpireDone, store, history, Ids
<1>2. pc = "expire" /\ pc' = "reclaim" /\ keep' = {}
  BY DEF ExpireDone
<1>3. TypeInv'
  BY <1>1, <1>2, TypeFrame DEF StoreInv, TypeInv, StoreTypeOK
<1>4. OperationInv'
  BY <1>2 DEF OperationInv
<1>5. Restorable'
  BY <1>1, RestorableFrame DEF StoreInv
<1>6. LatestResolves'
  BY <1>1, <1>2 DEF StoreInv, LatestResolves, LatestLoads
<1> QED BY <1>3, <1>4, <1>5, <1>6 DEF StoreInv

(* The sweep takes for garbage no object of a manifest that was read        *)
(* (engine.rs, reclaim_unreferenced_objects).                               *)
LEMMA ReclaimInv == StoreInv /\ Reclaim => StoreInv'
<1> SUFFICES ASSUME StoreInv, Reclaim PROVE StoreInv'
  OBVIOUS
<1>1. PICK skipped \in SUBSET Ids :
        /\ Skips(skipped)
        /\ todo' = objects \ UNION {object_keys(manifests[i]) : i \in Ids \ skipped}
  BY DEF Reclaim
<1>2. UNCHANGED <<objects, manifests, Ids, latest, made, seq, draft, keep, cut>>
  BY DEF Reclaim, store, Ids
<1>3. pc = "reclaim" /\ pc' = "sweep"
  BY DEF Reclaim
<1>4. /\ faults' \in Nat /\ unread \subseteq unread'
      /\ \A i \in skipped : object_keys(manifests[i]) \subseteq unread'
  BY <1>1, SkipsFact DEF StoreInv
<1>5. TypeInv'
  BY <1>2, <1>3, <1>4, TypeFrame DEF StoreInv, TypeInv, StoreTypeOK
<1>6. OperationInv'
  <2>1. \A i \in Ids : todo' \cap object_keys(manifests[i]) \subseteq unread'
    BY <1>1, <1>4
  <2> QED BY <1>2, <1>3, <2>1 DEF OperationInv, object_keys
<1>7. Restorable'
  BY <1>2, <1>4, RestorableFrame DEF StoreInv
<1>8. LatestResolves'
  BY <1>2, <1>3 DEF StoreInv, LatestResolves, LatestLoads
<1> QED BY <1>5, <1>6, <1>7, <1>8 DEF StoreInv

(* Deleting one object (engine.rs, reclaim_unreferenced_objects).           *)
LEMMA SweepInv ==
    ASSUME StoreInv, NEW k \in todo, Sweep(k)
    PROVE  StoreInv'
<1>1. UNCHANGED <<manifests, Ids, latest, made, seq, pc, draft, keep, faults, unread, cut>>
  BY DEF Sweep, history, Ids
<1>2. pc = "sweep" /\ objects' = objects \ {k} /\ todo' = todo \ {k}
  BY DEF Sweep
<1>3. TypeInv'
  BY <1>1 DEF StoreInv, TypeInv, StoreTypeOK
<1>4. OperationInv'
  BY <1>1, <1>2 DEF StoreInv, OperationInv, object_keys
<1>5. Restorable'
  <2>1. \A i \in Ids : object_keys(manifests[i]) \cap objects \subseteq objects' \cup unread
    BY <1>2 DEF StoreInv, OperationInv
  <2> QED BY <1>1, <2>1, RestorableFrame DEF StoreInv
<1>6. LatestResolves'
  BY <1>1 DEF StoreInv, LatestResolves, LatestLoads
<1> QED BY <1>3, <1>4, <1>5, <1>6 DEF StoreInv

(* The end of the sweep (engine.rs, gc, delete_restore_point).              *)
LEMMA SweepDoneInv == StoreInv /\ SweepDone => StoreInv'
<1> SUFFICES ASSUME StoreInv, SweepDone PROVE StoreInv'
  OBVIOUS
<1>1. UNCHANGED <<objects, manifests, Ids, latest, made, seq, draft, todo, keep, faults, unread, cut>>
  BY DEF SweepDone, store, history, Ids
<1>2. pc = "sweep" /\ pc' = "idle"
  BY DEF SweepDone
<1>3. TypeInv'
  BY <1>1, <1>2, TypeFrame DEF StoreInv, TypeInv, StoreTypeOK
<1>4. OperationInv'
  BY <1>2 DEF OperationInv
<1>5. Restorable'
  BY <1>1, RestorableFrame DEF StoreInv
<1>6. LatestResolves'
  BY <1>1, <1>2 DEF StoreInv, LatestResolves, LatestLoads
<1> QED BY <1>3, <1>4, <1>5, <1>6 DEF StoreInv

(* Deletion by the user (engine.rs, delete_restore_point).                  *)
LEMMA DeleteManifestInv ==
    ASSUME StoreInv, NEW id \in Ids, DeleteManifest(id)
    PROVE  StoreInv'
<1>1. Ids' = Ids \ {id} /\ \A i \in Ids' : manifests'[i] = manifests[i]
  BY WithoutFact DEF DeleteManifest
<1>2. UNCHANGED <<objects, latest, made, seq, draft, todo, keep, faults, unread, cut>>
  BY DEF DeleteManifest, history
<1>3. /\ pc = "idle" /\ pc' \in {"repoint", "reclaim"}
      /\ pc' # "repoint" => latest # id
  BY DEF DeleteManifest
<1>4. TypeInv'
  BY <1>1, <1>2, <1>3, TypeFrame DEF StoreInv, TypeInv, StoreTypeOK
<1>5. OperationInv'
  BY <1>3 DEF OperationInv
<1>6. Restorable'
  BY <1>1, <1>2, RestorableFrame DEF StoreInv
<1>7. LatestResolves'
  BY <1>1, <1>2, <1>3 DEF StoreInv, LatestResolves, LatestLoads
<1> QED BY <1>4, <1>5, <1>6, <1>7 DEF StoreInv

(* LATEST moves to the newest manifest left, or away (engine.rs,            *)
(* delete_restore_point).                                                   *)
LEMMA RepointInv == StoreInv /\ Repoint => StoreInv'
<1> SUFFICES ASSUME StoreInv, Repoint PROVE StoreInv'
  OBVIOUS
<1>1. PICK skipped \in SUBSET Ids : Skips(skipped) /\ (latest' = 0 \/ latest' \in Ids)
  BY DEF Repoint
<1>2. UNCHANGED <<objects, manifests, Ids, made, seq, draft, todo, keep, cut>>
  BY DEF Repoint, Ids
<1>3. pc = "repoint" /\ pc' = "reclaim"
  BY DEF Repoint
<1>4. faults' \in Nat /\ unread \subseteq unread'
  BY <1>1, SkipsFact DEF StoreInv
<1>5. latest' \in 0 .. made
  <2>1. Ids \subseteq 0 .. made /\ 0 \in 0 .. made
    BY SMTT(30) DEF StoreInv, TypeInv, StoreTypeOK
  <2> QED BY <1>1, <2>1
<1>6. TypeInv'
  BY <1>2, <1>3, <1>4, <1>5, TypeFrame DEF StoreInv, TypeInv, StoreTypeOK
<1>7. OperationInv'
  BY <1>3 DEF OperationInv
<1>8. Restorable'
  BY <1>2, <1>4, RestorableFrame DEF StoreInv
<1>9. LatestResolves'
  BY <1>1, <1>2 DEF LatestResolves, LatestLoads
<1> QED BY <1>6, <1>7, <1>8, <1>9 DEF StoreInv

(* An operation that ends early leaves the target as it is (engine.rs, R4). *)
LEMMA AbortInv == StoreInv /\ Abort => StoreInv'
<1> SUFFICES ASSUME StoreInv, Abort PROVE StoreInv'
  OBVIOUS
<1>1. UNCHANGED <<objects, manifests, Ids, latest, made, seq, unread>>
  BY DEF Abort, store, Ids
<1>2. pc' = "idle" /\ draft' = NoManifest /\ keep' = {}
  BY DEF Abort
<1>3. faults' \in Nat
  BY SMTT(30) DEF Abort, Spend, StoreInv, TypeInv, StoreTypeOK
<1>4. cut' \in BOOLEAN /\ (~cut' => ~cut /\ pc # "repoint")
  BY DEF Abort, StoreInv, TypeInv, StoreTypeOK
<1>5. TypeInv'
  BY <1>1, <1>2, <1>3, <1>4, TypeFrame DEF StoreInv, TypeInv, StoreTypeOK
<1>6. OperationInv'
  BY <1>2 DEF OperationInv
<1>7. Restorable'
  BY <1>1, RestorableFrame DEF StoreInv
<1>8. LatestResolves'
  BY <1>1, <1>4 DEF StoreInv, LatestResolves, LatestLoads
<1> QED BY <1>5, <1>6, <1>7, <1>8 DEF StoreInv

(* Every step of a run, a sweep or a deletion preserves the invariant.      *)
LEMMA NextInv == StoreInv /\ [StoreNext]_storeVars => StoreInv'
<1> SUFFICES ASSUME StoreInv, [StoreNext]_storeVars PROVE StoreInv'
  OBVIOUS
<1>1. CASE UNCHANGED storeVars
  <2>1. UNCHANGED <<objects, manifests, Ids, latest, made, seq, pc, draft, todo, keep, faults, unread, cut>>
    BY <1>1 DEF storeVars, store, history, Ids
  <2>2. TypeInv' /\ LatestResolves'
    BY <2>1 DEF StoreInv, TypeInv, StoreTypeOK, LatestResolves, LatestLoads
  <2>3. OperationInv' /\ Restorable'
    BY <2>1 DEF StoreInv, OperationInv, Restorable, object_keys
  <2> QED BY <2>2, <2>3 DEF StoreInv
<1>2. CASE BeginRun
  BY <1>2, BeginRunInv
<1>3. CASE CommitManifest \/ CommitLatest
  BY <1>3, CommitManifestInv, CommitLatestInv
<1>4. CASE \E k \in todo : upload_artifact(k) \/ Sweep(k)
  BY <1>4, UploadInv, SweepInv
<1>5. CASE GcSelect \/ ExpireDone \/ Reclaim \/ SweepDone
  BY <1>5, GcSelectInv, ExpireDoneInv, ReclaimInv, SweepDoneInv
<1>6. CASE Repoint \/ Abort
  BY <1>6, RepointInv, AbortInv
<1>7. CASE \E id \in Ids : Expire(id) \/ DeleteManifest(id)
  BY <1>7, ExpireInv, DeleteManifestInv
<1> QED BY <1>1, <1>2, <1>3, <1>4, <1>5, <1>6, <1>7 DEF StoreNext

(* The invariant of the backup target, for every instance.                  *)
THEOREM TargetInvariant == StoreSpec => []StoreInv
  BY InitInv, NextInv, PTL DEF StoreSpec

(* The target and the operation under way are always well-formed: manifest  *)
(* ids are drawn ids and `previous` leads to older ones, so that load_chain *)
(* (engine.rs) ends.                                                        *)
THEOREM StoreTypeCorrect == StoreSpec => []StoreTypeOK
<1>1. StoreInv => StoreTypeOK
  BY DEF StoreInv, TypeInv
<1> QED BY <1>1, TargetInvariant, PTL

(* A manifest is never without one of its objects, unless it is one of a    *)
(* manifest that a listing could not read (engine.rs, R4 and R6).           *)
THEOREM AlwaysRestorable == StoreSpec => []Restorable
<1>1. StoreInv => Restorable
  BY DEF StoreInv
<1> QED BY <1>1, TargetInvariant, PTL

(* LATEST resolves, whatever the retention policy expires and the user      *)
(* deletes, unless a deletion was cut short (engine.rs, gc and              *)
(* delete_restore_point).                                                   *)
THEOREM LatestAlwaysResolves == StoreSpec => []LatestResolves
<1>1. StoreInv => LatestResolves
  BY DEF StoreInv
<1> QED BY <1>1, TargetInvariant, PTL

-----------------------------------------------------------------------------

(* What makes an audit log whole (AuditWhole, of one manifest).             *)
Whole(a) ==
    a.cursor # 0 =>
        /\ a.base \in 1 .. a.cursor
        /\ \A d \in a.deltas : a.base <= d[1] /\ d[1] < d[2] /\ d[2] <= a.cursor
        /\ \A s \in a.base + 1 .. a.cursor :
             Cardinality({d \in a.deltas : d[1] < s /\ s <= d[2]}) = 1

(* AuditWhole alone is not inductive: a run also has to commit what was     *)
(* delivered for the previous restore point it inherits from.               *)
Delivered == pc = "upload" => draft.audit \in Deliveries(draft.previous, seq)
AuditInv == Delivered /\ AuditWhole

(* AuditWhole says it of every manifest.                                    *)
LEMMA WholeFact == AuditWhole <=> \A i \in Ids : Whole(manifests[i].audit)
  BY DEF AuditWhole, Whole

(* The rows after the previous cursor, added to a whole log, leave it whole:*)
(* the new delta begins where the old ones end, so all of them are inherited*)
(* and each row is in one delta still (backend.rs, upload).                 *)
LEMMA InheritWhole ==
    ASSUME NEW old \in Audits, Whole(old), old.cursor # 0,
           NEW s \in Rows, old.cursor <= s
    PROVE  Whole(InheritAudit(Advance(old.cursor, s), old))
<1> DEFINE own == Advance(old.cursor, s)
           new == InheritAudit(own, old)
           Of(D, r) == {d \in D : d[1] < r /\ r <= d[2]}
<1>1. old.cursor \in Nat /\ old.base \in Nat /\ s \in Nat /\ s # 0
  BY SMTT(30), BoundsAssumption DEF Audits, Rows
<1>2. \A d \in old.deltas : d[1] \in Nat /\ d[2] \in Nat
  BY SMTT(30), BoundsAssumption DEF Audits, Rows
<1>3. own.cursor = s /\ own.base = 0 /\ own.deltas = IF s > old.cursor THEN {<<old.cursor, s>>} ELSE {}
  BY DEF Advance
<1>4. /\ old.base \in 1 .. old.cursor
      /\ \A d \in old.deltas : old.base <= d[1] /\ d[1] < d[2] /\ d[2] <= old.cursor
      /\ \A r \in old.base + 1 .. old.cursor : Cardinality(Of(old.deltas, r)) = 1
  BY DEF Whole
<1>5. new.base = old.base /\ new.cursor = s /\ new.deltas = old.deltas \cup own.deltas
  <2>1. \A d \in old.deltas : \A e \in own.deltas : d[2] <= e[1] /\ d[1] # e[1]
    BY SMTT(30), <1>1, <1>2, <1>3, <1>4
  <2>2. new = [own EXCEPT !.base = old.base, !.deltas = own.deltas \cup {d \in old.deltas :
                 \A e \in own.deltas : d[2] <= e[1] /\ d[1] # e[1]}]
    BY <1>1, <1>3 DEF InheritAudit
  <2>3. new = [own EXCEPT !.base = old.base, !.deltas = own.deltas \cup old.deltas]
    BY <2>1, <2>2
  <2>4. own = [base |-> own.base, deltas |-> own.deltas, cursor |-> own.cursor]
    BY DEF Advance
  <2> QED BY <1>3, <2>3, <2>4
<1> HIDE DEF own, new
<1>6. ASSUME NEW r \in old.base + 1 .. s
      PROVE  Cardinality(Of(new.deltas, r)) = 1
  <2>1. CASE r <= old.cursor
    <3>1. Of(new.deltas, r) = Of(old.deltas, r)
      BY SMTT(30), <1>1, <1>3, <1>5, <2>1
    <3>2. r \in old.base + 1 .. old.cursor
      BY SMTT(30), <1>1, <2>1
    <3>3. Cardinality(Of(old.deltas, r)) = 1
      BY <1>4, <3>2
    <3> HIDE DEF Of
    <3> QED BY <3>1, <3>3
  <2>2. CASE r > old.cursor
    <3>1. Of(old.deltas, r) = {}
      BY SMTT(30), <1>1, <1>2, <1>4, <2>2
    <3>2. own.deltas = {<<old.cursor, s>>}
      BY SMTT(30), <1>1, <1>3, <2>2
    <3>3. Of(new.deltas, r) = {<<old.cursor, s>>}
      BY SMTT(30), <1>1, <1>5, <2>2, <3>1, <3>2
    <3> QED BY <3>3, FS_Singleton
  <2> QED BY SMTT(30), <1>1, <2>1, <2>2
<1>7. \A d \in new.deltas : old.base <= d[1] /\ d[1] < d[2] /\ d[2] <= s
  BY SMTT(30), <1>1, <1>2, <1>3, <1>4, <1>5
<1>8. old.base \in 1 .. s
  BY SMTT(30), <1>1, <1>4
<1> QED BY <1>5, <1>6, <1>7, <1>8 DEF Whole, new, own

(* The manifest a run commits has a whole audit log (engine.rs, commit).    *)
LEMMA CompleteWhole ==
    ASSUME StoreInv, AuditInv, pc = "upload"
    PROVE  Whole(Complete(draft).audit)
<1> DEFINE own == draft.audit
           old == PreviousAudit(draft.previous)
<1>1. Complete(draft).audit = InheritAudit(own, old)
  BY DEF Complete, StoreInv, TypeInv, StoreTypeOK, Manifests
<1>2. old \in Audits /\ old.cursor \in Nat /\ old.cursor <= seq
  BY SMTT(30), BoundsAssumption
  DEF StoreInv, TypeInv, StoreTypeOK, OperationInv, PreviousAudit, NoAudit, Manifests, Audits, Rows
<1>3. Whole(old)
  <2>1. CASE draft.previous = 0
    BY <2>1 DEF PreviousAudit, NoAudit, Whole
  <2>2. CASE draft.previous # 0
    BY <2>2, WholeFact DEF StoreInv, OperationInv, AuditInv, PreviousAudit
  <2> QED BY <2>1, <2>2
<1>4. seq \in Rows /\ seq \in Nat /\ seq # 0
  BY SMTT(30), BoundsAssumption DEF StoreInv, TypeInv, Rows
<1>5. CASE own = NoAudit
  BY SMTT(30), <1>1, <1>5 DEF InheritAudit, NoAudit, Whole
<1>6. CASE own = Baseline(seq)
  <2>1. InheritAudit(own, old) = Baseline(seq)
    BY SMTT(30), <1>4, <1>6 DEF InheritAudit, Baseline
  <2> QED BY SMTT(30), <1>1, <1>4, <2>1 DEF Baseline, Whole
<1>7. CASE old.cursor # 0 /\ own = Advance(old.cursor, seq)
  BY <1>1, <1>2, <1>3, <1>4, <1>7, InheritWhole
<1> QED BY <1>5, <1>6, <1>7 DEF AuditInv, Delivered, Deliveries

(* A step that adds no manifest, and is no begin of a run, leaves the logs  *)
(* of the manifests and what was delivered alone.                           *)
LEMMA AuditFrame ==
    ASSUME AuditInv, Ids' \subseteq Ids, \A i \in Ids' : manifests'[i] = manifests[i],
           pc' = "upload" => pc = "upload" /\ UNCHANGED <<manifests, draft, seq>>
    PROVE  AuditInv'
<1>1. AuditWhole'
  BY SMTT(30) DEF AuditInv, AuditWhole
<1>2. Delivered'
  BY DEF AuditInv, Delivered, Deliveries, PreviousAudit, Advance, Baseline
<1> QED BY <1>1, <1>2 DEF AuditInv

(* Every step keeps it: a run begins with a delivery and commits a whole    *)
(* log, and everything else only takes manifests away.                      *)
LEMMA AuditNext == StoreInv /\ AuditInv /\ [StoreNext]_storeVars => AuditInv'
<1> SUFFICES ASSUME StoreInv, AuditInv, [StoreNext]_storeVars PROVE AuditInv'
  OBVIOUS
<1>1. CASE BeginRun
  <2>1. PICK files \in (SUBSET Files) \ {{}}, audit \in Deliveries(latest, seq') :
          draft' = [previous |-> latest, files |-> files, audit |-> audit]
    BY <1>1 DEF BeginRun
  <2>2. UNCHANGED manifests
    BY <1>1 DEF BeginRun, store
  <2>3. Delivered'
    BY <2>1, <2>2 DEF Delivered, Deliveries, PreviousAudit
  <2> QED BY <2>2, <2>3 DEF AuditInv, AuditWhole, Ids
<1>2. CASE CommitManifest
  <2>1. pc = "upload" /\ pc' = "latest"
    BY <1>2 DEF CommitManifest
  <2>2. /\ Ids' = Ids \cup {made} /\ manifests'[made] = Complete(draft)
        /\ \A i \in Ids : i # made => manifests'[i] = manifests[i]
    BY <1>2 DEF CommitManifest, AddManifest, Ids
  <2>3. \A i \in Ids' : Whole(manifests'[i].audit)
    BY <2>1, <2>2, CompleteWhole, WholeFact DEF AuditInv
  <2>4. AuditWhole'
    BY <2>3 DEF AuditWhole, Whole
  <2> QED BY <2>1, <2>4 DEF AuditInv, Delivered
<1>3. CASE \E k \in todo : upload_artifact(k) \/ Sweep(k)
  BY <1>3, AuditFrame DEF upload_artifact, Sweep, Ids
<1>4. CASE CommitLatest \/ GcSelect \/ ExpireDone \/ Reclaim \/ SweepDone \/ Repoint \/ Abort
  <2>1. UNCHANGED manifests /\ pc' # "upload"
    BY <1>4 DEF CommitLatest, GcSelect, ExpireDone, Reclaim, SweepDone, Repoint, Abort, store
  <2> QED BY <2>1, AuditFrame DEF Ids
<1>5. CASE \E id \in Ids : Expire(id) \/ DeleteManifest(id)
  <2>1. PICK id \in Ids : manifests' = Without(id) /\ pc' # "upload"
    BY <1>5 DEF Expire, DeleteManifest
  <2> QED BY <2>1, WithoutFact, AuditFrame
<1>6. CASE UNCHANGED storeVars
  BY <1>6, AuditFrame DEF storeVars, store, Ids
<1> QED BY <1>1, <1>2, <1>3, <1>4, <1>5, <1>6 DEF StoreNext

(* A restore point's audit log is whole: its baseline and deltas give every *)
(* row up to its cursor once, whichever restore points before it were       *)
(* deleted, expired or never committed (backend.rs, upload; manifest.rs).   *)
THEOREM AuditAlwaysWhole == StoreSpec => []AuditWhole
<1>1. StoreInit => AuditInv
  BY DEF StoreInit, AuditInv, Delivered, AuditWhole, Ids
<1>2. AuditInv => AuditWhole
  BY DEF AuditInv
<1> QED BY <1>1, <1>2, AuditNext, TargetInvariant, PTL DEF StoreSpec
=============================================================================
