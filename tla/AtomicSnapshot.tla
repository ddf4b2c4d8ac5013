-------------------------- MODULE AtomicSnapshot ---------------------------
(***************************************************************************)
(* What a backup promises: the restore point it hands over is the content   *)
(* of the archive at one single moment, although it is copied layer by      *)
(* layer while the server keeps running.                                    *)
(***************************************************************************)
VARIABLES
    archive,    \* the content of all storage layers, as one value
    point       \* the content of the last restore point

(* Content writes change the archive and never a restore point.             *)
Write == archive' # archive /\ point' = point

(* A capture copies the whole archive at once.                              *)
Capture == point' = archive /\ archive' = archive

Next == Write \/ Capture

Spec == [][Next]_<<archive, point>>
=============================================================================
