------------------------------ MODULE Reading ------------------------------
(***************************************************************************)
(* What a reader is shown and what they get: Queries decides which messages *)
(* of the index a request may see, Content puts together the message that is *)
(* opened.  load_readable_with_access is where they meet: it hands on the   *)
(* envelope it read or refuses, and shares no other state with the blobs.   *)
(* So a run looks at either, with the other at rest.                        *)
(***************************************************************************)
EXTENDS Queries, Content

NoHolding == [mails |-> << >>, legacy |-> << >>, arriving |-> {}, reports |-> << >>, faults |-> 0]
ASSUME NoHoldingAssumption == NoHolding \in Holdings

\* At rest: an archive of no messages, or one directory nobody asks about.
QueriesAtRest == directory = (CHOOSE d \in Directories : TRUE) /\ licensed

ReadingInit == Init /\ ContentInit /\ (holding = NoHolding \/ QueriesAtRest)

AskedOf == holding = NoHolding /\ Next /\ UNCHANGED contentVars
Opened == holding # NoHolding /\ ContentNext /\ UNCHANGED vars

ReadingSpec == ReadingInit /\ [][AskedOf \/ Opened]_<<vars, contentVars>>
=============================================================================
