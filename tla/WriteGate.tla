----------------------------- MODULE WriteGate -----------------------------
(***************************************************************************)
(* The process-wide write gate (`WriteGate`, WRITE_GATE). Every content     *)
(* write acquires a guard; a backup pauses the gate and drains the guards.  *)
(* Each atomic access of the code is a step of its own. An acquisition may  *)
(* be nested in another one of the same task (the account purge acquires    *)
(* again for the attachment index): Outer gives the enclosing acquisition.  *)
(*                                                                          *)
(* pause() is a Release store and drain() begins with an Acquire load of    *)
(* another location, which neither the Rust memory model nor x86 orders:    *)
(* the store may still be invisible to other threads when the load is done  *)
(* (PauseLate, StoreVisible). Pause is the interleaving semantics.          *)
(***************************************************************************)
EXTENDS Naturals, FiniteSets

CONSTANTS
    Acquirers,      \* acquisitions of the gate: acquire() or check() calls
    Outer,          \* Outer[q]: the acquisition q is nested in, or NoOuter
    NoOuter

ASSUME AcquirersAssumption == IsFiniteSet(Acquirers)
ASSUME OuterAssumption == /\ NoOuter \notin Acquirers
                          /\ Outer \in [Acquirers -> Acquirers \cup {NoOuter}]

VARIABLES
    paused,         \* the flag as other threads see it
    buffered,       \* the pause store sits in the backup thread's buffer
    in_flight,
    acq             \* acq[q]: where acquisition q is

gateVars == <<paused, buffered, in_flight, acq>>

(* "added": counted, the flag not yet loaded; "backout": saw the flag, not  *)
(* yet uncounted; "waiting": parked on `notify`; "held": owns a WriteGuard. *)
AcqStates == {"none", "added", "backout", "waiting", "held"}

GateInit ==
    /\ paused = FALSE
    /\ buffered = FALSE
    /\ in_flight = 0
    /\ acq = [q \in Acquirers |-> "none"]

Move(q, s) == acq' = [acq EXCEPT ![q] = s]

(* The task of q may run q: its enclosing guard, if any, is held.           *)
OuterHeld(q) == Outer[q] # NoOuter => acq[Outer[q]] = "held"

(* No acquisition nested in q is under way.                                 *)
NoInner(q) == \A p \in Acquirers : Outer[p] = q => acq[p] = "none"

-----------------------------------------------------------------------------
(* try_admit, first access: in_flight.fetch_add(1).                         *)
AdmitAdd(q) ==
    /\ acq[q] \in {"none", "waiting"}
    /\ OuterHeld(q)
    /\ in_flight' = in_flight + 1
    /\ Move(q, "added")
    /\ UNCHANGED <<paused, buffered>>

(* Mutant of AdmitCheck: the count alone admits the write.                  *)
AdmitUnchecked(q) ==
    /\ acq[q] = "added"
    /\ Move(q, "held")
    /\ UNCHANGED <<paused, buffered, in_flight>>

(* try_admit, second access: load the flag; join, or back out.              *)
AdmitCheck(q) ==
    /\ acq[q] = "added"
    /\ Move(q, IF paused THEN "backout" ELSE "held")
    /\ UNCHANGED <<paused, buffered, in_flight>>

(* Mutant of BackOut: a refused acquisition stays counted.                  *)
BackOutCounted(q) ==
    /\ acq[q] = "backout"
    /\ \E s \in {"waiting", "none"} : Move(q, s)
    /\ UNCHANGED <<paused, buffered, in_flight>>

(* try_admit, third access: in_flight.fetch_sub(1). acquire() then waits    *)
(* for its next try, check() fails at once.                                 *)
BackOut(q) ==
    /\ acq[q] = "backout"
    /\ in_flight' = in_flight - 1
    /\ \E s \in {"waiting", "none"} : Move(q, s)
    /\ UNCHANGED <<paused, buffered>>

(* Mutant of GiveUp: an acquirer that holds an outer guard never times out. *)
GiveUpOutermost(q) ==
    /\ acq[q] = "waiting"
    /\ Outer[q] = NoOuter
    /\ Move(q, "none")
    /\ UNCHANGED <<paused, buffered, in_flight>>

(* acquire() reaches its deadline and fails.                                *)
GiveUp(q) ==
    /\ acq[q] = "waiting"
    /\ Move(q, "none")
    /\ UNCHANGED <<paused, buffered, in_flight>>

(* WriteGuard::drop.                                                        *)
DropGuard(q) ==
    /\ acq[q] = "held"
    /\ NoInner(q)
    /\ in_flight' = in_flight - 1
    /\ Move(q, "none")
    /\ UNCHANGED <<paused, buffered>>

(* pause(): the store is visible at once.                                   *)
Pause == paused' = TRUE /\ UNCHANGED <<buffered, in_flight, acq>>

(* pause(): the store goes to the buffer of the processor.                  *)
PauseLate == buffered' = TRUE /\ UNCHANGED <<paused, in_flight, acq>>

(* The buffered store reaches memory.                                       *)
StoreVisible ==
    /\ buffered
    /\ paused' = TRUE
    /\ buffered' = FALSE
    /\ UNCHANGED <<in_flight, acq>>

(* resume(), whose store follows the pause store in the same buffer.        *)
Resume ==
    /\ paused' = FALSE
    /\ buffered' = FALSE
    /\ UNCHANGED <<in_flight, acq>>

(* drain() returns when a load of in_flight yields zero.                    *)
Drained == in_flight = 0

GateTypeOK ==
    /\ paused \in BOOLEAN
    /\ buffered \in BOOLEAN
    /\ in_flight \in Nat
    /\ acq \in [Acquirers -> AcqStates]

(* The acquisitions the counter counts.                                     *)
Counted == {q \in Acquirers : acq[q] \in {"added", "backout", "held"}}
Holders == {q \in Acquirers : acq[q] = "held"}

(* The counter is exact: no path leaks a count or gives one back twice,     *)
(* which would stall drain() for ever or let it return early.               *)
CountExact == in_flight = Cardinality(Counted)
=============================================================================
