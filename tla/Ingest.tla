------------------------------- MODULE Ingest -------------------------------
(***************************************************************************)
(* How mail from outside enters the archive: a worker (an SMTP session, an *)
(* import) takes the write gate, looks the content up in the dedup cache,  *)
(* queues a document and remembers the content.  The index writer commits  *)
(* what is queued.  Archive.tla has the same path in full; here it is what *)
(* the senders of the mail see of it.                                      *)
(***************************************************************************)
EXTENDS Naturals, Sequences, FiniteSets, Bags, SequencesExt

CONSTANTS
    Mail,      \* the messages
    Body,      \* the lines of a message, by what they mean to the readers below
    Sessions,  \* SMTP sessions that can be open
    Importer,  \* the import task
    Loads,     \* what is sent, uploaded and configured in a run
    MaxFaults  \* bound on faults

VARIABLES
    load,    \* the load, chosen at the beginning
    work,    \* extract_envelope_core of a worker
    queue,   \* documents on their way to the index writer
    store,   \* documents committed
    dedup,   \* the dedup cache
    paused,  \* the write gate is closed by a backup
    claimed, \* documents whose sender has been told they are archived
    fuel,    \* faults left
    past     \* which known faults have been met

ingest == <<load, work, queue, store, dedup, paused, claimed, fuel, past>>

Workers == Sessions \cup {Importer}
NoDoc == [box |-> "none", content |-> <<>>]
Rest == [pc |-> "rest", doc |-> NoDoc, outcome |-> "none"]

\* A line of a message, told apart from the lines of the others.
Text(m) == [k \in DOMAIN Body[m] |-> <<m, Body[m][k]>>]
Doc(b, c) == [box |-> b, content |-> c]
Docs == BagToSet(queue) \cup BagToSet(store)

IngestInit ==
    /\ load \in Loads
    /\ work = [w \in Workers |-> Rest]
    /\ queue = EmptyBag /\ store = EmptyBag /\ dedup = {} /\ claimed = {}
    /\ paused = FALSE /\ fuel = MaxFaults /\ past = {}

Fault == fuel > 0 /\ fuel' = fuel - 1

\* The worker is asked to archive a document.
Begin(w, d) == work' = [work EXCEPT ![w] = [pc |-> "gate", doc |-> d, outcome |-> "none"]]
Done(w, o) == work' = [work EXCEPT ![w].pc = "done", ![w].outcome = o]

\* WRITE_GATE.acquire: past its time limit the call fails.
acquire(w) ==
    /\ work[w].pc = "gate"
    /\ IF paused THEN Done(w, "error") ELSE work' = [work EXCEPT ![w].pc = "check"]
    /\ UNCHANGED <<load, queue, store, dedup, paused, claimed, fuel, past>>

\* Another worker is between the look-up and the insert of the same content.
Crossing(w) == \E v \in Workers \ {w} : work[v].pc \in {"queue", "insert"} /\ work[v].doc = work[w].doc

\* Mutant: the content is remembered when it is looked up.
contains_or_insert(w) ==
    /\ work[w].pc = "check"
    /\ IF work[w].doc \in dedup THEN Done(w, "duplicate")
       ELSE work' = [work EXCEPT ![w].pc = "queue"]
    /\ dedup' = dedup \cup {work[w].doc}
    /\ UNCHANGED <<load, queue, store, paused, claimed, fuel, past>>

contains(w) ==
    /\ work[w].pc = "check"
    /\ IF work[w].doc \in dedup THEN Done(w, "duplicate")
       ELSE work' = [work EXCEPT ![w].pc = "queue"]
    /\ past' = past \cup IF work[w].doc \notin dedup /\ Crossing(w) THEN {"crossed"} ELSE {}
    /\ UNCHANGED <<load, queue, store, dedup, paused, claimed, fuel>>

\* Parsing or storing the parts fails: nothing is queued.
extract_fails(w) ==
    /\ work[w].pc = "queue" /\ Fault
    /\ Done(w, "error")
    /\ UNCHANGED <<load, queue, store, dedup, paused, claimed, past>>

\* The archive rules of the account, and its retention period.
should_archive(d) == d.content[1][1] \notin load.skipped

skip(w) ==
    /\ work[w].pc = "queue" /\ ~should_archive(work[w].doc)
    /\ Done(w, "imported")
    /\ UNCHANGED <<load, queue, store, dedup, paused, claimed, fuel, past>>

queue_document(w) ==
    /\ work[w].pc = "queue" /\ should_archive(work[w].doc)
    /\ queue' = queue (+) SetToBag({work[w].doc})
    /\ work' = [work EXCEPT ![w].pc = "insert"]
    /\ UNCHANGED <<load, store, dedup, paused, claimed, fuel, past>>

insert(w) ==
    /\ work[w].pc = "insert"
    /\ dedup' = dedup \cup {work[w].doc}
    /\ Done(w, "imported")
    /\ UNCHANGED <<load, queue, store, paused, claimed, fuel, past>>

\* The future is dropped: whatever await it was at is where it stops.
Dropped(w) ==
    /\ work' = [work EXCEPT ![w] = Rest]
    /\ past' = past \cup IF work[w].pc = "insert" THEN {"dropped"} ELSE {}

\* The index writer.
commit ==
    /\ queue # EmptyBag
    /\ store' = store (+) queue /\ queue' = EmptyBag
    /\ UNCHANGED <<load, work, dedup, paused, claimed, fuel, past>>

\* A backup closes the gate, and opens it again.
pause ==
    /\ ~paused /\ Fault /\ paused' = TRUE
    /\ UNCHANGED <<load, work, queue, store, dedup, claimed, past>>

resume ==
    /\ paused /\ paused' = FALSE
    /\ UNCHANGED <<load, work, queue, store, dedup, claimed, fuel, past>>

\* The process dies: what is queued is lost, the cache is filled from the index.
Died(left) ==
    /\ Fault
    /\ work' = [w \in Workers |-> Rest]
    /\ queue' = EmptyBag /\ dedup' = BagToSet(store) /\ paused' = FALSE
    /\ past' = past \cup left \cup IF queue # EmptyBag THEN {"lost"} ELSE {}
    /\ UNCHANGED <<load, store, claimed>>

Extract == \E w \in Workers : acquire(w) \/ contains(w) \/ skip(w) \/ queue_document(w) \/ insert(w)
Gate == pause \/ resume
============================================================================
