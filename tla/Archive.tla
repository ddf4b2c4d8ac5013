------------------------------ MODULE Archive ------------------------------
(***************************************************************************)
(* How a message is stored and how it is removed (envelope/extractor.rs,   *)
(* store/blob.rs, store/tantivy/, message/delete.rs, mailbox/delete.rs,    *)
(* retention.rs).  An archived message is a document of the envelope       *)
(* index, documents of the attachment index, and blobs: its body under the *)
(* content hash and one blob per attachment, shared by all messages with   *)
(* the same bytes.  Ingest hands them to three background writers through  *)
(* channels; deletions take the envelope writer, commit, and reclaim the   *)
(* blobs no committed document refers to any more; a cache of what was     *)
(* seen keeps a message from being archived twice.                         *)
(*                                                                         *)
(* Requests and background jobs are workers.  Documents are numbered in    *)
(* the order of ingest_at.  Attachments stand for all of a document's      *)
(* attachment documents, buffered or committed.  A gate that does not open *)
(* in time (WriteGate) and a failing disk are events.                      *)
(***************************************************************************)
EXTENDS Naturals, Sequences, FiniteSets, Functions, FiniteSetsExt

CONSTANTS
    Workers,
    Boxes,        \* mailboxes of the account
    Under,        \* mailbox -> the mailbox and those below it
    Contents,     \* bodies of messages, also their keys in the blob store
    Attached,     \* content -> sequence of the keys of its attachments
    Aging,        \* contents that will pass the retention window
    MaxEntries,   \* DedupCache::max_entries
    Archived,     \* how many messages there are at the start
    MaxDocs,      \* bound: documents ever written
    MaxEvents     \* bound: requests other than ingest, events, restarts

ASSUME BoundsAssumption ==
    {MaxEntries, Archived, MaxDocs, MaxEvents} \subseteq Nat /\ Aging \subseteq Contents
ASSUME UnderAssumption == \A b \in Boxes : b \in Under[b] /\ Under[b] \subseteq Boxes
ASSUME AttachedAssumption == \A c \in Contents : Attached[c] \in Seq(Range(Attached[c]))
ASSUME WorkersAssumption == "free" \notin Workers

VARIABLES
    rows,       \* mailboxes with a row in the database
    doc,        \* document number -> its mailbox and content
    queue,      \* documents in the channel of the envelope writer
    buffer,     \* documents the writer has added and not committed
    index,      \* documents of the last commit
    attQueue,   \* documents whose attachments are in the other channel
    attIndex,   \* documents whose attachments are in the attachment index
    blobQueue,  \* keys handed to the blob writer
    blobs,      \* keys in the blob store
    cache,      \* DEDUP_CACHE: (mailbox, content) -> when it was seen
    populated,  \* DedupCache::populated
    lock,       \* the worker that holds the envelope writer, or "free"
    op,         \* what each worker does
    old,        \* contents older than the retention window
    held,       \* the account is under a legal hold
    events,     \* how many of those there were
    lost,       \* history: keys deleted or dropped under a document
    leaked,     \* history: keys left behind
    blind,      \* history: cache entries left behind
    loose,      \* history: documents whose attachments were left behind
    stray,      \* history: documents that came after their mailbox went
    failed      \* history: mailboxes where a deletion was cut short

indexes == <<queue, buffer, index>>
attachments == <<attQueue, attIndex>>
store == <<blobQueue, blobs>>
dedup == <<cache, populated>>
setting == <<rows, old, held>>
history == <<lost, leaked, blind, loose, stray, failed>>
vars == <<setting, doc, indexes, attachments, store, dedup, lock, op, events, history>>

Ids == 1 .. Len(doc)
KeysOf(c) == {c} \cup Range(Attached[c])
DocKeys(S) == UNION {KeysOf(doc[i].content) : i \in S}
Entry(i) == <<doc[i].box, doc[i].content>>
Entries(S) == {Entry(i) : i \in S}
Live == queue \cup buffer \cup index

NoOp == [kind |-> "none", step |-> "idle", box |-> "none", content |-> "none",
         ids |-> {}, boxes |-> {}, only |-> {}, keys |-> {}, seen |-> {}, early |-> FALSE]
Idle(w) == op[w] = NoOp
At(w, kinds, step) == op[w].kind \in kinds /\ op[w].step = step
Do(w, o) == op' = [op EXCEPT ![w] = o]
Goto(w, step) == op' = [op EXCEPT ![w].step = step]
End(w) == Do(w, NoOp)
Deletions == {"messages", "mailbox", "account", "retention"}
Deletes(w) == op[w].kind \in Deletions
Spend == events < MaxEvents /\ events' = events + 1

(* A process that has just started, with what earlier ones archived.        *)
Init ==
    /\ rows = Boxes
    /\ doc \in [1 .. Archived -> [box : Boxes, content : Contents]]
    /\ index = Ids /\ queue = {} /\ buffer = {}
    /\ attIndex = {i \in Ids : Attached[doc[i].content] # <<>>} /\ attQueue = {}
    /\ blobs = DocKeys(Ids) /\ blobQueue = <<>>
    /\ cache = [t \in {} |-> 0] /\ populated = FALSE
    /\ lock = "free" /\ op = [w \in Workers |-> NoOp]
    /\ old = {} /\ held = FALSE /\ events = 0
    /\ lost = {} /\ leaked = {} /\ blind = {} /\ loose = {} /\ stray = {} /\ failed = {}

-----------------------------------------------------------------------------
(* Ingest: extract_envelope_core, for every way a message comes in.         *)
Ingesting == {w \in Workers : op[w].kind = "ingest" /\ op[w].step # "finish"}

IngestStart(w, b, c) ==
    /\ Idle(w) /\ b \in rows
    /\ Len(doc) + Cardinality(Ingesting) < MaxDocs
    /\ Do(w, [NoOp EXCEPT !.kind = "ingest", !.step = "check", !.box = b, !.content = c])
    /\ UNCHANGED <<setting, doc, indexes, attachments, store, dedup, lock, events, history>>

(* The first look into the cache sets the flag, and only then reads the     *)
(* index; others look into the cache meanwhile.                             *)
do_populate(w) ==
    /\ At(w, {"ingest"}, "check") /\ ~populated
    /\ populated' = TRUE
    /\ op' = [op EXCEPT ![w].step = "populate", ![w].ids = index]
    /\ UNCHANGED <<setting, doc, indexes, attachments, store, cache, lock, events, history>>

(* Only documents ingested within the window, those after n, are loaded.    *)
Populated(w) ==
    /\ At(w, {"ingest"}, "populate")
    /\ \E n \in 0 .. Len(doc) :
         LET recent == {i \in op[w].ids : i > n}
         IN  /\ cache' = [t \in DOMAIN cache \cup Entries(recent) |->
                 IF t \in Entries(recent) THEN Max({i \in recent : Entry(i) = t}) ELSE cache[t]]
             /\ blind' = blind \cup Entries(recent \ Live)
    /\ op' = [op EXCEPT ![w].step = "check", ![w].ids = {}]
    /\ UNCHANGED <<setting, doc, indexes, attachments, store, populated, lock, events,
                   lost, leaked, loose, stray, failed>>

(* DedupCache::contains, and the retention floor.                           *)
Wanted(b, c) == <<b, c>> \notin DOMAIN cache /\ (held \/ c \notin old)

IngestCheck(w) ==
    /\ At(w, {"ingest"}, "check") /\ populated
    /\ IF Wanted(op[w].box, op[w].content) THEN Goto(w, "detach") ELSE End(w)
    /\ UNCHANGED <<setting, doc, indexes, attachments, store, dedup, lock, events, history>>

(* detach_and_store_attachments: the body and its attachments are queued.   *)
Detach(c) == blobQueue' = blobQueue \o <<c>> \o Attached[c]

IngestDetach(w) ==
    /\ At(w, {"ingest"}, "detach")
    /\ Detach(op[w].content)
    /\ Goto(w, "queue")
    /\ UNCHANGED <<setting, doc, indexes, attachments, blobs, dedup, lock, events, history>>

IngestQueue(w) ==
    /\ At(w, {"ingest"}, "queue")
    /\ doc' = Append(doc, [box |-> op[w].box, content |-> op[w].content])
    /\ queue' = queue \cup {Len(doc) + 1}
    /\ op' = [op EXCEPT ![w].step = "finish", ![w].ids = {Len(doc) + 1}]
    /\ stray' = IF op[w].box \in rows THEN stray ELSE stray \cup {Len(doc) + 1}
    /\ UNCHANGED <<setting, buffer, index, attachments, store, dedup, lock, events,
                   lost, leaked, blind, loose, failed>>

(* DedupCache::insert: past the limit only the newest three quarters stay.  *)
Kept(entries) ==
    IF Cardinality(DOMAIN entries) <= MaxEntries THEN {DOMAIN entries}
    ELSE {K \in SUBSET DOMAIN entries :
            /\ Cardinality(K) = (MaxEntries * 3) \div 4
            /\ \A t \in DOMAIN entries \ K, k \in K : entries[t] <= entries[k]}
Insert(t) ==
    LET entries == [s \in DOMAIN cache \cup {t} |-> IF s = t THEN Len(doc) ELSE cache[s]]
    IN  \E K \in Kept(entries) : cache' = [s \in K |-> entries[s]]

IngestFinish(w) ==
    /\ At(w, {"ingest"}, "finish")
    /\ Insert(<<op[w].box, op[w].content>>)
    /\ attQueue' = attQueue \cup {i \in op[w].ids : Attached[op[w].content] # <<>>}
    /\ blind' = blind \cup Entries(op[w].ids \ Live)
    /\ loose' = loose \cup (op[w].ids \ Live)
    /\ End(w)
    /\ UNCHANGED <<setting, doc, indexes, attIndex, store, populated, lock, events,
                   lost, leaked, stray, failed>>

-----------------------------------------------------------------------------
(* The background writers.                                                  *)
WriterTake ==
    /\ lock = "free" /\ queue # {}
    /\ buffer' = buffer \cup queue /\ queue' = {}
    /\ UNCHANGED <<setting, doc, index, attachments, store, dedup, lock, op, events, history>>

(* The tick of the writer, or its threshold.                                *)
WriterCommit ==
    /\ lock = "free" /\ buffer # {}
    /\ index' = index \cup buffer /\ buffer' = {}
    /\ UNCHANGED <<setting, doc, queue, attachments, store, dedup, lock, op, events, history>>

AttachmentWriter ==
    /\ attQueue # {}
    /\ attIndex' = attIndex \cup attQueue /\ attQueue' = {}
    /\ UNCHANGED <<setting, doc, indexes, store, dedup, lock, op, events, history>>

(* process_detached_email: a key that exists is not written again.          *)
BlobWrite ==
    /\ blobQueue # <<>>
    /\ blobs' = blobs \cup {Head(blobQueue)}
    /\ blobQueue' = Tail(blobQueue)
    /\ lost' = lost \ {Head(blobQueue)}
    /\ UNCHANGED <<setting, doc, indexes, attachments, dedup, lock, op, events,
                   leaked, blind, loose, stray, failed>>

BlobWriteFails ==
    /\ Spend /\ blobQueue # <<>>
    /\ Head(blobQueue) \notin blobs
    /\ blobQueue' = Tail(blobQueue)
    /\ lost' = lost \cup {Head(blobQueue)}
    /\ UNCHANGED <<setting, doc, indexes, attachments, blobs, dedup, lock, op,
                   leaked, blind, loose, stray, failed>>

-----------------------------------------------------------------------------
(* Deletion: of messages, of a mailbox and those below it, of the account's *)
(* messages, and of what the retention window has passed.                   *)
Begin(w, kind, ids, boxes, only) ==
    Do(w, [NoOp EXCEPT !.kind = kind, !.step = "collect", !.ids = ids,
                       !.boxes = boxes, !.only = only])

delete_envelopes_multi_account(w, ids) == Begin(w, "messages", ids, {}, {})
delete_mailbox_envelopes(w, boxes) == Begin(w, "mailbox", {}, boxes, Contents)
delete_account_envelopes(w) == Begin(w, "account", {}, Boxes, Contents)
delete_envelopes_before(w) == Begin(w, "retention", {}, Boxes, old)

delete_messages_impl(w, i) ==
    /\ Spend /\ Idle(w) /\ ~held /\ i \in index
    /\ delete_envelopes_multi_account(w, {i})
    /\ UNCHANGED <<setting, doc, indexes, attachments, store, dedup, lock, history>>

(* Mutant: the rows below the mailbox go, the messages in them do not.      *)
delete_one_mailbox(w, b) ==
    /\ Spend /\ Idle(w) /\ ~held /\ b \in rows
    /\ rows' = rows \ Under[b]
    /\ delete_mailbox_envelopes(w, {b})
    /\ UNCHANGED <<old, held, doc, indexes, attachments, store, dedup, lock, history>>

(* The rows go before anything else.                                        *)
delete_mailbox_impl(w, b) ==
    /\ Spend /\ Idle(w) /\ ~held /\ b \in rows
    /\ rows' = rows \ Under[b]
    /\ delete_mailbox_envelopes(w, Under[b] \cap rows)
    /\ UNCHANGED <<old, held, doc, indexes, attachments, store, dedup, lock, history>>

(* MailBox::clean and then the messages, in the deletion of the account.    *)
cleanup(w) ==
    /\ Spend /\ Idle(w) /\ ~held /\ rows # {}
    /\ rows' = {}
    /\ delete_account_envelopes(w)
    /\ UNCHANGED <<old, held, doc, indexes, attachments, store, dedup, lock, history>>

(* Mutant: accounts on hold are swept too.                                  *)
retention_sweep_all(w) ==
    /\ Spend /\ Idle(w) /\ old # {}
    /\ delete_envelopes_before(w)
    /\ UNCHANGED <<setting, doc, indexes, attachments, store, dedup, lock, history>>

(* The sweep takes the hold from the list of accounts it read at its start. *)
retention_sweep(w) ==
    /\ Spend /\ Idle(w) /\ ~held /\ old # {}
    /\ delete_envelopes_before(w)
    /\ UNCHANGED <<setting, doc, indexes, attachments, store, dedup, lock, history>>

(* The query of a deletion, run on a set of documents.                      *)
Match(w, S) ==
    {i \in S : \/ i \in op[w].ids
               \/ doc[i].box \in op[w].boxes /\ doc[i].content \in op[w].only}

(* Mutant: the hashes of attachments are not collected.                     *)
collect_bodies_only(w) ==
    /\ At(w, Deletions, "collect")
    /\ LET found == Match(w, index)
       IN  op' = [op EXCEPT ![w].step = "remove", ![w].seen = found,
                            ![w].keys = {doc[i].content : i \in found}]
    /\ UNCHANGED <<setting, doc, indexes, attachments, store, dedup, lock, events, history>>

(* collect_content_hashes_with_mailbox reads the last commit, before the    *)
(* writer is locked; a retention purge that finds nothing ends here.        *)
collect_content_hashes(w) ==
    /\ At(w, Deletions, "collect")
    /\ LET found == Match(w, index)
       IN  IF op[w].kind = "retention" /\ found = {} THEN End(w)
           ELSE op' = [op EXCEPT ![w].step = "remove", ![w].keys = DocKeys(found),
                                 ![w].seen = found]
    /\ UNCHANGED <<setting, doc, indexes, attachments, store, dedup, lock, events, history>>

(* delete_query and commit: what is buffered goes too, or is committed.     *)
RemoveDocs(w) ==
    /\ At(w, Deletions, "remove") /\ lock = "free"
    /\ LET gone == Match(w, index \cup buffer)
           rest == (index \cup buffer) \ gone
       IN  /\ index' = rest
           /\ leaked' = leaked \cup (DocKeys(gone \ op[w].seen) \ DocKeys(rest \cup queue))
           /\ blind' = IF op[w].kind \in {"mailbox", "account"} THEN blind
                       ELSE blind \cup (Entries(gone) \ Entries(op[w].seen))
           /\ loose' = IF op[w].kind = "retention" THEN loose \cup gone ELSE loose
           /\ stray' = IF op[w].kind \in {"mailbox", "account"} THEN stray \cup Match(w, queue)
                       ELSE stray
    /\ buffer' = {}
    /\ lock' = w
    /\ Goto(w, "cleanup")
    /\ UNCHANGED <<setting, doc, queue, attachments, store, dedup, events, lost, failed>>

(* What ingest has handed to the blob writer for documents that the writer  *)
(* of the index has not seen.                                               *)
Underway ==
    DocKeys(queue) \cup UNION {KeysOf(op[w].content) :
                               w \in {v \in Ingesting : op[v].step = "queue"}}

(* Mutant: only references as a body count.                                 *)
UnusedAsBody(keys) == keys \ {doc[i].content : i \in index}

(* cleanup_unused_content: keys of the removed documents to which, as body  *)
(* or as attachment, no committed document refers.                          *)
Unused(keys) == keys \ DocKeys(index)

(* Mutant: the entries of a deleted mailbox stay in the cache.              *)
ForgetSeen(w) == cache' = [t \in DOMAIN cache \ Entries(op[w].seen) |-> cache[t]]

(* DedupCache::remove, remove_by_mailbox, remove_by_account.                *)
Forget(w) ==
    cache' = [t \in {s \in DOMAIN cache : IF op[w].kind \in {"mailbox", "account"}
                                          THEN s[1] \notin op[w].boxes
                                          ELSE s \notin Entries(op[w].seen)} |-> cache[t]]

(* An account's attachments go while the envelope writer is held, before    *)
(* the blobs; those of messages and mailboxes afterwards.                   *)
cleanup_unused_content(w) ==
    /\ At(w, Deletions, "cleanup")
    /\ blobs' = blobs \ Unused(op[w].keys)
    /\ lost' = lost \cup ((Unused(op[w].keys) \cap Underway) \ Range(blobQueue))
    /\ leaked' = (leaked \ Unused(op[w].keys)) \cup (Unused(op[w].keys) \cap Range(blobQueue))
    /\ Forget(w)
    /\ lock' = "free"
    /\ IF op[w].kind \in {"messages", "mailbox"} THEN Goto(w, "attach") ELSE End(w)
    /\ IF op[w].kind = "account"
       THEN /\ attIndex' = {} /\ loose' = loose \cup attQueue
       ELSE UNCHANGED <<attIndex, loose>>
    /\ UNCHANGED <<setting, doc, indexes, attQueue, blobQueue, populated, events,
                   blind, stray, failed>>

(* Mutant: only attachments of documents that were named are deleted.       *)
DeleteNamedAttachments(w) ==
    /\ At(w, Deletions, "attach")
    /\ attIndex' = attIndex \ op[w].ids
    /\ loose' = loose \cup Match(w, attQueue)
    /\ End(w)
    /\ UNCHANGED <<setting, doc, indexes, attQueue, store, dedup, lock, events,
                   lost, leaked, blind, stray, failed>>

DeleteAttachments(w) ==
    /\ At(w, Deletions, "attach")
    /\ attIndex' = attIndex \ Match(w, attIndex)
    /\ loose' = loose \cup Match(w, attQueue)
    /\ End(w)
    /\ UNCHANGED <<setting, doc, indexes, attQueue, store, dedup, lock, events,
                   lost, leaked, blind, stray, failed>>

(* Mutant: a failed deletion keeps the writer.                              *)
AbortLocked(w) ==
    /\ Spend /\ Deletes(w)
    /\ End(w)
    /\ failed' = failed \cup op[w].boxes \cup {doc[i].box : i \in op[w].ids}
    /\ leaked' = IF lock = w THEN leaked \cup op[w].keys ELSE leaked
    /\ loose' = loose \cup Match(w, Ids)
    /\ UNCHANGED <<setting, doc, indexes, attachments, store, dedup, lock, lost, blind, stray>>

(* The gate does not open in time, or the index or the blob store fails:    *)
(* the deletion ends where it is.                                           *)
Abort(w) ==
    /\ Spend /\ Deletes(w)
    /\ End(w)
    /\ lock' = IF lock = w THEN "free" ELSE lock
    /\ failed' = failed \cup op[w].boxes \cup {doc[i].box : i \in op[w].ids}
    /\ leaked' = IF lock = w THEN leaked \cup op[w].keys ELSE leaked
    /\ loose' = loose \cup Match(w, Ids)
    /\ UNCHANGED <<setting, doc, indexes, attachments, store, dedup, lost, blind, stray>>

-----------------------------------------------------------------------------
(* dedup_account for the account: of each mailbox and content the newest    *)
(* committed document stays.                                                *)
Duplicates == {i \in index : \E j \in index : j > i /\ Entry(j) = Entry(i)}

dedup_task ==
    /\ lock = "free" /\ Duplicates # {}
    /\ index' = (index \ Duplicates) \cup buffer /\ buffer' = {}
    /\ attIndex' = attIndex \ Duplicates
    /\ loose' = loose \cup (Duplicates \cap attQueue)
    /\ UNCHANGED <<setting, doc, queue, attQueue, store, dedup, lock, op, events,
                   lost, leaked, blind, stray, failed>>

(* update_envelope_tags reads the document before it has the writer, and    *)
(* writes it again, with other tags, once it has.                           *)
TagRead(w, i) ==
    /\ Spend /\ Idle(w) /\ ~held /\ i \in index
    /\ Do(w, [NoOp EXCEPT !.kind = "tags", !.step = "write", !.ids = {i}])
    /\ UNCHANGED <<setting, doc, indexes, attachments, store, dedup, lock, history>>

TagWrite(w) ==
    /\ At(w, {"tags"}, "write") /\ lock = "free"
    /\ index' = index \cup buffer \cup op[w].ids /\ buffer' = {}
    /\ LET risen == op[w].ids \ index
       IN  /\ lost' = lost \cup DocKeys(risen)
           /\ stray' = stray \cup {i \in risen : doc[i].box \notin rows}
    /\ End(w)
    /\ UNCHANGED <<setting, doc, queue, attachments, store, dedup, lock, events,
                   leaked, blind, loose, failed>>

(* recover_message_blob: the body is fetched from the server, and its blobs *)
(* are queued again, unless the fetch fails or the gate is closed.          *)
recover_message_blob(w, i) ==
    /\ Spend /\ Idle(w) /\ doc[i].box \in rows
    /\ Do(w, [NoOp EXCEPT !.kind = "recover", !.step = "store", !.ids = {i}])
    /\ UNCHANGED <<setting, doc, indexes, attachments, store, dedup, lock, history>>

(* Reading a message repairs it when its body is missing, a repair also     *)
(* when an attachment is.                                                   *)
reattach_eml_content_self_healing(w, i) ==
    i \in index /\ doc[i].content \notin blobs /\ recover_message_blob(w, i)
repair_envelope_blobs(w, i) ==
    i \in index /\ ~(DocKeys({i}) \subseteq blobs) /\ recover_message_blob(w, i)

RecoverStore(w) ==
    /\ At(w, {"recover"}, "store")
    /\ \/ \E i \in op[w].ids :
            /\ Detach(doc[i].content)
            /\ leaked' = IF i \in Live THEN leaked ELSE leaked \cup DocKeys({i})
       \/ UNCHANGED <<blobQueue, leaked>>
    /\ End(w)
    /\ UNCHANGED <<setting, doc, indexes, attachments, blobs, dedup, lock, events,
                   lost, blind, loose, stray, failed>>

-----------------------------------------------------------------------------
(* A mailbox that the server lists again gets its row, under the same id.   *)
CreateMailbox(b) ==
    /\ Spend /\ b \notin rows
    /\ rows' = rows \cup {b}
    /\ UNCHANGED <<old, held, doc, indexes, attachments, store, dedup, lock, op, history>>

Age(c) ==
    /\ c \in Aging \ old
    /\ old' = old \cup {c}
    /\ UNCHANGED <<rows, held, doc, indexes, attachments, store, dedup, lock, op, events, history>>

(* A hold does not stop the deletions that are under way.                   *)
PlaceHold ==
    /\ Spend /\ ~held /\ held' = TRUE
    /\ op' = [w \in Workers |-> [op[w] EXCEPT !.early = Deletes(w)]]
    /\ UNCHANGED <<rows, old, doc, indexes, attachments, store, dedup, lock, history>>

ReleaseHold ==
    /\ Spend /\ held /\ held' = FALSE
    /\ UNCHANGED <<rows, old, doc, indexes, attachments, store, dedup, lock, op, history>>

(* The next process starts with empty channels and an empty cache.          *)
Restart(written, committed) ==
    /\ Spend
    /\ blobs' = blobs \cup written /\ blobQueue' = <<>>
    /\ index' = index \cup committed /\ buffer' = {} /\ queue' = {}
    /\ attQueue' = {}
    /\ cache' = [t \in {} |-> 0] /\ populated' = FALSE
    /\ lock' = "free" /\ op' = [w \in Workers |-> NoOp]
    /\ lost' = lost \cup (Range(blobQueue) \ written)
    /\ leaked' = leaked \cup (blobs' \ DocKeys(index'))
    /\ blind' = {}
    /\ loose' = loose \cup (attIndex \ index') \cup UNION {Match(w, Ids) : w \in {v \in Workers : Deletes(v)}}
    /\ failed' = failed \cup UNION {op[w].boxes : w \in Workers}
    /\ UNCHANGED <<setting, doc, attIndex, stray>>

(* On a signal the blob writer empties its channel; the index writers       *)
(* commit what they have added and drop what is still in theirs.            *)
Shutdown == Restart(Range(blobQueue), buffer)
Crash == Restart({}, {})

-----------------------------------------------------------------------------
Step(w) ==
    \/ do_populate(w) \/ Populated(w) \/ IngestCheck(w) \/ IngestDetach(w)
    \/ IngestQueue(w) \/ IngestFinish(w)
    \/ collect_content_hashes(w) \/ cleanup_unused_content(w) \/ DeleteAttachments(w) \/ RecoverStore(w)
Locking(w) == RemoveDocs(w) \/ TagWrite(w)
Request(w) ==
    \/ \E b \in Boxes, c \in Contents : IngestStart(w, b, c)
    \/ \E i \in index :
         \/ delete_messages_impl(w, i) \/ TagRead(w, i)
         \/ reattach_eml_content_self_healing(w, i) \/ repair_envelope_blobs(w, i)
    \/ \E b \in Boxes : delete_mailbox_impl(w, b)
    \/ cleanup(w) \/ retention_sweep(w)
Background == WriterTake \/ WriterCommit \/ AttachmentWriter \/ BlobWrite \/ dedup_task
Environment ==
    \/ BlobWriteFails \/ (\E w \in Workers : Abort(w))
    \/ (\E b \in Boxes : CreateMailbox(b)) \/ (\E c \in Contents : Age(c))
    \/ PlaceHold \/ ReleaseHold \/ Shutdown \/ Crash
Next ==
    \/ \E w \in Workers : Step(w) \/ Locking(w) \/ Request(w)
    \/ Background \/ Environment

Spec == Init /\ [][Next]_vars

-----------------------------------------------------------------------------
(* Properties.                                                              *)
Keys == UNION {KeysOf(c) : c \in Contents}
Triples == Boxes \X Contents

TypeOK ==
    /\ rows \subseteq Boxes /\ old \subseteq Contents /\ held \in BOOLEAN
    /\ \A i \in Ids : doc[i] \in [box : Boxes, content : Contents]
    /\ queue \cup buffer \cup index \cup attQueue \cup attIndex \subseteq Ids
    /\ Range(blobQueue) \cup blobs \subseteq Keys
    /\ DOMAIN cache \subseteq Triples /\ populated \in BOOLEAN
    /\ lock \in Workers \cup {"free"}
    /\ lock # "free" => At(lock, Deletions, "cleanup")

(* Every document, queued, buffered or committed, has its body and its      *)
(* attachments in the blob store or on the way there: the reference count   *)
(* of cleanup_unused_content sees both kinds of reference and every buffered*)
(* document.  Excused (lost) are keys whose write failed or was dropped, and*)
(* keys reclaimed while a document that needs them was not yet added or was *)
(* written back by update_envelope_tags.                                    *)
ContentPresent == DocKeys(Live) \subseteq blobs \cup Range(blobQueue) \cup lost

(* What the blob store holds beyond the documents is about to be indexed or *)
(* about to be reclaimed.  Excused (leaked) are keys of documents that a    *)
(* deletion removed and had not seen, of blobs written after their deletion,*)
(* of a deletion or an ingest that was cut short.                           *)
Reclaimed ==
    blobs \subseteq DocKeys(Live) \cup Range(blobQueue) \cup leaked
        \cup (UNION {KeysOf(op[w].content) : w \in {v \in Ingesting : op[v].step = "queue"}})
        \cup UNION {op[w].keys : w \in {v \in Workers : Deletes(v)}}

(* A message that the cache turns away as a duplicate is archived in that   *)
(* mailbox, or its deletion is about to take the entry out.  Excused (blind)*)
(* are entries made or loaded after the document went, and mailboxes whose  *)
(* deletion failed.                                                         *)
CacheSound ==
    \A t \in DOMAIN cache :
        \/ t \in Entries(Live) \cup blind \/ t[1] \in failed
        \/ \E w \in Workers : At(w, Deletions, "cleanup")
                             /\ (t \in Entries(op[w].seen) \/ t[1] \in op[w].boxes)

(* The attachments in the attachment index are those of archived messages,  *)
(* or of messages whose deletion is under way.  Excused (loose) are the ones*)
(* a retention purge leaves, and those queued after their message went.     *)
AttachmentsOwned ==
    attIndex \cup attQueue \subseteq Live \cup loose
        \cup UNION {Match(w, Ids) : w \in {v \in Workers : Deletes(v)}}

(* An indexed message is in a mailbox that has a row (search fails on one   *)
(* that is not), or that mailbox's deletion is under way.  Excused (stray)  *)
(* are messages that were in the channel, or on their way to it, when the   *)
(* mailbox was deleted.                                                     *)
MailboxKnown ==
    \A i \in index \cup buffer :
        \/ doc[i].box \in rows \cup failed \/ i \in stray
        \/ \E w \in Workers : Deletes(w) /\ doc[i].box \in op[w].boxes

(* Cache entries, attachments and mailboxes refer to what exists.           *)
ReferencesResolve == TypeOK /\ CacheSound /\ AttachmentsOwned /\ MailboxKnown

(* Committed content leaves the index only by a deletion that asked for it, *)
(* and on an account under a legal hold only by one that was admitted before*)
(* the hold: commits, re-tagging, deduplication and restarts lose none.     *)
OnlyDeletionsRemove ==
    [][\A t \in Entries(index) : t \in Entries(index)' \/ \E w \in Workers :
          /\ At(w, Deletions, "remove") /\ op'[w].step = "cleanup"
          /\ held => op[w].early
          /\ t \in Entries(Match(w, index))]_vars
=============================================================================
