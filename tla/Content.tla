------------------------------ MODULE Content ------------------------------
(***************************************************************************)
(* The content of an archived message: envelope/extractor.rs takes its     *)
(* attachments out and stores each encoded body once, under a hash that    *)
(* stays behind as a placeholder; whoever reads the message has it put     *)
(* together again.  A message whose blobs are gone is fetched from the     *)
(* mail server, when it is downloaded or when an operator repairs it.      *)
(*                                                                         *)
(* Bytes are sequences of tokens and hashes are injective: a key is the    *)
(* domain of the hash and the bytes hashed.  Documents are visible when    *)
(* the message is taken in; Archive has the index writer's delay.          *)
(***************************************************************************)
EXTENDS Naturals, Sequences, FiniteSets, SequencesExt, FiniteSetsExt, TLC

CONSTANTS
    Files,           \* what an attached file decodes to, by name
    Holdings,        \* the archives to look at: the messages (mails), by name; the
                     \* messages a release before raw_content_hash archived, in
                     \* order (legacy); the messages and mailboxes they may arrive
                     \* in (arriving); the report a journal delivery came in
                     \* (reports); the faults
    QueueRoom,       \* the capacity of BLOB_MANAGER's channel
    MaxCandidates,   \* MAX_MESSAGE_ID_CANDIDATES, 32 in the code
    HistoryLimit,    \* BlobRepairRecord::HISTORY_LIMIT, 200 in the code
    MaxServerUid     \* bound: UIDs the mail server hands out

VARIABLES
    holding,    \* the archive looked at
    documents,  \* the envelopes in the index
    blobs,      \* the blob store: bytes by key
    detached,   \* BLOB_MANAGER's queue of detached e-mails
    server,     \* the mail server's folder: bytes by UID
    window,     \* a backup window is open
    request,    \* the repair or download that waits for the mail server
    reports,    \* the blob_repair_reports ring, oldest first
    gone,       \* history: keys of blobs that were lost and not written again
    trouble     \* faults left

contentVars ==
    <<holding, documents, blobs, detached, server, window, request, reports, gone, trouble>>

-----------------------------------------------------------------------------
(* Bytes *)

\* A message begins with its header, which may have a Message-ID; a part header
\* and an end enclose an attachment's encoded body, two tokens long.
Header(id) == [k |-> "header", id |-> id]
Text(t) == [k |-> "text", of |-> t]
Part(inline) == [k |-> "part", inline |-> inline]
End == [k |-> "end"]
Hole(key) == [k |-> "hole", key |-> key]
Encoded(encoding, file) == <<[k |-> "data", encoding |-> encoding, file |-> file, n |-> 1],
                             [k |-> "data", encoding |-> encoding, file |-> file, n |-> 2]>>

NoKey == [domain |-> "none", of |-> << >>]
compute_content_hash(bytes) == [domain |-> "plain", of |-> bytes]
compute_raw_attachment_hash(bytes) == [domain |-> "raw", of |-> bytes]

\* mail-parser: what an encoded body decodes to, and where the attachments of a
\* message are.  A truncated message ends inside its last part.
contents(raw) ==
    IF Len(raw) = 2 /\ raw[1].k = "data" /\ raw[2] = [raw[1] EXCEPT !.n = 2] /\ raw[1].n = 1
    THEN Files[raw[1].file] ELSE raw
attachments(bytes) ==
    LET parts == SetToSortSeq({i \in DOMAIN bytes : bytes[i].k = "part"}, <)
        to(i) == Min({j \in DOMAIN bytes : j > i /\ bytes[j].k = "end"} \cup {Len(bytes) + 1})
    IN [n \in DOMAIN parts |->
          [from |-> parts[n] + 1, to |-> to(parts[n]), inline |-> bytes[parts[n]].inline,
           raw |-> SubSeq(bytes, parts[n] + 1, to(parts[n]) - 1)]]
message_id(bytes) == IF bytes # << >> /\ bytes[1].k = "header" THEN bytes[1].id ELSE "none"

-----------------------------------------------------------------------------
(* Taking a message apart *)

\* Replaces the bytes from..to - 1.
splice(bytes, from, to, new) == SubSeq(bytes, 1, from - 1) \o new \o SubSeq(bytes, to, Len(bytes))

\* One attachment after the other, the last one first, so that the offsets of
\* those still to come stay right.
Strip(bytes, Key(_)) ==
    LET one(acc, att) ==
          LET range_valid == att.from < att.to
              key == Key(att.raw)
          IN [eml |-> IF range_valid THEN splice(acc.eml, att.from, att.to, <<Hole(key)>>) ELSE acc.eml,
              blobs |-> Append(acc.blobs, [key |-> key, bytes |-> att.raw]),
              infos |-> Append(acc.infos, [content_hash |-> compute_content_hash(contents(att.raw)),
                                           raw_content_hash |-> key, inline |-> att.inline])]
    IN FoldLeft(one, [eml |-> bytes, blobs |-> << >>, infos |-> << >>], Reverse(attachments(bytes)))

strip_attachment_bodies_decoded(bytes) == Strip(bytes, LAMBDA raw : compute_content_hash(contents(raw)))
strip_attachment_bodies(bytes) == Strip(bytes, compute_raw_attachment_hash)

\* What a release before raw_content_hash made of a message: the placeholder and
\* the key of the blob are the hash of the decoded file.
StripLegacy(bytes) ==
    LET s == strip_attachment_bodies_decoded(bytes)
    IN [s EXCEPT !.infos = [n \in DOMAIN s.infos |-> [s.infos[n] EXCEPT !.raw_content_hash = NoKey]]]

\* detach_and_store_attachments: the report of a journal delivery is one more
\* attachment, which has no placeholder.
NoReport == << >>
detach(bytes, report) ==
    LET s == strip_attachment_bodies(bytes)
        key == compute_content_hash(report)
    IN IF report = NoReport THEN s
       ELSE [s EXCEPT !.blobs = Append(@, [key |-> key, bytes |-> report]),
                      !.infos = Append(@, [content_hash |-> key, raw_content_hash |-> NoKey, inline |-> FALSE])]

storage_hash(info) == IF info.raw_content_hash = NoKey THEN info.content_hash ELSE info.raw_content_hash

Envelope(name, box, uid, infos) ==
    LET bytes == holding.mails[name]
    IN [name |-> name, box |-> box, uid |-> uid, content_hash |-> compute_content_hash(bytes),
        message_id |-> message_id(bytes), attachment_count |-> Len(attachments(bytes)), attachments |-> infos]

\* process_detached_email: a key that exists keeps its bytes.
Put(store, key, bytes) == IF key \in DOMAIN store THEN store ELSE (key :> bytes) @@ store
process_detached_email(store, email) ==
    FoldLeft(LAMBDA s, b : Put(s, b.key, b.bytes), Put(store, email.key, email.eml), email.attachments)
Detached(key, s) == [key |-> key, eml |-> s.eml, attachments |-> s.blobs]

-----------------------------------------------------------------------------
(* Putting it together *)

\* The placeholders an attachment's record accounts for: those of its own
\* format or, if the stored message has none, those of the older one, then with
\* the raw key as the other place to look.
schedule_placeholder(eml, key) == {i \in DOMAIN eml : eml[i] = Hole(key)}
Scheduled_own(eml, info) ==
    [at |-> schedule_placeholder(eml, storage_hash(info)), alt |-> NoKey]

Scheduled(eml, info) ==
    LET own == schedule_placeholder(eml, storage_hash(info))
    IN IF own = {} /\ info.raw_content_hash # NoKey
       THEN [at |-> schedule_placeholder(eml, info.content_hash), alt |-> storage_hash(info)]
       ELSE [at |-> own, alt |-> NoKey]

\* Two records of one placeholder: the first one's task is kept.
AltOf(eml, infos, i) ==
    Scheduled(eml, infos[Min({n \in DOMAIN infos : i \in Scheduled(eml, infos[n]).at})]).alt

reattach_parts_ascending(eml, infos) ==
    LET at == UNION {Scheduled(eml, infos[n]).at : n \in DOMAIN infos}
        load(i) == LET key == eml[i].key
                       alt == AltOf(eml, infos, i)
                   IN IF key \in DOMAIN blobs THEN blobs[key] ELSE IF alt \in DOMAIN blobs THEN blobs[alt] ELSE <<eml[i]>>
    IN FoldLeft(LAMBDA acc, i : splice(acc, i, i + 1, load(i)), eml, SetToSortSeq(at, <))

\* reattach_parts: from the last placeholder to the first; one whose blob is
\* missing stays.
reattach_parts(eml, infos) ==
    LET at == UNION {Scheduled(eml, infos[n]).at : n \in DOMAIN infos}
        load(i) == LET key == eml[i].key
                       alt == AltOf(eml, infos, i)
                   IN IF key \in DOMAIN blobs THEN blobs[key] ELSE IF alt \in DOMAIN blobs THEN blobs[alt] ELSE <<eml[i]>>
    IN FoldLeft(LAMBDA acc, i : splice(acc, i, i + 1, load(i)), eml, SetToSortSeq(at, >))

Result(status, bytes) == [status |-> status, bytes |-> bytes]
reattach_eml_content(d) ==
    IF d.content_hash \notin DOMAIN blobs THEN Result("missing", << >>)
    ELSE IF d.attachment_count = 0 THEN Result("ok", blobs[d.content_hash])
    ELSE IF d.attachment_count # Len(d.attachments) THEN Result("inconsistent", << >>)
    ELSE Result("ok", reattach_parts(blobs[d.content_hash], d.attachments))

\* find the attachment whose decoded contents have the hash
Find(bytes, key) ==
    LET found == SelectSeq(attachments(bytes), LAMBDA att : compute_content_hash(contents(att.raw)) = key)
    IN IF found = << >> THEN Result("not found", << >>) ELSE Result("ok", contents(found[1].raw))
retrieve_attachment_content(d, key) ==
    LET eml == reattach_eml_content(d)
    IN IF eml.status = "ok" THEN Find(eml.bytes, key) ELSE eml
retrieve_nested_attachment_content(d, key, nested) ==
    LET message == retrieve_attachment_content(d, key)
    IN IF message.status = "ok" THEN Find(message.bytes, nested) ELSE message

\* retrieve_email_content lists what is not shown inline.
retrieve_email_content(d) ==
    LET eml == reattach_eml_content(d)
        shown == SelectSeq(attachments(eml.bytes), LAMBDA att : ~att.inline)
    IN [status |-> eml.status, bytes |-> eml.bytes,
        attachments |-> [n \in DOMAIN shown |-> compute_content_hash(contents(shown[n].raw))]]

\* retrieve_nested_eml_content: the page of an attached message.
retrieve_nested_eml_content(d, key) ==
    LET message == retrieve_attachment_content(d, key)
        inner == attachments(message.bytes)
    IN [status |-> message.status, message_id |-> message_id(message.bytes),
        attachments |-> [n \in DOMAIN inner |-> compute_content_hash(contents(inner[n].raw))]]

\* A download is recorded with what the record says of the attachment.
attachment_meta_for_audit(d, key) ==
    [parent |-> d.content_hash, named |-> \E n \in DOMAIN d.attachments : d.attachments[n].content_hash = key]
download_attachment(d, key) ==
    [content |-> retrieve_attachment_content(d, key), audit |-> attachment_meta_for_audit(d, key)]
download_nested_attachment(d, key, nested) ==
    [content |-> retrieve_nested_attachment_content(d, key, nested), audit |-> attachment_meta_for_audit(d, key)]

-----------------------------------------------------------------------------
(* What is wrong with a record, and the copy at the mail server *)

\* diagnose_blobs: the message is intact when what is put together has the hash
\* it was archived under.  The hashes named are those of placeholders the
\* record knows.
Placeholders(eml) == {eml[i].key : i \in {i \in DOMAIN eml : eml[i].k = "hole"}}
known_placeholder_hashes(eml, infos) ==
    Placeholders(eml) \cap UNION {{storage_hash(infos[n]), infos[n].content_hash} : n \in DOMAIN infos}
Diagnosis(missing, broken, unresolved) == [email_missing |-> missing, broken |-> broken, unresolved |-> unresolved]

diagnose_blobs_present(d) ==
    IF d.content_hash \notin DOMAIN blobs THEN Diagnosis(TRUE, TRUE, {})
    ELSE LET absent == known_placeholder_hashes(blobs[d.content_hash], d.attachments) \ DOMAIN blobs
         IN Diagnosis(FALSE, absent # {}, absent)

diagnose_blobs(d) ==
    IF d.content_hash \notin DOMAIN blobs THEN Diagnosis(TRUE, TRUE, {})
    ELSE LET eml == blobs[d.content_hash]
             intact == compute_content_hash(reattach_parts(eml, d.attachments)) = d.content_hash
         IN Diagnosis(FALSE, ~intact, IF intact THEN {} ELSE known_placeholder_hashes(eml, d.attachments))

\* The UID it was archived under, then the ones that have its Message-ID; bytes
\* with another hash are not taken.  A journal account has no mail server.
searchable_message_id(d) == d.message_id # "none"
bounded_message_id_candidates(d) ==
    LET uids == {u \in DOMAIN server : message_id(server[u]) = d.message_id /\ u # d.uid}
    IN {u \in uids : Cardinality({v \in uids : v < u}) < MaxCandidates}
Matches(u, d) == u \in DOMAIN server /\ compute_content_hash(server[u]) = d.content_hash
fetch_archived_body_unchecked(d) ==
    IF d.uid \in DOMAIN server THEN Result("ok", server[d.uid]) ELSE Result("failed", << >>)

fetch_archived_body(d) ==
    LET found == {u \in IF searchable_message_id(d) THEN bounded_message_id_candidates(d) ELSE {} : Matches(u, d)}
    IN IF d.box = "journal" THEN Result("failed", << >>)
       ELSE IF Matches(d.uid, d) THEN Result("ok", server[d.uid])
       ELSE IF found # {} THEN Result("ok", server[Min(found)]) ELSE Result("failed", << >>)

\* recover_message_blob, with the bytes fetched: they are queued in detached
\* form unless a backup runs.  The channel has room, or the sender waits.
Room == Len(detached) < QueueRoom
persist_recovered_blob_if_allowed(d, bytes) ==
    /\ Room
    /\ detached' = IF window THEN detached
                   ELSE Append(detached, Detached(d.content_hash, detach(bytes, NoReport)))

-----------------------------------------------------------------------------
(* The server *)

NoRequest == [op |-> "none"]

Stored(names) ==
    FoldLeft(LAMBDA s, n : process_detached_email(s, Detached(compute_content_hash(holding.mails[n]), StripLegacy(holding.mails[n]))),
             << >>, names)

Names == SetToSeq(DOMAIN holding.mails)
UidOf(name) == CHOOSE u \in DOMAIN Names : Names[u] = name

ContentInit ==
    /\ holding \in Holdings
    /\ documents = {Envelope(n, "old", UidOf(n), StripLegacy(holding.mails[n]).infos) : n \in ToSet(holding.legacy)}
    /\ blobs = Stored(holding.legacy)
    /\ server = [u \in DOMAIN Names |-> holding.mails[Names[u]]]
    /\ detached = << >> /\ window = FALSE /\ request = NoRequest /\ reports = << >>
    /\ gone = {} /\ trouble = holding.faults

\* extract_envelope_core, from the mail server or as a journal delivery: one
\* document per mailbox.
Archive(name, box) ==
    LET report == IF box = "journal" THEN holding.mails[holding.reports[name]] ELSE NoReport
        s == detach(holding.mails[name], report)
    IN /\ <<name, box>> \in holding.arriving /\ ~window /\ Room
       /\ ~ \E d \in documents : d.name = name /\ d.box = box
       /\ documents' = documents \cup {Envelope(name, box, IF box = "journal" THEN 0 ELSE UidOf(name), s.infos)}
       /\ detached' = Append(detached, Detached(compute_content_hash(holding.mails[name]), s))
       /\ UNCHANGED <<holding, blobs, server, window, request, reports, gone, trouble>>

WriteBlobs ==
    /\ detached # << >>
    /\ blobs' = process_detached_email(blobs, Head(detached))
    /\ gone' = gone \ DOMAIN blobs'
    /\ detached' = Tail(detached)
    /\ UNCHANGED <<holding, documents, server, window, request, reports, trouble>>

\* The blobs no other document has: cleanup_unused_content.
Keys(d) == {d.content_hash} \cup {storage_hash(d.attachments[n]) : n \in DOMAIN d.attachments}
DeleteMessage(d) ==
    LET unused == Keys(d) \ UNION {Keys(e) : e \in documents \ {d}}
    IN /\ ~window
       /\ documents' = documents \ {d}
       /\ blobs' = [k \in DOMAIN blobs \ unused |-> blobs[k]]
       /\ UNCHANGED <<holding, detached, server, window, request, reports, gone, trouble>>

\* download_message of a message whose blob is missing: it is fetched from the
\* mail server.  The other reads change nothing.
download_message(d) ==
    /\ request = NoRequest /\ d.content_hash \notin DOMAIN blobs
    /\ request' = [op |-> "download", d |-> d]
    /\ UNCHANGED <<holding, documents, blobs, detached, server, window, reports, gone, trouble>>
recover_message_blob ==
    LET body == fetch_archived_body(request.d)
    IN /\ request.op = "download"
       /\ IF body.status = "ok" THEN persist_recovered_blob_if_allowed(request.d, body.bytes) ELSE UNCHANGED detached
       /\ request' = NoRequest
       /\ UNCHANGED <<holding, documents, blobs, server, window, reports, gone, trouble>>

\* BlobRepairRecord::persist: a record that was intact takes no place in the ring.
persist(d, status) ==
    LET all == Append(reports, [d |-> d, status |-> status])
    IN IF status = "complete" THEN reports
       ELSE SubSeq(all, Max({1, Len(all) - HistoryLimit + 1}), Len(all))

\* repair_message ends: the report goes to the ring and to the operator.
Report(d, status) == reports' = persist(d, status) /\ request' = NoRequest

repair_envelope_blobs(d) ==
    /\ request = NoRequest
    /\ IF d.attachment_count # Len(d.attachments) THEN Report(d, "failed")
       ELSE IF diagnose_blobs(d).broken THEN request' = [op |-> "repair", d |-> d] /\ UNCHANGED reports
       ELSE Report(d, "complete")
    /\ UNCHANGED <<holding, documents, blobs, detached, server, window, gone, trouble>>

RepairFetch ==
    LET body == fetch_archived_body(request.d)
    IN /\ request.op = "repair"
       /\ IF body.status = "ok"
          THEN /\ persist_recovered_blob_if_allowed(request.d, body.bytes)
               /\ request' = [op |-> "drain", d |-> request.d, skipped |-> window, left |-> trouble]
               /\ UNCHANGED reports
          ELSE Report(request.d, "failed") /\ UNCHANGED detached
       /\ UNCHANGED <<holding, documents, blobs, server, window, gone, trouble>>

\* The blobs are written, or the 30 seconds are over: the record is looked at
\* again.
apply_post_state ==
    Report(request.d, IF diagnose_blobs(request.d).broken THEN "partial" ELSE "repaired")
RepairDone ==
    /\ request.op = "drain" /\ detached = << >> /\ apply_post_state
    /\ UNCHANGED <<holding, documents, blobs, detached, server, window, gone, trouble>>

\* restore_emails puts the message back into the mailbox it was archived from.
NextUid == Max(DOMAIN server \cup DOMAIN Names) + 1
restore_emails(d) ==
    LET eml == reattach_eml_content(d)
    IN /\ d.box # "journal" /\ eml.status = "ok" /\ NextUid <= MaxServerUid
       /\ server' = (NextUid :> eml.bytes) @@ server
       /\ UNCHANGED <<holding, documents, blobs, detached, window, request, reports, gone, trouble>>

-----------------------------------------------------------------------------
(* What happens to it *)

Trouble == trouble > 0 /\ trouble' = trouble - 1

\* A blob is lost: a torn segment, or a crash before it was written.
Lose(key) ==
    /\ Trouble
    /\ blobs' = [k \in DOMAIN blobs \ {key} |-> blobs[k]] /\ gone' = gone \cup {key}
    /\ UNCHANGED <<holding, documents, detached, server, window, request, reports>>
LoseQueued ==
    /\ Trouble /\ detached # << >>
    /\ gone' = (gone \cup {Head(detached).key} \cup {b.key : b \in ToSet(Head(detached).attachments)}) \ DOMAIN blobs
    /\ detached' = Tail(detached)
    /\ UNCHANGED <<holding, documents, blobs, server, window, request, reports>>

\* The mail server renumbers or removes a message, or does not answer; a repair
\* does not wait for the queue any longer.
Renumber(u) ==
    /\ Trouble /\ NextUid <= MaxServerUid
    /\ server' = [v \in (DOMAIN server \ {u}) \cup {NextUid} |-> IF v = NextUid THEN server[u] ELSE server[v]]
    /\ UNCHANGED <<holding, documents, blobs, detached, window, request, reports, gone>>
Expunge(u) ==
    /\ Trouble
    /\ server' = [v \in DOMAIN server \ {u} |-> server[v]]
    /\ UNCHANGED <<holding, documents, blobs, detached, window, request, reports, gone>>
NoAnswer ==
    /\ Trouble
    /\ \/ request.op = "download" /\ request' = NoRequest /\ UNCHANGED reports
       \/ request.op = "repair" /\ Report(request.d, "failed")
    /\ UNCHANGED <<holding, documents, blobs, detached, server, window, gone>>
DrainTimesOut ==
    /\ Trouble /\ request.op = "drain" /\ detached # << >> /\ apply_post_state
    /\ UNCHANGED <<holding, documents, blobs, detached, server, window, gone>>

BackupBegins ==
    /\ ~window /\ Trouble /\ detached = << >> /\ window' = TRUE
    /\ UNCHANGED <<holding, documents, blobs, detached, server, request, reports, gone>>
BackupEnds ==
    /\ window /\ window' = FALSE
    /\ UNCHANGED <<holding, documents, blobs, detached, server, request, reports, gone, trouble>>

Operations(d) == download_message(d) \/ repair_envelope_blobs(d) \/ restore_emails(d) \/ DeleteMessage(d)

ContentNext ==
    \/ \E pair \in holding.arriving : Archive(pair[1], pair[2])
    \/ WriteBlobs
    \/ \E d \in documents : Operations(d)
    \/ recover_message_blob \/ RepairFetch \/ RepairDone
    \/ \E key \in DOMAIN blobs : Lose(key)
    \/ LoseQueued
    \/ \E u \in DOMAIN server : Renumber(u) \/ Expunge(u)
    \/ NoAnswer \/ DrainTimesOut \/ BackupBegins \/ BackupEnds

-----------------------------------------------------------------------------
(* Properties *)

ContentTypeOK ==
    /\ \A d \in documents : d.name \in DOMAIN holding.mails /\ d.attachment_count \in Nat
    /\ window \in BOOLEAN /\ trouble \in 0..holding.faults
    /\ Len(reports) <= HistoryLimit /\ Len(detached) <= QueueRoom
    /\ request.op \in {"none", "download", "repair", "drain"} /\ DOMAIN server \subseteq 1..MaxServerUid

Original(d) == holding.mails[d.name]

\* A blob of the message was lost, or waits to be written.
OwnKeys(d) == Keys(d) \cup {d.attachments[n].content_hash : n \in DOMAIN d.attachments}
Damaged(d) == gone \cap OwnKeys(d) # {}
Queued(d) == \E e \in ToSet(detached) : e.key = d.content_hash

\* The older format kept one blob for all the encodings of a file.
LegacyPuts == UNION {LET s == StripLegacy(holding.mails[n])
                     IN ToSet(s.blobs) \cup {[key |-> compute_content_hash(holding.mails[n]), bytes |-> s.eml]} :
                     n \in ToSet(holding.legacy)}
Clash(d) == d.name \in ToSet(holding.legacy)
            /\ \E a, b \in LegacyPuts : a.key = b.key /\ a.bytes # b.bytes /\ a.key \in OwnKeys(d)

\* A message of the older format that was fetched again has the new placeholders
\* under a record that does not know them.
Reformed(d) == d.box = "old" /\ d.content_hash \in DOMAIN blobs /\ blobs[d.content_hash] # StripLegacy(Original(d)).eml

\* A journal delivery's record lists the report, its count does not.
Miscounted(d) == d.box = "journal"

Audited(d, bytes) == [content |-> Result("ok", bytes), audit |-> [parent |-> d.content_hash, named |-> TRUE]]

\* Whoever reads a message gets the bytes that were archived, the page lists the
\* attachments of the record, and each of them, and what is attached to it in
\* turn, can be downloaded, on record; nothing is missing that was not lost.
ReadTrue(d) ==
    LET page == retrieve_email_content(d)
        file(att) == contents(att.raw)
        shown == {d.attachments[n].content_hash : n \in {n \in DOMAIN d.attachments : ~d.attachments[n].inline}}
    IN CASE page.status = "missing" -> Damaged(d) \/ Queued(d)
         [] page.status = "inconsistent" -> Miscounted(d)
         [] page.status = "ok" ->
              \/ Damaged(d) \/ Clash(d) \/ Reformed(d) \/ Queued(d)
              \/ /\ page.bytes = Original(d)
                 /\ ToSet(page.attachments) = shown \/ Miscounted(d)
                 /\ \A att \in ToSet(attachments(Original(d))) :
                       LET key == compute_content_hash(file(att))
                           served == Audited(d, file(att))
                       IN /\ download_attachment(d, key) = served
                          /\ retrieve_nested_eml_content(d, key).message_id = message_id(file(att))
                          /\ \A inner \in ToSet(retrieve_nested_eml_content(d, key).attachments) :
                                download_nested_attachment(d, key, inner)
                                    = [served EXCEPT !.content = Result("ok", inner.of)]
                          /\ ToSet(retrieve_nested_eml_content(d, key).attachments)
                                = {compute_content_hash(file(i)) : i \in ToSet(attachments(file(att)))}

\* What the mail server gives back in its place are the bytes archived, and a
\* record that is called intact reads back whole.
Whole(d) == reattach_eml_content(d) = Result("ok", Original(d))
RecoveryTrue(d) ==
    /\ fetch_archived_body(d).status = "ok" => fetch_archived_body(d).bytes = Original(d)
    /\ diagnose_blobs(d).broken \/ Whole(d) \/ Miscounted(d)

\* The copies that can be found: at the UID it was archived under, and by the
\* Message-ID while there are few that have it.
Findable(d) ==
    LET same == {u \in DOMAIN server : message_id(server[u]) = d.message_id /\ u # d.uid}
    IN {d.uid} \cup IF d.message_id # "none" /\ Cardinality(same) <= MaxCandidates THEN same ELSE {}

\* A repair is in the ring with its verdict: repaired is whole; what was fetched
\* and is still not was kept from being written by a backup, was hit again or
\* deleted, or is a record of the older format; failed found no copy.
RepairTrue ==
    request.op \in {"repair", "drain"} /\ request'.op = "none" =>
        LET d == request.d
            verdict == Last(reports').status
        IN /\ Last(reports').d = d
           /\ CASE verdict = "repaired" -> Whole(d)
                [] verdict = "partial" ->
                     \/ request.skipped \/ trouble' < request.left \/ d \notin documents
                     \/ d.box = "old" \/ Clash(d)
                [] verdict = "failed" -> trouble' # trouble \/ \A u \in Findable(d) : ~Matches(u, d)

\* Archived content comes back as it was, and a repair tells the truth about it
\* (extractor.rs: strip_attachment_bodies, reattach_parts, diagnose_blobs,
\* repair_envelope_blobs; repair.rs: persist).
ContentTrue ==
    /\ [](ContentTypeOK /\ \A d \in documents : ReadTrue(d) /\ RecoveryTrue(d))
    /\ [][RepairTrue]_contentVars
=============================================================================
