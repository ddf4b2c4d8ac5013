---------------------------- MODULE MailboxSync ----------------------------
(***************************************************************************)
(* One account's IMAP download, archive/imap/download/: the session        *)
(* process_imap_download runs, the per-mailbox UID watermark it persists,  *)
(* and the queue, writer and index an e-mail passes on its way into the    *)
(* archive.  SyncTasks shows that an account has at most one download at a *)
(* time, so the session is one sequential process here; around it run the  *)
(* mail server, the index writer task, the user and the crash.             *)
(*                                                                         *)
(* UIDs and UIDVALIDITYs start at 1, so 0 stands for Rust's None.  A batch *)
(* is stored in UID order, the order servers answer a FETCH in.  Dates are *)
(* days.  The model has no retention window: its messages are the ones     *)
(* that filter lets through.                                               *)
(***************************************************************************)
EXTENDS Naturals, Sequences, FiniteSets, Functions, FiniteSetsExt

CONSTANTS
    Mailboxes,      \* the download folders of the account
    Messages,       \* e-mails, identified by content
    Setups,         \* the accounts to look at, see Setup
    BatchSize,      \* account.download_batch_size
    MaxRetries,     \* bound: MAX_NETWORK_RETRIES, 3 in the code
    MaxUid,         \* bound: UIDs a mailbox hands out under one UIDVALIDITY
    MaxValidity     \* bound: UIDVALIDITYs a mailbox goes through

\* The account's date range: everything, mail since a day, or mail before a
\* day.  A relative date moves with the calendar, a fixed one does not.
Ranges == [kind : {"all", "since", "before"}, day : Nat, moves : BOOLEAN]
Everything == [kind |-> "all", day |-> 0, moves |-> FALSE]

\* An account and its mail: the date range it begins with and the requests
\* that may change it; of each message the INTERNALDATE, the Message-ID, or
\* none, and the fingerprint by size and date; the messages the parser rejects
\* and the ones above max_email_size_bytes.  Two bounds belong
\* to it: days, the days that pass, and faults, how many errors,
\* cancellations, restarts, UIDVALIDITY changes, messages deleted at the
\* server, mailboxes the user deletes, changes of the date range and sessions
\* with gap-fill there are, all together.
Requests == [date_since : Ranges, date_before : Ranges, clear_date_range : BOOLEAN]
Setup(x) ==
    /\ x.range \in Ranges
    /\ x.requests \subseteq Requests
    /\ x.date \in [Messages -> Nat]
    /\ DOMAIN x.id = Messages /\ DOMAIN x.print = Messages
    /\ x.broken \subseteq Messages /\ x.oversized \subseteq Messages
    /\ {x.days, x.faults} \subseteq Nat

ASSUME MailboxSyncAssumption ==
    /\ Mailboxes # {} /\ IsFiniteSet(Mailboxes)
    /\ IsFiniteSet(Messages)
    /\ \A x \in Setups : Setup(x)
    /\ {BatchSize, MaxValidity} \subseteq Nat \ {0}
    /\ {MaxRetries, MaxUid} \subseteq Nat

VARIABLES
    setup,      \* the account and its mail
    range,      \* its date range: date_since, date_before
    today,      \* the calendar
    server,     \* per mailbox: its UIDVALIDITY and the message at each UID
    rows,       \* MailBox rows: uid_validity, highest_uid and, as history,
                \* whether the next sync may start past unfetched messages
    queue,      \* documents on their way to the index writer and in it, oldest
                \* first, until they are committed
    index,      \* committed documents
    dedup,      \* DEDUP_CACHE
    state,      \* DownloadState: known, active session, folders, last result
    gapRun,     \* GapFillState: the active run and how the last one ended
    window,     \* the date range as the session read it
    step,       \* where process_imap_download is
    gapFill,    \* run_gap_fill of the session
    listed,     \* remote_mailboxes: exists and UIDVALIDITY as STATUS told
    local,      \* local_mailboxes, read once per session
    todo,       \* folders the current loop has yet to visit
    updates,    \* mailboxes_to_update
    failed,     \* failed_folders > 0 or has_error
    cancelled,  \* the session's cancellation token
    job,        \* the folder being downloaded
    faults,     \* how much of setup.faults is used
    lost,       \* history: messages a crash dropped before their commit
    forgot,     \* history: messages a restart found too old for DEDUP_CACHE
    passed      \* history: messages outside the date range when a download
                \* with a later one inside it was planned

account == <<setup, range, today>>
archive == <<queue, index, dedup>>
session == <<window, step, gapFill, listed, local, todo, updates, failed, cancelled, job>>
history == <<lost, forgot, passed>>
vars == <<account, server, rows, archive, state, gapRun, session, faults, history>>

Gone == "gone"
NoId == "none"
Uids(b) == {u \in DOMAIN server[b].at : server[b].at[u] # Gone}
At(b, u) == server[b].at[u]
OnServer(b) == {At(b, u) : u \in Uids(b)}
Ascending(S) ==
    CHOOSE s \in [1 .. Cardinality(S) -> S] : \A i, j \in DOMAIN s : i < j => s[i] < s[j]
Top(S) == IF S = {} THEN 0 ELSE Max(S)

Broken == setup.broken
Oversized == setup.oversized

\* DateSince::since_date and RelativeDate::calculate_date.
Cutoff(r) == r.day + IF r.moves THEN today ELSE 0

\* SINCE and BEFORE compare the day of a message's INTERNALDATE.
InRange(r, m) ==
    /\ r.kind = "since" => setup.date[m] >= Cutoff(r)
    /\ r.kind = "before" => setup.date[m] < Cutoff(r)
Within(b, uids) == {u \in uids : InRange(window, At(b, u))}

Kinds == {"full", "dated", "new", "before", "reconcile", "gap"}
NoJob == [kind |-> "none"]
Docs == [msg : Messages, uid : Nat \ {0}]
Msgs(docs) == {d.msg : d \in docs}
Of(b, entries) == {e.doc : e \in {x \in Range(entries) : x.box = b}}
AllDocs(b) == index[b] \cup Of(b, queue)
Archived(b) == Msgs(AllDocs(b))
FolderStatus == {"open", "success", "failed", "cancelled"}
Verdicts == {"none", "success", "failed", "cancelled"}
Spend == faults < setup.faults /\ faults' = faults + 1

TypeOK ==
    /\ \A b \in Mailboxes :
        /\ server[b].validity \in 1 .. MaxValidity
        /\ server[b].at \in Seq(Messages \cup {Gone})
        /\ index[b] \subseteq Docs
        /\ dedup[b] \subseteq Messages
    /\ queue \in Seq([box : Mailboxes, doc : Docs])
    /\ DOMAIN rows \subseteq Mailboxes
    /\ \A b \in DOMAIN rows : 
        rows[b] \in [validity : 0 .. MaxValidity + 1, highest : 0 .. MaxUid,
                    holes : BOOLEAN]
    /\ state \in [known : BOOLEAN, active : BOOLEAN, last : Verdicts,
                  folder : [Mailboxes -> FolderStatus]]
    /\ range \in Ranges /\ window \in Ranges /\ today \in 0 .. setup.days
    /\ gapRun.active \in BOOLEAN /\ gapRun.last \in Verdicts
    /\ {gapRun.failed, gapRun.stopped} \subseteq BOOLEAN
    /\ step \in {"idle", "list", "list_full", "full", "trace", "missing", "gap", "end"}
    /\ step = "idle" => job = NoJob
    /\ todo \subseteq Mailboxes
    /\ DOMAIN updates \subseteq Mailboxes
    /\ job.kind \in Kinds \cup {"none"}
    /\ {gapFill, failed, cancelled} \subseteq BOOLEAN
    /\ faults \in 0 .. setup.faults
    /\ \A b \in Mailboxes : lost[b] \cup forgot[b] \cup passed[b] \subseteq Messages

Empty == [b \in Mailboxes |-> {}]
NoRows == [b \in {} |-> 0]

\* Some rows written over others, and one row.
Over(new, old) ==
    [b \in DOMAIN new \cup DOMAIN old |-> IF b \in DOMAIN new THEN new[b] ELSE old[b]]
Put(b, row, old) == Over([c \in {b} |-> row], old)
NoRun == [active |-> FALSE, last |-> "none", failed |-> FALSE, stopped |-> FALSE,
          seen |-> Empty, epoch |-> [b \in Mailboxes |-> 0]]
Init ==
    /\ setup \in Setups
    /\ range = setup.range /\ window = Everything /\ today = 0
    /\ gapRun = NoRun
    /\ server = [b \in Mailboxes |-> [validity |-> 1, at |-> <<>>]]
    /\ rows = NoRows
    /\ queue = <<>> /\ index = Empty /\ dedup = Empty
    /\ state = [known |-> FALSE, active |-> FALSE, last |-> "none",
                folder |-> [b \in Mailboxes |-> "open"]]
    /\ step = "idle" /\ gapFill = FALSE
    /\ listed = NoRows /\ local = NoRows /\ todo = {} /\ updates = NoRows
    /\ failed = FALSE /\ cancelled = FALSE /\ job = NoJob
    /\ faults = 0
    /\ lost = Empty /\ forgot = Empty /\ passed = Empty

----------------------------------------------------------------------------
(* The mail server (external). *)

\* New mail gets the next UID.
Deliver(b, m) ==
    /\ m \notin OnServer(b)
    /\ Len(server[b].at) < MaxUid
    /\ server' = [server EXCEPT ![b].at = Append(@, m)]
    /\ UNCHANGED <<account, rows, archive, state, gapRun, session, faults, history>>

\* A message is deleted at the server; its UID is never used again.
Expunge(b, u) ==
    /\ u \in Uids(b)
    /\ Spend
    /\ server' = [server EXCEPT ![b].at[u] = Gone]
    /\ UNCHANGED <<account, rows, archive, state, gapRun, session, history>>

\* The server renumbers the mailbox, or recreates it without its messages,
\* and announces it by a new UIDVALIDITY.
Revalidate(b, keep) ==
    /\ server[b].validity < MaxValidity
    /\ Spend
    /\ server' = [server EXCEPT ![b] =
         [validity |-> @.validity + 1,
          at |-> IF keep THEN [i \in 1 .. Cardinality(Uids(b)) |-> At(b, Ascending(Uids(b))[i])]
                 ELSE <<>>]]
    /\ UNCHANGED <<account, rows, archive, state, gapRun, session, history>>

----------------------------------------------------------------------------
(* The archive: the queue, the writer task and the deduplication cache. *)

\* extract_envelope_core for one fetched message: a content already in the
\* cache is a duplicate; otherwise the document is queued and then cached.
Storable(b, uids) ==
    {u \in uids : u \in Uids(b) /\ At(b, u) \notin Broken \cup Oversized}
\* Mutant: the deduplication cache is not consulted.
StoreAgain(b, uids) ==
    LET new == Storable(b, uids)
        Entry(u) == [box |-> b, doc |-> [msg |-> At(b, u), uid |-> u]]
    IN  /\ queue' = queue \o [i \in 1 .. Cardinality(new) |-> Entry(Ascending(new)[i])]
        /\ dedup' = [dedup EXCEPT ![b] = @ \cup {At(b, u) : u \in new}]
        /\ UNCHANGED index

Store(b, uids) ==
    LET new == {u \in Storable(b, uids) : At(b, u) \notin dedup[b]}
        Entry(u) == [box |-> b, doc |-> [msg |-> At(b, u), uid |-> u]]
    IN  /\ queue' = queue \o [i \in 1 .. Cardinality(new) |-> Entry(Ascending(new)[i])]
        /\ dedup' = [dedup EXCEPT ![b] = @ \cup {At(b, u) : u \in new}]
        /\ UNCHANGED index

First(n) == SubSeq(queue, 1, n)
After(n) == SubSeq(queue, n + 1, Len(queue))
Indexed(n) == [b \in Mailboxes |-> index[b] \cup Of(b, First(n))]

\* The writer task drains its channel into the index writer and commits on
\* its timer or at its threshold; what is sent meanwhile waits.
Commit(n) ==
    /\ n \in 1 .. Len(queue)
    /\ index' = Indexed(n) /\ queue' = After(n)
    /\ UNCHANGED <<account, server, rows, dedup, state, gapRun, session, faults, history>>

\* delete_mailbox_envelopes: the delete query reaches what the writer has and
\* commits; documents still in the channel are added after it and stay.
DeleteEnvelopes(b) ==
    /\ \E n \in 0 .. Len(queue) :
        /\ index' = [Indexed(n) EXCEPT ![b] = {}]
        /\ queue' = After(n)
    /\ dedup' = [dedup EXCEPT ![b] = {}]

----------------------------------------------------------------------------
(* The account's date range and the calendar. *)

\* AccountUpdateRequest: the three ways to change the range exclude each other.
Sets(r) == r.kind # "all"
validate_update_request(q) ==
    /\ ~(Sets(q.date_since) /\ Sets(q.date_before))
    /\ q.clear_date_range => ~Sets(q.date_since) /\ ~Sets(q.date_before)
apply_update_fields(q) ==
    IF q.clear_date_range THEN Everything
    ELSE IF Sets(q.date_before) THEN q.date_before
    ELSE IF Sets(q.date_since) THEN q.date_since
    ELSE range

\* The user changes the account while it is at rest or being downloaded.
UpdateAccount(q) ==
    /\ validate_update_request(q) /\ apply_update_fields(q) # range
    /\ Spend
    /\ range' = apply_update_fields(q)
    /\ UNCHANGED <<setup, today, server, rows, archive, state, gapRun, session, history>>

\* Midnight, between two sessions.
DayPasses ==
    /\ step = "idle" /\ today < setup.days
    /\ today' = today + 1
    /\ UNCHANGED <<setup, range, server, rows, archive, state, gapRun, session, faults, history>>

----------------------------------------------------------------------------
(* Starting and ending a session. *)

Close(s, verdict) ==
    IF s.active THEN [s EXCEPT !.active = FALSE, !.last = verdict] ELSE s
Folder(b, status) ==
    state' = IF state.active THEN [state EXCEPT !.folder[b] = status] ELSE state
NewSession == [known |-> TRUE, active |-> TRUE, last |-> "none",
               folder |-> [b \in Mailboxes |-> "open"]]
Rested == <<account, server, gapRun, archive, history>>

\* Mutant: an account whose session is marked running is left alone.
StartUnlessActive(gap) ==
    /\ step = "idle" /\ ~state.active
    /\ IF gap THEN Spend ELSE UNCHANGED faults
    /\ state' = NewSession
    /\ step' = IF state.known THEN "list" ELSE "list_full"
    /\ gapFill' = gap /\ window' = range
    /\ UNCHANGED <<Rested, rows, listed, local, todo, updates, failed, cancelled, job>>

\* decide_next_download_task: the first session of an account is a full
\* fetch; a later one replaces a session an interrupted run left behind.  The
\* session keeps the account as it read it.
Start(gap) ==
    /\ step = "idle"
    /\ IF gap THEN Spend ELSE UNCHANGED faults
    /\ state' = NewSession
    /\ step' = IF state.known THEN "list" ELSE "list_full"
    /\ gapFill' = gap /\ window' = range
    /\ UNCHANGED <<Rested, rows, listed, local, todo, updates, failed, cancelled, job>>

\* Nothing is due: a session left running is closed as cancelled.
FinalizeStale ==
    /\ step = "idle" /\ state.active
    /\ state' = Close(state, "cancelled")
    /\ UNCHANGED <<Rested, rows, session, faults>>

\* What a session leaves behind in memory: nothing.
Rest == /\ step' = "idle" /\ gapFill' = FALSE /\ listed' = NoRows
        /\ local' = NoRows /\ todo' = {} /\ updates' = NoRows
        /\ failed' = FALSE /\ cancelled' = FALSE /\ job' = NoJob
        /\ window' = Everything

\* The connection or the folder listing fails.
ListFails ==
    /\ step \in {"list", "list_full"}
    /\ Spend
    /\ state' = Close(state, "failed")
    /\ Rest
    /\ UNCHANGED <<Rested, rows>>

\* STATUS of every folder.  A server may leave the UIDVALIDITY out.
Status(b, told) == [validity |-> IF told THEN server[b].validity ELSE 0,
                    exists |-> Cardinality(Uids(b))]
Row(validity, highest, holes) ==
    [validity |-> validity, highest |-> highest, holes |-> holes]
Insert(bs, view) == [b \in bs |-> Row(view[b].validity, 0, FALSE)]

\* The folders are known.  A full fetch inserts every row and visits every
\* folder; otherwise the stored rows are read, once, and the folders that
\* have one are reconciled first.
List ==
    /\ step \in {"list", "list_full"}
    /\ \E told \in SUBSET Mailboxes :
        /\ IF told = Mailboxes THEN UNCHANGED faults ELSE Spend
        /\ listed' = [b \in Mailboxes |-> Status(b, b \in told)]
    /\ \/ /\ step = "list_full"
          /\ rows' = Over(Insert(Mailboxes, listed'), rows)
          /\ step' = "full" /\ todo' = Mailboxes
          /\ UNCHANGED local
       \/ /\ step = "list"
          /\ local' = rows
          /\ step' = "trace" /\ todo' = DOMAIN rows
          /\ UNCHANGED rows
    /\ UNCHANGED <<Rested, state, window, gapFill, updates, failed, cancelled, job>>

\* The user stops the account's download, or the server shuts down.
Cancel ==
    /\ step # "idle" /\ ~cancelled
    /\ Spend
    /\ cancelled' = TRUE
    /\ UNCHANGED <<Rested, rows, state, window, step, gapFill, listed, local,
                   todo, updates, failed, job>>

\* A database write of the session is refused, as during a backup window: its
\* error leaves process_imap_download with the session still marked running,
\* and the gap-fill run too if it was in that phase.
Abandon ==
    /\ step # "idle"
    /\ Spend
    /\ Rest
    /\ UNCHANGED <<Rested, rows, state>>

----------------------------------------------------------------------------
(* The folder loops. *)

Loops == {"full", "trace", "missing", "gap"}
AtLoopHead == step \in Loops /\ job = NoJob
Session == <<window, step, gapFill, listed, local, cancelled>>

\* Every loop looks at the token before each folder.  The download loops
\* close the session as cancelled, the gap-fill phase only stops.
StopLoop ==
    /\ AtLoopHead /\ todo # {} /\ cancelled
    /\ todo' = {}
    /\ \/ /\ step = "gap"
          /\ gapRun' = [gapRun EXCEPT !.stopped = TRUE]
          /\ UNCHANGED state
       \/ /\ step # "gap"
          /\ state' = Close(state, "cancelled")
          /\ UNCHANGED gapRun
    /\ UNCHANGED <<account, server, rows, archive, Session, updates, failed, job,
                   faults, history>>

Visit(b) == AtLoopHead /\ b \in todo /\ ~cancelled
Visited(b) == todo' = todo \ {b}

\* The UIDVALIDITY reconcile_mailboxes works with.  Where STATUS gave none, a
\* stored one is asked for again and kept if the retries fail too; without
\* one a synthetic value, above every real one, is made up.
Synthetic == MaxValidity + 1
fetch_uid_validity_with_retry(b) == {server[b].validity, 0}
Resolved(b) ==
    IF listed[b].validity # 0 THEN {listed[b].validity}
    ELSE IF local[b].validity # 0
         THEN {IF v # 0 THEN v ELSE local[b].validity :
                 v \in fetch_uid_validity_with_retry(b)}
    ELSE {Synthetic}

\* Where perform_incremental_sync starts: after the stored watermark or, if
\* there is none, after the highest UID in the committed index.
MaxIndexed(b) == Top({d.uid : d \in index[b]})
StartUid(b) == (IF local[b].highest # 0 THEN local[b].highest ELSE MaxIndexed(b)) + 1

\* The row a reconciled folder will get: None never clears the watermark.
Keep(b, validity, highest) ==
    Row(IF listed[b].validity # 0 THEN listed[b].validity ELSE validity,
        IF highest # 0 THEN highest ELSE local[b].highest,
        IF validity = local[b].validity THEN local[b].holes
        ELSE highest = 0 /\ (local[b].highest # 0 \/ AllDocs(b) # {}))

Job(b, kind, uids, top, validity, complete) ==
    [kind |-> kind, box |-> b, uids |-> Ascending(uids), top |-> top,
     validity |-> validity, tries |-> 0, complete |-> complete,
     epoch |-> server[b].validity]
\* History: what the date range keeps out of a download that goes beyond it.
Pass(b, uids, top) ==
    passed' = [passed EXCEPT ![b] =
        @ \cup {At(b, u) : u \in {v \in uids \ Within(b, uids) : v <= top}}]

\* fetch_and_save_full_mailbox: UID SEARCH ALL.
FullJob(b, validity) ==
    /\ job' = Job(b, "full", Uids(b), Top(Uids(b)), validity, TRUE)
    /\ UNCHANGED passed

\* fetch_and_save_by_date: UID SEARCH SINCE or BEFORE the day.
DatedJob(b, validity) ==
    LET uids == Within(b, Uids(b))
    IN  /\ job' = Job(b, "dated", uids, Top(uids), validity, TRUE)
        /\ Pass(b, Uids(b), Top(uids))

\* A folder whose messages are not here yet.
Rebuild(b, validity) ==
    IF window = Everything THEN FullJob(b, validity) ELSE DatedJob(b, validity)

\* UID FETCH start:* with sizes and dates drops the oversized.  A server may
\* clamp the range and answer with an older message, or with nothing.
collect_range_uids(b) ==
    {u \in Uids(b) : At(b, u) \notin Oversized
                     /\ (u >= StartUid(b) \/ u = Top(Uids(b)))}
filter_before_date(b, uids) == Within(b, uids)

\* fetch_new_mail: new mail from the start on, and only the part before the
\* account's day if it has one.  An empty answer moves no watermark.
NewJob(b, validity, uids) ==
    /\ job' = Job(b, "new", uids, Top(uids), validity, TRUE)
    /\ UNCHANGED passed
\* Mutant: the messages the date excludes count for the watermark.
BeforeJobAll(b, validity, uids) ==
    /\ job' = Job(b, "before", filter_before_date(b, uids), Top(uids), validity, TRUE)
    /\ Pass(b, uids, Top(filter_before_date(b, uids)))
BeforeJob(b, validity, uids) ==
    LET early == filter_before_date(b, uids)
    IN  /\ job' = Job(b, "before", early, Top(early), validity, TRUE)
        /\ Pass(b, uids, Top(early))
fetch_new_mail(b, validity) ==
    \E answered \in BOOLEAN :
        LET uids == IF answered THEN {u \in collect_range_uids(b) : u >= StartUid(b)}
                    ELSE {}
        IN  /\ IF answered THEN UNCHANGED faults ELSE Spend
            /\ IF window.kind = "before" THEN BeforeJob(b, validity, uids)
               ELSE NewJob(b, validity, uids)

\* UIDs whose Message-ID no committed document carries; a message without one
\* is given a random one when it is stored.
fetch_uid_metadata(b, uids) == [u \in uids |-> setup.id[At(b, u)]]
get_message_ids_for_mailbox(b) == {setup.id[m] : m \in Msgs(index[b])} \ {NoId}
Missing(b, ids) == {u \in DOMAIN ids : ids[u] \notin get_message_ids_for_mailbox(b)}
ReconcileJob(b, validity) ==
    LET uids == Within(b, Uids(b))
        missing == Missing(b, fetch_uid_metadata(b, uids))
    IN  /\ job' = Job(b, "reconcile", missing, Top(uids), validity, TRUE)
        /\ Pass(b, Uids(b), Top(uids))

VisitFull(b) ==
    /\ step = "full" /\ Visit(b) /\ Visited(b)
    /\ IF listed[b].exists = 0
         THEN Folder(b, "success") /\ UNCHANGED <<job, passed>>
         ELSE Rebuild(b, listed[b].validity) /\ UNCHANGED state
    /\ UNCHANGED <<account, server, rows, archive, gapRun, Session, updates,
                   failed, faults, lost, forgot>>

\* perform_incremental_sync: only new mail, or everything if neither a
\* watermark nor a committed document says where to start.
perform_incremental_sync(b, v) ==
    \/ /\ listed[b].exists = 0
       /\ updates' = Put(b, Keep(b, v, local[b].highest), updates)
       /\ UNCHANGED <<job, passed, faults>>
    \/ /\ listed[b].exists > 0 /\ StartUid(b) = 1
       /\ Rebuild(b, v)
       /\ UNCHANGED <<updates, faults>>
    \/ /\ listed[b].exists > 0 /\ StartUid(b) # 1
       /\ fetch_new_mail(b, v)
       /\ UNCHANGED updates

\* Mutant: a changed UIDVALIDITY drops the local copy and downloads afresh.
VisitTraceAfresh(b) ==
    /\ step = "trace" /\ Visit(b) /\ Visited(b)
    /\ \E v \in Resolved(b) :
        \/ /\ v # local[b].validity
           /\ DeleteEnvelopes(b) /\ Rebuild(b, v)
           /\ UNCHANGED <<updates, faults>>
        \/ /\ v = local[b].validity
           /\ perform_incremental_sync(b, v)
           /\ UNCHANGED archive
    /\ UNCHANGED <<account, server, rows, state, gapRun, Session, failed, lost, forgot>>

\* One folder of reconcile_mailboxes: a changed UIDVALIDITY is reconciled by
\* Message-ID.
VisitTrace(b) ==
    /\ step = "trace" /\ Visit(b) /\ Visited(b)
    /\ \E v \in Resolved(b) :
        \/ /\ v # local[b].validity
           /\ ReconcileJob(b, v)
           /\ UNCHANGED <<updates, faults>>
        \/ /\ v = local[b].validity
           /\ perform_incremental_sync(b, v)
    /\ UNCHANGED <<account, server, rows, archive, state, gapRun, Session, failed,
                   lost, forgot>>

\* A folder without a row: rebuild_mailbox_cache clears what the index may
\* hold for it and downloads it.
VisitMissing(b) ==
    /\ step = "missing" /\ Visit(b) /\ Visited(b)
    /\ DeleteEnvelopes(b)
    /\ Rebuild(b, listed[b].validity)
    /\ UNCHANGED <<account, server, rows, state, gapRun, Session, updates, failed,
                   faults, lost, forgot>>

\* History: gap-fill left out some messages of a mailbox without a watermark,
\* so the next sync starts after the ones it did store.
MarkHoles(b) == rows' = [rows EXCEPT ![b].holes = @ \/ rows[b].highest = 0]

\* For gap-fill an equal fingerprint will do as well.
fetch_uid_headers(b, uids) ==
    [u \in uids |-> [id |-> setup.id[At(b, u)], print |-> setup.print[At(b, u)]]]
get_envelope_snapshots_for_mailbox(b) ==
    {[id |-> setup.id[m], print |-> setup.print[m]] : m \in Msgs(index[b])}
compute_missing_uids(b, headers) ==
    {u \in DOMAIN headers : \A s \in get_envelope_snapshots_for_mailbox(b) :
        /\ headers[u].id = NoId \/ headers[u].id # s.id
        /\ headers[u].print # s.print}

\* gap_fill_mailbox compares every UID, whatever the date range; a header
\* batch that fails leaves its UIDs uncompared.
VisitGap(b) ==
    /\ step = "gap" /\ Visit(b) /\ Visited(b)
    /\ \E seen \in SUBSET Uids(b) :
        /\ IF seen = Uids(b) THEN UNCHANGED <<rows, faults>>
                            ELSE MarkHoles(b) /\ Spend
        /\ LET missing == compute_missing_uids(b, fetch_uid_headers(b, seen))
           IN  job' = Job(b, "gap", missing, Top(missing), listed[b].validity,
                          seen = Uids(b))
        /\ gapRun' = [gapRun EXCEPT !.failed = @ \/ seen # Uids(b),
                         !.seen[b] = Uids(b), !.epoch[b] = server[b].validity]
    /\ UNCHANGED <<account, server, archive, state, Session, updates, failed, history>>

\* A folder's connection or search fails.
VisitFails(b) ==
    /\ Visit(b) /\ Visited(b)
    /\ Spend
    /\ failed' = (failed \/ step # "gap")
    /\ \/ /\ step = "full" => listed[b].exists > 0
          /\ step \in {"full", "missing"}
          /\ Folder(b, "failed")
          /\ UNCHANGED gapRun
       \/ /\ step = "trace"
          /\ \E v \in Resolved(b) :
                /\ v = local[b].validity => listed[b].exists > 0
                /\ IF v = local[b].validity /\ StartUid(b) = 1
                     THEN Folder(b, "failed") ELSE UNCHANGED state
          /\ UNCHANGED gapRun
       \/ /\ step = "gap"
          /\ gapRun' = [gapRun EXCEPT !.failed = TRUE]
          /\ UNCHANGED state
    /\ IF step = "missing" THEN DeleteEnvelopes(b) ELSE UNCHANGED archive
    /\ UNCHANGED <<account, server, rows, Session, updates, job, history>>

----------------------------------------------------------------------------
(* The batches of a folder. *)

Box == job.box
Batch == SubSeq(job.uids, 1, Min({BatchSize, Len(job.uids)}))
NextBatch == SubSeq(job.uids, Len(Batch) + 1, Len(job.uids))
Downloading == job # NoJob /\ job.uids # <<>>

\* What each loop does with Ok(highest) of a folder.  Only the two download
\* loops over rows they just inserted write the row at once; reconciled
\* folders wait in mailboxes_to_update.
FolderOk(highest) ==
    /\ \/ /\ step = "full"
          /\ rows' = IF highest = 0 THEN rows
                     ELSE Put(Box, Row(listed[Box].validity, highest, FALSE), rows)
          /\ UNCHANGED updates
       \/ /\ step = "trace"
          /\ updates' = Put(Box, Keep(Box, job.validity, highest), updates)
          /\ UNCHANGED rows
       \/ /\ step = "missing"
          /\ rows' = Put(Box, Row(listed[Box].validity, highest, FALSE), rows)
          /\ UNCHANGED updates
    /\ UNCHANGED failed

\* And with Err: the folder counts as failed and keeps its row.
FolderErr == failed' = TRUE /\ UNCHANGED <<rows, updates>>

\* How the batch loop of each download function ends: with all its batches
\* done, on a batch that broke off, or because the token was cancelled.
\* The two loops over a whole folder answer Ok(None) where they did not get
\* through; the others answer with an error.
fetch_and_save_full_mailbox(outcome) ==
    \/ outcome = "done" /\ Folder(Box, "success") /\ FolderOk(job.top)
    \/ outcome = "broken" /\ Folder(Box, "failed") /\ FolderOk(0)
    \/ outcome = "cancelled" /\ state' = Close(state, "cancelled") /\ FolderOk(0)

\* Mutant (#377): a download that breaks off still advances the watermark.
fetch_and_save_by_date_advances(outcome) ==
    \/ outcome = "done" /\ Folder(Box, "success") /\ FolderOk(job.top)
    \/ outcome = "broken" /\ Folder(Box, "failed") /\ FolderOk(job.top)
    \/ outcome = "cancelled" /\ state' = Close(state, "cancelled") /\ FolderOk(0)
fetch_and_save_by_date(outcome) ==
    \/ outcome = "done" /\ Folder(Box, "success") /\ FolderOk(job.top)
    \/ outcome = "broken" /\ Folder(Box, "failed") /\ FolderOk(0)
    \/ outcome = "cancelled" /\ state' = Close(state, "cancelled") /\ FolderOk(0)
fetch_new_mail_range(outcome) ==
    \/ outcome = "done" /\ Folder(Box, "success") /\ FolderOk(job.top)
    \/ outcome = "broken" /\ FolderErr /\ UNCHANGED state
    \/ outcome = "cancelled" /\ state' = Close(state, "cancelled") /\ FolderErr
fetch_new_mail_with_before(outcome) ==
    \/ outcome = "done" /\ Folder(Box, "success") /\ FolderOk(job.top)
    \/ outcome = "broken" /\ FolderErr /\ UNCHANGED state
    \/ outcome = "cancelled" /\ state' = Close(state, "cancelled") /\ FolderErr
reconcile_uid_validity_change(outcome) ==
    \/ outcome = "done" /\ Folder(Box, "success") /\ FolderOk(job.top)
    \/ outcome = "broken" /\ Folder(Box, "failed") /\ FolderErr
    \/ outcome = "cancelled" /\ Folder(Box, "cancelled") /\ FolderErr
EndFolder(outcome) ==
    /\ \/ job.kind = "full" /\ fetch_and_save_full_mailbox(outcome)
       \/ job.kind = "dated" /\ fetch_and_save_by_date(outcome)
       \/ job.kind = "new" /\ fetch_new_mail_range(outcome)
       \/ job.kind = "before" /\ fetch_new_mail_with_before(outcome)
       \/ job.kind = "reconcile" /\ reconcile_uid_validity_change(outcome)
    /\ job' = NoJob
    /\ UNCHANGED gapRun

\* gap_fill_mailbox goes on after a batch that broke off.  A message that is
\* not parsed, or not stored by a batch that broke off, counts as failed; one
\* that is too large or gone counts as neither failed nor downloaded.
gap_fill_batch(stored, unparsed) ==
    /\ job' = [job EXCEPT !.uids = NextBatch, !.tries = 0,
                          !.complete = @ /\ stored = Range(Batch)]
    /\ gapRun' = [gapRun EXCEPT !.failed = @ \/ unparsed]
    /\ UNCHANGED <<state, updates, failed>>
Unparsed(b, uids) == \E u \in uids : u \in Uids(b) /\ At(b, u) \in Broken

\* uid_batch_retrieve_emails: a batch arrives.
FetchBatch ==
    /\ Downloading /\ ~cancelled
    /\ Store(Box, Range(Batch))
    /\ \/ /\ job.kind = "gap"
          /\ gap_fill_batch(Storable(Box, Range(Batch)), Unparsed(Box, Range(Batch)))
       \/ /\ job.kind # "gap"
          /\ job' = [job EXCEPT !.uids = NextBatch, !.tries = 0]
          /\ UNCHANGED <<state, gapRun, updates, failed>>
    /\ UNCHANGED <<account, server, rows, Session, todo, faults, history>>

\* A batch breaks off after k of its messages: by an error of the network or
\* of the archive, or because the token was cancelled under it.
Break(k) ==
    /\ Downloading
    /\ k \in 0 .. Len(Batch)
    /\ IF cancelled THEN UNCHANGED faults ELSE Spend
    /\ Store(Box, Range(SubSeq(Batch, 1, k)))
    /\ UNCHANGED <<account, server, Session, todo, history>>

\* A network error is retried on a new connection, except while reconciling
\* and below a date.
Retried == {"full", "dated", "new", "gap"}
RetryBatch(k) ==
    /\ Break(k)
    /\ ~cancelled /\ job.kind \in Retried /\ job.tries < MaxRetries
    /\ job' = [job EXCEPT !.tries = @ + 1]
    /\ UNCHANGED <<rows, state, gapRun, updates, failed>>

\* Otherwise the folder ends here, or gap-fill goes on with the next batch.
FailBatch(k) ==
    /\ Break(k)
    /\ \/ EndFolder("broken")
       \/ /\ job.kind = "gap"
          /\ LET stored == Storable(Box, Range(SubSeq(Batch, 1, k)))
             IN  gap_fill_batch(stored, stored # Range(Batch))
          /\ MarkHoles(Box)

\* The token is looked at before each batch.
CancelFolder ==
    /\ Downloading /\ cancelled
    /\ \/ EndFolder("cancelled")
       \/ job.kind = "gap" /\ job' = NoJob /\ UNCHANGED <<rows, state, gapRun, updates, failed>>
    /\ UNCHANGED <<account, server, archive, Session, todo, faults, history>>

\* All batches are through.
FolderDone ==
    /\ job # NoJob /\ job.uids = <<>>
    /\ EndFolder("done")
    /\ UNCHANGED <<account, server, archive, Session, todo, faults, history>>

\* Gap-fill writes the row from the listing and from the local row the
\* session read when it began.
GapDone ==
    /\ job # NoJob /\ job.uids = <<>> /\ job.kind = "gap"
    /\ rows' = IF job.complete /\ job.top # 0
               THEN Put(Box, Row(listed[Box].validity,
                                 Max({job.top, local[Box].highest}),
                                 local[Box].highest # 0 /\
                                   (local[Box].holes \/
                                    local[Box].validity # listed[Box].validity)),
                        rows)
               ELSE rows
    /\ job' = NoJob
    /\ UNCHANGED <<account, server, archive, state, gapRun, Session, todo,
                   updates, failed, faults, history>>

----------------------------------------------------------------------------
(* Between the loops, and the end of the session. *)

LoopDone == AtLoopHead /\ todo = {}

\* The reconciled rows are persisted together, after every folder was tried;
\* then the folders without a row are inserted and downloaded.
EndTrace ==
    /\ step = "trace" /\ LoopDone
    /\ LET missing == Mailboxes \ DOMAIN local
       IN  /\ rows' = Over(Insert(missing, listed), Over(updates, rows))
           /\ todo' = {b \in missing : listed[b].exists > 0}
    /\ updates' = NoRows
    /\ step' = "missing"
    /\ UNCHANGED <<Rested, state, window, gapFill, listed, local, failed,
                   cancelled, job, faults>>

\* Gap-fill, if it was asked for, runs even after failed folders.  start_run
\* replaces a run that was left active.
BeginGap ==
    /\ step = "missing" /\ LoopDone /\ gapFill
    /\ step' = "gap"
    /\ todo' = DOMAIN local
    /\ gapRun' = [NoRun EXCEPT !.active = TRUE]
    /\ UNCHANGED <<account, server, rows, archive, state, window, gapFill, listed,
                   local, updates, failed, cancelled, job, faults, history>>

\* finish_run: a token cancelled inside a folder is noticed only before the
\* next one.
RunVerdict == IF gapRun.stopped THEN "cancelled"
              ELSE IF gapRun.failed THEN "failed" ELSE "success"
\* Mutant: the verdict does not look at the failed messages.
finish_run_regardless ==
    /\ step = "gap" /\ LoopDone
    /\ gapRun' = [NoRun EXCEPT !.last = IF gapRun.stopped THEN "cancelled" ELSE "success"]
    /\ step' = "end"
    /\ UNCHANGED <<account, server, rows, archive, state, window, gapFill, listed,
                   local, todo, updates, failed, cancelled, job, faults, history>>
finish_run ==
    /\ step = "gap" /\ LoopDone
    /\ gapRun' = [NoRun EXCEPT !.last = RunVerdict]
    /\ step' = "end"
    /\ UNCHANGED <<account, server, rows, archive, state, window, gapFill, listed,
                   local, todo, updates, failed, cancelled, job, faults, history>>

\* A session closed as cancelled stays so.
Finish ==
    /\ \/ step \in {"full", "missing"} /\ LoopDone
       \/ step = "end"
    /\ step = "missing" => ~gapFill
    /\ state' = Close(state, IF failed THEN "failed" ELSE "success")
    /\ Rest
    /\ UNCHANGED <<Rested, rows, faults>>

----------------------------------------------------------------------------
(* The user and the crash. *)

\* delete_mailbox_impl while the account is at rest and its queue is empty.
DeleteMailbox(b) ==
    /\ step = "idle" /\ b \in DOMAIN rows /\ Of(b, queue) = {}
    /\ Spend
    /\ rows' = [c \in DOMAIN rows \ {b} |-> rows[c]]
    /\ DeleteEnvelopes(b)
    /\ UNCHANGED <<account, server, state, gapRun, session, history>>

\* The process ends and is started again.  A shutdown commits what the writer
\* has, a crash does not; neither drains the channel.  The cache is filled
\* with the index's recent documents, and a session and a gap-fill run left
\* running are closed.
Restart(n) ==
    /\ Spend
    /\ n \in 0 .. Len(queue)
    /\ index' = Indexed(n) /\ queue' = <<>>
    /\ lost' = [b \in Mailboxes |-> lost[b] \cup Msgs(Of(b, After(n)))]
    /\ \E recent \in SUBSET Messages :
        /\ dedup' = [b \in Mailboxes |-> Msgs(index'[b]) \cap recent]
        /\ forgot' = [b \in Mailboxes |-> forgot[b] \cup (Msgs(index'[b]) \ recent)]
    /\ state' = Close(state, "cancelled")
    /\ gapRun' = IF gapRun.active THEN [NoRun EXCEPT !.last = "cancelled"] ELSE gapRun
    /\ Rest
    /\ UNCHANGED <<account, server, rows, passed>>

SessionStep ==
    \/ List \/ StopLoop
    \/ \E b \in Mailboxes : VisitFull(b) \/ VisitTrace(b) \/ VisitMissing(b) \/ VisitGap(b)
    \/ FetchBatch \/ CancelFolder \/ FolderDone \/ GapDone
    \/ EndTrace \/ BeginGap \/ finish_run \/ Finish

Fault ==
    \/ ListFails \/ Cancel \/ Abandon
    \/ \E b \in Mailboxes : VisitFails(b)
    \/ \E k \in 0 .. BatchSize : RetryBatch(k) \/ FailBatch(k)
    \/ \E n \in 0 .. Len(queue) : Restart(n)

Next ==
    \/ \E b \in Mailboxes :
        \/ \E m \in Messages : Deliver(b, m)
        \/ \E u \in 1 .. MaxUid : Expunge(b, u)
        \/ \E keep \in BOOLEAN : Revalidate(b, keep)
        \/ DeleteMailbox(b)
    \/ \E q \in setup.requests : UpdateAccount(q)
    \/ DayPasses
    \/ \E n \in 1 .. Len(queue) : Commit(n)
    \/ \E gap \in BOOLEAN : Start(gap)
    \/ FinalizeStale
    \/ SessionStep
    \/ Fault

\* The scheduler starts a download of an idle account again and again, a
\* session runs on, and the writer task drains and commits.
Fairness ==
    /\ WF_vars(Start(FALSE))
    /\ WF_vars(SessionStep)
    /\ WF_vars(Commit(Len(queue)))

Spec == Init /\ [][Next]_vars /\ Fairness
----------------------------------------------------------------------------
(* Properties *)

Wanted == Messages \ (Broken \cup Oversized)
\* Archived, or taken for a message that is: the same Message-ID or size and
\* date.
Covered(b, m) ==
    \E n \in Archived(b) : \/ n = m \/ setup.print[n] = setup.print[m]
                           \/ setup.id[n] = setup.id[m] /\ setup.id[m] # NoId
Trusted(b) == b \in DOMAIN rows /\ ~rows[b].holes

\* The watermark never passes a message that was not fetched (#377): under
\* the row's UIDVALIDITY, every message at or below highest_uid that can be
\* archived is in the index or on its way there, or is taken for one that is,
\* whatever failed, was retried, cancelled or renumbered.  Excused are messages a restart dropped
\* from the queue, messages outside the date range when one above them was
\* inside it, rows whose watermark is one of an older UIDVALIDITY and
\* mailboxes without a watermark that gap-fill filled only in part.
WatermarkCovers ==
    \A b \in Mailboxes :
        Trusted(b) /\ rows[b].validity = server[b].validity =>
            \A u \in Uids(b) :
                u <= rows[b].highest /\ At(b, u) \in Wanted =>
                    \/ Covered(b, At(b, u))
                    \/ At(b, u) \in lost[b] \cup passed[b]

\* A mailbox holds one document per e-mail: batches fetched again after an
\* error, a restart or a renumbering add nothing (DEDUP_CACHE).  Excused are
\* messages the cache did not take up again at a restart.
OneCopy ==
    \A b \in Mailboxes : \A m \in Messages \ forgot[b] :
        Cardinality({d \in index[b] : d.msg = m}) +
        Cardinality({i \in DOMAIN queue : queue[i].box = b /\ queue[i].doc.msg = m}) <= 1

\* No session removes archived mail of a mailbox that has a row: a changed
\* UIDVALIDITY is handled "without deleting local data".
Kept(b) == b \in DOMAIN rows \cap DOMAIN rows' =>
              Archived(b) \subseteq Archived(b)' \cup lost'[b]

\* No download stores mail the account's date range excludes, whatever is
\* retried or changed meanwhile; only gap-fill, and new mail of an account
\* with a "since" date, are not bounded.  Excused is a mailbox renumbered
\* between the search and the fetch.
RangeKept(b) ==
    \A m \in Archived(b)' \ Archived(b) :
        \/ job.kind \in {"new", "gap"} \/ InRange(window, m)
        \/ job.epoch # server[b].validity

\* A gap-fill run recorded as successful left nothing behind: every message
\* it found at the server and that is still there is archived, or taken for
\* one that is.  Excused are a token cancelled within the last
\* folder and a mailbox renumbered during the run.
RunTrue(b) ==
    gapRun.active /\ gapRun'.last = "success" /\ ~cancelled
      /\ gapRun.epoch[b] = server[b].validity =>
        \A u \in gapRun.seen[b] \cap Uids(b) :
            At(b, u) \notin Wanted \/ Covered(b, At(b, u))

\* What sessions may never do to the archive and say about it (flow.rs,
\* gap_fill.rs, mod.rs), and that all the state keeps its type.
SessionsTrue == [][TypeOK' /\ \A b \in Mailboxes : Kept(b) /\ RangeKept(b) /\ RunTrue(b)]_vars

\* Every message of the account's date range that stays at the server is
\* committed to the index in the end, once faults stop: nothing is skipped
\* for good.
EventuallyArchived ==
    \A b \in Mailboxes, m \in Messages :
        m \in OnServer(b) /\ m \in Wanted /\ InRange(range, m) ~>
            \/ m \in Msgs(index[b]) \cup lost[b] \cup passed[b]
            \/ Covered(b, m) /\ m \notin Archived(b)
            \/ m \notin OnServer(b) \/ ~InRange(range, m)
            \/ b \in DOMAIN rows /\ rows[b].holes
=============================================================================
