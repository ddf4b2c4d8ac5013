------------------------------- MODULE Export -------------------------------
(***************************************************************************)
(* Batch exports: the registry of jobs in memory, the directory of each    *)
(* job on disk, the background runner that pages through a search and      *)
(* writes an mbox and its manifests, cancellation, deletion and the sweep  *)
(* by age, the verification workers, and the client that waits for the     *)
(* artifact.  A crash empties the memory; load_persisted_exports rebuilds  *)
(* the registry from the summaries on disk.                                *)
(*                                                                         *)
(* Messages are numbered by date, the order of the search.                 *)
(***************************************************************************)
EXTENDS Naturals, Sequences, FiniteSets, SequencesExt, FiniteSetsExt

CONSTANTS
    Messages,      \* messages the search can match, by date
    Archived,      \* the ones in the archive at the beginning
    Holed,         \* the ones an attachment of which is missing
    PageSize,      \* EXPORT_PAGE_SIZE
    MaxConcurrent, \* MAX_CONCURRENT_EXPORTS
    Users,         \* user ids; user 1 starts the exports
    Workers,       \* verification tasks
    MaxJobs,       \* bound on exports started
    MaxEvents      \* bound on crashes, renames, requests and faults from outside

ASSUME ExportAssumption ==
    /\ Messages \subseteq Nat /\ Archived \subseteq Messages /\ Holed \subseteq Messages
    /\ PageSize \in Nat \ {0} /\ MaxConcurrent \in Nat \ {0}
    /\ MaxJobs \in Nat /\ MaxEvents \in Nat

Jobs == 1..MaxJobs

VARIABLES
    index,   \* the archived messages the search matches
    job,     \* ExportJob
    live,    \* the jobs in the registry
    run,     \* run_export of a job
    disk,    \* the names in the job's directory, "dir" for the directory
    file,    \* what the files hold, linked or not
    gone,    \* jobs whose directory is being removed
    old,     \* jobs, and directories, past EXPORT_TTL_SECS
    verifier,\* verify_job of a worker
    client,  \* handle_export of the command line client
    ticket,  \* jobs with a download ticket
    users,   \* the name of a user id
    up,      \* the server runs
    left,    \* events left
    kept,    \* per job: who started it, messages there all along, refused ones
    hist     \* which known faults have been met

vars == <<index, job, live, run, disk, file, gone, old, verifier, client, ticket, users, up, left,
          kept, hist>>

NoRun == [pc |-> "none", page |-> 1, items |-> <<>>, pages |-> 1, hashed |-> FALSE]
NoCheck == [pc |-> "none", job |-> 0, at |-> 0, good |-> 0, bad |-> 0]
NoSummary == [whole |-> FALSE, user |-> "", exported |-> 0, failed |-> 0, hashed |-> FALSE]
NotVerified == [status |-> "idle", checked |-> 0, matched |-> 0, mismatched |-> 0, total |-> 0,
                result |-> FALSE]

NewJob(u) ==
    [user |-> u, name |-> users[u], status |-> "running", cancel |-> FALSE, artifact |-> FALSE,
     processed |-> 0, exported |-> 0, failed |-> 0, verify |-> NotVerified]
NewFiles == [mbox |-> <<>>, lines |-> <<>>, summary |-> NoSummary, verify |-> NotVerified]

Init ==
    /\ index = Archived /\ live = {} /\ gone = {} /\ old = [job |-> {}, dir |-> {}]
    /\ users = [u \in Users |-> IF u = 1 THEN "ann" ELSE "none"]
    /\ job = [j \in Jobs |-> NewJob(1)]
    /\ run = [j \in Jobs |-> NoRun]
    /\ disk = [j \in Jobs |-> {}] /\ file = [j \in Jobs |-> NewFiles]
    /\ verifier = [w \in Workers |-> NoCheck]
    /\ client = [pc |-> "idle", job |-> 0, got |-> <<>>] /\ ticket = {}
    /\ up = TRUE /\ left = MaxEvents
    /\ kept = [j \in Jobs |-> [by |-> 0, stay |-> {}, refused |-> {}]] /\ hist = {}

Started == {j \in Jobs : kept[j].by # 0}
Running == {j \in Jobs : run[j].pc # "none"}
Ended == {"finished", "failed", "cancelled"}
Spend == left > 0 /\ left' = left - 1
Owned(u, j) == j \in live /\ job[j].user = u
----------------------------------------------------------------------------
(* Removal of directories.  The files go first, then the directory, which  *)
(* stays when a file has been created in it meanwhile; then the entry.     *)

\* Mutant: only finished jobs expire.
ExpiredFinished == {j \in live \cap old.job : job[j].status = "finished"}

Expired == live \cap old.job
Orphans == {j \in Jobs \ live : disk[j] # {}} \cap old.dir

\* What sweep_expired does to a set of jobs.
Removing(js) ==
    /\ gone' = gone \cup js
    /\ disk' = [j \in Jobs |-> IF j \in js THEN disk[j] \cap {"dir"} ELSE disk[j]]

sweep_expired ==
    /\ up /\ (Expired \cup Orphans) \ gone # {}
    /\ Removing(Expired \cup Orphans)
    /\ hist' = hist \cup IF \E j \in Expired : job[j].status = "running" THEN {"overdue"} ELSE {}
    /\ UNCHANGED <<index, job, live, run, file, old, verifier, client, ticket, users, up, left, kept>>

delete_export(u, j) ==
    /\ up /\ Owned(u, j) /\ j \notin gone /\ Spend
    /\ Removing({j})
    /\ UNCHANGED <<index, job, live, run, file, old, verifier, client, ticket, users, up, kept, hist>>

remove_job_files(j) ==
    /\ up /\ j \in gone
    /\ gone' = gone \ {j} /\ live' = live \ {j}
    /\ disk' = [disk EXCEPT ![j] = IF @ = {"dir"} THEN {} ELSE @]
    /\ hist' = hist \cup IF disk[j] \notin {{}, {"dir"}} THEN {"raced"} ELSE {}
    /\ UNCHANGED <<index, job, run, file, old, verifier, client, ticket, users, up, left, kept>>
----------------------------------------------------------------------------
(* The control calls *)

\* The sweep, the permit, the directory, the entry, the task. A request that is
\* refused leaves only the sweep behind.
create_export(u) ==
    /\ up /\ users[u] # "none" /\ client.pc = "idle"
    /\ Cardinality(Running) < MaxConcurrent
    /\ Cardinality(Started) < MaxJobs
    /\ LET j == Cardinality(Started) + 1
           dead == Expired \cup Orphans
       IN /\ gone' = gone \cup dead
          /\ disk' = [i \in Jobs |-> IF i = j THEN {"dir"}
                                     ELSE IF i \in dead THEN disk[i] \cap {"dir"} ELSE disk[i]]
          /\ live' = live \cup {j}
          /\ job' = [job EXCEPT ![j] = NewJob(u)]
          /\ run' = [run EXCEPT ![j] = [NoRun EXCEPT !.pc = "open"]]
          /\ kept' = [kept EXCEPT ![j] = [by |-> u, stay |-> index, refused |-> {}]]
          /\ client' = IF u = 1 THEN [client EXCEPT !.pc = "wait", !.job = j] ELSE client
    /\ UNCHANGED <<index, file, old, verifier, ticket, users, up, left, hist>>

cancel_export(u, j) ==
    /\ up /\ Owned(u, j) /\ job[j].status = "running" /\ Spend
    /\ job' = [job EXCEPT ![j].cancel = TRUE, ![j].status = "cancelled"]
    /\ old' = [old EXCEPT !.job = @ \ {j}]
    /\ UNCHANGED <<index, live, run, disk, file, gone, verifier, client, ticket, users, up, kept, hist>>
----------------------------------------------------------------------------
(* run_export *)

is_cancelled(j) == job[j].cancel \/ job[j].status = "cancelled"

Sorted(ms) == SetToSortSeq(ms, <)
Page(n) == SelectSeq(Sorted(index), LAMBDA m :
               LET at == Cardinality({k \in index : k < m})
               IN (n - 1) * PageSize <= at /\ at < n * PageSize)
Pages == LET n == (Cardinality(index) + PageSize - 1) \div PageSize IN IF n = 0 THEN 1 ELSE n

Stop(j) == run' = [run EXCEPT ![j] = NoRun]

\* run_export's error branch: a cancelled job stays cancelled.
Fail(j) ==
    /\ Stop(j)
    /\ job' = IF job[j].status = "cancelled" THEN job ELSE [job EXCEPT ![j].status = "failed"]
    /\ old' = IF job[j].status = "cancelled" THEN old ELSE [old EXCEPT !.job = @ \ {j}]
    /\ UNCHANGED <<disk, file, kept>>

open_files(j) ==
    /\ run[j].pc = "open"
    /\ IF "dir" \in disk[j]
       THEN /\ disk' = [disk EXCEPT ![j] = @ \cup {"mbox", "lines"}]
            /\ file' = [file EXCEPT ![j] = NewFiles]
            /\ run' = [run EXCEPT ![j].pc = "page"]
            /\ old' = [old EXCEPT !.dir = @ \ {j}]
            /\ UNCHANGED <<job, kept>>
       ELSE Fail(j)
    /\ UNCHANGED <<left, hist>>

next_page(j) ==
    /\ run[j].pc = "page"
    /\ IF is_cancelled(j) THEN Stop(j)
       ELSE run' = [run EXCEPT ![j].items = Page(run[j].page), ![j].pages = Pages, ![j].pc = "items"]
    /\ UNCHANGED <<job, disk, file, old, kept, left, hist>>

\* The search of a page fails.
search_fails(j) ==
    /\ run[j].pc = "page" /\ ~is_cancelled(j) /\ Spend
    /\ Fail(j)
    /\ UNCHANGED hist

page_done(j) ==
    /\ run[j].pc = "items" /\ run[j].items = <<>>
    /\ run' = [run EXCEPT ![j] = IF @.page >= @.pages THEN [@ EXCEPT !.pc = "hash"]
                                ELSE [@ EXCEPT !.pc = "page", !.page = @ + 1]]
    /\ UNCHANGED <<job, disk, file, old, kept, left, hist>>

\* Mutant: a copy with a placeholder in it is written all the same.
ReadableDegraded(m) == m \in index

\* What get_reader and the look for placeholders say of a message.
Readable(m) == m \in index /\ m \notin Holed

\* One message is counted, with what was written of it.
Count(j, ok, entry, line) ==
    LET m == Head(run[j].items)
    IN /\ job' = [job EXCEPT ![j].processed = @ + 1,
                             ![j].exported = IF ok THEN @ + 1 ELSE @,
                             ![j].failed = IF ok THEN @ ELSE @ + 1]
       /\ file' = [file EXCEPT ![j].mbox = @ \o entry, ![j].lines = @ \o line]
       /\ kept' = [kept EXCEPT ![j].refused = IF ok THEN @ ELSE @ \cup {m}]
       /\ run' = [run EXCEPT ![j].items = Tail(@)]

export_one(j) ==
    /\ run[j].pc = "items" /\ run[j].items # <<>>
    /\ IF is_cancelled(j) THEN Stop(j) /\ UNCHANGED <<job, file, kept>>
       ELSE LET m == Head(run[j].items)
            IN IF Readable(m) THEN Count(j, TRUE, <<[of |-> m, whole |-> TRUE]>>, <<m>>)
               ELSE Count(j, FALSE, <<>>, <<>>)
    /\ UNCHANGED <<disk, old, left, hist>>

\* A write fails. The file reports it on a later call, so the message may have
\* been counted as exported; the entry is cut, or only its line is missing.
write_fails(j) ==
    /\ run[j].pc = "items" /\ run[j].items # <<>> /\ ~is_cancelled(j) /\ Spend
    /\ Readable(Head(run[j].items))
    /\ LET m == Head(run[j].items)
       IN \E ok, whole \in BOOLEAN :
            \E line \in {<<>>} \cup IF ok THEN {<<m>>} ELSE {} :
                Count(j, ok, <<[of |-> m, whole |-> whole]>>, line)
    /\ hist' = hist \cup {"write"}
    /\ UNCHANGED <<disk, old>>

hash_artifact(j) ==
    /\ run[j].pc = "hash"
    /\ run' = [run EXCEPT ![j].pc = "summary", ![j].hashed = "mbox" \in disk[j]]
    /\ UNCHANGED <<job, disk, file, old, kept, left, hist>>


write_summary_manifest(j) ==
    /\ run[j].pc = "summary"
    /\ IF "dir" \in disk[j]
       THEN /\ disk' = [disk EXCEPT ![j] = @ \cup {"summary"}]
            /\ file' = [file EXCEPT ![j].summary =
                          [whole |-> TRUE, user |-> job[j].name, exported |-> job[j].exported,
                           failed |-> job[j].failed, hashed |-> run[j].hashed]]
            /\ run' = [run EXCEPT ![j].pc = "finish"]
            /\ old' = [old EXCEPT !.dir = @ \ {j}]
            /\ UNCHANGED <<job, kept>>
       ELSE Fail(j)
    /\ UNCHANGED <<left, hist>>

\* The last step does not look whether the job has been cancelled.
finish(j) ==
    /\ run[j].pc = "finish"
    /\ job' = [job EXCEPT ![j].status = "finished", ![j].artifact = TRUE]
    /\ old' = [old EXCEPT !.job = @ \ {j}]
    /\ Stop(j)
    /\ hist' = hist \cup IF job[j].status = "cancelled" THEN {"revived"} ELSE {}
    /\ UNCHANGED <<disk, file, kept, left>>

run_export(j) ==
    /\ up
    /\ \/ open_files(j) \/ next_page(j) \/ page_done(j) \/ export_one(j)
       \/ hash_artifact(j) \/ write_summary_manifest(j) \/ finish(j)
    /\ UNCHANGED <<index, live, gone, verifier, client, ticket, users, up>>

run_export_fault(j) ==
    /\ up /\ (search_fails(j) \/ write_fails(j))
    /\ UNCHANGED <<index, live, gone, verifier, client, ticket, users, up>>
----------------------------------------------------------------------------
(* Verification *)

\* The check of start_export_verify; the mark is set in a second critical
\* section, so two requests can both pass.
start_export_verify(u, j, w) ==
    /\ up /\ verifier[w].pc = "none" /\ Owned(u, j) /\ Spend
    /\ job[j].status = "finished" /\ job[j].verify.status = "idle"
    /\ verifier' = [verifier EXCEPT ![w] = [NoCheck EXCEPT !.pc = "mark", !.job = j]]
    /\ hist' = hist \cup IF \E v \in Workers \ {w} : verifier[v].pc # "none" /\ verifier[v].job = j
                       THEN {"twice"} ELSE {}
    /\ UNCHANGED <<index, job, live, run, disk, file, gone, old, client, ticket, users, up, kept>>

mark_verify_running(w) ==
    /\ verifier[w].pc = "mark"
    /\ job' = [job EXCEPT ![verifier[w].job].verify = [NotVerified EXCEPT !.status = "running"]]
    /\ verifier' = [verifier EXCEPT ![w].pc = "read"]
    /\ UNCHANGED <<disk, file, old>>

\* persist_verify_state writes only into a directory that is there.
persist_verify_state(j, v) ==
    IF "dir" \in disk[j]
    THEN /\ disk' = [disk EXCEPT ![j] = @ \cup {"verify"}]
         /\ file' = [file EXCEPT ![j].verify = v]
         /\ old' = IF "verify" \in disk[j] THEN old ELSE [old EXCEPT !.dir = @ \ {j}]
    ELSE UNCHANGED <<disk, file, old>>

\* The artifact is hashed and the manifest read in one go.
read_manifest(w) ==
    LET j == verifier[w].job
    IN /\ verifier[w].pc = "read"
       /\ IF "mbox" \in disk[j]
          THEN /\ job' = [job EXCEPT ![j].verify.total = Len(file[j].lines)]
               /\ verifier' = [verifier EXCEPT ![w].pc = "lines"]
               /\ UNCHANGED <<disk, file, old>>
          ELSE LET v == [job[j].verify EXCEPT !.status = "failed"]
               IN /\ verifier' = [verifier EXCEPT ![w] = NoCheck]
                  /\ IF job[j].verify.status = "running"
                     THEN job' = [job EXCEPT ![j].verify = v] /\ persist_verify_state(j, v)
                     ELSE UNCHANGED <<job, disk, file, old>>

verify_line(w) ==
    LET c == verifier[w]
        j == c.job
        good == Readable(file[j].lines[c.at + 1])
        d == [c EXCEPT !.at = @ + 1, !.good = IF good THEN @ + 1 ELSE @, !.bad = IF good THEN @ ELSE @ + 1]
    IN /\ c.pc = "lines" /\ c.at < Len(file[j].lines)
       /\ verifier' = [verifier EXCEPT ![w] = d]
       /\ job' = [job EXCEPT ![j].verify.checked = d.at, ![j].verify.matched = d.good,
                             ![j].verify.mismatched = d.bad]
       /\ UNCHANGED <<disk, file, old>>

verify_finished(w) ==
    LET c == verifier[w]
        v == [job[c.job].verify EXCEPT !.status = "finished", !.result = TRUE]
    IN /\ c.pc = "lines" /\ c.at = Len(file[c.job].lines)
       /\ job' = [job EXCEPT ![c.job].verify = v]
       /\ persist_verify_state(c.job, v)
       /\ verifier' = [verifier EXCEPT ![w] = NoCheck]

verify_job(w) ==
    /\ up
    /\ mark_verify_running(w) \/ read_manifest(w) \/ verify_line(w) \/ verify_finished(w)
    /\ UNCHANGED <<index, live, run, gone, client, ticket, users, up, left, kept, hist>>
----------------------------------------------------------------------------
(* The client that waits, and the browser's ticket *)

ClientOnly == UNCHANGED <<index, job, live, run, disk, file, gone, old, verifier, users, left, kept, hist>>

\* The polling loop of handle_export: an answer that is not a job is skipped.
poll ==
    /\ client.pc = "wait" /\ up /\ Owned(1, client.job)
    /\ job[client.job].status \in Ended
    /\ client' = [client EXCEPT !.pc = IF job[client.job].status = "finished" THEN "download" ELSE "end"]
    /\ ClientOnly /\ UNCHANGED <<ticket, up>>

Servable(u, j) == Owned(u, j) /\ job[j].status = "finished" /\ job[j].artifact /\ "mbox" \in disk[j]

\* The checks of download_artifact, then the open.
download_artifact ==
    /\ client.pc = "download" /\ up
    /\ client' = [client EXCEPT !.pc = IF Servable(1, client.job) THEN "open" ELSE "end"]
    /\ ClientOnly /\ UNCHANGED <<ticket, up>>

open_artifact ==
    /\ client.pc = "open" /\ up
    /\ client' = [client EXCEPT !.pc = "end",
                                !.got = IF "mbox" \in disk[client.job] THEN file[client.job].mbox ELSE @]
    /\ ClientOnly /\ UNCHANGED <<ticket, up>>

create_download_ticket ==
    /\ client.pc = "download" /\ up /\ Owned(1, client.job) /\ job[client.job].status = "finished"
    /\ ticket' = ticket \cup {client.job}
    /\ client' = [client EXCEPT !.pc = "ticket"]
    /\ ClientOnly /\ UNCHANGED up

\* A ticket is gone once it is presented; an expired one is not found.
resolve_download_ticket ==
    /\ client.pc = "ticket" /\ up
    /\ ticket' = ticket \ {client.job}
    /\ \E found \in {client.job \in ticket, FALSE} :
         client' = [client EXCEPT !.pc = IF found /\ Servable(1, client.job) THEN "open" ELSE "end"]
    /\ ClientOnly /\ UNCHANGED up
----------------------------------------------------------------------------
(* The server goes down and comes up, and the world around it *)

\* A summary being written may be cut, and a removal left half-way.
Crash ==
    /\ up /\ Spend
    /\ up' = FALSE /\ live' = {} /\ gone' = {} /\ ticket' = {}
    /\ run' = [j \in Jobs |-> NoRun] /\ verifier' = [w \in Workers |-> NoCheck]
    /\ \E cut \in SUBSET {j \in Jobs : run[j].pc = "summary" /\ "dir" \in disk[j]} :
         disk' = [j \in Jobs |-> IF j \in cut THEN disk[j] \cup {"summary"} ELSE disk[j]]
    /\ client' = IF client.pc \in {"open", "download", "ticket"} THEN [client EXCEPT !.pc = "end"] ELSE client
    /\ hist' = hist \cup IF gone # {} THEN {"raced"} ELSE {}
    /\ UNCHANGED <<index, job, file, old, users, kept>>

\* The user whose name the summary carries.
Named(j) == {u \in Users : users[u] = file[j].summary.user}
Persisted == {j \in Jobs : "summary" \in disk[j] /\ file[j].summary.whole /\ Named(j) # {}}

Loaded(j) ==
    LET s == file[j].summary
    IN [user |-> CHOOSE u \in Named(j) : TRUE, name |-> s.user, status |-> "finished", cancel |-> FALSE,
        artifact |-> TRUE, processed |-> s.exported + s.failed, exported |-> s.exported,
        failed |-> s.failed, verify |-> IF "verify" \in disk[j] THEN file[j].verify ELSE NotVerified]

load_persisted_exports ==
    /\ ~up /\ up' = TRUE
    /\ live' = Persisted
    /\ job' = [j \in Jobs |-> IF j \in Persisted THEN Loaded(j) ELSE job[j]]
    /\ UNCHANGED <<index, run, disk, file, gone, old, verifier, client, ticket, users, left, kept, hist>>

\* An hour without a change of the job or of its directory.
HourPasses ==
    /\ old' = [job |-> Started, dir |-> {j \in Jobs : disk[j] # {}}] /\ old' # old
    /\ UNCHANGED <<index, job, live, run, disk, file, gone, verifier, client, ticket, users, up, left, kept, hist>>

\* The archive changes under the export.
MessageDeleted(m) ==
    /\ m \in index /\ Spend
    /\ index' = index \ {m}
    /\ kept' = [j \in Jobs |-> [kept[j] EXCEPT !.stay = @ \ {m}]]
    /\ hist' = hist \cup IF Running # {} THEN {"deleted"} ELSE {}
    /\ UNCHANGED <<job, live, run, disk, file, gone, old, verifier, client, ticket, users, up>>

MessageArchived(m) ==
    /\ m \in Messages \ index /\ Spend
    /\ index' = index \cup {m}
    /\ hist' = hist \cup IF Running # {} /\ \E k \in index : k > m THEN {"older"} ELSE {}
    /\ UNCHANGED <<job, live, run, disk, file, gone, old, verifier, client, ticket, users, up, kept>>

\* A user is removed, and the name may go to another one.
UserRemoved(u) ==
    /\ users[u] # "none" /\ Spend
    /\ \E heir \in Users : users' = [users EXCEPT ![heir] = users[u], ![u] = "none"]
    /\ hist' = hist \cup {"renamed"}
    /\ UNCHANGED <<index, job, live, run, disk, file, gone, old, verifier, client, ticket, up, kept>>

Client == poll \/ download_artifact \/ open_artifact \/ create_download_ticket \/ resolve_download_ticket

Next ==
    \/ sweep_expired \/ load_persisted_exports \/ Crash \/ HourPasses \/ Client
    \/ \E j \in Jobs : run_export(j) \/ run_export_fault(j) \/ remove_job_files(j)
    \/ \E u \in Users : create_export(u)
    \/ \E u \in Users, j \in Jobs : delete_export(u, j) \/ cancel_export(u, j)
    \/ \E u \in Users, j \in Jobs, w \in Workers : start_export_verify(u, j, w)
    \/ \E w \in Workers : verify_job(w)
    \/ \E m \in Messages : MessageDeleted(m) \/ MessageArchived(m)
    \/ \E u \in Users : UserRemoved(u)

\* The runtime runs its tasks, the sweep is periodic, time passes, the operator
\* starts a server that is down and the client goes on polling. None of these
\* can go on for ever on its own, so fairness to them together is enough.
Progress ==
    \/ \E j \in Jobs : run_export(j) \/ remove_job_files(j)
    \/ \E w \in Workers : verify_job(w)
    \/ sweep_expired \/ load_persisted_exports \/ HourPasses \/ Client
Fairness == WF_vars(Progress)

Spec == Init /\ [][Next]_vars /\ Fairness
----------------------------------------------------------------------------
TypeOK ==
    /\ index \subseteq Messages /\ live \subseteq Jobs /\ gone \subseteq Jobs
    /\ \A j \in Jobs :
        /\ job[j].status \in Ended \cup {"running"}
        /\ disk[j] \subseteq {"dir", "mbox", "lines", "summary", "verify"}
        /\ (disk[j] # {} => "dir" \in disk[j])
        /\ run[j].pc \in {"none", "open", "page", "items", "hash", "summary", "finish"}
    /\ left \in 0..MaxEvents

Whole(lines) == [k \in DOMAIN lines |-> [of |-> lines[k], whole |-> TRUE]]
Finished == {j \in live : job[j].status = "finished"}

\* The counts a finished job reports, before and after a restart, are those of
\* its artifact and its manifest, and the mbox holds whole copies of exactly the
\* messages the manifest lists. A failed write breaks this.
CountsTrue ==
    \A j \in Finished :
        /\ job[j].processed = job[j].exported + job[j].failed
        /\ "write" \in hist \/ ( /\ job[j].exported = Len(file[j].lines)
                                 /\ file[j].mbox = Whole(file[j].lines) )

\* No copy is written of a message whose attachments are missing, no message
\* twice unless an older one came in between two pages, and a message that was
\* there all along is exported or counted as failed unless another one was
\* deleted between two pages.
ExportComplete ==
    \A j \in Finished :
        /\ ToSet(file[j].lines) \cap Holed = {}
        /\ "older" \in hist \/ IsInjective(file[j].lines)
        /\ \/ hist \cap {"deleted", "write"} # {}
           \/ kept[j].stay \subseteq ToSet(file[j].lines) \cup kept[j].refused

\* A finished job in the registry has its artifact and its summary on disk
\* unless it is being deleted, or a deletion met the runner's writing or a crash; and it
\* belongs to who started it, unless names changed hands.
ArtifactThere ==
    \A j \in live :
        /\ job[j].status = "finished" /\ j \notin gone /\ "raced" \notin hist
             => {"mbox", "lines", "summary"} \subseteq disk[j]
        /\ job[j].user = kept[j].by \/ "renamed" \in hist

\* A verification that is finished has looked at every line of the manifest,
\* after a restart too, unless two of them ran at once.
VerifiedAll ==
    \A j \in live :
        LET v == job[j].verify
        IN /\ "twice" \notin hist /\ v.status = "finished"
                => v.checked = Len(file[j].lines) /\ v.matched + v.mismatched = v.checked
           /\ v.checked <= v.total \/ "twice" \in hist

\* What a client has downloaded is the artifact, complete.
DownloadWhole ==
    client.got # <<>> => /\ client.got = file[client.job].mbox
                         /\ "write" \in hist \/ client.got = Whole(file[client.job].lines)


\* Every runner gives its permit back, every directory is reclaimed, and a
\* waiting client is told the end of its job unless the job has vanished (deleted, swept,
\* lost in a crash, or passed to another user), in which case it polls for ever.
ExportsEnd ==
    /\ \A j \in Jobs : run[j].pc # "none" ~> run[j].pc = "none"
    /\ \A j \in Jobs : disk[j] # {} ~> disk[j] = {}
    /\ client.pc = "wait" ~> client.pc # "wait" \/ ~Owned(1, client.job)
============================================================================
