------------------------------- MODULE Import -------------------------------
(***************************************************************************)
(* Files of mail: uploaded to the server, streamed into a temporary file   *)
(* and worked off by a background task, or read by the command line client *)
(* and sent in batches.  An mbox is read line by line; a PST folder by     *)
(* folder.                                                                 *)
(***************************************************************************)
EXTENDS Ingest, FiniteSetsExt

CONSTANTS BatchLimit, MaxBuffer  \* batch_limit and MAX_BUFFER_BYTES of the client

VARIABLES
    imp, \* the import on the server: an upload, or the batch at hand
    cli  \* the command line client

import == <<imp, cli>>

Boxes == {"inbox", "work"}
NoImport == [pc |-> "none", folders |-> <<>>, total |-> 0, ok |-> 0, dup |-> 0, bad |-> 0,
             status |-> "none", temp |-> FALSE, saved |-> FALSE]

ImportInit ==
    /\ imp = NoImport
    /\ cli = [pc |-> "idle", left |-> <<>>, buf |-> [b \in Boxes |-> <<>>]]
----------------------------------------------------------------------------
(* Files.  export_one writes a From line, a header with the folder, the    *)
(* message and an empty line; a line of the message that begins with From  *)
(* is written as it is.                                                    *)

FromLine == <<"mbox", "from">>
IsFrom(line) == line[2] = "from"
Exported(m) == <<<<m, "meta">>>> \o Text(m) \o <<<<m, "blank">>>>
MboxFile(ms) == FlattenSeq([k \in DOMAIN ms |-> <<FromLine>> \o Exported(ms[k])])

\* MboxReader: what is between a From line and the next.
MboxEntries(lines) ==
    LET starts == SetToSortSeq({k \in DOMAIN lines : IsFrom(lines[k])}, <)
        end(k) == IF k = Len(starts) THEN Len(lines) ELSE starts[k + 1] - 1
    IN [k \in DOMAIN starts |-> SubSeq(lines, starts[k] + 1, end(k))]

\* The folder of an entry: what its header says, or the default.
FolderOf(e) == IF e # <<>> /\ e[1][2] = "meta" THEN load.file.box[e[1][1]] ELSE "inbox"

Entry(c, kind) == [content |-> c, kind |-> kind]
Plain(cs) == [k \in DOMAIN cs |-> Entry(cs[k], IF cs[k] # <<>> /\ cs[k][1][1] \in load.big THEN "big" ELSE "ok")]

\* What the first bytes tell of the file; its extension where they tell nothing.
detect_format(bytes, ext) ==
    CASE bytes \in {"mbox", "eml"} -> bytes
      [] bytes = "ole2"            -> "pst"
      [] OTHER                     -> ext

detect_text_file(bytes) == bytes \notin {"binary", "ole2"}

Format == detect_format(load.file.bytes, load.file.ext)
Lines == IF load.file.bytes = "mbox" THEN MboxFile(load.file.mails) ELSE Text(load.file.mails[1])

\* The mailbox is written; the gate may refuse that.
resolve_mailbox == ~paused

validate_import_account(a) == a.exists /\ a.enabled /\ a.type = "nosync" /\ a.kind = "none"

\* count_pst_messages leaves out what does not open.
Countable(f) == Len(SelectSeq(f.items, LAMBDA i : i.kind # "unopened"))
Total(fs) == FoldLeft(LAMBDA n, f : n + Countable(f), 0, fs)
----------------------------------------------------------------------------
(* The upload *)

\* Refused before anything is written: no such account, another extension, no room.
upload_import ==
    /\ load.file.by = "upload" /\ imp.pc = "none"
    /\ imp' = IF ~load.file.account.exists \/ load.file.ext \notin {"eml", "mbox", "pst"} \/ ~load.file.room
              THEN [imp EXCEPT !.pc = "end", !.status = "refused"]
              ELSE [imp EXCEPT !.pc = "stream", !.temp = TRUE]
    /\ UNCHANGED <<cli, ingest>>

\* Too large, binary or empty: the file is removed and the upload refused.
stream_body_to_temp ==
    /\ imp.pc = "stream"
    /\ imp' = IF load.file.fit /\ (load.file.ext = "pst" \/ detect_text_file(load.file.bytes)) THEN [imp EXCEPT !.pc = "start", !.status = "pending"]
              ELSE [imp EXCEPT !.pc = "end", !.status = "refused", !.temp = FALSE]
    /\ UNCHANGED <<cli, ingest>>

\* The body cannot be read or written to its end: the file stays.
stream_breaks ==
    /\ imp.pc = "stream" /\ Fault
    /\ imp' = [imp EXCEPT !.pc = "end", !.status = "refused"]
    /\ past' = past \cup {"left"}
    /\ UNCHANGED <<cli, load, work, queue, store, dedup, paused, claimed>>

\* fail_progress and save_import_history; the history is behind the gate.
Failed(temp) == [imp EXCEPT !.pc = "end", !.status = "failed", !.temp = temp, !.saved = ~paused]

Processing(fs, n) == [imp EXCEPT !.pc = "folder", !.folders = fs, !.total = n, !.status = "processing"]

process_eml_file == Processing(<<[box |-> "inbox", items |-> Plain(<<Lines>>)]>>, 1)
process_mbox_file ==
    LET entries == Plain(MboxEntries(Lines)) IN Processing(<<[box |-> "inbox", items |-> entries]>>, Len(entries))
process_pst_upload == Processing(load.file.folders, Total(load.file.folders))

\* The account, the mailbox (a write), the file: only the last failure removes it.
process_uploaded_file ==
    /\ imp.pc = "start" /\ load.file.by = "upload"
    /\ IF ~validate_import_account(load.file.account) \/ ~resolve_mailbox
       THEN imp' = Failed(imp.temp) /\ past' = past \cup {"left"}
       ELSE /\ imp' = CASE ~load.file.opens   -> Failed(FALSE)
                        [] load.file.opens /\ Format = "eml"  -> process_eml_file
                        [] load.file.opens /\ Format = "mbox" -> process_mbox_file
                        [] load.file.opens /\ Format = "pst"  -> process_pst_upload
            /\ UNCHANGED past
    /\ UNCHANGED <<cli, load, work, queue, store, dedup, paused, claimed, fuel>>

\* The mailbox of a PST folder; without it the messages of the folder are passed over.
enter_folder ==
    /\ imp.pc = "folder" /\ imp.folders # <<>>
    /\ IF Format = "pst" /\ ~resolve_mailbox
       THEN imp' = [imp EXCEPT !.folders = Tail(@)] /\ past' = past \cup {"skipped"}
       ELSE imp' = [imp EXCEPT !.pc = "items"] /\ UNCHANGED past
    /\ UNCHANGED <<cli, load, work, queue, store, dedup, paused, claimed, fuel>>

Item == Head(imp.folders[1].items)
Passed(r) == [r EXCEPT !.folders[1].items = Tail(@)]

\* A message: too large, not readable from the PST, or handed to the extractor.
next_item ==
    /\ imp.pc = "items" /\ imp.folders[1].items # <<>> /\ work[Importer] = Rest
    /\ CASE Item.kind = "big" -> imp' = Passed([imp EXCEPT !.bad = @ + 1]) /\ UNCHANGED work
         [] Item.kind \in {"unopened", "unbuilt"} -> imp' = Passed(imp) /\ UNCHANGED work
         [] Item.kind = "ok" -> Begin(Importer, Doc(imp.folders[1].box, Item.content)) /\ UNCHANGED imp
    /\ UNCHANGED <<cli, load, queue, store, dedup, paused, claimed, fuel, past>>

\* Mutant: an error is counted as a success.
count_item_ok ==
    /\ imp.pc = "items" /\ work[Importer].pc = "done"
    /\ imp' = Passed([imp EXCEPT !.ok = @ + 1])
    /\ claimed' = claimed \cup {work[Importer].doc}
    /\ work' = [work EXCEPT ![Importer] = Rest]
    /\ UNCHANGED <<cli, load, queue, store, dedup, paused, fuel, past>>

count_item ==
    /\ imp.pc = "items" /\ work[Importer].pc = "done"
    /\ LET o == work[Importer].outcome
       IN /\ imp' = Passed([imp EXCEPT !.ok = IF o = "imported" THEN @ + 1 ELSE @,
                                       !.dup = IF o = "duplicate" THEN @ + 1 ELSE @,
                                       !.bad = IF o = "error" THEN @ + 1 ELSE @])
          /\ claimed' = claimed \cup IF o = "error" THEN {} ELSE {work[Importer].doc}
          /\ past' = past \cup IF o = "error" THEN {"failed"} ELSE {}
    /\ work' = [work EXCEPT ![Importer] = Rest]
    /\ UNCHANGED <<cli, load, queue, store, dedup, paused, fuel>>

folder_done ==
    /\ imp.pc = "items" /\ imp.folders[1].items = <<>>
    /\ imp' = [imp EXCEPT !.pc = "folder", !.folders = Tail(@)]
    /\ UNCHANGED <<cli, ingest>>

finish_upload ==
    /\ imp.pc = "folder" /\ imp.folders = <<>> /\ load.file.by = "upload"
    /\ imp' = [imp EXCEPT !.pc = "end", !.status = "completed", !.temp = FALSE, !.saved = ~paused]
    /\ UNCHANGED <<cli, ingest>>
----------------------------------------------------------------------------
(* The command line client: run_import *)

Buffered == FoldLeft(LAMBDA n, b : n + Len(cli.buf[b]), 0, SetToSeq(Boxes))

run_import ==
    /\ load.file.by = "cli" /\ cli.pc = "idle"
    /\ cli' = [cli EXCEPT !.pc = "read", !.left = MboxEntries(MboxFile(load.file.mails))]
    /\ UNCHANGED <<imp, ingest>>

\* Mutant: a full buffer sends the fullest folder, and empties them all.
read_entry_clears ==
    /\ cli.pc = "read" /\ cli.left # <<>>
    /\ LET e == Head(cli.left)
           f == FolderOf(e)
           full == Len(cli.buf[f]) + 1 >= BatchLimit \/ Buffered + 1 >= MaxBuffer
       IN IF e[1][1] \in load.huge THEN cli' = [cli EXCEPT !.left = Tail(@)] /\ UNCHANGED imp
          ELSE IF full
          THEN /\ cli' = [pc |-> "sent", left |-> Tail(cli.left), buf |-> [b \in Boxes |-> <<>>]]
               /\ imp' = [NoImport EXCEPT !.pc = "batch", !.folders = <<[box |-> f, items |-> Plain(Append(cli.buf[f], e))]>>]
          ELSE /\ cli' = [cli EXCEPT !.left = Tail(@), !.buf[f] = Append(@, e)]
               /\ UNCHANGED imp
    /\ UNCHANGED ingest

\* The next message goes to the buffer of its folder; that buffer is sent when it
\* is long enough, or when all of them together are.
read_entry ==
    /\ cli.pc = "read" /\ cli.left # <<>>
    /\ LET e == Head(cli.left)
           f == FolderOf(e)
           full == Len(cli.buf[f]) + 1 >= BatchLimit \/ Buffered + 1 >= MaxBuffer
       IN IF e[1][1] \in load.huge THEN cli' = [cli EXCEPT !.left = Tail(@)] /\ UNCHANGED imp
          ELSE IF full
          THEN /\ cli' = [cli EXCEPT !.pc = "sent", !.left = Tail(@), !.buf[f] = <<>>]
               /\ imp' = [NoImport EXCEPT !.pc = "batch", !.folders = <<[box |-> f, items |-> Plain(Append(cli.buf[f], e))]>>]
          ELSE /\ cli' = [cli EXCEPT !.left = Tail(@), !.buf[f] = Append(@, e)]
               /\ UNCHANGED imp
    /\ UNCHANGED ingest

send_rest ==
    /\ cli.pc = "read" /\ cli.left = <<>>
    /\ \E f \in Boxes :
         /\ cli.buf[f] # <<>>
         /\ cli' = [cli EXCEPT !.pc = "sent", !.buf[f] = <<>>]
         /\ imp' = [NoImport EXCEPT !.pc = "batch", !.folders = <<[box |-> f, items |-> Plain(cli.buf[f])]>>]
    /\ UNCHANGED ingest

\* It says so whatever became of the batches.
import_completed ==
    /\ cli.pc = "read" /\ cli.left = <<>> /\ Buffered = 0
    /\ cli' = [cli EXCEPT !.pc = "completed"]
    /\ UNCHANGED <<imp, ingest>>

\* do_import: the account, the mailbox (a write), then the messages from the last
\* to the first.
do_import ==
    /\ imp.pc = "batch"
    /\ IF ~validate_import_account(load.file.account) \/ ~resolve_mailbox
       THEN imp' = [imp EXCEPT !.pc = "end", !.status = "failed"] /\ past' = past \cup {"batch"}
       ELSE /\ imp' = [imp EXCEPT !.pc = "items", !.folders[1].items = Reverse(@),
                                  !.total = Len(imp.folders[1].items)]
            /\ UNCHANGED past
    /\ UNCHANGED <<cli, load, work, queue, store, dedup, paused, claimed, fuel>>

finish_batch ==
    /\ imp.pc = "folder" /\ imp.folders = <<>> /\ load.file.by = "cli"
    /\ imp' = [imp EXCEPT !.pc = "end", !.saved = ~paused,
                          !.status = IF imp.bad > 0 /\ imp.ok + imp.dup = 0 THEN "failed" ELSE "completed"]
    /\ UNCHANGED <<cli, ingest>>

\* send_batch_request returns.
batch_replied ==
    /\ cli.pc = "sent" /\ imp.pc = "end"
    /\ cli' = [cli EXCEPT !.pc = "read"]
    /\ UNCHANGED <<imp, ingest>>

\* The connection breaks: the request does not arrive, or its handler is dropped
\* where it is. The client goes on to the next batch.
batch_breaks ==
    /\ cli.pc = "sent" /\ imp.pc \in {"batch", "items", "folder"} /\ Fault
    /\ cli' = [cli EXCEPT !.pc = "read"]
    /\ imp' = [imp EXCEPT !.pc = "end", !.status = "dropped"]
    /\ work' = [work EXCEPT ![Importer] = Rest]
    /\ past' = past \cup {"batch"} \cup IF work[Importer].pc = "insert" THEN {"dropped"} ELSE {}
    /\ UNCHANGED <<load, queue, store, dedup, paused, claimed>>

Upload == upload_import \/ stream_body_to_temp \/ process_uploaded_file \/ finish_upload
Items == enter_folder \/ next_item \/ count_item \/ folder_done
Client == run_import \/ read_entry \/ send_rest \/ do_import \/ finish_batch \/ batch_replied \/ import_completed
ImportFaults == stream_breaks \/ batch_breaks

\* At the death of the process: the import is forgotten, its file stays.
ImportDied ==
    /\ imp' = IF imp.pc \in {"none", "end"} THEN imp ELSE [imp EXCEPT !.pc = "end", !.status = "gone"]
    /\ cli' = IF cli.pc = "sent" THEN [cli EXCEPT !.pc = "read"] ELSE cli

Unfinished == (IF imp.temp THEN {"left"} ELSE {})
              \cup (IF cli.pc = "sent" /\ imp.pc # "end" THEN {"batch"} ELSE {})
============================================================================
