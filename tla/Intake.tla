------------------------------- MODULE Intake -------------------------------
(***************************************************************************)
(* The ways into the archive together: SMTP sessions and an import share   *)
(* the write gate, the dedup cache and the index writer.                   *)
(***************************************************************************)
EXTENDS Smtp, Import

vars == <<ingest, smtp, import>>

Init == IngestInit /\ SmtpInit /\ ImportInit

Crash == Died(Unfinished) /\ SmtpDied /\ ImportDied

Receive == \E s \in Sessions : Serve(s) \/ Disturb(s)

Next ==
    \/ Receive /\ UNCHANGED import
    \/ (Upload \/ Items \/ Client \/ ImportFaults) /\ UNCHANGED smtp
    \/ (Extract \/ commit \/ Gate \/ \E w \in Workers : extract_fails(w)) /\ UNCHANGED <<smtp, import>>
    \/ Crash

\* Every task of the server goes on, a backup ends, the sender waits for replies
\* and comes back.
Fairness ==
    /\ \A s \in Sessions : WF_vars(Serve(s) /\ UNCHANGED import)
    /\ WF_vars(Upload /\ UNCHANGED smtp) /\ WF_vars(Items /\ UNCHANGED smtp) /\ WF_vars(Client /\ UNCHANGED smtp)
    /\ \A w \in Workers :
         WF_vars((acquire(w) \/ contains(w) \/ skip(w) \/ queue_document(w) \/ insert(w)) /\ UNCHANGED <<smtp, import>>)
    /\ WF_vars(commit /\ UNCHANGED <<smtp, import>>) /\ WF_vars(resume /\ UNCHANGED <<smtp, import>>)

Spec == Init /\ [][Next]_vars /\ Fairness
----------------------------------------------------------------------------
(* Properties *)

TypeOK ==
    /\ \A w \in Workers : work[w].pc \in {"rest", "gate", "check", "queue", "insert", "done"}
                          /\ work[w].outcome \in {"none", "imported", "duplicate", "error"}
    /\ \A s \in Sessions : session[s].pc \in {"closed", "command", "data", "ingest"}
    /\ mail \in [Mail -> {"none", "pending", "acked", "bounced"}]
    /\ sender.conn \in Sessions \cup {0} /\ paused \in BOOLEAN /\ fuel \in 0..MaxFaults
    /\ cli.pc \in {"idle", "read", "sent", "completed"}
    /\ imp.pc \in {"none", "stream", "start", "folder", "batch", "items", "end"}

\* Whoever was told a message is archived finds it: its document is in the index
\* or on its way there, unless the account's rules leave it out.
ClaimsHold ==
    \A d \in claimed : \/ d \in Docs \/ "lost" \in past \/ ~should_archive(d)
                       \/ \E k \in DOMAIN d.content : d.content[k][2] = "dot" /\ "dot" \in past

\* A message sent again, or sent and imported, is archived once.
OneEach ==
    \A d \in Docs : CopiesIn(d, queue) + CopiesIn(d, store) <= 1 \/ past \cap {"crossed", "dropped"} # {}

InFile == IF load.file.by # "none" /\ Format \in {"mbox", "eml"} THEN Range(load.file.mails) ELSE {}
FileDoc(m) ==
    IF load.file.by = "cli" THEN Doc(load.file.box[m], Exported(m))
    ELSE Doc("inbox", IF Format = "mbox" THEN Exported(m) ELSE Text(m))
PstDocs ==
    IF Format # "pst" THEN {}
    ELSE UNION {{Doc(f.box, i.content) : i \in {i \in Range(f.items) : i.kind = "ok"}} : f \in Range(load.file.folders)}
Torn == \E m \in InFile : \E k \in DOMAIN Body[m] : Body[m][k] = "from"

\* What is archived is what was sent: whole messages, each under the recipient or
\* in the folder it was for.
NothingForeign ==
    \A d \in Docs : \/ d \in {Doc(load.to[m], Text(m)) : m \in load.send} \cup {FileDoc(m) : m \in InFile} \cup PstDocs
                    \/ past \cap {"eof", "dot"} # {} \/ (Torn /\ Format = "mbox")

\* The figures of a completed import add up; of a PST what could not be read is
\* in the total only.
CountsAdd ==
    imp.status = "completed" => LET n == imp.ok + imp.dup + imp.bad
                                IN IF Format = "pst" THEN n <= imp.total ELSE n = imp.total

\* The temporary file of an upload goes with it.
TempGone == imp.pc = "end" /\ imp.temp => "left" \in past

\* The client's last line is true when every batch was taken and no message failed.
ClientTrue ==
    cli.pc = "completed" /\ past \cap {"batch", "lost", "failed"} = {} /\ ~Torn
        => \A m \in InFile \ (load.big \cup load.skipped) : FileDoc(m) \in Docs

\* Mail taken in is archived once, whole and where it belongs: TypeOK and the
\* six promises above (server.rs, import/mod.rs, cli mbox/mod.rs).
IntakeTrue == TypeOK /\ ClaimsHold /\ OneEach /\ NothingForeign /\ CountsAdd /\ TempGone /\ ClientTrue

\* Every message is in the end acknowledged or refused for good, every upload ends
\* and the client finishes (handle_connection, process_uploaded_file, run_import);
\* but not over implicit TLS, to a sender that waits to be greeted, and not a
\* message with a line that is not UTF-8.
IntakeEnds ==
    <>[](/\ {m \in Pending : Stop(m) # "raw"} = {} \/ (load.tls = "tls" /\ load.patient)
         /\ load.file.by = "upload" => imp.pc = "end"
         /\ load.file.by = "cli" => cli.pc = "completed")
============================================================================
