-------------------------------- MODULE Smtp --------------------------------
(***************************************************************************)
(* The SMTP server, one action per command, against a sender that keeps to *)
(* the protocol: it waits for every reply, tries again what was refused    *)
(* for now or never answered, and gives up what was refused for good.      *)
(* Connections can break, a session is dropped after its time limit.       *)
(***************************************************************************)
EXTENDS Ingest

VARIABLES
    session, \* the server's Session, by connection
    sender,  \* the sending server
    mail     \* what the sender knows of a message

smtp == <<session, sender, mail>>

NoSession == [pc |-> "closed", tls |-> FALSE, auth |-> FALSE, from |-> FALSE, rcpt |-> "none",
              journal |-> FALSE, peer |-> FALSE, greeted |-> FALSE, astray |-> FALSE]

SmtpInit ==
    /\ session = [s \in Sessions |-> NoSession]
    /\ sender = [pc |-> "idle", conn |-> 0, of |-> "none"]
    /\ mail = [m \in Mail |-> IF m \in load.send THEN "pending" ELSE "none"]

Pending == {m \in Mail : mail[m] = "pending"}
At(pc, s) == sender.pc = pc /\ sender.conn = s

\* Session::reset.
Clean(r) == [r EXCEPT !.from = FALSE, !.rcpt = "none", !.journal = FALSE]

\* Session::peer_allowed; the handler asks for TLS and a listed address.
peer_allowed(r) == ~load.journal \/ r.auth \/ (load.listed /\ r.tls)

\* The sender goes on after a reply: over to the next step, to another message
\* on the same connection, or away.
GoesTo(pc) == sender' = [sender EXCEPT !.pc = pc]
Leaves == sender' = [sender EXCEPT !.pc = "idle", !.conn = 0]

\* The messages that wait take turns.
Turn == IF Pending \ {sender.of} = {} THEN Pending ELSE Pending \ {sender.of}
Refused == mail' = [mail EXCEPT ![sender.of] = "bounced"]

\* Over implicit TLS (handle_tls_connection) no greeting is sent.
handle_connection(s) ==
    /\ sender.pc = "idle" /\ session[s].pc = "closed" /\ work[s] = Rest
    /\ \E m \in Turn : sender' = [pc |-> "hello", conn |-> s, of |-> m]
    /\ session' = [session EXCEPT ![s] = [NoSession EXCEPT !.pc = "command", !.peer = TRUE,
                                                           !.tls = load.tls = "tls",
                                                           !.greeted = load.tls # "tls"]]
    /\ UNCHANGED <<mail, ingest>>

\* The answer to EHLO offers STARTTLS when it is configured and not yet active.
ehlo(s) ==
    /\ At("hello", s) /\ (session[s].greeted \/ ~load.patient)
    /\ GoesTo(IF load.tls = "starttls" /\ ~session[s].tls THEN "starttls"
              ELSE IF load.auth /\ ~session[s].auth THEN "auth" ELSE "mail")
    /\ UNCHANGED <<session, mail, ingest>>

\* SMTP_IDLE_TIMEOUT: a sender that waits for the greeting is dropped.
idle_timeout(s) ==
    /\ At("hello", s) /\ ~session[s].greeted /\ load.patient
    /\ session' = [session EXCEPT ![s] = NoSession] /\ Leaves
    /\ UNCHANGED <<mail, ingest>>

starttls(s) ==
    /\ At("starttls", s)
    /\ session' = [session EXCEPT ![s] = [Clean(@) EXCEPT !.tls = TRUE]]
    /\ GoesTo("hello")
    /\ UNCHANGED <<mail, ingest>>

\* AUTH PLAIN and AUTH LOGIN: the password is an access token.
auth(s) ==
    /\ At("auth", s)
    /\ IF load.token THEN session' = [session EXCEPT ![s].auth = TRUE] /\ GoesTo("mail") /\ UNCHANGED mail
       ELSE GoesTo("again") /\ Refused /\ UNCHANGED session
    /\ UNCHANGED ingest

Denied(r) == (load.auth /\ ~r.auth) \/ ~peer_allowed(r)

\* A new transaction: the journal flag is cleared, the recipient is not.
mail_from(s) ==
    /\ At("mail", s)
    /\ IF Denied(session[s]) THEN GoesTo("again") /\ Refused /\ UNCHANGED session
       ELSE /\ session' = [session EXCEPT ![s].from = TRUE, ![s].journal = FALSE]
            /\ GoesTo("rcpt") /\ UNCHANGED mail
    /\ UNCHANGED ingest

To == load.to[sender.of]

\* Mutant: one recipient after another is taken.
rcpt_to_any(s) ==
    /\ At("rcpt", s)
    /\ IF ~session[s].from \/ Denied(session[s]) \/ To \in {"imap", "unknown"} \/ (load.auth /\ To \in load.denied)
       THEN GoesTo("again") /\ Refused /\ UNCHANGED session
       ELSE /\ session' = [session EXCEPT ![s].journal = load.journal /\ To = "journal",
                                          ![s].rcpt = IF @ = "none" THEN To ELSE @]
            /\ GoesTo("data") /\ UNCHANGED mail
    /\ UNCHANGED ingest

\* One recipient per transaction; the journal address before the accounts; of
\* these only a local one the user may deliver to.
rcpt_to(s) ==
    /\ At("rcpt", s)
    /\ LET journal == load.journal /\ To = "journal"
           foreign == To \in {"imap", "unknown", "journal"} \/ (load.auth /\ To \in load.denied)
       IN IF session[s].rcpt # "none" \/ session[s].journal
          THEN GoesTo("leave") /\ UNCHANGED <<session, mail>>
          ELSE IF ~session[s].from \/ Denied(session[s]) \/ (~journal /\ foreign)
          THEN GoesTo("again") /\ Refused /\ UNCHANGED session
          ELSE /\ session' = [session EXCEPT ![s].journal = journal, ![s].rcpt = IF journal THEN @ ELSE To]
               /\ GoesTo("data") /\ UNCHANGED mail
    /\ UNCHANGED ingest

data(s) ==
    /\ At("data", s)
    /\ IF Denied(session[s]) \/ ~session[s].from \/ (session[s].rcpt = "none" /\ ~session[s].journal)
       THEN GoesTo("again") /\ Refused /\ UNCHANGED session
       ELSE session' = [session EXCEPT ![s].pc = "data"] /\ GoesTo("body") /\ UNCHANGED mail
    /\ UNCHANGED ingest

\* A line that is a dot once its spaces are trimmed ends the data, one that is
\* not UTF-8 fails the read.
Stops(m) == {k \in DOMAIN Body[m] : Body[m][k] \in {"dot", "raw"}}
Stop(m) == IF Stops(m) = {} THEN "end" ELSE Body[m][Min(Stops(m))]
Received(m) == IF Stops(m) = {} THEN Text(m) ELSE SubSeq(Text(m), 1, Min(Stops(m)) - 1)

Box(r) == IF r.journal THEN "journal" ELSE r.rcpt

\* parse_email refuses at once while a backup runs; a journal report goes to its
\* handler, which waits for the gate.
Archive(s, content) ==
    IF paused /\ ~session[s].journal
    THEN work' = [work EXCEPT ![s] = [pc |-> "done", doc |-> NoDoc, outcome |-> "error"]]
    ELSE Begin(s, Doc(Box(session[s]), content))

\* The body arrives. A read that fails ends the session without a reply. Past the
\* size limit the rest of the body is read as commands, and so is what follows a
\* line taken for the end.
read_data(s) ==
    /\ At("body", s)
    /\ CASE sender.of \in load.big ->
              /\ session' = [session EXCEPT ![s].pc = "command", ![s].astray = TRUE]
              /\ GoesTo("leave") /\ Refused /\ UNCHANGED <<work, past>>
         [] sender.of \notin load.big /\ Stop(sender.of) = "raw" ->
              /\ session' = [session EXCEPT ![s] = NoSession] /\ Leaves
              /\ UNCHANGED <<mail, work, past>>
         [] OTHER ->
              /\ session' = [session EXCEPT ![s].pc = "ingest", ![s].astray = Stop(sender.of) = "dot"]
              /\ Archive(s, Received(sender.of))
              /\ GoesTo("wait") /\ UNCHANGED mail
              /\ past' = past \cup IF Stop(sender.of) = "dot" THEN {"dot"} ELSE {}
    /\ UNCHANGED <<load, queue, store, dedup, paused, claimed, fuel>>

\* Mutant: an error is not answered.
outcome_silent(s) ==
    /\ session[s].pc = "ingest" /\ work[s].pc = "done" /\ work[s].outcome # "error"
    /\ session' = [session EXCEPT ![s] = Clean([@ EXCEPT !.pc = IF session[s].peer THEN "command" ELSE "closed"])]
    /\ IF At("wait", s)
       THEN /\ GoesTo(IF session[s].astray THEN "leave" ELSE "again")
            /\ mail' = [mail EXCEPT ![sender.of] = "acked"]
            /\ claimed' = claimed \cup {Doc(To, Text(sender.of))}
       ELSE UNCHANGED <<sender, mail, claimed>>
    /\ work' = [work EXCEPT ![s] = Rest]
    /\ UNCHANGED <<load, queue, store, dedup, paused, fuel, past>>

\* 250 and a clean session, or 451 and the session as it is.
outcome(s) ==
    /\ session[s].pc = "ingest" /\ work[s].pc = "done"
    /\ LET ok == work[s].outcome # "error"
           r == [session[s] EXCEPT !.pc = IF session[s].peer THEN "command" ELSE "closed"]
       IN /\ session' = [session EXCEPT ![s] = IF ok THEN Clean(r) ELSE r]
          /\ IF At("wait", s)
             THEN /\ GoesTo(IF session[s].astray THEN "leave" ELSE "again")
                  /\ mail' = IF ok THEN [mail EXCEPT ![sender.of] = "acked"] ELSE mail
                  /\ claimed' = claimed \cup IF ok THEN {Doc(To, Text(sender.of))} ELSE {}
             ELSE UNCHANGED <<sender, mail, claimed>>
    /\ work' = [work EXCEPT ![s] = Rest]
    /\ UNCHANGED <<load, queue, store, dedup, paused, fuel, past>>

\* The sender takes another message, after RSET or not, or leaves.
again(s) ==
    /\ At("again", s)
    /\ \E m \in Turn : sender' = [sender EXCEPT !.pc = "mail", !.of = m]
    /\ session' \in {session, [session EXCEPT ![s] = Clean(@)]}
    /\ UNCHANGED <<mail, ingest>>

quit(s) ==
    /\ (At("again", s) \/ At("leave", s))
    /\ session' = [session EXCEPT ![s] = NoSession] /\ Leaves
    /\ UNCHANGED <<mail, ingest>>

Serve(s) ==
    \/ handle_connection(s) \/ ehlo(s) \/ idle_timeout(s) \/ starttls(s) \/ auth(s) \/ mail_from(s) \/ rcpt_to(s)
    \/ data(s) \/ read_data(s) \/ outcome(s) \/ again(s) \/ quit(s)
----------------------------------------------------------------------------
(* Faults *)

Gone(s) == IF sender.conn = s THEN Leaves ELSE UNCHANGED sender

\* The connection breaks. In the data a clean close is taken for their end; a
\* session that is archiving goes on without its peer.
break(s) ==
    /\ sender.conn = s /\ Fault /\ Leaves
    /\ \/ /\ session[s].pc = "data"
          /\ \E k \in 1..Len(Received(sender.of)) :
               /\ Archive(s, SubSeq(Text(sender.of), 1, k))
               /\ past' = past \cup IF k < Len(Text(sender.of)) THEN {"eof"} ELSE {}
          /\ session' = [session EXCEPT ![s].pc = "ingest", ![s].peer = FALSE]
       \/ /\ session[s].pc \in {"command", "data"}
          /\ session' = [session EXCEPT ![s] = NoSession] /\ UNCHANGED <<work, past>>
       \/ /\ session[s].pc = "ingest"
          /\ session' = [session EXCEPT ![s].peer = FALSE] /\ UNCHANGED <<work, past>>
    /\ UNCHANGED <<mail, load, queue, store, dedup, paused, claimed>>

\* GLOBAL_SESSION_TIMEOUT drops the session wherever it is.
session_timeout(s) ==
    /\ session[s].pc # "closed" /\ Fault
    /\ session' = [session EXCEPT ![s] = NoSession]
    /\ Dropped(s) /\ Gone(s)
    /\ UNCHANGED <<mail, load, queue, store, dedup, paused, claimed>>

\* At the death of the process.
SmtpDied ==
    /\ session' = [s \in Sessions |-> NoSession] /\ Leaves
    /\ UNCHANGED mail

Disturb(s) == break(s) \/ session_timeout(s)
============================================================================
