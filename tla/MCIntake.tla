------------------------------ MODULE MCIntake ------------------------------
\* Intake with five messages: two plain ones, one with a line that is a dot after a
\* space, one with a line that begins with From, one with a line that is not UTF-8.
EXTENDS Intake

MCBody == [a |-> <<"text", "text">>, b |-> <<"text", "dot", "text">>, c |-> <<"text", "from", "text">>, d |-> <<"text">>,
           e |-> <<"text", "raw">>]
MCMail == DOMAIN MCBody

Local == [exists |-> TRUE, enabled |-> TRUE, type |-> "nosync", kind |-> "none"]
NoFile == [by |-> "none", ext |-> "none", bytes |-> "none", mails |-> <<>>, box |-> [m \in MCMail |-> "inbox"],
           folders |-> <<>>, fit |-> TRUE, room |-> TRUE, opens |-> TRUE, account |-> Local]
Upload1(kind, mails) == [NoFile EXCEPT !.by = "upload", !.ext = kind, !.bytes = kind, !.mails = mails]
Pst == [Upload1("pst", <<>>) EXCEPT !.bytes = "binary",
          !.folders = <<[box |-> "inbox", items |-> <<Entry(<<<<"a", "text">>>>, "ok"), Entry(<<>>, "unopened")>>],
                        [box |-> "work", items |-> <<Entry(<<>>, "unbuilt"), Entry(<<<<"d", "text">>>>, "ok")>>]>>]
CliFile(mails) == [NoFile EXCEPT !.by = "cli", !.ext = "mbox", !.bytes = "mbox", !.mails = mails,
                                 !.box = [m \in MCMail |-> IF m = "a" THEN "work" ELSE "inbox"]]

Base == [send |-> {}, patient |-> TRUE, to |-> [m \in MCMail |-> "inbox"], tls |-> "none", auth |-> FALSE, token |-> TRUE,
         journal |-> FALSE, listed |-> TRUE, denied |-> {}, big |-> {}, huge |-> {}, skipped |-> {}, file |-> NoFile]

MCLoads == {
    \* two messages for two recipients; the same message sent and uploaded
    [Base EXCEPT !.send = {"a", "d"}, !.to["d"] = "work"],
    [Base EXCEPT !.send = {"a"}, !.file = Upload1("eml", <<"a">>)],
    \* a line taken for the end; a message too large
    [Base EXCEPT !.send = {"a", "b"}], [Base EXCEPT !.send = {"d", "e"}], [Base EXCEPT !.send = {"a", "d"}, !.big = {"d"}],
    \* TLS, authentication, a recipient out of reach, a journal
    [Base EXCEPT !.send = {"a", "d"}, !.tls = "starttls", !.auth = TRUE, !.to["d"] = "other", !.denied = {"other"}],
    [Base EXCEPT !.send = {"a"}, !.auth = TRUE, !.token = FALSE],
    [Base EXCEPT !.send = {"a"}, !.tls = "tls"],
    [Base EXCEPT !.send = {"a", "d"}, !.tls = "tls", !.patient = FALSE, !.journal = TRUE, !.to["a"] = "journal"],
    [Base EXCEPT !.send = {"a", "d"}, !.journal = TRUE, !.to["a"] = "journal"],
    [Base EXCEPT !.send = {"a", "d"}, !.to["a"] = "journal", !.to["d"] = "imap"],
    \* uploads and the client's batches
    [Base EXCEPT !.file = Upload1("mbox", <<"a", "d", "a">>)],
    [Base EXCEPT !.file = Upload1("mbox", <<"c", "d">>), !.big = {"d"}],
    [Base EXCEPT !.file = Pst], [Base EXCEPT !.file = [Upload1("mbox", <<"a">>) EXCEPT !.opens = FALSE]],
    \* an mbox under another extension, bytes that are none, and what is refused
    [Base EXCEPT !.file = [Upload1("mbox", <<"a", "d">>) EXCEPT !.ext = "eml"]],
    [Base EXCEPT !.file = [Upload1("mbox", <<"c">>) EXCEPT !.bytes = "plain"]],
    [Base EXCEPT !.file = [Upload1("eml", <<"a">>) EXCEPT !.bytes = "binary"]],
    [Base EXCEPT !.file = Upload1("zip", <<>>)],
    [Base EXCEPT !.file = [Upload1("pst", <<>>) EXCEPT !.room = FALSE]],
    [Base EXCEPT !.file = [Upload1("eml", <<"a">>) EXCEPT !.account.exists = FALSE]],
    [Base EXCEPT !.file = [Upload1("eml", <<"a">>) EXCEPT !.fit = FALSE]],
    [Base EXCEPT !.file = [Upload1("eml", <<"a">>) EXCEPT !.account.kind = "journal"]],
    [Base EXCEPT !.file = CliFile(<<"a", "d", "b">>)],
    [Base EXCEPT !.file = CliFile(<<"c", "d">>)],
    [Base EXCEPT !.send = {"a"}, !.file = CliFile(<<"d", "b">>), !.skipped = {"a", "b"}],
    [Base EXCEPT !.file = CliFile(<<"d", "a", "b">>), !.big = {"d", "b"}, !.huge = {"b"}],
    [Base EXCEPT !.file = [CliFile(<<"a", "d">>) EXCEPT !.account.type = "imap"]] }
============================================================================
