----------------------------- MODULE MCContent -----------------------------
(* Small archives for Content. *)
EXTENDS Content

Eml(id, parts) ==
    <<Header(id), Text(id)>> \o FlattenSeq([n \in DOMAIN parts |-> <<Part(parts[n][1])>> \o Encoded(parts[n][2], parts[n][3]) \o <<End>>])

One == Eml("i1", <<<<FALSE, "b64", "doc">>>>)
Two == Eml("i2", <<<<FALSE, "qp", "doc">>, <<TRUE, "b64", "doc">>>>)
Bare == Eml("none", << >>)
Forward == Eml("i3", <<<<FALSE, "b64", "one">>>>)
SmallFiles == [doc |-> <<Text("doc")>>, one |-> One, bare |-> Bare]

Base == [mails |-> [a |-> One, b |-> Bare], legacy |-> << >>,
         arriving |-> {<<"a", "inbox">>, <<"b", "inbox">>}, reports |-> << >>, faults |-> 1]

SmallHoldings ==
    {Base,
     [Base EXCEPT !.mails = [a |-> One, b |-> Two]],
     [Base EXCEPT !.mails = [a |-> One], !.legacy = <<"a">>, !.arriving = {<<"a", "inbox">>}, !.faults = 2],
     [Base EXCEPT !.mails = [a |-> One, b |-> Two], !.legacy = <<"a", "b">>, !.arriving = {<<"b", "inbox">>}],
     [Base EXCEPT !.mails = [a |-> Forward, b |-> One]],
     [Base EXCEPT !.mails = [a |-> One \o <<Part(FALSE)>>,
                             b |-> Bare \o <<Hole(compute_raw_attachment_hash(Encoded("b64", "doc")))>>]],
     [Base EXCEPT !.mails = [a |-> One, r |-> Forward],
                  !.arriving = {<<"a", "journal">>, <<"a", "inbox">>}, !.reports = [a |-> "r"]],
     [Base EXCEPT !.mails = [b |-> Bare, r |-> Eml("i3", <<<<FALSE, "b64", "bare">>>>)],
                  !.arriving = {<<"b", "journal">>, <<"r", "inbox">>}, !.reports = [b |-> "r"]]}
============================================================================
