--------------------------- MODULE MCMailboxSync ---------------------------
(* A small instance of MailboxSync. *)
EXTENDS MailboxSync

\* Every message has a Message-ID and a fingerprint of its own.
Own == [m \in Messages |-> m]

Since(day, moves) == [kind |-> "since", day |-> day, moves |-> moves]
Before(day) == [kind |-> "before", day |-> day, moves |-> TRUE]
Request(since, before, clear) ==
    [date_since |-> since, date_before |-> before, clear_date_range |-> clear]
Clear == Request(Everything, Everything, TRUE)

Plain == [range |-> Everything, requests |-> {}, date |-> [m \in Messages |-> 1], id |-> Own, print |-> Own,
          broken |-> {}, oversized |-> {}, days |-> 0, faults |-> 2]
Dates == [m \in Messages |-> IF m = "m1" THEN 1 ELSE 2]

\* All mail; mail older than a day, another day passing; mail since a day, the
\* range being moved or dropped; mail the parser or the size limit rejects;
\* mail without a Message-ID, and mail that shares one.
SmallSetups ==
    {Plain,
     [Plain EXCEPT !.range = Before(2), !.date = Dates, !.days = 1, !.faults = 1],
     [Plain EXCEPT !.range = Since(2, FALSE), !.date = Dates, !.faults = 1,
                   !.requests = {Clear, Request(Everything, Before(2), FALSE)}],
     [Plain EXCEPT !.broken = {"m1"}, !.faults = 1],
     [Plain EXCEPT !.oversized = {"m1"}, !.faults = 1],
     [Plain EXCEPT !.id["m1"] = NoId, !.faults = 1],
     [Plain EXCEPT !.id["m1"] = "m2", !.faults = 1]}
=============================================================================
