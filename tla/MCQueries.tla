----------------------------- MODULE MCQueries -----------------------------
(* Two archives a and b and a view v over them; one reader. *)
EXTENDS Queries, TLC

MCAccounts == {"a", "b", "v"}
MCViews == {"v"}

Mail(account, sender, recipients, tag, date, size, attachments) ==
    [account |-> account, sender |-> sender, recipients |-> recipients, tags |-> {tag},
     date |-> date, size |-> size, attachments |-> attachments, thread |-> "t",
     mailbox |-> account, words |-> {tag, "w"}]

MCMessage ==
    << Mail("a", "P", {"q"}, "x", 3, 1, 1),
       Mail("a", "q", {"p", "r"}, "y", 2, 3, 0),
       Mail("a", "r", {"q"}, "z", 2, 2, 1),
       Mail("b", "r", {"p"}, "x", 1, 2, 1),
       Mail("a", "p", {"r"}, "y", 2, 2, 0) >>

MCMessages == DOMAIN MCMessage
MCArrivals == {5}

MCFold(x) == IF x = "P" THEN "p" ELSE x

MCPermissions ==
    [reading |-> {"data:read"},
     managing |-> {"account:manage", "account:read"},
     exporting |-> {"data:export", "data:read"},
     details |-> {"account:read"},
     auditing |-> {"data:read:all"},
     supporting |-> {"account:manage:all"},
     administering |-> {"root"}]
MCRoles == DOMAIN MCPermissions

Source(account, participant, recipient) ==
    [account |-> account, participant |-> participant, recipient |-> recipient]

ViewSources ==
    { {Source("a", {}, {})},
      {Source("a", {"p"}, {})},
      {Source("a", {}, {"p"}), Source("b", {}, {})},
      {Source("a", {"P", "r"}, {"q"}), Source("b", {"r"}, {"p"})} }

(* The reader's scoped roles on a and on v, the one on v with a deadline;   *)
(* and, for some of them, a permanent global role, or two of which one has  *)
(* a deadline.                                                              *)
Grant(ra, rv) ==
    (IF ra = "none" THEN << >> ELSE "a" :> ra) @@ (IF rv = "none" THEN << >> ELSE "v" :> rv)

Grants ==
    {Grant(ra, rv) : ra \in {"none", "details"}, rv \in {"none", "reading", "gone"}}
        \cup {Grant("none", "exporting"), Grant("managing", "none"), Grant("managing", "reading")}

Directory(s, g, r) ==
    [present |-> MCAccounts, sources |-> ("v" :> s), grants |-> g, expiry |-> ("v" :> 1),
     globals |-> r, globalExpiry |-> ("administering" :> 1)]

Filtered == {Source("a", {"P", "r"}, {"q"}), Source("b", {"r"}, {"p"})}

MCDirectories ==
    {Directory(s, g, {}) : s \in ViewSources, g \in Grants}
        \cup {Directory(s, g, r) :
                s \in {Filtered, {Source("a", {"p"}, {})}},
                g \in {Grant("none", "none"), Grant("managing", "reading")},
                r \in {{"auditing"}, {"supporting", "administering"}}}

Request(name, filter, sort_by, desc, page_size) ==
    [name |-> name, filter |-> filter, sort_by |-> sort_by, desc |-> desc,
     page_size |-> page_size]

MCRequests ==
    { Request("newest", << >>, "none", TRUE, 2),
      Request("accounts", ("account_ids" :> {"b", "v"}) @@ ("tags" :> {"x", "z"}),
              "size", FALSE, 1),
      Request("large", << >>, "none", TRUE, 3),
      Request("words", ("text" :> "w") @@ ("since" :> 2), "none", TRUE, 2) }
=============================================================================
