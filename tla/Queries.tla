------------------------------ MODULE Queries ------------------------------
(***************************************************************************)
(* What one signed-in reader is answered.  The reader's authority comes    *)
(* from roles that may expire, and from view accounts: a view has no       *)
(* message of its own, it shows part of its source accounts.  The index    *)
(* and the access data change between requests.                            *)
(*                                                                         *)
(* Two pieces of code decide the same question in different ways.  The     *)
(* lists turn the reader's scope into an index query (filter_query); the   *)
(* single-message endpoints evaluate the view filter on the stored         *)
(* envelope (ViewScopeGroup::matches).  The figures and the exports know   *)
(* accounts only.  The properties relate the three.                        *)
(***************************************************************************)
EXTENDS Integers, FiniteSets

CONSTANTS
    Accounts,      \* ordinary accounts and views
    Views,         \* the accounts of type View
    Messages,      \* message ids, numbers in document-address order
    Message,       \* what the index stores of each message
    Roles,         \* role rows that exist
    Permissions,   \* the permissions of each role
    Fold(_),       \* an address in lower case
    Directories,   \* the access data a run may start from
    Requests,      \* the search requests a reader makes
    Arrivals,      \* messages that may arrive during the run
    Everything,    \* an account scope of None: no restriction
    Sample,        \* CONTACT_SAMPLE
    PageLimit,     \* the largest page_size, 500 in the code
    MaxChanges,    \* bound on the changes between requests
    MaxTime        \* bound on the clock

ASSUME QueriesAssumption ==
    /\ Views \subseteq Accounts
    /\ Messages \subseteq Nat /\ IsFiniteSet(Messages) /\ Arrivals \subseteq Messages
    /\ \A m \in Messages : Message[m].account \in Accounts \ Views
    /\ Sample \in Nat \ {0} /\ MaxChanges \in Nat /\ MaxTime \in Nat

(* A list is paged through under the name of its request.                  *)
ASSUME RequestsAssumption ==
    \A r \in Requests :
        /\ r.name # "none" /\ r.page_size \in Nat
        /\ \A q \in Requests : q.name = r.name => q = r

VARIABLES
    directory,   \* the account rows and the reader's user row
    licensed,    \* view_role_enabled()
    now,         \* utc_now!()
    index,       \* messages of the last index commit
    reader,      \* messages of the snapshot ENVELOPE_MANAGER.reader holds
    cleanups,    \* accounts whose envelopes a spawned task will delete
    walk,        \* the reader paging through one result list
    answer,      \* the last answer, until something changes
    changes      \* changes made so far

vars == <<directory, licensed, now, index, reader, cleanups, walk, answer, changes>>

Nowhere == "nowhere"          \* a permission asked for no account
Nothing == [op |-> "nothing"]
NoWalk == [request |-> "none"]

-----------------------------------------------------------------------------
(* Permissions. *)

Expired(expiries, x) == x \in DOMAIN expiries /\ now >= expiries[x]

global_role_expired(r) == Expired(directory.globalExpiry, r)
account_role_expired(a) == Expired(directory.expiry, a)

effective_global_roles == {r \in directory.globals : ~global_role_expired(r)}

(* A role id whose row is gone contributes nothing. *)
get_all_permissions == UNION {Permissions[r] : r \in effective_global_roles \cap Roles}

is_admin == "root" \in get_all_permissions

check_global_logic(held, p) ==
    \/ p \in held
    \/ p = "data:read" /\ "data:read:all" \in held
    \/ p = "data:delete" /\ "data:delete:all" \in held
    \/ p = "data:raw" /\ "data:raw:all" \in held
    \/ p = "data:export" /\ "data:export:all" \in held
    \/ p \in {"account:manage", "account:read"} /\ "account:manage:all" \in held

check_account_logic(held, p) ==
    \/ p \in held
    \/ p \in {"data:read", "account:read"} /\ "account:manage" \in held

permissions_allow(a, p) ==
    \/ check_global_logic(get_all_permissions, p)
    \/ /\ a # Nowhere
       /\ ~account_role_expired(a)
       /\ a \in DOMAIN directory.grants
       /\ directory.grants[a] \in Roles
       /\ check_account_logic(Permissions[directory.grants[a]], p)

has_permission(a, p) == is_admin \/ permissions_allow(a, p)

(* Mutant: the roles as assigned, deadlines not looked at. *)
to_view_assigned ==
    [global |-> UNION {Permissions[r] : r \in directory.globals \cap Roles},
     account |-> [a \in {b \in DOMAIN directory.grants : directory.grants[b] \in Roles} |->
                     Permissions[directory.grants[a]]]]

(* The permissions the user page lists, globally and per account. *)
to_view ==
    [global |-> get_all_permissions,
     account |-> [a \in {b \in DOMAIN directory.grants :
                            ~account_role_expired(b) /\ directory.grants[b] \in Roles} |->
                     Permissions[directory.grants[a]]]]

-----------------------------------------------------------------------------
(* View filters, and the scope of a request. *)

unbounded(a) == [account |-> a, participant |-> {}, recipient |-> {}]

(* What a view shows of a source, and what a grant on an account comes to. *)
Groups ==
    {unbounded(a) : a \in Accounts} \cup UNION {UNION {d.sources[v] : v \in Views} : d \in Directories}

Fields == {"present", "sources", "grants", "expiry", "globals", "globalExpiry"}

(* Global roles carry global permissions only (validate_role_permissions). *)
IsDirectory(d) ==
    /\ d = [f \in Fields |-> d[f]]
    /\ d.present \subseteq Accounts /\ DOMAIN d.grants \subseteq Accounts
    /\ d.sources \in [Views -> SUBSET Groups]
    /\ \A r \in d.globals \cap Roles : "data:read" \notin Permissions[r]

ASSUME DirectoriesAssumption ==
    /\ \A d \in Directories : IsDirectory(d)
    /\ \A g \in Groups : /\ g.account \in Accounts
                          /\ g = [account |-> g.account, participant |-> g.participant,
                                   recipient |-> g.recipient]
    /\ \A S \in (SUBSET Groups) \cup (SUBSET Accounts) : S # Everything
    /\ Nowhere \notin Accounts

is_unfiltered(g) == g.participant = {} /\ g.recipient = {}

(* Bcc is among the recipients; a blank address matches nobody. *)
participant_matches(m, address, include_sender) ==
    /\ address # ""
    /\ \/ include_sender /\ Fold(Message[m].sender) = Fold(address)
       \/ \E r \in Message[m].recipients : Fold(r) = Fold(address)

matches(g, m) ==
    /\ g.participant # {} => \E x \in g.participant : participant_matches(m, x, TRUE)
    /\ g.recipient # {} => \E x \in g.recipient : participant_matches(m, x, FALSE)

readable_accounts ==
    IF licensed THEN directory.present ELSE directory.present \ Views

scope_groups_for(candidates, permission) ==
    LET allowed == {a \in candidates \cap readable_accounts : has_permission(a, permission)}
    IN  (UNION {directory.sources[v] : v \in allowed \cap Views})
            \cup {unbounded(a) : a \in allowed \ Views}

search_scope(requested) ==
    IF requested = Everything /\ has_permission(Nowhere, "data:read:all")
    THEN Everything
    ELSE scope_groups_for(IF requested = Everything THEN DOMAIN directory.grants ELSE requested,
                          "data:read")

unfiltered_source_accounts(groups) == {g.account : g \in {h \in groups : is_unfiltered(h)}}

(* Refused is both the missing permission and the filtered view. *)
export_scope_accounts ==
    IF has_permission(Nowhere, "data:export")
    THEN Everything
    ELSE unfiltered_source_accounts(scope_groups_for(DOMAIN directory.grants, "data:export"))

(* Mutant: every source of a view counts, filtered or not. *)
aggregate_every_source ==
    LET granted == DOMAIN directory.grants \cap readable_accounts
    IN  (granted \ Views)
            \cup UNION {{g.account : g \in directory.sources[v]} :
                            v \in {w \in granted \cap Views : has_permission(w, "data:read")}}

aggregate_account_ids ==
    LET granted == DOMAIN directory.grants \cap readable_accounts
    IN  (granted \ Views)
            \cup UNION {unfiltered_source_accounts(directory.sources[v]) :
                            v \in {w \in granted \cap Views : has_permission(w, "data:read")}}

aggregate_accounts ==
    IF has_permission(Nowhere, "data:read:all") THEN Everything ELSE aggregate_account_ids

(* The views that let the reader open this message. *)
view_granting(m) ==
    {v \in DOMAIN directory.grants \cap directory.present \cap Views :
        /\ licensed
        /\ has_permission(v, "data:read")
        /\ \E g \in directory.sources[v] : g.account = Message[m].account /\ matches(g, m)}

may_read(m) == has_permission(Message[m].account, "data:read") \/ view_granting(m) # {}

load_readable_with_access(m) ==
    LET direct == has_permission(Message[m].account, "data:read")
    IN  CASE m \in index /\ direct -> "found"
          [] m \in index /\ ~direct /\ view_granting(m) # {} -> "found through a view"
          [] m \notin index /\ direct -> "not found"
          [] OTHER -> "forbidden"

-----------------------------------------------------------------------------
(* Index queries. *)

(* Mutant: the pattern without its (?i). *)
participant_exact_query_cased(addresses, include_sender, m) ==
    LET fields == Message[m].recipients \cup (IF include_sender THEN {Message[m].sender} ELSE {})
    IN  (addresses \ {""}) \cap fields # {}

(* participant_exact_query: the sender field only when include_sender, and  *)
(* match_nothing when no address is left after the blank ones.             *)
participant_exact_query(addresses, include_sender, m) ==
    LET fields == Message[m].recipients \cup (IF include_sender THEN {Message[m].sender} ELSE {})
    IN  \E x \in addresses \ {""}, y \in fields : Fold(x) = Fold(y)

(* Mutant: the two filters of a group are alternatives. *)
scope_query_either(scope, m) ==
    \/ scope = Everything
    \/ /\ scope # Everything
       /\ \E g \in scope :
            /\ g.account = Message[m].account
            /\ \/ is_unfiltered(g)
               \/ participant_exact_query(g.participant, TRUE, m)
               \/ participant_exact_query(g.recipient, FALSE, m)

scope_query(scope, m) ==
    \/ scope = Everything
    \/ /\ scope # Everything
       /\ \E g \in scope :
            /\ g.account = Message[m].account
            /\ g.participant = {} \/ participant_exact_query(g.participant, TRUE, m)
            /\ g.recipient = {} \/ participant_exact_query(g.recipient, FALSE, m)

(* A clause of the filter that is absent restricts nothing; an empty tag   *)
(* list counts as absent, an empty mailbox list matches no document.       *)
(* The ranges and the lists of ids. *)
within(f, d) ==
    /\ "since" \in DOMAIN f => d.date >= f.since
    /\ "before" \in DOMAIN f => d.date <= f.before
    /\ "account_ids" \in DOMAIN f => d.account \in f.account_ids
    /\ "mailbox_ids" \in DOMAIN f => d.mailbox \in f.mailbox_ids
    /\ "min_size" \in DOMAIN f => d.size >= f.min_size
    /\ "max_size" \in DOMAIN f => d.size <= f.max_size

filter_query(scope, f, m) ==
    LET d == Message[m] IN
    /\ scope_query(scope, m)
    /\ "text" \in DOMAIN f => f.text \in d.words
    /\ "tags" \in DOMAIN f => f.tags = {} \/ f.tags \cap d.tags # {}
    /\ "any_recipient" \in DOMAIN f => f.any_recipient \in d.recipients
    /\ "any_participant" \in DOMAIN f => f.any_participant \in d.recipients \cup {d.sender}
    /\ "has_attachment" \in DOMAIN f => f.has_attachment = (d.attachments > 0)
    /\ within(f, d)

(* A request asks for a page that exists and is not too large.             *)
validate(page, page_size) == page > 0 /\ page_size > 0 /\ page_size <= PageLimit
has_text_filter(f) == "text" \in DOMAIN f

resolve_sort_by(requested, has_text) ==
    CASE requested = "relevance" /\ ~has_text -> "date"
      [] requested = "none" /\ has_text -> "relevance"
      [] requested = "none" /\ ~has_text -> "date"
      [] OTHER -> requested

(* The sort key; equal keys stay in document-address order.  The score of  *)
(* a text match is the number of words the message has.                    *)
SortKey(m, sort_by) ==
    CASE sort_by = "date" -> Message[m].date
      [] sort_by = "size" -> Message[m].size
      [] OTHER -> -Cardinality(Message[m].words)

Before(x, y, sort_by, desc) ==
    LET kx == SortKey(x, sort_by)
        ky == SortKey(y, sort_by)
    IN  \/ (IF desc \/ sort_by = "relevance" THEN kx > ky ELSE kx < ky)
        \/ kx = ky /\ x < y

(* The place of a hit among the hits, from 1. *)
Rank(m, found, sort_by, desc) ==
    Cardinality({x \in found : x = m \/ Before(x, m, sort_by, desc)})

(* Mutant: the limit of a page is one short. *)
PageOf_short(found, page, page_size, desc, sort_by) ==
    LET offset == (page - 1) * page_size
    IN  [pages |-> (Cardinality(found) + page_size - 1) \div page_size,
         items |-> {m \in found : /\ Rank(m, found, sort_by, desc) > offset
                                  /\ Rank(m, found, sort_by, desc) < offset + page_size}]

(* One page: an empty one past the end, and never more than page_size.     *)
PageOf(found, page, page_size, desc, sort_by) ==
    LET offset == (page - 1) * page_size
    IN  [pages |-> (Cardinality(found) + page_size - 1) \div page_size,
         items |-> {m \in found : /\ Rank(m, found, sort_by, desc) > offset
                                  /\ Rank(m, found, sort_by, desc) <= offset + page_size}]

search_inner(scope, f, page, page_size, desc, sort_by) ==
    PageOf({m \in index : filter_query(scope, f, m)}, page, page_size, desc, sort_by)

(* The requested accounts went into the scope; the filter keeps none. *)
search_scoped(scope, f, page, page_size, desc, sort_by) ==
    search_inner(scope, [c \in DOMAIN f \ {"account_ids"} |-> f[c]],
                 page, page_size, desc, sort_by)

(* Attachment documents are named after their message and copy its date,   *)
(* mailbox and sender; they carry no recipients.                           *)
attachment_filter_query(accounts, f, m) ==
    LET d == Message[m] IN
    /\ d.attachments > 0
    /\ accounts = Everything \/ d.account \in accounts
    /\ "text" \in DOMAIN f => f.text \in d.words
    /\ "tags" \in DOMAIN f => f.tags = {} \/ f.tags \cap d.tags # {}
    /\ "from" \in DOMAIN f => f.from = d.sender
    /\ within(f, d)

attachment_search(accounts, f, page, page_size, desc, sort_by) ==
    PageOf({m \in index : attachment_filter_query(accounts, f, m)},
           page, page_size, desc, sort_by)

(* A filtered group cannot be evaluated on these documents: it is dropped. *)
attachment_search_scoped(scope, f, page, page_size, desc, sort_by) ==
    attachment_search(IF scope = Everything THEN Everything ELSE unfiltered_source_accounts(scope),
                      [c \in DOMAIN f \ {"account_ids"} |-> f[c]],
                      page, page_size, desc, sort_by)

list_thread_envelopes(a, thread, page, page_size) ==
    PageOf({m \in index : Message[m].account = a /\ Message[m].thread = thread},
           page, page_size, TRUE, "date")

(* Mutant: the tags of the scope's accounts. *)
get_all_tags_of_accounts(scope) ==
    UNION {Message[m].tags : m \in {x \in reader :
        scope = Everything \/ \E g \in scope : g.account = Message[x].account}}

(* Tags come from the reader's snapshot as it is; every other query        *)
(* reloads it first (create_searcher).                                     *)
get_all_tags_scoped(scope) ==
    UNION {Message[m].tags : m \in {x \in reader : scope_query(scope, x)}}

People(ms) == (UNION {{Message[m].sender} \cup Message[m].recipients : m \in ms}) \ {""}

get_all_contacts(accounts) ==
    People({m \in index : accounts = Everything \/ Message[m].account \in accounts})

contacts_in_scope ==
    LET groups == search_scope(Everything)
        sampled(g) == search_scoped({g}, << >>, 1, Sample, TRUE, "date").items
    IN  IF groups = Everything
        THEN get_all_contacts(Everything)
        ELSE get_all_contacts(unfiltered_source_accounts(groups))
                \cup UNION {People(sampled(g)) : g \in {h \in groups : ~is_unfiltered(h)}}

-----------------------------------------------------------------------------
(* The requests. *)

Answer(a) == answer' = a /\ UNCHANGED <<directory, licensed, now, index, changes>>

(* Any other request leaves the list that was being paged through. *)
Leave == walk' = NoWalk

(* The index queries reload the reader first. *)
create_searcher == reader' = index

Requested(r) == IF "account_ids" \in DOMAIN r.filter THEN r.filter.account_ids ELSE Everything

(* One page of a result list: the first of a new list, or the next of the  *)
(* list being read.  The answer keeps the caller's view of it.             *)
search_messages(r) ==
    LET page == IF walk.request = r.name THEN walk.page + 1 ELSE 1
        scope == search_scope(Requested(r))
        sort_by == resolve_sort_by(r.sort_by, has_text_filter(r.filter))
        result == search_scoped(scope, r.filter, page, r.page_size, r.desc, sort_by)
        all == {m \in index : filter_query(scope, [c \in DOMAIN r.filter \ {"account_ids"} |->
                                                       r.filter[c]], m)}
    IN  /\ validate(page, r.page_size)
        /\ walk.request = r.name => walk.page < walk.pages
        /\ walk' = [request |-> r.name,
                    page |-> page,
                    pages |-> result.pages,
                    seen |-> result.items \cup (IF page = 1 THEN {} ELSE walk.seen),
                    wanted |-> IF page = 1 THEN all ELSE walk.wanted,
                    repeats |-> page # 1 /\ (walk.repeats \/ walk.seen \cap result.items # {}),
                    grown |-> page # 1 /\ walk.grown,
                    disturbed |-> page # 1 /\ walk.disturbed]
        /\ create_searcher /\ UNCHANGED cleanups
        /\ Answer([op |-> "search", request |-> r, hits |-> result.items, all |-> all])

get_thread_messages(a, thread, page, page_size) ==
    /\ has_permission(a, "data:read")
    /\ create_searcher /\ Leave /\ UNCHANGED cleanups
    /\ Answer([op |-> "thread",
               hits |-> list_thread_envelopes(a, thread, page, page_size).items])

(* Opening a message, its nested messages, its envelope, its attachments.  *)
fetch_message_content(m) ==
    /\ create_searcher /\ Leave /\ UNCHANGED cleanups
    /\ Answer([op |-> "read", message |-> m, result |-> load_readable_with_access(m)])

search_attachment_scoped(scope, r, page) ==
    attachment_search_scoped(scope, r.filter, page, r.page_size, r.desc,
                             resolve_sort_by(r.sort_by, has_text_filter(r.filter)))
search_attachment(r, page) ==
    /\ validate(page, r.page_size) /\ Leave /\ UNCHANGED <<cleanups, reader>>
    /\ Answer([op |-> "attachments",
               hits |-> search_attachment_scoped(search_scope(Requested(r)), r, page).items])

get_all_tags ==
    /\ Leave /\ UNCHANGED <<cleanups, reader>>
    /\ Answer([op |-> "tags", tags |-> get_all_tags_scoped(search_scope(Everything))])

get_all_contacts_of_reader ==
    /\ create_searcher /\ Leave /\ UNCHANGED cleanups
    /\ Answer([op |-> "contacts", contacts |-> contacts_in_scope])

(* Mutant: the accounts in scope are looked up, not those of the index. *)
get_dashboard_stats_of_scope ==
    LET accounts == IF has_permission(Nowhere, "account:manage:all")
                    THEN Everything ELSE aggregate_accounts
        looked_up == IF accounts = Everything THEN Accounts ELSE accounts
    IN  /\ create_searcher /\ Leave
        /\ cleanups' = cleanups \cup (looked_up \ directory.present)
        /\ Answer([op |-> "stats", accounts |-> accounts])

(* The dashboard: its figures cover whole accounts, and an account that    *)
(* has messages but no row is handed to a cleanup task.                    *)
get_dashboard_stats ==
    LET accounts == IF has_permission(Nowhere, "account:manage:all")
                    THEN Everything ELSE aggregate_accounts
        counted == {Message[m].account : m \in {x \in index :
                        accounts = Everything \/ Message[x].account \in accounts}}
    IN  /\ create_searcher /\ Leave
        /\ cleanups' = cleanups \cup (counted \ directory.present)
        /\ Answer([op |-> "stats", accounts |-> accounts])

(* Attachment tags, senders and kinds: figures over the same accounts. *)
attachment_aggregates ==
    /\ Leave /\ UNCHANGED <<cleanups, reader>>
    /\ Answer([op |-> "aggregates", accounts |-> aggregate_accounts])

export_scope ==
    /\ Leave /\ UNCHANGED <<cleanups, reader>>
    /\ Answer([op |-> "export", accounts |-> export_scope_accounts])

-----------------------------------------------------------------------------
(* What changes between two requests.  A relevance score depends on the    *)
(* whole index, so an arrival may reorder a list sorted by it.             *)

Change ==
    /\ changes < MaxChanges
    /\ changes' = changes + 1
    /\ answer' = Nothing

Disturb == walk' = IF walk = NoWalk THEN walk ELSE [walk EXCEPT !.disturbed = TRUE]

SortOf(name) ==
    LET r == CHOOSE x \in Requests : x.name = name
    IN  resolve_sort_by(r.sort_by, has_text_filter(r.filter))

Arrive(m) ==
    /\ Change /\ m \in Arrivals \ index
    /\ index' = index \cup {m}
    /\ walk' = IF walk = NoWalk THEN walk
               ELSE [walk EXCEPT !.grown = TRUE,
                                 !.disturbed = @ \/ SortOf(walk.request) = "relevance"]
    /\ UNCHANGED <<directory, licensed, now, reader, cleanups>>

Delete(m) ==
    /\ Change /\ m \in index
    /\ index' = index \ {m}
    /\ Disturb
    /\ UNCHANGED <<directory, licensed, now, reader, cleanups>>

(* The reader follows a commit by itself, after a delay. *)
Reload ==
    /\ reader # index
    /\ reader' = index
    /\ answer' = Nothing
    /\ UNCHANGED <<directory, licensed, now, index, cleanups, walk, changes>>

(* The task get_dashboard_stats spawned. *)
delete_account_envelopes(a) ==
    /\ a \in cleanups
    /\ index' = {m \in index : Message[m].account # a}
    /\ cleanups' = cleanups \ {a}
    /\ answer' = Nothing
    /\ Disturb
    /\ UNCHANGED <<directory, licensed, now, reader, changes>>

NewDirectory(d) ==
    /\ Change
    /\ directory' = d
    /\ Disturb
    /\ UNCHANGED <<licensed, now, index, reader, cleanups>>

(* The account row is the last thing the deletion of an account removes;   *)
(* a message queued meanwhile outlives it.                                 *)
AccountGone(a) ==
    /\ a \in directory.present
    /\ a \in Views \/ \A v \in Views : \A g \in directory.sources[v] : g.account # a
    /\ NewDirectory([directory EXCEPT !.present = @ \ {a}])

(* The sources views may have. *)
SourceLists == UNION {{d.sources[v] : v \in Views} : d \in Directories}

EditView(v, sources) ==
    /\ v \in directory.present /\ directory.sources[v] # sources
    /\ NewDirectory([directory EXCEPT !.sources[v] = sources])

Tick ==
    /\ now < MaxTime /\ now' = now + 1
    /\ answer' = Nothing /\ Disturb
    /\ UNCHANGED <<directory, licensed, index, reader, cleanups, changes>>

Licence ==
    /\ Change
    /\ licensed' = ~licensed
    /\ Disturb
    /\ UNCHANGED <<directory, now, index, reader, cleanups>>

Init ==
    /\ directory \in Directories
    /\ licensed \in BOOLEAN
    /\ now = 0
    /\ index = Messages \ Arrivals /\ reader = index
    /\ cleanups = {}
    /\ walk = NoWalk /\ answer = Nothing /\ changes = 0

Ask ==
    \/ \E r \in Requests : search_messages(r)
    \/ \E m \in Messages, page \in {1, 2} :
            get_thread_messages(Message[m].account, Message[m].thread, page, 1)
    \/ \E m \in Messages : fetch_message_content(m)
    \/ \E r \in Requests, page \in 0..2 : search_attachment(r, page)
    \/ get_all_tags
    \/ get_all_contacts_of_reader
    \/ get_dashboard_stats
    \/ attachment_aggregates
    \/ export_scope

Next ==
    \/ Ask
    \/ \E m \in Messages : Arrive(m) \/ Delete(m)
    \/ Reload
    \/ \E a \in Accounts : delete_account_envelopes(a) \/ AccountGone(a)
    \/ \E v \in Views, s \in SourceLists : EditView(v, s)
    \/ Tick
    \/ Licence

Spec == Init /\ [][Next]_vars

-----------------------------------------------------------------------------
(* Type correctness of the answers and of the reader's snapshot. *)
TypeOK ==
    /\ index \subseteq Messages /\ reader \subseteq Messages
    /\ cleanups \subseteq Accounts \ Views
    /\ now \in 0..MaxTime /\ changes \in 0..MaxChanges /\ licensed \in BOOLEAN
    /\ directory.present \subseteq Accounts
    /\ walk = NoWalk \/ (walk.seen \cup walk.wanted \subseteq Messages /\ walk.page \in Nat)

(* Whatever a list shows can be opened: a hit of search_messages, of the   *)
(* thread list or of search_attachment passes the per-message check of     *)
(* load_readable_with_access.  The list applies the view filter in the     *)
(* index query, the check evaluates it on the stored envelope.             *)
HitsReadable ==
    answer.op \in {"search", "thread", "attachments"} => \A m \in answer.hits : may_read(m)

(* And the converse: a search without filter finds every message of an     *)
(* existing account that the reader could open by its id.                  *)
ReadableFound ==
    answer.op = "search" /\ answer.request.filter = << >> =>
        \A m \in index : may_read(m) /\ Message[m].account \in directory.present
                            => m \in answer.all

(* Reading a list page by page to its last page shows every message that   *)
(* matched when the first page was served, also when messages arrive in    *)
(* between; and it shows none twice unless one arrived.  A deletion or a   *)
(* change of access while paging may make the list skip one.               *)
PagesCoverList ==
    walk # NoWalk /\ walk.page >= walk.pages /\ ~walk.disturbed =>
        /\ walk.wanted \subseteq walk.seen
        /\ walk.repeats => walk.grown

(* A tag or a contact is offered only when it occurs on a message the      *)
(* reader may open, in the snapshot the list was read from.                *)
SuggestionsReadable ==
    /\ answer.op = "tags" =>
         answer.tags \subseteq UNION {Message[m].tags : m \in {x \in reader : may_read(x)}}
    /\ answer.op = "contacts" =>
         answer.contacts \subseteq People({m \in index : may_read(m)})

(* Figures and exports, which know accounts only, never cover a source the *)
(* reader sees through a filter: whoever gets one for an account may read  *)
(* every message of it, or holds a grant on that account or a global       *)
(* permission for it.                                                      *)
WholeAccountsOnly ==
    answer.op \in {"stats", "aggregates", "export"} =>
        \/ answer.accounts = Everything
        \/ \A a \in answer.accounts :
              \/ a \in DOMAIN directory.grants
              \/ \E v \in DOMAIN directory.grants \cap Views :
                    /\ licensed /\ unbounded(a) \in directory.sources[v]
                    /\ has_permission(v, IF answer.op = "export" THEN "data:export"
                                                                ELSE "data:read")

(* What is derived from messages or from whole accounts shows a reader      *)
(* nothing of a message that is kept from them.                             *)
NothingBeyond == SuggestionsReadable /\ WholeAccountsOnly

(* The user page lists no permission that a request is refused: to_view    *)
(* and permissions_allow resolve the same expiries.                        *)
ViewAgrees ==
    /\ \A p \in to_view.global : has_permission(Nowhere, p)
    /\ \A a \in DOMAIN to_view.account : \A p \in to_view.account[a] : has_permission(a, p)

(* Lists, single reads and the user page, which decide access in different *)
(* code, agree, and the pages of a list cover it.                          *)
ListsAgree == TypeOK /\ HitsReadable /\ ReadableFound /\ ViewAgrees /\ PagesCoverList

=============================================================================
